SPECIFICATION Spec
CONSTANTS
  Task = {t1, t2}
  Free = free
  Operation = {op1, op2}
  NoOperation = none
  Hooked = TRUE
  Calls = {"turn", "prepare", "status", "wait", "release"}
  Cancels = FALSE
  Settles = TRUE
  MaxActive = 2
  MaxData = 0
  MaxLate = 1
  MaxEpoch = 1
  MaxLen = 5
SYMMETRY Symmetry
CHECK_DEADLOCK FALSE
PROPERTIES
  HooksConfirmedBeforeIdle
