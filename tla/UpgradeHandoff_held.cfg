SPECIFICATION SpecHub
CONSTANTS
  Task = {t1, t2}
  Free = free
  Operation = {op1}
  NoOperation = none
  Hooked = FALSE
  Calls = {"turn"}
  Cancels = FALSE
  Settles = TRUE
  MaxActive = 2
  MaxData = 1
  MaxLate = 1
  MaxEpoch = 2
  MaxLen = 5
  Approved = op1
  Delayed = {"prepare", "status"}
  MaxAttempts = 2
SYMMETRY Symmetry
CHECK_DEADLOCK FALSE
INVARIANTS
  HeldIsIdle
PROPERTIES
  AnsweredReleaseIsDurable
