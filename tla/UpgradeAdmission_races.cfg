SPECIFICATION Spec
CONSTANTS
  Task = {t1, t2}
  Free = free
  Operation = {op1, op2}
  NoOperation = none
  Hooked = TRUE
  Calls = {"turn", "prepare", "status", "wait", "release"}
  Cancels = TRUE
  Settles = TRUE
  MaxActive = 2
  MaxData = 1
  MaxLate = 1
  MaxEpoch = 2
  MaxLen = 4
SYMMETRY Symmetry
CHECK_DEADLOCK FALSE
INVARIANTS
  IdleMeansNoWork
  WorkIsCounted
  ReceiptIsExact
  ReleaseMatchesIdle
  RestoredIsTheLoop
PROPERTIES
  GateSpec
