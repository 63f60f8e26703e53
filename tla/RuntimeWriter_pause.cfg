CONSTANTS
  a = a
  b = b
  initial = initial
  update = update
  Runtime = {a, b}
  Nobody = Nobody
  Operation = {initial, update}
  NoOperation = NoOperation
  Handoff = {}
  OperationOf <- MCOperationOf
  Lease = 3
  Time = {0, 2, 3}
  MaxRetries = 2
  ConfirmsInTime = FALSE
  MaxTurns = 1
  MaxLate = 1
  MaxLen = 3
SPECIFICATION Spec
INVARIANTS
  EveryAppendIsOwned
CHECK_DEADLOCK FALSE
