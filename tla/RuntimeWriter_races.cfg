CONSTANTS
  a = a
  b = b
  initial = initial
  update = update
  Runtime = {a, b}
  Nobody = Nobody
  Operation = {initial, update}
  NoOperation = NoOperation
  Handoff = {update}
  OperationOf <- MCOperationOf
  Lease = 3
  Time = {0, 3}
  MaxRetries = 2
  ConfirmsInTime = TRUE
  MaxTurns = 1
  MaxLate = 1
  MaxLen = 4
SPECIFICATION Spec
CONSTRAINT TurnsFit
INVARIANTS
  EveryAppendIsOwned
  LostNeverWrites
  LogIsReplayable
  IdleIsFinal
CHECK_DEADLOCK FALSE
