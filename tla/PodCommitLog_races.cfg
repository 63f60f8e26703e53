CONSTANTS
  Proc = {p1, p2}
  Payload = {v}
  Token = {t1, t2}
  Attempt = {e1, e2}
  NoAttempt = NoAttempt
  NoKey = NoKey
  MaxRetries = 2
  ReplayLimit = 1
  MaxSeq = 2
SPECIFICATION Spec
SYMMETRY Symmetry
INVARIANTS
  AckedStaysCommitted
  SnapshotIsExact
  OrphansNeverCommit
  RetryingMeansUncommitted
  CursorsAreCommitted
  ReplayReturnsCommitted
  FencedForOne
  InventoryIsComplete
PROPERTIES
  LogSpec
  CallsRunDown
