CONSTANTS
  Job = {j1, j2}
  NoJob = NoJob
  Host = {a, b}
  First = a
  NoHost = NoHost
  RefusalIsAnswered = TRUE
  MaxLen = 2
SPECIFICATION Spec
SYMMETRY Symmetry
INVARIANTS
  MemoryIsServed
  FailedMeansRestored
  UnknownSwitchKeepsBoth
  OneWorker
CHECK_DEADLOCK FALSE
