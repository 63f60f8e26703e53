CONSTANTS
  Job = {j1, j2}
  NoJob = NoJob
  Host = {a, b}
  First = a
  NoHost = NoHost
  RefusalIsAnswered = FALSE
  MaxLen = 2
SPECIFICATION Spec
SYMMETRY Symmetry
PROPERTIES
  SupersededStops
CHECK_DEADLOCK FALSE
