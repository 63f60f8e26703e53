SPECIFICATION Spec
CONSTANTS
  Pod = {a, b}
  First = a
  NoPod = none
  Attempt = {w1, w2}
  NoAttempt = none
  MaxLen = 2
  MaxEpoch = 2
SYMMETRY Symmetry
INVARIANTS
  HistoryIsKept
  SyncedIsShared
  OnePrimaryPerEpoch
PROPERTIES
  ProgressIsKept
  ProgressNeedsRoles
