CONSTANTS
  Proc = {p1, p2}
  Payload = {v, w}
  Token = {t1, t2}
  Attempt = {e1}
  NoAttempt = NoAttempt
  NoKey = NoKey
  MaxRetries = 1
  ReplayLimit = 2
  MaxSeq = 2
SYMMETRY Symmetry
VIEW WithoutResults
SPECIFICATION FaultsSpec
INVARIANTS
  LossIsNotBuiltOver
  LossIsNotFenced
PROPERTIES
  CursorsOnlyAdvance
