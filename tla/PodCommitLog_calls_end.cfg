CONSTANTS
  Proc = {p1, p2}
  Payload = {v}
  Token = {t1, t2}
  Attempt = {e1}
  NoAttempt = NoAttempt
  NoKey = NoKey
  MaxRetries = 2
  ReplayLimit = 1
  MaxSeq = 3
  Readers = {p1}
SPECIFICATION CallsSpec
VIEW WithoutHistory
PROPERTIES
  EveryCallEnds
