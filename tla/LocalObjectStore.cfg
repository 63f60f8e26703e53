CONSTANTS
  Proc = {p1, p2}
  Name = {head, record}
  Deletable = {record}
  Data = {a, b}
  NoData = NoData
  NoJournal = NoJournal
  Free = Free
  MaxGen = 2
SYMMETRY Symmetry
SPECIFICATION Spec
INVARIANTS
  RecoveryNeverRefuses
  VersionsNeverRegress
  OneWinnerPerVersion
  IInv
PROPERTIES
  StoreSpec
