SPECIFICATION KvSpec
CONSTANTS
  Clients = {c1, c2}
  Keys <- TwoKeys
  Requests <- ServedRequests
  Calls <- SomeCalls
  KeyName <- PodName
  Names <- SomeNames
  MaxRev = 4
  None = None
SYMMETRY ClientSymmetry
INVARIANTS
  VersionsCount
  CompareIsAtomic
  RangeReadsItems
  MoreMeansMore
  SeesAnswered
  TxnAnswersCompare
