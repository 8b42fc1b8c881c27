SPECIFICATION SetSpec
CONSTANTS
  Procs <- MCProcs
  Relays <- MCRelays
  FanOut = 2
  Stride = 2
  Followed = {1}
  Members0 <- MCMembers
  MaxSlices = 3
  MaxLeases = 2
INVARIANTS
  AgreedIsTree
  CacheIsFresh
CHECK_DEADLOCK FALSE
