SPECIFICATION Spec
CONSTANTS
  Procs <- MCProcs
  Relays <- MCRelays
  FanOut = 1
  Stride = 1
  Followed <- MCProcs
  Members0 <- MCProcs
  MaxSlices = 1
  MaxLeases = 1
  Views <- MCViews
  Pods = {x1, x2}
  MaxTasks = 5
  Runners = 1
  Schedulers = {k1}
  WaitPercent = 100
  Window = 1
  CanFail = TRUE
  None = None
INVARIANTS
  LatchCounts
  HandoverIsSafe
  StreamIndicesDiffer
  PodVisitsAll
PROPERTY ProcessOneReturns
CHECK_DEADLOCK FALSE
