SPECIFICATION Spec
CONSTANTS
  Prefixes = {p1, p2}
  NoPersist = {}
  Mode = "Sync"
  Workers = {t1}
  MaxBatch = 2
  MaxRec = 2
  WritesFail = {}
  SyncsFail = {}
  Garbles = {}
  CanCrash = TRUE
  None = None
INVARIANT CrashRecovers
CHECK_DEADLOCK FALSE
