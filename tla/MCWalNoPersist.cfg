SPECIFICATION LiveSpec
CONSTANTS
  Prefixes = {p1, p2}
  NoPersist = {p2}
  Mode = "Sync"
  Workers = {t1}
  MaxBatch = 2
  MaxRec = 2
  WritesFail = {}
  SyncsFail = {}
  Garbles = {}
  CanCrash = FALSE
  None = None

PROPERTY PutCompletes
CHECK_DEADLOCK FALSE
