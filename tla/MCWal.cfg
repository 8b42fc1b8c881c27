SPECIFICATION LiveSpec
CONSTANTS
  Prefixes = {p1, p2, p3, p4}
  NoPersist = {p4}
  Mode = "Sync"
  Workers = {t1, t2}
  MaxBatch = 2
  MaxRec = 3
  WritesFail = {p1, p2}
  SyncsFail = {p3}
  Garbles = {p2}
  CanCrash = TRUE
  None = None
PROPERTY EventuallyWritten
INVARIANTS
  OneWriter
  NoLostWakeup
  FileInRevOrder
  AckedIsOnDisk
  ReplayInRevOrder
CHECK_DEADLOCK FALSE
