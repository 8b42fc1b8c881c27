SPECIFICATION Spec
CONSTANTS
  Threads = {t1, t2, t3}
  Readers = {r1}
  BLOCK_SIZE = 2
  MaxPush = 4
  None = None
INVARIANTS
  TypeOK
  DenseRevisions
  UniqueRevisions
  StoredIsReadable
  LatestIsCurrent
PROPERTY ImplementsLog
