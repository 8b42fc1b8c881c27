SPECIFICATION StreamSpec
CONSTANTS
  Writers = {w1, w2}
  Watchers = {x1}
  Keys <- MCKeys
  Watched <- MCWatched
  WATCH_CHANNEL_SIZE = 2
  RECV_LIMIT = 1
  Sync = FALSE
  MaxRev = 3
  MaxProgress = 1
  None = None
SYMMETRY WriterSymmetry
INVARIANTS
  NoMissedEvent
  LiveEventsOrdered
  ProgressCovers
  ProgressSound
  AwaitedIsComing
PROPERTY AppendInRevOrder
CHECK_DEADLOCK FALSE
