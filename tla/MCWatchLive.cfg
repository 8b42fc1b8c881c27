SPECIFICATION LiveSpec
CONSTANTS
  Writers = {w1, w2}
  Watchers = {x1}
  Keys <- MCKeys
  Watched <- MCWatchedOne
  WATCH_CHANNEL_SIZE = 1
  RECV_LIMIT = 1
  Sync = TRUE
  MaxRev = 2
  MaxProgress = 0
  None = None

PROPERTIES
  EventsDelivered
  SetReturns
CHECK_DEADLOCK FALSE
