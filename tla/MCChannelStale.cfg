\* Two threads, one of which may close a channel the other is sending on.
SPECIFICATION Spec
CONSTANTS
  Threads = {t1, t2}
  MAX_CHANNELS = 1
  MAX_CHANNEL_BUFFER = 2
  Values = {7}
  Free = Free
  Destroyed = Destroyed
  JoinBeforeClose = FALSE
INVARIANT SendStores
CHECK_DEADLOCK FALSE
