\* Three fair threads on one slot of capacity 1 or 2: whoever waits is served while
\* channels are closed only when unused.  When two of them close a channel the other
\* is using, every index still stays inside the buffer, the lock of the pool is given
\* back and no circle of locks forms.
SPECIFICATION MCFairSpec
CONSTANTS
  Threads = {t1, t2, t3}
  Careless = {t1, t2}
  MAX_CHANNELS = 1
  MAX_CHANNEL_BUFFER = 2
  Values = {7}
  Free = Free
  Destroyed = Destroyed
  JoinBeforeClose = FALSE
INVARIANTS TypeOK HoldersGoOn
PROPERTIES PoolLockReleased JoinedReceiverServed JoinedSenderServed
CHECK_DEADLOCK FALSE
