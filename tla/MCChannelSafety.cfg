\* Three threads on one slot of capacity 1 or 2: every operation, closing
\* only a channel nobody else is using.
SPECIFICATION Spec
CONSTANTS
  Threads = {t1, t2, t3}
  MAX_CHANNELS = 1
  MAX_CHANNEL_BUFFER = 2
  Values = {7, 8}
  Free = Free
  Destroyed = Destroyed
  JoinBeforeClose = TRUE
SYMMETRY ThreadSymmetry
INVARIANTS TokenBalance NothingDropped
PROPERTY ImplementsFifo
CHECK_DEADLOCK FALSE
