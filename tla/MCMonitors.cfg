\* Four threads on one lock, one barrier for 0 (a number of which only high bits are
\* set) to 4 of them, or one event; a table of three entries.  Three
\* threads on a mutex, a semaphore for up to two and a condition variable; two threads
\* on two sockets and three descriptors.
SPECIFICATION MonitorsSpec
CONSTANTS
  Threads = {t1, t2, t3, t4}
  Targets = {0, 2, 3, 4}
  MaxRounds = 3
  MAX_HANDLES = 3
  Objects = {o1, o2, o3, o4}
  Null = Null
  Few = {t1, t2, t3}
  Two = {t1, t2}
  MAX_MUTEXES = 1
  MAX_SEMAPHORES = 1
  MAX_CONDITIONS = 1
  MaxCount = 2
  Free = Free
  Destroyed = Destroyed
  MAX_SOCKETS = 2
  MaxDescriptors = 3
INVARIANTS MonitorsTypeOK CountersExact Exclusion NobodyForgotten
  BarrierNobodyEarly EventNobodyForgotten HandlesStayValid
  MutexExclusion PermitsKept DescriptorsAccounted OwnDescriptor
PROPERTIES EverybodyServed BarrierReleased EventSignalReceived
CHECK_DEADLOCK FALSE
