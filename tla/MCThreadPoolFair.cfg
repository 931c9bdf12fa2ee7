\* Fair threads: two clients, two workers, at most one client in pool_wait, every
\* worker created; or one client that destroys and creates the pool under the submits
\* of the other: positions and count stay inside the queue.
SPECIFICATION MCFairSpec
CONSTANTS
  Clients = {c1, c2}
  Owner = c1
  MAX_WORKERS = 2
  MAX_TASKS_PER_POOL = 2
  Tasks = {x}
  None = None
  Free = Free
  Destroyed = Destroyed
  DestroyAlone = FALSE
  OneWaiter = TRUE
  CreateMayFail = FALSE
  MaxUnwaited = 3
INVARIANT TypeOK
PROPERTIES AloneQueueDrained AloneWaitReturns AloneDestroyReturns
CHECK_DEADLOCK FALSE
