\* Two clients, two workers, a queue of two cells, two tasks that can be told
\* apart, every operation, the creation of a worker failing or not.
SPECIFICATION Spec
CONSTANTS
  Clients = {c1, c2}
  MAX_WORKERS = 2
  MAX_TASKS_PER_POOL = 2
  Tasks = {x, y}
  None = None
  Free = Free
  Destroyed = Destroyed
  DestroyAlone = TRUE
  OneWaiter = TRUE
  CreateMayFail = TRUE
  MaxUnwaited = 3
SYMMETRY ClientSymmetry
INVARIANTS TokenPerTask WorkersGone TokensToExit WaitsForWork
PROPERTY ImplementsTaskPool
CHECK_DEADLOCK FALSE
