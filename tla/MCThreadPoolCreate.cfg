\* One client that creates pools of up to three workers, of which any may not start.
SPECIFICATION FairSpec
CONSTANTS
  Clients = {c1}
  MAX_WORKERS = 3
  MAX_TASKS_PER_POOL = 1
  Tasks = {x}
  None = None
  Free = Free
  Destroyed = Destroyed
  DestroyAlone = TRUE
  OneWaiter = TRUE
  CreateMayFail = TRUE
  MaxUnwaited = 1
PROPERTY CreateReturns
CHECK_DEADLOCK FALSE
