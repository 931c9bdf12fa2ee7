\* The example program of the documentation: one worker, two tasks.
SPECIFICATION DocsSpec
CONSTANTS
  main = main  square1 = square1  square2 = square2
  Clients = {main}
  MAX_WORKERS = 1
  MAX_TASKS_PER_POOL = 2
  Tasks = {square1, square2}
  None = None
  Free = Free
  Destroyed = Destroyed
  DestroyAlone = TRUE
  OneWaiter = TRUE
  CreateMayFail = FALSE
  MaxUnwaited = 2
INVARIANT AllTasksCompleted
CHECK_DEADLOCK FALSE
