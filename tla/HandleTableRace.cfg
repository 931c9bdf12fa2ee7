\* Objects created by two threads at once.
SPECIFICATION Spec
CONSTANTS
  Threads = {t1, t2}
  MAX_HANDLES = 3
  Objects = {o1, o2, o3}
  Null = Null
  CreateAlone = FALSE
INVARIANT HandlesStayValid
CHECK_DEADLOCK FALSE
