CONSTANTS
  idle = idle
  t1 = t1
  t2 = t2
  t3 = t3
  t4 = t4
  None = None
  Task <- FourTasks
  Idle = idle
  Base <- Base1223
  User = {t1, t2, t4}
  ForIsr = {}
  Killer = {t1}
  Deleter = {t3}
  MaxPrio = 3
  Sem = {"s1"}
  PISem = {"s1"}
  InitCount = 1
  NHolders = 4
  NNest = 2
  MaxCount = 2
  Api = {"reset"}
SPECIFICATION Spec
CHECK_DEADLOCK FALSE
INVARIANT Conserved
PROPERTY IsSemaphore
