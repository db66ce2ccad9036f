CONSTANTS
  idle = idle
  t1 = t1
  t2 = t2
  t3 = t3
  t4 = t4
  None = None
  Task <- ThreeTasks
  Idle = idle
  Base <- Base123
  User = {t1, t3}
  ForIsr = {}
  Killer = {}
  Deleter = {}
  MaxPrio = 3
  Sem = {"s1"}
  PISem = {"s1"}
  InitCount = 1
  NHolders = 4
  NNest = 2
  MaxCount = 2
  Api = {"timedwait", "isrkill"}
SPECIFICATION FairSpec
PROPERTY TimedWaitEnds
