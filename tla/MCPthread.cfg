CONSTANTS
  idle = idle
  t1 = t1
  t2 = t2
  t3 = t3
  None = None
  Task <- ThreeTasks
  Idle = idle
  Base <- Base122
  MaxPrio = 2
  User = {t1, t2, t3}
  Waiter = {t1, t2}
  Exiter = t3
  Joiner = {t1, t2}
  MaxLocks = 2
  Types = {"NORMAL", "ERRORCHECK", "RECURSIVE"}
  Api = {"condwait", "badtime", "signal", "detach"}
SPECIFICATION Spec
CHECK_DEADLOCK FALSE
INVARIANT MutexSound CondWaitHasTimer 
PROPERTY JoinersTold
