CONSTANTS
  idle = idle
  t1 = t1
  t2 = t2
  t3 = t3
  Task <- TwoTasks
  Idle = idle
  MaxPrio = 2
  RRTicks = 1
  MaxLock = 2
  WaitStates = {"WAIT_SEM"}
  Api = {"lock", "yield", "setparam", "setscheduler", "exit", "terminate", "restart"}
SPECIFICATION Spec
CHECK_DEADLOCK FALSE
INVARIANT ListsAgree ReadyListEnds RRSlicePositive
PROPERTY LockHoldsCpu FifoEntry
