CONSTANTS
  idle = idle
  t1 = t1
  t2 = t2
  t3 = t3
  Task <- ThreeTasks
  Idle = idle
  MaxPrio = 1
  RRTicks = 2
  MaxLock = 1
  WaitStates = {"WAIT_SEM"}
  Api = {"yield", "exit"}
SPECIFICATION FairSpec
PROPERTY RoundRobin
