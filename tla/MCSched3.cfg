CONSTANTS
  idle = idle
  t1 = t1
  t2 = t2
  t3 = t3
  Task <- ThreeTasks
  Idle = idle
  MaxPrio = 2
  RRTicks = 1
  MaxLock = 2
  WaitStates = {"WAIT_SEM"}
  Api = {"lock", "setparam", "yield", "exit", "terminate"}
SPECIFICATION Spec
SYMMETRY Symmetry
CHECK_DEADLOCK FALSE
INVARIANT ListsInOrder NoMissedPreemption LockBalanced
