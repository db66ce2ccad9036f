CONSTANTS
  idle = idle
  t1 = t1
  t2 = t2
  t3 = t3
  None = None
  Task <- ThreeTasks
  Idle = idle
  Base <- Base122
  MaxPrio = 2
  Queue = {"q1"}
  MaxMsgs = 2
  MsgPrio = {1, 2}
  Sender = {t1, t2}
  Receiver = {t2, t3}
  Timed = {t2}
  Killer = {t1}
  NFixed = 2
  NIrq = 1
  MaxIsr = 1
  Api = {"isrsend", "notify", "delete"}
SPECIFICATION Spec
CHECK_DEADLOCK FALSE
INVARIANT WaitersCounted NoLostWakeup PoolSound NotifyNotLost
PROPERTY IsQueue
