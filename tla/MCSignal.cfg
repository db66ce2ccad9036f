CONSTANTS
  e1 = e1
  e2 = e2
  e3 = e3
  None = None
  Fixed <- OneFixed
  Irq <- OneIrq
  Dyn <- OneDyn
  Sig = {1, 2}
  Handled = {1, 2}
  SaMask <- BlocksTwo
  TaskSig = {2}
  IsrSig = {1}
  Api = {"procmask", "timedwait", "suspend", "kill"}
  MaxNest = 3
SPECIFICATION FairSpec
CHECK_DEADLOCK FALSE
INVARIANT QueuesSound Undisturbed
PROPERTY HandlersRun
