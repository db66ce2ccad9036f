CONSTANTS
  w1 = w1
  w2 = w2
  c1 = c1
  None = None
  Work <- TwoWorks
  Clients <- OneClient
  Kinds <- AllKinds
  LPNTHREADS = 2
  Period = 2
  MaxDelay = 2
  MaxCalls = 3
SPECIFICATION FairSpec
INVARIANT QueueSound
PROPERTY IsWorkQueue QueuedRuns
