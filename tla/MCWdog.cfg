CONSTANTS
  p1 = p1
  p2 = p2
  h1 = h1
  None = None
  Pool <- InPool
  Heap <- InHeap
  Reserve = 1
  IntMax = 9
  MaxDelay = 2
SPECIFICATION FairSpec
INVARIANT ListSound PoolSound
PROPERTY IsTimer FifoExpiry NoStall
