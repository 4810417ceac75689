SPECIFICATION Spec
CONSTANTS
  Threads = {t1, t2, t3}
  NoThread = NoThread
  NumThreads = 3
  TableSize = 4
INVARIANTS
  Exclusive
  SameStorage
  NeverNull
  PoolIsDense
PROPERTIES
  CallReturns
  ImplementsStorage
