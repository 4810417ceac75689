SPECIFICATION Spec
CONSTANTS
  Threads = {t1, t2}
  NoThread = NoThread
  NumThreads = 2
  TableSize = 2
INVARIANT NeverNull
