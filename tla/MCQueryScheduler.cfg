SPECIFICATION Spec
CONSTANTS
  NThreads = 3
  ChunkSize = 2
  Plans <- MCPlans
INVARIANTS
  UnitsHandledOnce
  Barrier
  CounterBound
PROPERTIES
  Terminates
  ImplementsOrder
