SPECIFICATION Spec
CONSTANTS
  Bits <- BitsDef
  Unit = 4
  Queries <- QueriesDef
  MaxRows = 2
  HashOf <- SumHash
  YearOf <- YearDef
INVARIANTS PrintsWhatTheQueryMeans NoWildReads WellFormed
PROPERTY CodeReturns
