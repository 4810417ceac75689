SPECIFICATION Spec
CONSTANTS
  Bits <- BitsDef
  Unit = 4
  Queries <- NestedCaseDef
  MaxRows = 1
  HashOf <- SumHash
  YearOf <- YearDef
INVARIANT NoWildReads
