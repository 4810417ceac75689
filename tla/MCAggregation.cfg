SPECIFICATION Spec
CONSTANTS
  r1 = r1
  r2 = r2
  r3 = r3
  r4 = r4
  k1 = k1
  k2 = k2
  NThreads = 2
  Rows = {r1, r2, r3, r4}
  NoRow = NoRow
  Keys = {k1, k2}
  RowKey <- MCRowKey
  HalfRange = 4
  RowValue <- MCRowValue
  LocalHtSize = 2
  MaxHash = 3
  MaxEstimate = 4
INVARIANTS
  TypeOK
  RowsAccounted
  GroupsDistinct
  TableLinked
  TableHasBuckets
PROPERTIES
  AggregationEnds
  ImplementsGroupBy
