CONSTANTS
  Width = 3
  Tables <- MCTables
  Queries <- MCQueries
  Inputs <- MCInputs
  Predicates <- MCPredicates
  Garbage = Garbage
SPECIFICATION Spec
INVARIANT RowsAsWritten
PROPERTY StorageEnds
