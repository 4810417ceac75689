SPECIFICATION Spec
CONSTANTS
  r1 = r1
  r2 = r2
  r3 = r3
  r4 = r4
  r5 = r5
  w1 = w1
  w2 = w2
  key = key
  day = day
  id = id
  Garbage = Garbage
  Rows = {r1, r2, r3, r4, r5}
  Workers = {w1, w2}
  IUs <- MCIUs
  TypeOf <- MCTypeOf
  Value <- MCValue
  Inputs <- MCInputs
  Keys <- MCKeys
  cmp <- MCcmp
  Base = 40
INVARIANT StoresInBounds
PROPERTY ImplementsRowSorter
