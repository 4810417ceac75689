SPECIFICATION Spec
CONSTANTS
  r1 = r1
  r2 = r2
  r3 = r3
  r4 = r4
  r5 = r5
  w1 = w1
  w2 = w2
  key = key
  day = day
  id = id
  Garbage = Garbage
  Rows = {r1, r2, r3, r4}
  Workers = {w1, w2}
  IUs <- MCIUs
  TypeOf <- MCTypeOf
  Value <- MCPrefixes
  Inputs <- MCPrefixInputs
  Keys <- MCOneKey
  cmp <- MCAscending
  Base = 64
INVARIANT EmitsSorted
