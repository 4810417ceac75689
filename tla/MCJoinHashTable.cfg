SPECIFICATION Spec
CONSTANTS
  b1 = b1
  b2 = b2
  e1 = e1
  e2 = e2
  e3 = e3
  k1 = k1
  k2 = k2
  k3 = k3
  Builders = {b1, b2}
  Probers = {p1}
  Entries = {e1, e2, e3}
  NoEntry = NoEntry
  Buffer <- MCBuffer
  Keys = {k1, k2, k3}
  KeyOf <- MCKeyOf
  Buckets = {0, 1}
  TagBits = {48, 49}
INVARIANTS
  NoInsertLost
  TagsSummariseChain
  UnionDiscipline
  EachMatchOnce
  ProbeIsExact
PROPERTIES
  BuildAndProbesFinish
  ImplementsIndex
