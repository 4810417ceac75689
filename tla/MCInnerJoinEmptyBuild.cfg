SPECIFICATION Spec
CONSTANTS
  l1 = l1
  l2 = l2
  l3 = l3
  r1 = r1
  r2 = r2
  k1 = k1
  k2 = k2
  NThreads = 2
  LeftRows = {l1, l2, l3}
  RightRows = {r1, r2}
  Keys = {k1, k2}
  LeftKey <- MCLeftKey
  RightKey <- MCRightKey
  Condition <- MCCondition
  MaxEstimate = 3
INVARIANT
  SizeIsPowerOfTwo
