SPECIFICATION Spec
CONSTANTS
  NULL = NULL
  k1 = k1
  k2 = k2
  l1 = l1
  l2 = l2
  Keys = {k1, k2}
  Vals = {a}
  Listeners = {l1}
  Below <- Both
  Early = {l1}
  History = 5
  Flushes = TRUE
  BodyFails = FALSE
  MaxIndex = 2
  MaxTrouble = 1
  MaxAdd = 0
INVARIANT Delivers
CHECK_DEADLOCK FALSE
