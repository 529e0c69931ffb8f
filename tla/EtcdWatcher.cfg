SPECIFICATION FairSpec
CONSTANTS
  NULL = NULL
  k1 = k1
  k2 = k2
  l1 = l1
  l2 = l2
  Keys = {k1, k2}
  Vals = {a}
  Listeners = {l1, l2}
  Below <- OneEach
  Early = {l1}
  History = 2
  Flushes = TRUE
  BodyFails = TRUE
  MaxIndex = 3
  MaxTrouble = 1
  MaxAdd = 1
INVARIANTS
  NoGap
PROPERTIES
  CatchesUp
CHECK_DEADLOCK FALSE
