SPECIFICATION MCSpec
CONSTANTS
  NULL = NULL
  Workers = {w1, w2}
  Fds = {f1, f2}
  CrPatterns <- MCPatterns
  CrMixes <- MCMixes
INVARIANTS
  OnePlace
  FreedUnused
  NothingDropped
  RequestRead
  RequestAnswered
PROPERTIES
  Served
  QuitReturns
