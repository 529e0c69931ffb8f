SPECIFICATION Spec
CONSTANTS
    c1 = c1
    c2 = c2
    Conns = {c1, c2}
    Mixes <- MCMixes
    QueueCap = 1
    MaxOpens = 2
    MaxWrites = 1
INVARIANTS
  OutputKept
  CountsKept
PROPERTIES
  QueryAnswered
  ShutdownEnds
CHECK_DEADLOCK FALSE
