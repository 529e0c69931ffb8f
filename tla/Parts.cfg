SPECIFICATION Spec
SYMMETRY PartSymmetry
CONSTANTS
    Ctxs = {a, b}
    Subs = {b}
    Buffered = {b}
    MaxEntries <- MCEntries
    MaxSocks = 2
    MaxCrashes = 1
    BcUses <- MCUses
    BcValues = {"u", "v"}
    VtBottoms <- MCBottoms
    VtTops <- MCTops
    VtCalls <- MCCalls
    LruThreads = {t1, t2}
    LruMax = 1
    LruWidth = 2
    LruSlots = 3
    LruEpochs = 2
    HttpPeers = {"p", "q"}
    HttpTries = 3
    RcRanges <- MCRanges
    RcSeeds <- MCSeeds
INVARIANTS
  CacheSound
  NothingLeaked
  LogDelivered
  CycleComplete
  
  ViewsAgree
PROPERTIES
  MergesReported
CHECK_DEADLOCK FALSE
