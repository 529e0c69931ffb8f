SPECIFICATION GoSpec
CONSTANTS
    GoClients = {"c1", "c2"}
    GoHosts = {"h1", "h2"}
    PortKeys <- MCPorts
    Batches <- MCBatches
    Wanted <- MCWanted
    MaxNets = 2
    MaxCalls = 2
    Mixes <- MCMixes
    GwUsers = {"u1", "u2"}
    Service <- GwService
    Below <- GwBelow
    GwBuf = 1
    GwLog <- GwStart
    MaxChanges = 2
    MaxAsks = 2
    MaxFails = 1
INVARIANTS
  RefsExact
  OneHolder
  AllTried
  WatchComplete
PROPERTIES
  SdApplied
CHECK_DEADLOCK FALSE
