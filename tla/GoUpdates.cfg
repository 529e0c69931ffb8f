SPECIFICATION UpdatesSpec
CONSTANTS
    GoClients = {"c1", "c2"}
    GoHosts = {"h1", "h2"}
    PortKeys <- MCPorts
    Batches <- MCBatches
    Wanted <- MCWanted
    MaxNets = 2
    MaxCalls = 2
    Mixes <- MCMixes
    GwUsers = {"u1"}
    Service <- GwService
    Below <- GwBelow
    GwBuf = 1
    GwLog <- GwStart
    MaxChanges = 2
    MaxAsks = 1
    MaxFails = 0
PROPERTY UpdatesArrive
CHECK_DEADLOCK FALSE
