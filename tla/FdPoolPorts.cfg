SPECIFICATION FairSpec
CONSTANTS
  NULL = NULL
  v1 = v1
  Services = {v1}
  Conns = {c1}
  Updaters = {u1}
  Sbs = {s1, s2}
  Nodes = {n1, n2}
  Fds = {f1}
  Keys <- MCKeys
  Ports <- MCPorts
  Configs <- PortConfigs
  ConnSrv <- OneService
  ConnKeys <- AltKeys
  NodeFilter <- NoFilter
  MaxGen = 2
  MaxServ = 1
  Strat = "random"
  Retries = 1
PROPERTIES
  GetReturns
