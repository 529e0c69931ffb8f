SPECIFICATION RaceSpec
CONSTANTS
  NULL = NULL
  v1 = v1
  u1 = u1
  Services = {v1, v2}
  Conns = {c1, c2}
  Updaters = {u1, u2}
  Sbs = {s1, s2, s3, s4}
  Nodes = {n1, n2}
  Fds = {f1, f2}
  Keys <- MCKeys
  Ports <- MCPorts
  Configs <- AllConfigs
  ConnSrv <- OneService
  ConnKeys <- PlainKeys
  NodeFilter <- NoFilter
  MaxGen = 2
  MaxServ = 1
  Strat = "seq"
  Retries = 0
SYMMETRY Symmetry
INVARIANTS
  RefsExact
  NoUseAfterFree
  PortOfNode
  OneOwner
  AllFreed
