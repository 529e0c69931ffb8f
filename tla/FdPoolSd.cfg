SPECIFICATION FairSpec
CONSTANTS
  Hosts = {h1, h2}
  Cfgs = {a}
  BadCfgs = {bad}
  Static <- OneStatic
  Commands = {"flush", "delete", "config", "health"}
  MaxIndex = 3
  MaxInsert = 1
  WaitFor = {2}
  h1 = h1
  a = a
  NULL = NULL
INVARIANTS
  HostsApplied
PROPERTIES
  StopReturns
