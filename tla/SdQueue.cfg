SPECIFICATION MCSpec
CONSTANTS
  Hosts = {h1, h2}
  Cfgs = {a}
  BadCfgs = {}
  Static <- NoStatic
  Commands = {"flush", "delete", "config", "health"}
  MaxIndex = 2
  MaxInsert = 2
  NULL = NULL
  RgServices = {r1, r2}
  RgUrls = {1, 2}
  RgDotted = {2}
  RgSetups = 2
INVARIANTS
  QueueSound
  SourcesReleased
PROPERTIES
  SentArrives
  FeedSpec
