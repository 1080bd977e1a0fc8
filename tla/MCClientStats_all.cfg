SPECIFICATION ClientSpec
CONSTANTS
  Port = {fast, slow}
  Tag = {x, y}
  Name = {n}
  TimeoutLimit = 1
  DefaultLimit = 2
  LateKeep = 1
  FallbackFrom = 1
  FallbackTo = 1
  RecentKeep = 1
  Shield = 2
  Minute = 2
  Buckets = 5
  SweepEvery = 1
  ProbeEvery = 2
  RouteOf <- MCRouteOf
  DiagEvery = 1
  DiagTime = 1
  DiagKeep = 1
  StepOf <- MCStepOf
  Ip <- MCIp
  Mac <- MCMac
  Hosts <- MCHosts
  Registries <- MCRegistries
  DedupWithin = 1
  DedupKeep = 1
  MatchKeep = 1
  ClientLimit = 1
  ResponseLimit = 2
  x = x
  y = y
  ann = ann
  bob = bob
  fast = fast
  slow = slow
  Scenarios <- EveryScenario
INVARIANT ClientTypeOK
INVARIANT Accounted
INVARIANT WindowExact
INVARIANT AllPrompt
INVARIANT DownIsAnnounced
INVARIANT CauseIsRecent
INVARIANT DevicesAccounted
INVARIANT LocalMeansLocal
