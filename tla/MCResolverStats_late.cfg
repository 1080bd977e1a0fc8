SPECIFICATION Spec
CONSTANTS
  Port = {fast, slow}
  Tag = {x}
  Name = {n}
  TimeoutLimit = 1
  DefaultLimit = 2
  LateKeep = 1
  FallbackFrom = 1
  FallbackTo = 1
  RecentKeep = 1
  Shield = 2
  Minute = 2
  Buckets = 5
  SweepEvery = 1
  ProbeEvery = 2
  RouteOf <- MCRouteOf
  DiagEvery = 1
  DiagTime = 1
  DiagKeep = 1
  StepOf <- MCStepOf
  x = x
  fast = fast
  slow = slow
  Scenarios <- LateScenario
PROPERTY LateIsAfterTimeout
