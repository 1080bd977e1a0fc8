SPECIFICATION Spec
CONSTANTS
  r = r
  s = s
  l1 = l1
  l2 = l2
  Resolver = {r, s}
  Local = {l1, l2}
  Id = {5}
  Question = {n}
  Timeout = 1
  Suppress = 2
  Duplicate = 0
  SweepEvery = 1
  Transit = 1
  Scenarios <- AllScenarios
INVARIANT TypeOK
INVARIANT Balance
INVARIANT Prompt
INVARIANT OwnWhenSeenOnce
