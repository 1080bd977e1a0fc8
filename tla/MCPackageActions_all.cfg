SPECIFICATION FairSpec
CONSTANTS
  Req = {r1, r2}
  Core = core0
  profiling = profiling
  thermal = thermal
  nfqws = nfqws
  legacy = legacy
  ssl = ssl
  nossl = nossl
  Item = {core0, profiling, thermal, nfqws}
  Package = {core0, profiling, thermal, nfqws, legacy, ssl, nossl}
  Restarters = {profiling}
  Release = {core0, profiling, thermal}
  Plan <- Plans
  Conflict <- Conflicting
  Swap <- Swapped
  MaxVersion = 3
  Feed = {2}
  Scenarios <- AllScenarios
INVARIANT TypeOK
INVARIANT InstallsVerified
INVARIANT DnsRepairable
PROPERTY OkIsDone
PROPERTY SwapsDownloader
PROPERTY ActionsEnd
