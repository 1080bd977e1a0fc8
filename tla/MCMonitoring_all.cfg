SPECIFICATION Spec
CONSTANTS
  alice = alice
  bob = bob
  Browser <- Browsers
  Token = {t1, t2}
  None = None
  Owner = alice
  Tries = 2
  Scenarios <- Cases
  Query = {q1, q2}
  Interval = 3
  ScanTime = 2
  MaxTime = 8
  KeepFor = 2
  ListTime = 1
  NameTime = 1
  Interface = {isp, wg}
  Device = {eth}
  Cpu = {cpu0}
  MaxCount = 2
  Window = 2
INVARIANT TypeOK
INVARIANT SettingDurable
INVARIANT ReadingsFresh
INVARIANT FiguresAreReal
PROPERTY StreamsClose
PROPERTY PageComesBack
PROPERTY PostinstTruth
CHECK_DEADLOCK FALSE
