SPECIFICATION Spec
CHECK_DEADLOCK FALSE
CONSTANTS
  NULL = NULL
  p = p
  q = q
  a1 = a1
  a2 = a2
  b1 = b1
  Address <- ThreeAddress
  Shift <- OneShift
  Phone <- TwoPhones
  FirstAddress <- Starting
  Radio = "BT2"
  ConfirmScheme = "None"
  MemoryScheme = "NoMemory"
  HystScheme = "ImmediateNoMem"
  TimeModulus = 1000
  MaxDevices = 5
  MinStartTime = 1
  MaxStartTime = 1
  StartSeen = 2
  EndTime = 2
  HybridLimit = 1
  HandshakeTime = 1
  DiscoverIntervals = {2}
  EpochInterval = 5
  RSSIInterval = 1
  ScanTimes = {0}
  ConnectTimes = {0, 1}
  StartTime = 1
  ClockValues = {1}
  QuietAt = 100
  MaxTime = 5
  MaxResponses = 2
  MaxIncoming = 1
  MaxClockSets = 0
INVARIANTS
  RecentAreLive
