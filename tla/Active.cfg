SPECIFICATION Spec
CHECK_DEADLOCK FALSE
CONSTANTS
  NULL = NULL
  p = p
  q = q
  a1 = a1
  a2 = a2
  b1 = b1
  Address <- ThreeAddress
  Shift <- OneShift
  Phone <- TwoPhones
  FirstAddress <- Starting
  Radio = "BT4"
  ConfirmScheme = "Active"
  MemoryScheme = "Standard"
  HystScheme = "Standard"
  TimeModulus = 1000
  MaxDevices = 3
  MinStartTime = 0
  MaxStartTime = 1
  StartSeen = 1
  EndTime = 2
  HybridLimit = 1
  HandshakeTime = 1
  DiscoverIntervals = {2}
  EpochInterval = 5
  RSSIInterval = 1
  ScanTimes = {0}
  ConnectTimes = {2}
  StartTime = 1
  ClockValues = {1}
  QuietAt = 100
  MaxTime = 5
  MaxResponses = 2
  MaxIncoming = 1
  MaxClockSets = 0
INVARIANTS
  TypeOK
  IndexesAgree
  NoNullDereference
  ConfirmedIsTimed
PROPERTIES
  KeepsLifecycle
