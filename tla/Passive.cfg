SPECIFICATION FairSpec
CHECK_DEADLOCK FALSE
CONSTANTS
  NULL = NULL
  p = p
  q = q
  a1 = a1
  a2 = a2
  b1 = b1
  Address <- ThreeAddress
  Shift <- OneShift
  Phone <- TwoPhones
  FirstAddress <- Starting
  Radio = "BT4"
  ConfirmScheme = "Passive"
  MemoryScheme = "Standard"
  HystScheme = "Standard"
  TimeModulus = 1000
  MaxDevices = 3
  MinStartTime = 1
  MaxStartTime = 1
  StartSeen = 2
  EndTime = 3
  HybridLimit = 1
  HandshakeTime = 1
  DiscoverIntervals = {2}
  EpochInterval = 5
  RSSIInterval = 1
  ScanTimes = {0}
  ConnectTimes = {0, 1}
  StartTime = 4
  ClockValues = {1, 8}
  QuietAt = 8
  MaxTime = 15
  MaxResponses = 2
  MaxIncoming = 1
  MaxClockSets = 1
INVARIANTS
  EveryDeviceIsTimed
  OnlyStableHandshakes
  AnnouncedIsTimed
PROPERTIES
  EndsAfterSilence
  KeepsLifecycle
  QuietEndsEverything
