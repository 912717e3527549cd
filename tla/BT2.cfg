SPECIFICATION MCSpec
CHECK_DEADLOCK FALSE
CONSTANTS
  NULL = NULL
  n1 = n1
  n2 = n2
  u = u
  v = v
  w = w
  Node <- TwoNodes
  Shifting <- OneNode
  MaxDiscoveries = 2
  MaxConnections = 2
  Beyond = 170
  Unset = Unset
  PublicAddress <- Keys
  Payload <- Payloads
  AdvN = 6
  Slack = 3
  DiscInterval = 12
  EpochInterval = 72
  FirstDiscover = 2
  InquiryTime = 2
  EndTime = 48
  SendJitter = {12}
  ScanJitter = {11, 13}
  Offsets = {4}
  MaxTime = 160
INVARIANTS
  PSITypeOK
  ScriptsFit
  ListenerResultIsLast
  NobodyWaitsForEver
  BT2TypeOK
  AdapterIsAsKnown
  SecretsHaveTheirY
  NameIsAccepted
  KeyIsRead
  SharedIsFound
  AddressCarriesY
PROPERTIES
  AdvertsAreAttributed
  DeviceFollowsShift
