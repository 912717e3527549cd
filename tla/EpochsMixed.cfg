SPECIFICATION Spec
CHECK_DEADLOCK FALSE
CONSTANTS
  NULL = NULL
  AdvN = 12
  K = 3
  ScanInterval = 27
  EpochInterval = 153
  EndTime = 81
  SendJitter = {27}
  ScanJitter = {25, 29}
  Offsets = {230}
  AddressAtOnce = TRUE
  MaxTime = 516
INVARIANT SecretsAreOfKeys
