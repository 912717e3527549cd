SPECIFICATION MCSpec
CHECK_DEADLOCK FALSE
CONSTANTS
  NULL = NULL
  None = None
  n1 = n1
  n2 = n2
  HeaderSize = 2
  BodySize = 2
  MaxEvents = 2
  MaxMessages = 2
  MaxEncounters = 2
  Durations = {1, 3}
  MaxRestarts = 2
INVARIANTS
  EarlyOnceWhenLost
PROPERTIES
  RoundsEnd
  ConfirmedIsProcessed
  SetsFollowMessages
  MessagesAreInstalled
  SleepersWake
