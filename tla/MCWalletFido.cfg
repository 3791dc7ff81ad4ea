SPECIFICATION Spec
CONSTANTS
  QueueDepth = 2
  PoolSize = 2
  MaxConfirmations = 2
  MaxRequests = 2
  HasDisplay = FALSE
  HasButton = TRUE
  HasTransport = FALSE
INVARIANTS TypeOK PresenceIsReal
PROPERTIES ImplementsConsent RequestEnds GivenUpIsForgotten
CHECK_DEADLOCK FALSE
