SPECIFICATION Spec
CONSTANTS
  QueueDepth = 2
  PoolSize = 1
  MaxConfirmations = 2
  MaxRequests = 0
  HasDisplay = TRUE
  HasButton = FALSE
  HasTransport = TRUE
INVARIANTS ApprovalIsConsent ConfirmationCoherent
PROPERTIES ConfirmationGetsShown OverlayGoesAway
