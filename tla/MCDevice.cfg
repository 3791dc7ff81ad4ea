SPECIFICATION Spec
CONSTANTS
  HistoryDepth = 4
  Features = {"FIDO2", "USB", "WIFI"}
  Icons = {"USB"}
  HardwareRng = TRUE
  Sources = {"camera"}
  Builds = {TRUE, FALSE}
  QueueDepth = 1
  MaxConfirmations = 1
INVARIANTS SeedAtRest SetupEnds NavigationSound EraseOrder
PROPERTIES UpdateModeOnce
CONSTRAINTS OneFailure FlashConfirms
