SPECIFICATION Spec
CONSTANTS
  Clients = {"ui", "entropy"}
  ErrorThreshold = 2
  MaxBatch = 3
  Period = 3
  MaxTime = 9
INVARIANTS BatchAccepted
PROPERTIES AcquisitionFollows
