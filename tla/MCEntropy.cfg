SPECIFICATION Spec
CONSTANTS
  MaxSessions = 3
  Target = 2
INVARIANTS TranscriptCanonical OnlyCurrentRuns
PROPERTIES CameraServed CameraReleased
CHECK_DEADLOCK FALSE
