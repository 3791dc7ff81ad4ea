SPECIFICATION Spec
CONSTANT
  MaxSessions = 2
INVARIANTS OneCameraUser CopiesAreCurrent NothingEndsIt
PROPERTIES SessionServed LeavingStopsFilming
