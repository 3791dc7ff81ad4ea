SPECIFICATION Spec
INVARIANTS StateTellsRadio
PROPERTIES AttemptHasEnd HeadlessReachable
CHECK_DEADLOCK FALSE
