SPECIFICATION Spec
CONSTANTS
  QueueDepth = 2
  MaxBlocks = 4
  FifoDepth = 2
  MaxLinks = 2
  MaxRequests = 2
  MaxParts = 2
INVARIANTS UartInOrder AnswersStayInSession
PROPERTIES UartReadsAgain ReachableAgain
CHECK_DEADLOCK FALSE
