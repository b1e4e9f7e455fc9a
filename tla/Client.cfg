SPECIFICATION ClientSpec
CONSTANTS
  MaxAttempts = 2
  MaxTries = 4
INVARIANTS
  TypeOK
  RightOperation
  DeadlineKnowsOperation
PROPERTIES
  ImplementsAtMostOnce
  EveryCallEnds
CHECK_DEADLOCK FALSE
