SPECIFICATION LiveSpec
CONSTANTS
  NumFeatures = 3
  Timeout = 10
  MaxInterrupts = 0
  PidMayBeLost = FALSE
PROPERTIES KeepsSession AnsweredRunEnds
CHECK_DEADLOCK FALSE
