SPECIFICATION LiveSpec
CONSTANTS
  NumFeatures = 1
  Timeout = 10
  MaxInterrupts = 0
  PidMayBeLost = FALSE
PROPERTY FailedQemuTearsDown
CHECK_DEADLOCK FALSE
