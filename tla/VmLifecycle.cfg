SPECIFICATION Spec
CONSTANTS
  NumFeatures = 3
  Timeout = 10
  MaxInterrupts = 2
  PidMayBeLost = TRUE
INVARIANTS TypeOK TeardownAfterQemu AllReleased MonitorsStopped
CHECK_DEADLOCK FALSE
