SPECIFICATION Spec
CONSTANTS
  NumFeatures = 1
  Timeout = 10
  MaxInterrupts = 0
  PidMayBeLost = FALSE
INVARIANT GuestMayPowerOff
CHECK_DEADLOCK FALSE
