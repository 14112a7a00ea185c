SPECIFICATION Spec
CONSTANTS
  Kinds = {"dmverity"}
  Sizes = {0}
  Setups = {"host"}
  Faults = {}
  MaxJobs = 1
INVARIANT SuccessLeavesNothing
CHECK_DEADLOCK FALSE
