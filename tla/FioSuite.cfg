SPECIFICATION Spec
CONSTANTS
  Suites <- MCSuites
  Links <- MCLinks
  ValidSpeeds = {4, 5}
  HasGpu = TRUE
  VmSetups = {"amd"}
INVARIANTS TypeOK HonestResults NothingLost StopsAtFailure OtherConfigsRun
CHECK_DEADLOCK FALSE
