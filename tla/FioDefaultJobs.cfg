SPECIFICATION Spec
CONSTANTS
  Suites <- DefaultSuites
  Links <- MCLinks
  ValidSpeeds = {4, 5}
  HasGpu = TRUE
  VmSetups = {"amd"}
INVARIANT AllJobsRun
CHECK_DEADLOCK FALSE
