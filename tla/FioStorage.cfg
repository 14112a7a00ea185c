SPECIFICATION Spec
CONSTANTS
  Kinds = {"spdk", "raw", "plain", "luks", "dmverity", "fsverity", "gds"}
  Sizes = {0, 512, 4096}
  Setups = {"host", "vm"}
  Faults = {"erase", "format", "precondition", "spdk_setup", "fio", "spdk_reset",
            "cleanup", "reset_lba"}
  MaxJobs = 3
INVARIANTS TypeOK MeasuresItsOwn FailsByResidueOnly NothingLeft BackTo512
CHECK_DEADLOCK FALSE
