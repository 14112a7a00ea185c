SPECIFICATION FSpec
CONSTANTS
  Names <- MCNames
  Jobs = {"libaio", "spdk"}
  Metrics <- MCMetrics
  MaxHistory = 2
  MaxFiles = 3
  Filters = {"any", "small"}
  AnySize = "any"
  MaxFlipped = 1
  Second = 2
  Day = 12
  Gaps = {3, 4}
  Cpu = {0, 1}
  Starts = {8, 10}
  Schedules <- MCSchedules
  MaxSamples = 5
  NaN = nan
INVARIANTS ClockRecovered SamplesAligned OwnSamples SelectorShowsOwn NewestOfItsOwn
CHECK_DEADLOCK FALSE
