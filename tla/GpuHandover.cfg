SPECIFICATION GLiveSpec
CONSTANTS
  gpu = gpu
  nvidia = nvidia
  hopper = hopper
  Dev = {gpu}
  Model = {hopper}
  Driver = {nvidia}
  Proc = {p1, p2}
  Vfio = vfio_pci
  NoDriver = no_driver
  Unset = unset
  ModelOf <- MCModelOf
  NativeOf <- MCNativeOf
  PciIds <- MCPciIds
  MaxRuns = 1
  Task = {t1}
  Gpu = gpu
  MaxTasks = 1
INVARIANTS GTypeOK BindHandsBack AloneRunWorks
PROPERTIES UnbindSparesVfio AllFinish
CHECK_DEADLOCK FALSE
