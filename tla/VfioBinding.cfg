SPECIFICATION Spec
CONSTANTS
  nvmeA = nvmeA
  nvmeB = nvmeB
  spare = spare
  gpu = gpu
  nvme = nvme
  nvidia = nvidia
  kioxia = kioxia
  hopper = hopper
  p1 = p1
  p2 = p2
  Dev = {nvmeA, nvmeB, spare, gpu}
  Model = {kioxia, hopper}
  Driver = {nvme, nvidia}
  Proc = {p1, p2}
  Vfio = vfio_pci
  NoDriver = no_driver
  Unset = unset
  ModelOf <- MCModelOf
  NativeOf <- MCNativeOf
  PciIds <- SeparatePciIds
  MaxRuns = 2
INVARIANTS TypeOK RestoredHome ReadyMeansBound SetupFailsOnlyByFault
PROPERTY OthersKeepTheirDriver
CHECK_DEADLOCK FALSE
