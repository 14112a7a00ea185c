SPECIFICATION DSpec
CONSTANTS
  nvme0 = nvme0
  gpu0 = gpu0
  spare0 = spare0
  vislor = vislor
  irene = irene
  Cpulist <- MCCpulist
  Hosts <- MCHosts
  Defaults <- MCDefaults
  Addresses <- MCAddresses
  HostDevices <- MCHostDevices
  Requests <- MCRequests
  NoResource = no_resource
  NoBase = no_base
  Totals = {0, 1, 3, 5}
  Pages = {1, 2}
  FileSizes = {0, 1, 5, 7}
  MaxParallel = 3
  DeviceWait = 3
  Settle = 2
  Parts = {1, 2}
INVARIANTS TypeOK CommandSound VcpusNearTheirMemory PinnedApart FitsBeforeBoot ReservesEnough FileWhole MissedForGood
CHECK_DEADLOCK FALSE
