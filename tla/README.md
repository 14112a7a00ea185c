# A verification of OmaArvio in TLA+

OmaArvio starts confidential and ordinary VMs with QEMU, hands them PCI devices
of the host, runs a benchmark in them (or on the host) and cleans up.  What is
hard about it is never the benchmark: it is that every step acts on state that
outlives the program (driver bindings, tmux servers, mounts, device-mapper
tables, the LBA format of a drive) and that any step may fail, or be
interrupted, half-way.  These modules are about that state.

Paths below are relative to the repository.

## 1. The system

| Component | State it keeps | Operations | Interacts with |
|---|---|---|---|
| VFIO binding: `core/tasks/utils/vfio.py`, `VfioGroupFeature` in `core/tasks/qemu_builder.py` | the driver link of each PCI function, vfio-pci's dynamic ids, `original_drivers` of a run | `bind_device_to_vfio`, `unbind_device_from_vfio`, `setup`, `teardown` | the kernel's driver core through sysfs; other invocations on the same host; QEMU, which holds the devices open |
| VM lifecycle: `core/tasks/vm.py`, `qemu_builder.py`, `spawn_qemu`, `spawn_runner`, `connect_qmp`, `QemuVm` in `core/tasks/qemu.py` | the features set up so far, the tmux server, the QEMU process and its pid, the QMP session | `start`, `setup`, `teardown`, `pin_vcpu`, `wait_for_ssh`, `shutdown` | features, monitors, the action, the guest over ssh |
| Monitors: `core/tasks/utils/monitoring.py`, `core/tasks/actions/runner.py` | the host's sar and perf processes, the guest's sar | `monitor_with_sar`, `monitor_with_perf_kvm`, `run_benchmark_action` | wrap the action inside the runner's context |
| storage jobs: `modules/fio/tasks/actions/storage.py`, `modules/nvme/tasks/utils/*.py`, `modules/gdsio/tasks/actions/*.py` | LBA format and partition table of the drive, mappings, mounts, the SPDK binding | `run_fio`, `run_gdsio`, `run_elbencho`, the formatters, `cleanup_encrypted_device`, `nvme_secure_erase` | run in a guest or on the host, one after the other |
| GPU: `modules/nvidia_cc/tasks/gpu.py` | the GPU's driver link, vfio-pci's dynamic ids | `bind_nvidia`, `unbind_nvidia`, `check`, `set_cc_mode_*` | the same sysfs state as VFIO binding |
| Command line and placement: the features of `qemu_builder.py`, the checks of `vm.py`, `core/tasks/resources.py`, `QemuVm.pin_vcpu` | counters of the objects made, the pinned threads | `start`, `setup`, `qemu_args`, `vcpu_pin_map`, `host_nodes_spare_cpus`, `pin_vcpu` | QEMU and numactl take what it puts together; the lifecycle calls it |
| Guest preparation: `setup_hugepages`, `hugepage_split` in `qemu.py`, `create_partition`, `wait_for_block_devices`, `create_test_file` in `modules/nvme/tasks/utils/storage.py` | the guest's huge pages, partitions and test file | the same | udev and dpdk-hugepages.py in the guest |
| fio suite: `modules/fio/tasks/fio.py`, `check_speed` in `core/tasks/utils/pci.py`, `core/tasks/utils/device.py` | the results so far | `run_all`, `run_tests`, `from_job_name`, `storage_target`, `check_speed` | calls `vm.start` per job |
| Results: `modules/fio/tasks/plotting/fio_parser.py`, `plot_fio.py`, `core/tasks/plotting/sar_parser.py` | result files, logs of sar, a page of figures and its checkboxes | `find_fio_files*`, `parse_fio_file`, `parse_sar_file`, `create_figures_with_history` | read what benchmarks and monitors have written |
| crypto, nvbandwidth, the job files of gdsio: `modules/*/tasks` | none | actions | the registry of actions |
| reading of the configuration, registry, procs, build, the other plots, nix | none that outlives a call | – | – |

The behaviours that are hard:

* **Interleaving.**  Two invocations share sysfs.  `bind_device_to_vfio` reads a
  driver link and acts on it in later writes; a write to `new_id` acts on every
  driverless device of a model, not only on the one that was meant.
* **Failure half-way.**  `vm.start` nests a builder, a process, a socket, a
  runner and two monitors; an exception or a Ctrl-C at any point must undo
  exactly what was done.  `run_fio` has a `finally` block that begins late.
* **Order.**  Devices must be returned after QEMU has closed them; mappings must
  be closed after they are unmounted.
* **Waiting.**  Five loops wait for something outside of the program: the QMP
  socket, ssh, the guest's poweroff, QEMU's exit, udev's partitions; and every
  command in the guest waits for the guest, without a limit once ssh has connected.
* **Residue.**  On the host, what one job leaves is what the next one finds.
* **Two computations that must agree.**  The command line splits vCPUs over
  cells, the pinning splits them again; a page of results numbers its bars, its
  script finds them by number; sar tells the time of day, fio the seconds since
  its start.
* **Control flow by exception.**  `break`, `continue_on_error` and a `finally`
  block that raises decide which results of a suite survive.

What makes each component correct:

* VFIO binding: a device comes home to the driver it had; a VM is launched only
  with all its devices on vfio-pci; nobody else's device is disturbed; nobody is
  blocked for good.
* VM lifecycle: features are torn down after QEMU has gone, in reverse order,
  all of them; monitors stop before the guest is asked to power off; a run ends.
* fio: a job measures its own layers with its own block size; it leaves the
  drive as it found it; one job's failure is not the next one's.
* fio suite: every report is true, and none is missing.
* placement: a VM that does not fit is refused before it boots; threads do not
  share CPUs and run next to their memory; QEMU accepts the command line.
* guest: enough huge pages, the whole test file, no partition missed in haste.
* results: a number is filed under the moment and the job it was measured in.

## 2. The modules

| Module | Role |
|---|---|
| `VfioBinding` | the binding protocol, any number of concurrent invocations |
| `MCVfioBinding` | its instances for TLC |
| `VfioBindingProofs` | theorems about it |
| `VmSession` | abstract: what `QemuVmBuilder` promises its features |
| `VmLifecycle` | one `vm.start` in detail; implements `VmSession` |
| `VmLifecycleProofs` | theorems about it, the refinement among them |
| `GpuHandover`, `MCGpuHandover` | the gpu tasks, composed with `VfioBinding` |
| `GpuHandoverProofs` | theorems about the composition |
| `VmResources` | the arithmetic of sizes, pinning and huge pages |
| `QemuCommand` | the command line, option by option |
| `VmPlacement` | from a call of `vm.start` to a pinned VM |
| `GuestDisk`, `MCGuestDisk` | what a storage job prepares in such a VM |
| `VmPlacementProofs`, `GuestDiskProofs` | theorems about them |
| `FioStorage` | suites of fio jobs on one drive |
| `FioStorageProofs` | theorems about it |
| `FioJobs` | what a job's name means and which devices it needs |
| `FioSuite`, `MCFioSuite` | `run_all` around any jobs |
| `FioSuiteProofs` | theorems about it |
| `SarLog` | a log of sar, read back beside the fio run it watched |
| `FioResults`, `MCFioResults` | results on disk, found again and drawn; `SarLog` beside it |
| `FioResultsProofs` | theorems about both |

`GpuHandover` EXTENDS `VfioBinding` and takes its actions unchanged, as
`GuestDisk` does with `VmPlacement`, `QemuCommand` and `VmResources`.
`VmLifecycle` is one run of `VfioBinding` seen from `vm.start`, with any
features; `FioSuite` sees a whole `vm.start` as one that returns or raises, and
`FioStorage` is what happens inside it.

### VfioBinding

A process is a `vm.start --vfio-pcie` that is run again and again with the list
`PciIds[p]`.  `driver` is the link `/sys/bus/pci/devices/<dev>/driver`, `dynIds`
what was written to `new_id`; both outlive a run, for the code never writes to
`remove_id` here.  `saved` is the local `original_driver`, `orig` the feature's
dictionary.  Every access to sysfs is one action, so a process may be overtaken
between any two:

| Action | Code |
|---|---|
| `Start` | a new `VfioGroupFeature`, the loop of `setup` begins |
| `ReadDriver` | the test of the link; on vfio-pci already: return `None` |
| `WriteUnbind` | the write to `driver/unbind`; raises if the link has vanished; blocks while a VM holds the device |
| `LookUpIds` | `get_pci_ids`, `modprobe` |
| `WriteNewId` | the write to `new_id`; `FileExistsError` leads to `WriteBind` |
| `WriteBind` | the write to `vfio-pci/bind` |
| `LaunchQemu`, `LeaveTry` | QEMU opens the devices; the `try` block of `vm.start` ends |
| `RestoreRead`, `RestoreUnbind`, `RestoreBind`, `DriversProbe` | `unbind_device_from_vfio`, from the last device to the first |
| `End` | `vm.start` has returned or raised |

The kernel is external: `Claimable`, `Claim`, `Matching` and `InUse` say what a
write does, as `vfio.py` relies on it.  An operation may fail by itself in
`LookUpIds`, `WriteNewId` (the probe fails unnoticed), `WriteBind` and
`RestoreBind`; `faulted` records it, so that the properties can tell a failure
of the environment from one that another run caused.  The reset between unbind
and bind is not modelled: its failure is printed and changes nothing.

### VmSession and VmLifecycle

`VmSession` is four variables: features are acquired one by one, the VM is
powered on and off while all of them are held, and they are released one by one
in reverse order once it is off; a failing acquisition ends the session, a
failing release does not.  (That a failing setup releases nothing is what the
code does, not what one would want: see the findings.)

`VmLifecycle` is a `vm.start`.  `pc` names the location in the nest of context
managers, `Handler` says where an exception that leaves a location goes on, and
one action per statement with an effect moves it.  The program's options (`conf`)
choose the path: attach, ssh commands or a benchmark, with or without pinning, sar
and perf.  `QemuListens`, `GuestBoots`, `GuestHangs` (the guest answers no more,
under a QEMU that lives) and `QemuDies` are QEMU and the guest, which run beside
it.  `Interrupt` is a KeyboardInterrupt at any location, of a signal to the
program alone; the operation it hits may have had its effect or not (`CutQemu`,
`CutHeld`, `CutGuestSar`).  A monitor whose start is hit between `Popen` and the
assignment of its result is `"lost"` (`CutMonitor`): it runs, but no variable
refers to it, and no `finally` block stops it.  `ListPanes`, `ConnectQmp` and
`GetSshPort` may raise under a QEMU that runs as well.  `LocalStep` and
`RemoteStep` divide the program's steps by whether they wait for a command in the
guest.  `SetupFeature` and `TeardownFeature` stand for any feature: `VfioBinding`
is one of them in detail, `NvmeEmulation` (creating and deleting a file) another,
the others do nothing.  Not modelled: `type="host"`, which has no builder and no
QEMU, and the generator `QemuVmBuilder.run`, which `vm.start` does not call but
whose nesting is the one `VmSession` abstracts.

### FioStorage

`StartJob` ... `EndJob` are the steps of `run_fio`, in its order; `Formatter`
gives the commands of each formatter, and `Format` runs one of them.  `mounts` is
a stack, as the mounts on `/mnt/encrypted` are, `mapped` the open device-mapper
names, `spdk` the driver of the drive, `label` whether it has a partition table.
Kinds of jobs: `spdk`; `raw` (libaio on the drive, with the passthrough engine as
well); `plain`; `luks` (three ciphers, one procedure); `dmverity`; `fsverity`; and
`gds`, a `run_gdsio` or `run_elbencho`, which begins with the formatter, without
an erase, and cleans up after its last command only, so that an exception leaves
at once (`Beginning`, `Raise`).  Any command may fail by itself at the locations
in `Faults`; a command also fails if the kernel refuses it (`Possible`), which is
how the residue of one job reaches the next.  A job in a VM finds a fresh guest.
`residue` is history: whether an earlier job on this host ended in one of the ways
in which the code releases nothing or not everything (`LeavesResidue`).

### GpuHandover

A task `t` is a `bind_nvidia`, `unbind_nvidia` or `check` that reads the GPU's
link once (`Begin`) and acts on it later, step by step: `Release` (the write to
the unbind file of the driver that was read: it raises if the GPU has left that
driver, and blocks while a VM holds it), `RemoveId` (`remove_id`), `LoadNvidia`
(`modprobe`, which offers itself to every driverless GPU), `LookAgain`, `BindGpu`;
for a `check`, `Scan` (the search for a process that has the GPU open) and
`Query`, each a step of its own.  Beside it go the runs of `VfioBinding`.  The
code has no lock between the two, so that anything may be undone by the other;
what it does promise is what it does alone.  `disturbed` therefore collects the
runs and tasks during which somebody else moved a device, changed the ids or
opened or closed a VM, and the properties speak of the others, in whatever state
they found the host: `BindHandsBack`, `AloneRunWorks`.  A `bind_nvidia` that finds
the GPU on nvidia returns at once (`kept`) and leaves an id that an earlier run
has added; only one that binds the GPU (`bound`) removes it.  `UnbindSparesVfio`
and `AllFinish` hold for all.

### VmResources, QemuCommand, VmPlacement

`VmResources` are the functions of `resources.py` and `hugepage_split`.  A cpulist
is a sequence of ranges.  `QemuCommand` translates each feature's `qemu_args` to a
sequence of options; an option is what it defines, what it refers to and what it
plugs into, and its numbers.  Wording is left out.  The guest's NUMA cells are ids
too (`GuestCell`): the bridge of the legacy switch refers to cell 0.
`build_command` is the order in which `vm.start` adds the features.  `VmPlacement`
is the call: `Refuse` (the `ValueError`s of `vm.start`), `Assemble` (the
constructors), `Setup` (`GuestNumaFeature.setup` may refuse, and `MayFail` names
the features whose set-up the host may not allow), `BuildCommand` (which reads the
ids of the VFIO devices, and may fail to), `Spawn` (numactl), `BeginPin`,
`PinVcpu`, `PinIothread`, `PinDone` (`pin_vcpu`; a failing `taskset` ends the
pinning and no more).  `made` is what the class counters of the features start
from in a process that has started a VM before.

### GuestDisk

One of two things a storage job does in a guest that is up: `SetupHugepages`, or
`CreatePartition`, the loop `SettleUdev`, `Look`, `Judge`, `Sleep` of
`wait_for_block_devices` with `Publish` (udev) beside it, and `CreateTestFile`.
`clock` counts in polls.

### FioJobs and FioSuite

A job's name is cut as the code cuts it, at the dashes and at the first
underscore.  `FioSuite` is three nested loops: `NextConfig` and `NextIteration`
say where `break` and the ends of the loops lead, `TestsRaise` what an exception
out of `run_tests` does, with its results lost: of a name that does not parse, or of a
host that `config.toml` does not know (`BeginTests`).  `EnterSpeed`, `StartVm` and
`ExitSpeed` are a job within `check_speed`, whose link may read anything at any
time; what `finally` raises replaces the job's own exception.  `told` and `log`
are history: what really happened, for the reports to be compared with.

### SarLog and FioResults

`SarLog` is sar writing a log and `parse_sar_file` reading it, line by line: a
line for all CPUs (`CpuLine`), some for single CPUs (`CoreLine`, any of them may
be offline), one for the memory (`MemLine`), and the end anywhere (`Terminate`):
in the middle of a line, too, where the time has been read and the idle share has
not.  `get_window_average` raises when a window reaches such a sample, and
`correlate_with_sar` has no mean for that job and those after it.  Time is a
number of fractions of a second; a log shows it to the second, without the day.  A
measurement is the number of its sample, so that a number filed under another
sample shows.  `FioResults` is `RunBenchmark` (a result is filed), `Plot` (a page
of `generate_all_plots`), `Toggle` (the page's own script, when a reader clicks on
a checkbox) and `ClickLegend` (plotly's, when a reader clicks on a bar's name: it
turns that bar and no checkbox; a double click is a number of those).  The two
sorts of `create_figures_with_history` are the order `DrawnBefore`; the result
drawn as the k-th is the one that has k - 1 before it (`Drawn`), and `figures[k]`
is what has been drawn after k of them.

## 3. The runs

All runs use `CHECK_DEADLOCK FALSE`: each bounds the number of runs or jobs, and
when they are used up the system has really stopped.

| Run | Shows | States |
|---|---|---|
| `vfio_binding` | `RestoredHome`, `ReadyMeansBound`, `SetupFailsOnlyByFault`, `OthersKeepTheirDriver` for two invocations with separate lists | 906 k |
| `gpu_handover` | `BindHandsBack`, `AloneRunWorks`, `UnbindSparesVfio`, and `AllFinish` (liveness), for two `vm.start` runs and a gpu task on one GPU | 182 k |
| `vm_lifecycle` | `TeardownAfterQemu`, `AllReleased`, `MonitorsStopped`, two interrupts anywhere, a QEMU whose pid cannot be read, a guest that hangs | 202 k |
| `vm_session` | `KeepsSession` (refinement) and `AnsweredRunEnds` (liveness), without interrupts | 4.1 k |
| `vm_placement` | `CommandSound`, `VcpusNearTheirMemory`, `PinnedApart`, `FitsBeforeBoot`; in the guest `ReservesEnough`, `FileWhole`, `MissedForGood` | 140 k |
| `fio_storage` | `MeasuresItsOwn`, `FailsByResidueOnly`, `NothingLeft`, `BackTo512` | 17 k |
| `fio_suite` | `HonestResults`, `NothingLost`, `StopsAtFailure`, `OtherConfigsRun` | 10 k |
| `results` | `ClockRecovered`, `SamplesAligned`, `OwnSamples`; `SelectorShowsOwn`, `NewestOfItsOwn` | 1421 k |
| `vm_qemu_fails`, `vm_cut_off`, `fio_dmverity`, `fio_default_jobs` | violations, section 5 | – |

Bounds, and why they suffice:

* `vfio_binding`: one process has two devices of one model, so that the first
  `new_id` claims a device for the second and the second write is refused; a
  third device of that model is on nobody's list; the other process has a device
  of another model; two runs each, so that the second one meets the dynamic ids
  of the first.  Interactions are between two devices, two processes or two
  consecutive runs; the theorems cover every number.
* `gpu_handover`: two runs and a task that want one GPU: three parties in every
  order, with the GPU starting on nvidia or on nothing and the module
  loaded or not; a run takes it to vfio-pci, and may leave it there.
  A waiting party can wait for one VM or for both in turn.
* `vm_lifecycle`: three features make a first, a middle and a last one; two
  interrupts hit the body and then a `finally` block, or two `finally` blocks.
  `PidMayBeLost` lets `list-panes` fail under a QEMU that runs.
* `fio_storage`: three jobs: one that leaves something, one that may fail on it,
  one that meets what both left.

* `vm_placement`: a host of two nodes, one of them in two ranges, as with
  hyper-threads, the other of odd size; sizes that do not divide, do not fit, or
  just fit, with one cell, two cells in either order, or none; offsets from the
  size and from `--pin-base`; every combination of machine, pass-through and
  disks, in a process that has or has not started a VM before; the legacy switch on a
  size with two cells and on one with none.  Files of 0 to 7
  megabytes for up to three writers: fewer than writers, a multiple, a
  remainder.  Up to three polls, and settles as long as two.
* `fio_suite`: two values for each loop that nests in another, and three jobs; an
  unparsable name first, in the middle, and none; a setup without a target
  before one with and alone; no iteration, and nothing to combine; an unknown host.
* `results`: days of six seconds and five samples, so that a log passes up to two
  midnights with gaps below half a day (`ClockAssumption`; sar samples every
  second or so); three results, one more than the history keeps, of four VMs (two
  sizes whose names begin alike, a direct boot, and the host itself).
  `MaxFlipped` = 1 bar at a time stands against its checkbox: a checkbox meets a
  bar that the legend has turned, its own or another's; the theorem is about any
  number.

Fairness.  `VfioBinding.Fairness` and `GpuHandover.GFairness` are weak fairness
of the steps of each started run and task: the interpreter goes on, and a VM is
ended at some time.  A write to `unbind` that the kernel blocks is not enabled,
so nothing forces it.  Starting a run or a task is not fair.
`VmLifecycle.Fairness` is weak fairness of the program's local steps, of its
commands in a guest that does not hang (`CommandEnds`), of a starting QEMU (it opens
its socket or exits) and of the death of a QEMU that `tmux kill-server` has hung up.
Nothing says that a guest ever boots, which is why `AnsweredRunEnds` starts from a
guest that has answered; and nothing that a guest which hangs under a live QEMU ever
goes, since `ssh_cmd` limits the time to connect and nothing else: the property says
that the run ends, or that the guest hangs for good.  An attached terminal may stay
open as long as its user likes, so the property is about the other actions.

## 4. What is proved

`tlapm` proves, for every value of the constants that the named assumptions
admit:

| Theorem | Statement |
|---|---|
| `VfioBindingProofs!TypeCorrect` | `Spec => []TypeOK` |
| `VfioBindingProofs!OthersUndisturbed` | `Spec => OthersKeepTheirDriver`, for any lists |
| `VfioBindingProofs!ComesHome`, `LaunchedBound`, `SetupSucceeds` | `[]RestoredHome`, `[]ReadyMeansBound`, `[]SetupFailsOnlyByFault`, if `SeparateLists` |
| `VmLifecycleProofs!TypeCorrect` | `Spec => []TypeOK` |
| `VmLifecycleProofs!TornDownAfterQemu` | `Spec => []TeardownAfterQemu`, any number of interrupts |
| `VmLifecycleProofs!NothingHeld` | `Spec => []AllReleased`, any number of features and interrupts |
| `VmLifecycleProofs!MonitorsAreStopped` | `Spec => []MonitorsStopped`, any options and number of interrupts |
| `VmLifecycleProofs!ImplementsSession` | `Spec => KeepsSession`, if `MaxInterrupts = 0` and `~PidMayBeLost` |
| `GpuHandoverProofs!GpuTypeCorrect`, `SparesVfio` | `GSpec =>` `[]GTypeOK`, `UnbindSparesVfio` |
| `GpuHandoverProofs!HandsBack`, `AloneWorks` | `GSpec =>` `[]BindHandsBack`, `[]AloneRunWorks`, if no list names a device twice |
| `VmPlacementProofs!PinsMatchCells` | the pin of each vCPU is on the host node of its guest cell |
| `VmPlacementProofs!RefusedBeforeBoot` | `Spec => []FitsBeforeBoot` |
| `VmPlacementProofs!PlacementTypeCorrect` | `Spec => []TypeOK` |
| `VmPlacementProofs!VcpusPinnedApart`, `ThreadsPinnedApart` | `Spec =>` `[]VcpusApart`, the vCPU half, and `[]PinnedApart`, iothreads included |
| `VmPlacementProofs!CommandLineSound` | `Spec => []CommandSound`, any host and combination of features; the one reference of the legacy switch is excepted |
| `VmPlacementProofs!VcpusRunNearTheirMemory` | `Spec => []VcpusNearTheirMemory` |
| `GuestDiskProofs!GuestRunsInPlacedVm`, `GuestKeepsItsPlace` | `DSpec => Spec`, and with it the four placement invariants |
| `GuestDiskProofs!GuestRefusedBeforeBoot`, `MissedOnlyForGood`, `HugepagesSuffice`, `TestFileWhole` | `DSpec =>` `[]FitsBeforeBoot`, `[]MissedForGood`, `[]ReservesEnough`, `[]FileWhole` |
| `FioStorageProofs!TypeCorrect` | `Spec => []TypeOK` |
| `FioStorageProofs!FioMeasuresItsOwn`, `FailuresDoNotSpread`, `FinallyReleases`, `FinallyResetsLba` | `Spec =>` `[]MeasuresItsOwn`, `[]FailsByResidueOnly`, `[]NothingLeft`, `[]BackTo512` |
| `FioSuiteProofs!SuiteTypeCorrect` | `Spec => []TypeOK` |
| `FioSuiteProofs!ReportsAreHonest`, `NoneAfterFailure` | `Spec =>` `[]HonestResults`, `[]StopsAtFailure`, any arguments |
| `FioSuiteProofs!SuiteLosesNothing`, `SuiteRunsOtherConfigs` | `Spec =>` `[]NothingLost`, `[]OtherConfigsRun`, any arguments |
| `FioResultsProofs!SarClockRecovered`, `SarSamplesAligned`, `SarOwnSamples` | `FSpec =>` `[]ClockRecovered`, `[]SamplesAligned`, `[]OwnSamples`, any log and schedule |
| `FioResultsProofs!SelectorShows`, `NewestShown` | `FSpec =>` `[]SelectorShowsOwn`, `[]NewestOfItsOwn`, any number of results, and of clicks on checkboxes and legends |

The assumptions on constants are `ConstantsOK` of the modules themselves, and:

* `SuiteConstantsOK`: the arguments of a suite have the types of its parameters; a
  setup in a VM is `amd` or `snp`.
* `CpulistAssumption`: the kernel lists every CPU once.
* `RequestsAssumption`: devices are PCI addresses; the sizes of `config.toml` are
  numbers of the right sign, and list no host node twice (a node listed twice
  would be pinned to twice, and nothing in the code looks for it).
* `HugepagesAssumption`, `FileAssumption`: whole gigabytes, pages of at least one,
  files of whole megabytes.
* `ClockAssumption`, `TimesAssumption`: a day has whole seconds, time is counted
  from a midnight, and samples are less than half a day apart: without the last one
  the parser, which sees a midnight by the clock going back by more than that,
  could not tell.
* `NamesAssumption`: a result lies under a name that `vm.start` gives,
  `host-<size>...` or `<type>-disk-<size>...` or `<type>-direct-<size>...`, and no
  size is called `direct`.  `ResultsAssumption`: there are three figures.

**VfioBinding.**  None of the three properties is inductive.  The invariant
`Inductive` is `TypeOK /\ RestoresDriver /\ Progress`.  `Progress` cuts each
process's list at its position: during setup the devices before it are taken
(on vfio-pci, with the driver saved), those from it on are still where the run
found them, or have been claimed already by the `new_id` of an earlier device
of the same model; during teardown the other way round.  That a step of `p`
leaves the devices and the models of `q` alone is the lemma `Isolation`, the
only place that needs `SeparateLists`.  It is a real assumption: without it,
the `new_id` of one invocation claims a drive of the same model which another
one has just unbound, and the other one's write to `bind` raises.

**VmLifecycle.**  `Reaped` follows the pid: it is known from `list-panes` to the
`finally` block, so the reaping loop is left only when QEMU has gone, unless an
interrupt hit one of the five locations of `SpawnWindow`, where the pid is not
known yet or the loop itself is interrupted, or `list-panes` failed there.
`Released` says that the features above `idx` have been taken care of.  `Nested`
ties a running monitor to its locations and to the options that lead there, since
`Handler` chooses the `finally` block by the options; one that is lost, or that
survived its `finally` block, is tied to the interrupt in `cut`.  The refinement
maps `pc` to the stage of the session and `QemuOn` to its power; a step inside the
hold is a power change or a stutter.

**GpuHandover.**  `NativeOnly` says that links and the drivers that runs remember
are native ones whose module is loaded, so that not even `drivers_probe` binds a
device to an absent driver.  `AloneInv` is a clause per location for a task, and
`ProgressOf` of `VfioBindingProofs` for a run, of those that are not `disturbed`:
`Unseen` is the argument that whoever stays undisturbed has seen nothing move, and
takes the place of `Isolation`.  Lists may overlap here, but each must be without
duplicates.

**VmPlacement.**  That `Fits` has been tested at set-up says nothing about the
offset of `--pin-base`, which is only known to `pin_vcpu`.  `PlacementInv`
therefore carries from `BeginPin` on that the vCPUs fit with the offset in use,
and that the k-th pin is what the map gives for k.  Apartness is then a fact about
the map: two vCPUs of one cell differ in their remainder, two of different cells
are on different nodes, whose lists are disjoint.  For the iothreads, `IoInv` says
that the k-th one has the k-th spare CPU: `SpareSound` follows the recursion that
removes one vCPU's CPU after the other (`Without`), which leaves CPUs of the
nodes, each once and none of a vCPU.

The command line is proved feature by feature.  `Section(s, N, E, B)` says of a
piece of it that it defines ids of the classes `N` only and each once, uses only
what it defines or what is in `E`, and plugs only into what it has defined before
or into `B`; each feature has such a lemma, and `Concat` joins two sections of
disjoint classes.  `Add` then grows a `Command`, section after section, in the
order of `build_command` (`BuildCommandSound`).  The sections that are a loop over
disks, ports, cells or CPUs are flattened sequences, and `FlattenInjective` finds
the iteration that an id came from.  `VcpusRunNearTheirMemory` needs both halves:
`FrontOfCells` finds the cell of a vCPU in the command line, and `PinsMatchCells`
says that the pin follows it.

**GuestDisk.**  `WaitInv` orders what the loop knows: what the last look found
missing was absent when it began, and what is absent now was absent then.
`HugepagesSuffice` is division with rounding, for any number of nodes.
`TestFileWhole` replaces the running offset of `create_test_file`, which is defined
by recursion, by a closed form (`OffsetIsShares`): k shares and the smaller of k and
the remainder.  A megabyte then lies in just one share (`OneWriter`).

**FioStorage.**  `TypeOK /\ Places`: `Places` describes the layers of a clean
drive as a function of the job's kind and its step in the formatter (`At`), at
every location of `run_fio`, and on a drive that is not clean only what the
kernel's refusals guarantee: a formatter that got through has partitioned, and
so the drive was free.  That argument, and not the cleanup, is why
`MeasuresItsOwn` holds on a host full of residue.  `FailsByResidueOnly` adds to it
that a host on which no job has left a residue is released between jobs, wherever
their own commands have failed.

**FioSuite.**  `SuiteInv` keeps the log and the reports in the order of the loops,
all of them before the current position; that every report has its entry of the
log; and, in `Knows`, that the exception on its way says what has happened, though
the one of `check_speed` may have replaced the other.  Without
`continue_on_error`, failures are of iterations that are over.  With it,
`AllReported` says that every position before the current one has been run and
reported: `NothingSkipped` is the argument that `NextConfig` and `NextIteration`
leave no position between a job and its successor, and `PlansEverything` that a
plannable suite never leaves a loop early.  `FirstsBegun` is the weaker form which a
configuration without a target, or a name that does not parse, leaves true.

**SarLog.**  While the log is read, the parser's `date` is the day of the last
sample plus `Lag`, which is 0 unless a midnight fell between header and first
sample (`ClockInv`).  The step is that the time of day goes back by more than half
a day just if a midnight has passed.  `LogInv` gives the length of every list by
the kind of line printed last; a CPU's list is filled up with `NaN` (`PadSound`)
before a sample is appended.  `OwnSamples` is then rounding: `elapsed` is less
than a second over the job's end, a time in the log less than a second under its
sample.  Only the last time of a log can lack its idle share (`WindowKnown`), so
that a window that does not reach it does not raise.

**FioResults.**  `Linked` says of one figure that the bars and the selector's
entries that have an index in it are one to one, that both have the same result,
and that a bar is shown just if its entry is checked or, if the legend has turned
it (`flipped`), is not.  Drawing a result keeps it (`DrawSound`), with a bar in
the figure (`LinkWith`) or without (`LinkWithout`), and so does a click
(`RestyleSound`): a checkbox restyles its bars whatever the legend has made of
them, and a name in the legend turns its own.  That results are drawn in a total
order, each once, is `OrderTotal` and `Ranked`: in a finite total order of n there
is for each k up to n just one with k - 1 before it.  `Chosen` says that the page
has the results of the histories and nothing else; `NewerToo` that the history,
cut by rank, has with each result all newer ones of its group; and `NamesTold`
that two names of one group agree in type and size, which is where
`NamesAssumption` is needed.

**Recursion.**  The recursive definitions the theorems speak of (`Offset` of the test
file, the CPUs left over, the figures) are recursive functions on an
interval.  The library's induction theorems take an operator as a parameter,
which the provers cannot instantiate; `LeastNumber` (a non-empty set of naturals has
a least element, from the well-foundedness of `<`) takes their place: the least
number at which the claim fails has a predecessor at which it holds.

Only model-checked: the two liveness properties, `AllFinish` and `AnsweredRunEnds`,
for `tlapm` has no ENABLED.  All invariants and action properties of the passing
runs are stated by theorems, for all values of the constants.  Nothing is proved
about the environment: the kernel, tmux, QEMU and ssh are assumed to behave as the
external actions say.

## 5. Where the code and its documentation disagree

Each of these is a run that TLC must find violated.

* `fio_default_jobs`: the default list of jobs names `io_uring_cmd`, an engine by
  the comment in `storage.py`; a name is cut at its first underscore, `io` is no
  engine, and the `ValueError` comes outside of the `try` block of `run_tests`:
  the results of the call are lost and its later jobs never run, also with
  `continue_on_error`.
* `vm_qemu_fails`: `wait_for_ssh` has no limit and does not look at QEMU, so a
  QEMU that dies while its guest boots blocks the program before any teardown.
* `vm_cut_off`: the wait for the guest's poweroff is an `if`, so the guest gets
  one second instead of the timeout.
* `fio_dmverity`: the cleanup compares the storage type with `"dmverity"`, but
  is given `"dmverity-ext4"`; the mapping stays open.

Limits that show as preconditions of the properties that hold:

* `builder.setup()` is called before the `try` block of `vm.start`; if it raises
  at the second device, the first one stays on vfio-pci, although the docstring
  of `VfioGroupFeature` promises the return (`RestoredHome` is about completed
  teardowns).
* `vm.start` looks for duplicates before addresses are shortened; a drive named in
  both forms is bound twice, the second `bind_device_to_vfio` returns `None`, and
  teardown leaves the drive on vfio-pci (`SeparateLists`).
* The docstring of `unbind_device_from_vfio` promises that a device without an
  original driver is unbound; the code returns first (`RestoredHome` speaks of
  devices that had one).
* The drive keeps 4096-byte blocks if a job fails before the `try` block of
  `run_fio`, or if the reset of SPDK fails in its `finally` block (`BackTo512`); a
  next job without a block size then measures those blocks.
* An interrupt in `SpawnWindow`, or a `list-panes` that fails, lets the teardown run
  beside QEMU (`TeardownAfterQemu`).
* An interrupt between a monitor's `Popen` and the assignment of its result leaves a
  monitor that nothing stops (`MonitorsStopped`).
* A guest that hangs under a live QEMU blocks the run for good, in whatever ssh
  command is under way: it has neither keep-alive nor timeout (`AnsweredRunEnds`).
* `bind_nvidia` returns early for a GPU on nvidia, and a dynamic id that an
  earlier run has added stays in vfio-pci (`BindHandsBack`).
* Between two invocations that list devices of one model, `new_id` of the one claims
  what the other has unbound; and the driver link may change between its test and
  the write to `unbind` (`SeparateLists`, `Alone`).
* The legacy switch belongs to guest cell 0 (`numa_node=0`), which a size without
  nodes does not define: QEMU refuses the command line (`NoCell` in
  `CommandSound`).
* `run_gdsio` and `run_elbencho` have no `finally`: a benchmark that fails leaves
  its file system mounted and the drive partitioned (`NothingLeft` excepts the kind
  `gds`), which on the host is what the next job meets.
* `--pin-base` is not looked at by `GuestNumaFeature.setup`, so a VM that does not
  fit with it boots first (`FitsBeforeBoot`).
* A midnight between the header of a log of sar and its first sample puts the
  whole log a day early (`HeaderDay` in `ClockRecovered`).
* `parse_sar_file` notes the time of a line before its shares.  Of a log cut off in
  that line, `get_window_average` reads an idle share that is not there, and the
  `IndexError` leaves the job whose window reaches it, and the jobs after it, without
  a mean, although the docstring of `correlate_with_sar` promises one for each job
  with matching samples (`BreaksOffIn` in `OwnSamples`).  No task calls
  `correlate_with_sar` yet.
* Without `continue_on_error`, a failure ends its iteration only, since `break`
  leaves the inner loop (`StopsAtFailure`).
* A VM named `<type>-direct-...` is filed under the size `direct`
  (`NewestOfItsOwn`); the page for `small` shows `small2` as well (`Passes`).
* An unknown link generation is 0, and 0 equals 0: without `valid_pcie_speeds` two
  unknown speeds pass as "at the maximum" (`SpeedOK`).

## 6. What is not modelled

* The search for gdsio's job files and what its benchmarks print: reading only.
* `set_cc_mode_*` (one call of the vendor's tool each) and `type="host"`, which
  has neither builder nor QEMU.
* Plots other than those with history: they draw what is read and keep nothing.
* Parsing of text (lspci, JSON, `config.toml`), the registry of actions, build
  tasks, nix packaging, ssh and process helpers, the crypto and nvbandwidth
  benchmarks: no state that outlives a call, or one command each.
