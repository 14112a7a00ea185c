----------------------------- MODULE VmPlacement -----------------------------
(***************************************************************************)
(* From a call of vm.start to a VM whose threads have their CPUs:          *)
(* vm.start's checks (core/tasks/vm.py), the features' set-up as far as it *)
(* can refuse (GuestNumaFeature, AmdMachineFeature, NvmeEmulationFeature), *)
(* the command line (QemuCommand), numactl and QemuVm.pin_vcpu             *)
(* (core/tasks/qemu.py).  How QEMU, its guest and the tear-down behave is  *)
(* VmLifecycle's.                                                          *)
(***************************************************************************)
EXTENDS QemuCommand

CONSTANT Requests     \* the calls of vm.start

\* The devices are lists; the sizes of config.toml make sense, and list no host
\* node twice.
ASSUME RequestsAssumption ==
  /\ HostDevices \in Seq(Addresses)
  /\ \A r \in Requests :
       /\ r.vfio \in Seq(Addresses) /\ r.extra \in Nat
       /\ r.resource # NoResource =>
            /\ r.resource.cpu \in Nat \ {0}
            /\ r.resource.pin_base \in Nat
            /\ r.cli \in Nat \cup {NoBase}
            /\ r.resource.numa \in Seq(HostNode)
            /\ \A c, d \in 1..Len(r.resource.numa) :
                 r.resource.numa[c] = r.resource.numa[d] => c = d

VARIABLES
  req,      \* this call
  made,     \* the drives, networks and disks this process had made before
  phase,    \* how far the call has come
  cmd,      \* the options of its QEMU
  vcpus,    \* pin_vcpu: the CPU of each vCPU pinned so far, in their order
  ios       \* the CPU of each iothread pinned so far

vars == <<req, made, phase, cmd, vcpus, ios>>

Resource == req.resource
Numa == Resource.numa
\* What pin_vcpu is called with: --pin-base comes before the resource's own.
PinBase == IF req.cli = NoBase THEN Resource.pin_base ELSE req.cli

\* The CPUs numactl confines QEMU to.
Confinement == UNION {CpusOf(node) : node \in Nodes(Resource)}

\* The iothreads QEMU reports, in the order of its command line.
IsIothread(option) == option.id # << >> /\ option.id[2] \in {"iothread_blk", "user_iothread"}
Iothreads == Cardinality({i \in 1..Len(cmd) : IsIothread(cmd[i])})

Init ==
  /\ req \in Requests
  /\ made \in 0..1
  /\ phase = "asked"
  /\ cmd = << >> /\ vcpus = << >> /\ ios = << >>

At(p) == phase = p
Goto(p) == phase' = p /\ UNCHANGED <<req, made, cmd, vcpus, ios>>

-----------------------------------------------------------------------------
\* vm.start raises, before it has made anything.
Refuse == At("asked") /\ Refused(req) /\ Goto("refused")

\* type="host" runs its action without a VM.
RunOnHost == At("asked") /\ ~Refused(req) /\ req.type = "host" /\ Goto("hosted")

\* The features are made one after the other: the cells first, the disk later.
Assemble ==
  /\ At("asked") /\ ~Refused(req) /\ req.type # "host"
  /\ IF ~SplitsEvenly(Resource) THEN Goto("refused")
     ELSE \E yes \in BOOLEAN : Goto(IF Declined(req, yes) THEN "declined" ELSE "built")

\* builder.setup(): the cells check that their vCPUs fit; SNP needs its device, the
\* emulated disk its file and VFIO the devices, which the host may not give.
MayFail == req.type = "snp" \/ req.nvme \/ Vfio(req) # << >>

\* Mutant: the cells' set-up does not look whether their vCPUs fit.
SetupUnlooked == At("built") /\ (Goto("ready") \/ (MayFail /\ Goto("unfit")))

Setup ==
  /\ At("built")
  /\ \/ Numa # << >> /\ ~Fits(Numa, Resource.cpu, Resource.pin_base) /\ Goto("unfit")
     \/ /\ Numa # << >> => Fits(Numa, Resource.cpu, Resource.pin_base)
        /\ \/ Goto("ready")
           \/ MayFail /\ Goto("unfit")

\* The options of a device have its ids, which get_pci_ids may fail to read.
BuildCommand ==
  /\ At("ready")
  /\ \/ /\ phase' = "commanded" /\ cmd' = build_command(req, made)
        /\ UNCHANGED <<req, made, vcpus, ios>>
     \/ Vfio(req) # << >> /\ Goto("unfit")

\* spawn_qemu puts numactl in front; without a node to bind to, numactl is
\* given an empty list, which it may refuse.
Spawn ==
  /\ At("commanded")
  /\ \/ Goto("up")
     \/ Numa = << >> /\ Goto("lost")

\* pin_vcpu: the map for all vCPUs comes first, and raises with the VM up.
BeginPin ==
  /\ At("up")
  /\ \/ ~req.pin /\ Goto("running")
     \/ /\ req.pin
        /\ Numa # << >> /\ ~Fits(Numa, Resource.cpu, PinBase)
        /\ Goto("pin_failed")
     \/ /\ req.pin
        /\ Numa # << >> => Fits(Numa, Resource.cpu, PinBase)
        /\ Goto("pinning")

Target(v) == IF Numa # << >> THEN vcpu_pin_map(Numa, Resource.cpu, PinBase)[v]
                             ELSE PinBase + v

\* One taskset per vCPU, and the pinning ends with the first that fails.
PinVcpu ==
  /\ At("pinning") /\ Len(vcpus) < Resource.cpu
  /\ \/ vcpus' = Append(vcpus, Target(Len(vcpus))) /\ UNCHANGED <<req, made, phase, cmd, ios>>
     \/ Goto("running")

PinnedByMap == {vcpu_pin_map(Numa, Resource.cpu, PinBase)[v] : v \in 0..Resource.cpu - 1}
Spare == host_nodes_spare_cpus(Numa, PinnedByMap)

\* Then one per iothread: on what the nodes have left, or past the vCPUs.
NoCpuLeft == Numa # << >> /\ Len(ios) >= Len(Spare)
IoTarget == IF Numa # << >> THEN Spare[Len(ios) + 1] ELSE PinBase + Resource.cpu + Len(ios)

\* Mutant: the iothreads do not wait for the vCPUs.
PinIothreadEarly ==
  /\ At("pinning") /\ Len(ios) < Iothreads
  /\ \/ ~NoCpuLeft /\ ios' = Append(ios, IoTarget)
        /\ UNCHANGED <<req, made, phase, cmd, vcpus>>
     \/ Goto("running")

PinIothread ==
  /\ At("pinning") /\ Len(vcpus) = Resource.cpu /\ Len(ios) < Iothreads
  /\ \/ ~NoCpuLeft /\ ios' = Append(ios, IoTarget)
        /\ UNCHANGED <<req, made, phase, cmd, vcpus>>
     \/ Goto("running")

PinDone ==
  /\ At("pinning") /\ Len(vcpus) = Resource.cpu /\ Len(ios) = Iothreads
  /\ Goto("running")

Next ==
  \/ Refuse \/ RunOnHost \/ Assemble \/ Setup \/ BuildCommand \/ Spawn
  \/ BeginPin \/ PinVcpu \/ PinIothread \/ PinDone

Spec == Init /\ [][Next]_vars

-----------------------------------------------------------------------------
Options == 1..Len(cmd)
Defined(i) == {cmd[j].id : j \in 1..i}

TypeOK ==
  /\ phase \in {"asked", "refused", "hosted", "declined", "built", "unfit", "ready",
                "commanded", "up", "lost", "pinning", "pin_failed", "running"}
  /\ vcpus \in Seq(Nat) /\ ios \in Seq(Nat)
  /\ vcpus # << >> => phase \in {"pinning", "running"} /\ Len(vcpus) <= Resource.cpu
  /\ ios # << >> => Len(vcpus) = Resource.cpu /\ Len(ios) <= Iothreads

\* The legacy switch belongs to guest cell 0, which a size without nodes lacks.
NoCell == IF req.legacy /\ Numa = << >> THEN {GuestCell(0)} ELSE {}

\* QEMU can take the command line, whatever features are combined and whatever
\* VMs the process has started before: no id is defined twice, what an option
\* uses is defined somewhere, what it plugs into is defined before it, and no two
\* ports of a bus share a slot (the counters and numbers in qemu_builder.py).
\* One use is excepted, for the code leaves it undefined: the legacy switch's
\* numa_node=0 with a size that lists no nodes, which QEMU refuses.
CommandSound ==
  /\ \A i, j \in Options : cmd[i].id # << >> /\ cmd[i].id = cmd[j].id => i = j
  /\ \A i \in Options :
       /\ cmd[i].uses \subseteq Defined(Len(cmd)) \cup NoCell
       /\ cmd[i].bus \in {<< >>, Builtin} \cup Defined(i - 1)
  /\ \A i, j \in Options :
       cmd[i].slot # << >> /\ cmd[i].bus = cmd[j].bus /\ cmd[i].slot = cmd[j].slot => i = j

\* A vCPU runs on the host node its guest cell's memory is bound to, and each
\* vCPU belongs to exactly one cell (GuestNumaFeature.qemu_args and
\* vcpu_pin_map split the vCPUs on their own).
Cells == {i \in Options : cmd[i].uses # {} /\ cmd[i].cpus # {}}
CellOf(v) == {i \in Cells : v \in cmd[i].cpus}
MemoryOf(i) == {cmd[j].nodes : j \in {j \in Options : cmd[j].id \in cmd[i].uses}}

VcpusNearTheirMemory ==
  cmd # << >> /\ Numa # << >> =>
    /\ \A v \in 0..Resource.cpu - 1 : Cardinality(CellOf(v)) = 1
    /\ \A k \in 1..Len(vcpus) : \A i \in CellOf(k - 1) : \A nodes \in MemoryOf(i) :
         \E node \in nodes : vcpus[k] \in CpusOf(node)

\* No two threads share a CPU, and none is pinned outside what numactl confines
\* QEMU to, so the cores monitored are the cores used (pinned_cpus).
InNodes(cpus) == \A i \in 1..Len(cpus) : Numa # << >> => cpus[i] \in Confinement
VcpusApart == InNodes(vcpus) /\ \A i, j \in 1..Len(vcpus) : vcpus[i] = vcpus[j] => i = j
IothreadsApart ==
  /\ InNodes(ios) /\ \A i, j \in 1..Len(ios) : ios[i] = ios[j] => i = j
  /\ \A i \in 1..Len(vcpus), j \in 1..Len(ios) : vcpus[i] # ios[j]
PinnedApart == VcpusApart /\ IothreadsApart

\* A VM that does not fit its nodes fails before QEMU starts (the comment in
\* GuestNumaFeature.setup), unless --pin-base, which the set-up does not know
\* of, is what it does not fit with.
FitsBeforeBoot == At("pin_failed") => req.cli # NoBase
=============================================================================
