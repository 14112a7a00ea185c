----------------------------- MODULE QemuCommand -----------------------------
(***************************************************************************)
(* The command line vm.start has QEMU run with (core/tasks/vm.py, the      *)
(* qemu_args of the features in core/tasks/qemu_builder.py): which options *)
(* there are, in which order, what each of them names and what it refers   *)
(* to.  The wording of an option, its sizes of caches, throttles and paths *)
(* are left out.                                                           *)
(*                                                                         *)
(* A request is the record of vm.start's arguments with its resources: the *)
(* fields type, attestation, direct, nic ("none", "tap", "mq"), blk        *)
(* ("none", "file", "device", "missing"), iothread, nvme, vfio (addresses, *)
(* in order), passthrough, legacy, trace, shared, edu, extra (the          *)
(* iothreads of the user's own arguments), pin, cli (--pin-base) and       *)
(* resource: numa, cpu, memory and pin_base.                               *)
(***************************************************************************)
EXTENDS VmResources

CONSTANTS
  Addresses,     \* of PCI devices
  HostDevices,   \* the drive and the GPU configured for this host, in that order
  NoBase         \* no --pin-base was given

-----------------------------------------------------------------------------
(***************************************************************************)
(* Options.  An id is the option that defines it, its name and its number; *)
(* "uses" are the ids an option refers to, "bus" the one it plugs into and *)
(* "slot" its chassis and slot there; "size", "nodes" and "cpus" are the   *)
(* gigabytes, host nodes and vCPUs of a memory object or NUMA cell.        *)
(***************************************************************************)
Id(option, name, n) == <<option, name, n>>
Plain  == [id |-> << >>, uses |-> {}, bus |-> << >>, slot |-> << >>, host |-> << >>,
           size |-> 0, nodes |-> {}, cpus |-> {}]
Builtin == Id("machine", "pcie.0", 0)

Def(id)          == [Plain EXCEPT !.id = id]
Use(ids)         == [Plain EXCEPT !.uses = ids]
Memory(id, size, nodes) == [Plain EXCEPT !.id = id, !.size = size, !.nodes = nodes]
Port(id, bus, chassis, slot) ==
  [Plain EXCEPT !.id = id, !.bus = bus, !.slot = <<chassis, slot>>]
HostDevice(device, bus, ids) ==
  [Plain EXCEPT !.host = <<device>>, !.bus = bus, !.uses = ids]

Object(name, n) == Id("object", name, n)
Device(name, n) == Id("device", name, n)
Drive(name, n)  == Id("drive", name, n)
Netdev(name, n) == Id("netdev", name, n)
GuestCell(n)    == Id("numa", "cells", n)     \* nodeid

Nodes(resource) == {resource.numa[c] : c \in 1..Len(resource.numa)}
If(condition, options) == IF condition THEN options ELSE << >>

-----------------------------------------------------------------------------
CpuFeature(resource) ==
  <<[Plain EXCEPT !.size = resource.memory, !.cpus = 0..resource.cpu - 1]>>

FlatMemoryFeature(resource) ==
  <<Memory(Object("ram", 1), resource.memory, Nodes(resource))>>

\* Mutant: the vCPUs dealt out to the cells in turn, not in blocks.
GuestNumaInTurn(resource) ==
  LET n == Len(resource.numa)
  IN  [i \in 1..n |->
         Memory(Object("numa_ram", i - 1), resource.memory \div n, {resource.numa[i]})]
      \o
      [i \in 1..n |->
         [Use({Object("numa_ram", i - 1)}) EXCEPT !.id = GuestCell(i - 1),
            !.cpus = {v \in 0..resource.cpu - 1 : v % n = i - 1}]]

\* One memory object per cell, on its host node, then one cell per object.
GuestNumaFeature(resource) ==
  LET n == Len(resource.numa)
      per == PerCell(resource.numa, resource.cpu)
  IN  [i \in 1..n |->
         Memory(Object("numa_ram", i - 1), resource.memory \div n, {resource.numa[i]})]
      \o
      [i \in 1..n |->
         [Use({Object("numa_ram", i - 1)}) EXCEPT !.id = GuestCell(i - 1),
            !.cpus = (i - 1) * per..i * per - 1]]

\* The machine takes its memory from ram1 only where there are no cells, and its
\* encryption from sev0 only for SNP.
AmdMachineFeature(confidential, flat) ==
  <<Use((IF flat THEN {Object("ram", 1)} ELSE {})
        \cup (IF confidential THEN {Object("sev", 0)} ELSE {}))>>
  \o If(confidential, <<Def(Object("sev", 0))>>)

\* The image is the first disk, for both ways to boot.
BootFeature(direct) == <<Def(Drive("q", 2)), Use({Drive("q", 2)})>>

UserNetFeature == <<Use({Netdev("net", 0)}), Def(Netdev("net", 0))>>

ConsoleFeature ==
  LET char == Id("chardev", "char", 0)
  IN  <<Plain, Def(char), Use({char}), [Use({char}) EXCEPT !.id = Device("vc", 0)]>>

SharedFolderFeature(tag) == <<Def(Id("mount", tag, 0))>>

\* idx counts the objects of the class that this process has made.
VirtioBlkFeature(idx, iothread) ==
  <<Def(Drive("qblk", idx))>>
  \o (IF iothread
      THEN <<Use({Drive("qblk", idx), Object("iothread_blk", idx)}),
             Def(Object("iothread_blk", idx))>>
      ELSE <<Use({Drive("qblk", idx)})>>)

VirtioNicFeature(idx) == <<Def(Netdev("en", idx)), Use({Netdev("en", idx)})>>

NvmeEmulationFeature(idx) ==
  <<Def(Drive("nvme_n1", idx)),
    Def(Device("nvme", idx)),
    [Use({Drive("nvme_n1", idx)}) EXCEPT !.bus = Device("nvme", idx)]>>

\* Mutant: every root port in the same slot.
VfioGroupOneSlot(devices, trace) ==
  <<Def(Object("iommufd", 0))>> \o If(trace, <<Plain>>)
  \o FlattenSeq([i \in 1..Len(devices) |->
       <<Port(Device("rp", i - 1), Builtin, 0, 0),
         HostDevice(devices[i], Device("rp", i - 1), {Object("iommufd", 0)})>>])

\* A root port of its own for every device, in one iommufd.
VfioGroupFeature(devices, trace) ==
  <<Def(Object("iommufd", 0))>> \o If(trace, <<Plain>>)
  \o FlattenSeq([i \in 1..Len(devices) |->
       <<Port(Device("rp", i - 1), Builtin, 0, i - 1),
         HostDevice(devices[i], Device("rp", i - 1), {Object("iommufd", 0)})>>])

\* One switch on a bridge of its own, a downstream port for every device.  The
\* bridge is put into the guest's first cell, numa_node=0, with cells or without.
VfioGroupLegacyFeature(devices, trace) ==
  If(trace, <<Plain>>)
  \o <<[Port(Device("pxb", 0), Builtin, 0, 64) EXCEPT !.slot = << >>, !.uses = {GuestCell(0)}],
       Port(Device("sw_rp", 0), Device("pxb", 0), 100, 0),
       [Def(Device("sw_up", 0)) EXCEPT !.bus = Device("sw_rp", 0)]>>
  \o FlattenSeq([i \in 1..Len(devices) |->
       <<Port(Device("sw_ds", i - 1), Device("sw_up", 0), 200 + i - 1, i - 1),
         HostDevice(devices[i], Device("sw_ds", i - 1), {})>>])

EduFeature == <<Plain>>

\* The user's own arguments, as far as the pinning sees them: iothreads.
ExtraCmdFeature(extra) == [i \in 1..extra |-> Def(Object("user_iothread", i))]

-----------------------------------------------------------------------------
\* The devices to pass through: those asked for, then the host's own unless they
\* are listed.
Vfio(req) ==
  req.vfio \o If(req.passthrough, Without(HostDevices, ToSet(req.vfio)))

\* The order of vm.start's checks does not matter: each of them raises ValueError.
Refused(req) ==
  \/ req.resource = NoResource
  \/ req.trace /\ Vfio(req) = << >>
  \/ req.type \notin {"amd", "snp", "host"}
  \/ req.legacy /\ req.type = "snp"
  \/ req.attestation /\ (req.type # "snp" \/ Vfio(req) # << >>)

\* GuestNumaFeature's constructor raises ValueError unless this holds.
SplitsEvenly(resource) == resource.numa # << >> => resource.cpu % Len(resource.numa) = 0

\* vm.start gives up a VM whose disk is not there, or whose user, asked whether
\* to overwrite a block device, does not say yes.
Declined(req, yes) ==
  \/ req.blk = "missing"
  \/ req.blk = "device" /\ ~yes

\* What vm.start puts together, feature after feature.
build_command(req, made) ==
  LET r == req.resource
      flat == r.numa = << >>
  IN  CpuFeature(r)
      \o (IF flat THEN FlatMemoryFeature(r) ELSE GuestNumaFeature(r))
      \o AmdMachineFeature(req.type = "snp", flat)
      \o BootFeature(req.direct) \o UserNetFeature \o ConsoleFeature
      \o SharedFolderFeature("share") \o If(req.shared, SharedFolderFeature("shared"))
      \o If(req.nic # "none", VirtioNicFeature(made + 1))
      \o If(req.blk \in {"file", "device"}, VirtioBlkFeature(made + 1, req.iothread))
      \o If(req.nvme, NvmeEmulationFeature(made + 1))
      \o If(Vfio(req) # << >>, IF req.legacy THEN VfioGroupLegacyFeature(Vfio(req), req.trace)
                                             ELSE VfioGroupFeature(Vfio(req), req.trace))
      \o If(req.edu, EduFeature) \o ExtraCmdFeature(req.extra)

=============================================================================
