----------------------------- MODULE VfioBinding -----------------------------
(***************************************************************************)
(* How vm.start moves host PCI devices to vfio-pci and back                *)
(* (core/tasks/utils/vfio.py, and the setup and teardown of                *)
(* VfioGroupFeature in core/tasks/qemu_builder.py).                        *)
(*                                                                         *)
(* Each process of Proc runs `vm.start --vfio-pcie ...` again and again;   *)
(* its list of devices is PciIds[p].  Every access to sysfs is a step of   *)
(* its own, so that the processes interleave between a check of the driver *)
(* link and the write that relies on it.  What the kernel does with a      *)
(* write to bind, unbind, new_id or drivers_probe is external code,        *)
(* modelled from the exceptions vfio.py expects of it.                     *)
(***************************************************************************)
EXTENDS Naturals, Sequences

CONSTANTS
  Dev,        \* PCI functions of the host
  Model,      \* vendor:device pairs
  Driver,     \* native drivers (nvme, nvidia, ...)
  Proc,       \* concurrent vm.start invocations
  Vfio,       \* the driver vfio-pci
  NoDriver,   \* Python's None: no driver link, or none saved
  Unset,      \* no entry in VfioGroupFeature.original_drivers
  ModelOf,    \* the vendor:device pair of a function
  NativeOf,   \* the native driver of a function
  PciIds,     \* VfioGroupFeature.pci_ids of each process
  MaxRuns     \* bound on the runs of one process

ASSUME ConstantsOK ==
  /\ Vfio \notin Driver /\ NoDriver \notin Driver /\ Unset \notin Driver
  /\ Vfio # NoDriver /\ Unset # NoDriver /\ Unset # Vfio
  /\ ModelOf \in [Dev -> Model]
  /\ NativeOf \in [Dev -> Driver]
  /\ PciIds \in [Proc -> Seq(Dev) \ {<<>>}]
  /\ MaxRuns \in Nat

VARIABLES
  driver,     \* target of /sys/bus/pci/devices/<dev>/driver
  dynIds,     \* ids added to vfio-pci through new_id
  pc,         \* where each process is
  idx,        \* position in pci_ids of the device being handled
  saved,      \* original_driver, the local of bind_device_to_vfio
  orig,       \* original_drivers of the run's VfioGroupFeature
  runs,       \* runs started
  home,       \* history: the drivers when the run started
  faulted     \* history: an operation of this run failed by itself

hostVars == <<driver, dynIds>>
runVars  == <<runs, home>>
vars     == <<driver, dynIds, pc, idx, saved, orig, runs, home, faulted>>

Bound == Driver \cup {Vfio}

PC == {"idle", "read", "unbind", "ids", "new_id", "bind", "ready", "running",
       "restore", "restore_unbind", "restore_bind", "probe", "done", "failed"}

Positions(p) == DOMAIN PciIds[p]
Listed(p)    == {PciIds[p][i] : i \in Positions(p)}
Cur(p)       == PciIds[p][idx[p]]

\* QEMU holds the VFIO file descriptors of every device of its list.  The
\* kernel lets no device leave vfio-pci while they are open.
InUse(d) == \E p \in Proc : pc[p] = "running" /\ d \in Listed(p)

Goto(p, l) == pc' = [pc EXCEPT ![p] = l]

-----------------------------------------------------------------------------
(***************************************************************************)
(* VfioGroupFeature.setup: bind_device_to_vfio for each device, in order.  *)
(***************************************************************************)

TypeOK ==
  /\ driver \in [Dev -> Bound \cup {NoDriver}]
  /\ dynIds \subseteq Model
  /\ pc \in [Proc -> PC]
  /\ idx \in [Proc -> Nat] /\ \A p \in Proc : idx[p] \in Positions(p)
  /\ saved \in [Proc -> Driver \cup {NoDriver}]
  /\ orig \in [Proc -> [Dev -> Driver \cup {NoDriver, Unset}]]
  /\ runs \in [Proc -> 0 .. MaxRuns]
  /\ home \in [Proc -> [Dev -> Bound \cup {NoDriver}]]
  /\ faulted \in [Proc -> BOOLEAN]

\* A device starts on its native driver or, after unbind_nvidia or on a host
\* without the driver module, on none.
Init ==
  /\ driver \in [Dev -> Driver \cup {NoDriver}]
  /\ \A d \in Dev : driver[d] \in {NativeOf[d], NoDriver}
  /\ dynIds = {}
  /\ pc = [p \in Proc |-> "idle"]
  /\ idx = [p \in Proc |-> 1]
  /\ saved = [p \in Proc |-> NoDriver]
  /\ orig = [p \in Proc |-> [d \in Dev |-> Unset]]
  /\ runs = [p \in Proc |-> 0]
  /\ home = [p \in Proc |-> driver]
  /\ faulted = [p \in Proc |-> FALSE]

\* A new feature object, with no original_drivers, and its setup begins.
Start(p) ==
  /\ pc[p] = "idle" /\ runs[p] < MaxRuns
  /\ Goto(p, "read")
  /\ idx' = [idx EXCEPT ![p] = 1]
  /\ orig' = [orig EXCEPT ![p] = [d \in Dev |-> Unset]]
  /\ runs' = [runs EXCEPT ![p] = @ + 1]
  /\ home' = [home EXCEPT ![p] = driver]
  /\ faulted' = [faulted EXCEPT ![p] = FALSE]
  /\ UNCHANGED <<hostVars, saved>>

\* bind_device_to_vfio returns o; setup goes on to the next device.
Return(p, o) ==
  /\ orig' = [orig EXCEPT ![p][Cur(p)] = o]
  /\ IF idx[p] = Len(PciIds[p])
       THEN Goto(p, "ready") /\ UNCHANGED idx
       ELSE Goto(p, "read") /\ idx' = [idx EXCEPT ![p] = @ + 1]

\* An exception leaves setup, and with it vm.start: the feature keeps no entry
\* for the current device and nothing calls teardown.
SetupRaises(p) == Goto(p, "failed") /\ UNCHANGED <<hostVars, idx, saved, orig>>

ReadDriver(p) ==
  /\ pc[p] = "read"
  /\ \/ /\ driver[Cur(p)] = Vfio
        /\ Return(p, NoDriver)
        /\ UNCHANGED saved
     \/ /\ driver[Cur(p)] # Vfio
        /\ saved' = [saved EXCEPT ![p] = driver[Cur(p)]]
        /\ Goto(p, IF driver[Cur(p)] = NoDriver THEN "ids" ELSE "unbind")
        /\ UNCHANGED <<idx, orig>>
  /\ UNCHANGED <<hostVars, runVars, faulted>>

\* Mutant: unbinds by vendor:device, as new_id selects, not by address.
UnbindModel(p) ==
  /\ pc[p] = "unbind" /\ driver[Cur(p)] # NoDriver
  /\ driver' = [d \in Dev |-> IF ModelOf[d] = ModelOf[Cur(p)] THEN NoDriver
                                                            ELSE driver[d]]
  /\ Goto(p, "ids")
  /\ UNCHANGED <<dynIds, idx, saved, orig, runVars, faulted>>

\* Mutant: waits for the driver link instead of raising when it has vanished.
UnbindAwaitsLink(p) ==
  /\ pc[p] = "unbind" /\ driver[Cur(p)] # NoDriver /\ ~InUse(Cur(p))
  /\ driver' = [driver EXCEPT ![Cur(p)] = NoDriver]
  /\ Goto(p, "ids")
  /\ UNCHANGED <<dynIds, idx, saved, orig, runVars, faulted>>

\* The write goes to driver/unbind, that is, to whatever driver the link names
\* by now; there is no such file once another process removed the link.
WriteUnbind(p) ==
  /\ pc[p] = "unbind"
  /\ \/ /\ driver[Cur(p)] = NoDriver
        /\ SetupRaises(p)
     \/ /\ driver[Cur(p)] # NoDriver /\ ~InUse(Cur(p))
        /\ driver' = [driver EXCEPT ![Cur(p)] = NoDriver]
        /\ Goto(p, "ids")
        /\ UNCHANGED <<dynIds, idx, saved, orig>>
  /\ UNCHANGED <<runVars, faulted>>

\* get_pci_ids runs lspci, then modprobe loads vfio-pci; either may fail.
LookUpIds(p) ==
  /\ pc[p] = "ids"
  /\ \/ /\ Goto(p, "new_id")
        /\ UNCHANGED <<hostVars, idx, saved, orig, faulted>>
     \/ /\ SetupRaises(p)
        /\ faulted' = [faulted EXCEPT ![p] = TRUE]
  /\ UNCHANGED runVars

\* new_id adds the id and probes every driverless device that has it, the
\* requested one among them; a probe that fails is not reported.  An id that
\* is there already is refused (FileExistsError) and probes nothing.
Claimable(m) == {d \in Dev : ModelOf[d] = m /\ driver[d] = NoDriver}

Claim(S) == driver' = [d \in Dev |-> IF d \in S THEN Vfio ELSE driver[d]]

\* Mutant: a refused id is taken for a success, without the write to bind.
NewIdRefusedReturns(p) ==
  /\ pc[p] = "new_id"
  /\ LET m == ModelOf[Cur(p)] IN
     \/ m \in dynIds /\ UNCHANGED hostVars
     \/ m \notin dynIds /\ dynIds' = dynIds \cup {m} /\ Claim(Claimable(m))
  /\ Return(p, saved[p])
  /\ UNCHANGED <<runVars, saved, faulted>>

\* Mutant: FileExistsError is not caught.
NewIdRefusedRaises(p) ==
  /\ pc[p] = "new_id"
  /\ LET m == ModelOf[Cur(p)] IN
     \/ m \in dynIds /\ SetupRaises(p)
     \/ /\ m \notin dynIds
        /\ dynIds' = dynIds \cup {m}
        /\ Claim(Claimable(m))
        /\ Return(p, saved[p])
  /\ UNCHANGED <<runVars, saved, faulted>>

WriteNewId(p) ==
  /\ pc[p] = "new_id"
  /\ LET d == Cur(p)  m == ModelOf[Cur(p)] IN
     \/ /\ m \in dynIds
        /\ Goto(p, "bind")
        /\ UNCHANGED <<hostVars, idx, orig, faulted>>
     \/ /\ m \notin dynIds
        /\ dynIds' = dynIds \cup {m}
        /\ \/ Claim(Claimable(m)) /\ UNCHANGED faulted
           \/ Claim(Claimable(m) \ {d}) /\ faulted' = [faulted EXCEPT ![p] = TRUE]
        /\ Return(p, saved[p])
  /\ UNCHANGED <<runVars, saved>>

\* bind wants a driverless device that vfio-pci matches, and raises otherwise.
WriteBind(p) ==
  /\ pc[p] = "bind"
  /\ \/ /\ driver[Cur(p)] = NoDriver /\ ModelOf[Cur(p)] \in dynIds
        /\ driver' = [driver EXCEPT ![Cur(p)] = Vfio]
        /\ Return(p, saved[p])
        /\ UNCHANGED <<dynIds, saved, faulted>>
     \/ /\ driver[Cur(p)] # NoDriver \/ ModelOf[Cur(p)] \notin dynIds
        /\ SetupRaises(p)
        /\ UNCHANGED faulted
     \/ /\ SetupRaises(p)
        /\ faulted' = [faulted EXCEPT ![p] = TRUE]
  /\ UNCHANGED runVars

-----------------------------------------------------------------------------
(***************************************************************************)
(* The VM runs, then teardown: unbind_device_from_vfio in reverse order.   *)
(***************************************************************************)

NoDuplicates(s) == \A i, j \in DOMAIN s : s[i] = s[j] => i = j

\* QEMU opens every device of its command line, once.
LaunchQemu(p) ==
  /\ pc[p] = "ready"
  /\ NoDuplicates(PciIds[p])
  /\ \A d \in Listed(p) : driver[d] = Vfio /\ ~InUse(d)
  /\ Goto(p, "running")
  /\ UNCHANGED <<hostVars, idx, saved, orig, runVars, faulted>>

\* The try block of vm.start ends: QEMU has exited, or never started.
LeaveTry(p) ==
  /\ pc[p] \in {"ready", "running"}
  /\ Goto(p, "restore")
  /\ idx' = [idx EXCEPT ![p] = Len(PciIds[p])]
  /\ UNCHANGED <<hostVars, saved, orig, runVars, faulted>>

\* Mutant: the loop over the devices runs once too often.
StepBackPastFirst(p) ==
  IF idx[p] = 0
    THEN Goto(p, "done") /\ UNCHANGED idx
    ELSE Goto(p, "restore") /\ idx' = [idx EXCEPT ![p] = @ - 1]

\* Mutant: the loop over the devices ends before the first one.
StepBackSkipsFirst(p) ==
  IF idx[p] <= 2
    THEN Goto(p, "done") /\ UNCHANGED idx
    ELSE Goto(p, "restore") /\ idx' = [idx EXCEPT ![p] = @ - 1]

\* Teardown turns to the previous device of the list.
StepBack(p) ==
  IF idx[p] = 1
    THEN Goto(p, "done") /\ UNCHANGED idx
    ELSE Goto(p, "restore") /\ idx' = [idx EXCEPT ![p] = @ - 1]

RestoreRead(p) ==
  /\ pc[p] = "restore"
  /\ \/ /\ orig[p][Cur(p)] \in {Unset, NoDriver} \/ driver[Cur(p)] # Vfio
        /\ StepBack(p)
     \/ /\ orig[p][Cur(p)] \in Driver /\ driver[Cur(p)] = Vfio
        /\ Goto(p, "restore_unbind")
        /\ UNCHANGED idx
  /\ UNCHANGED <<hostVars, saved, orig, runVars, faulted>>

\* A vanished driver link raises; the feature prints a warning and goes on.
RestoreUnbind(p) ==
  /\ pc[p] = "restore_unbind"
  /\ \/ /\ driver[Cur(p)] = NoDriver
        /\ StepBack(p)
        /\ UNCHANGED driver
     \/ /\ driver[Cur(p)] # NoDriver /\ ~InUse(Cur(p))
        /\ driver' = [driver EXCEPT ![Cur(p)] = NoDriver]
        /\ Goto(p, "restore_bind")
        /\ UNCHANGED idx
  /\ UNCHANGED <<dynIds, saved, orig, runVars, faulted>>

RestoreBind(p) ==
  /\ pc[p] = "restore_bind"
  /\ \/ /\ driver[Cur(p)] = NoDriver
        /\ driver' = [driver EXCEPT ![Cur(p)] = orig[p][Cur(p)]]
        /\ StepBack(p)
        /\ UNCHANGED faulted
     \/ /\ driver[Cur(p)] # NoDriver
        /\ Goto(p, "probe")
        /\ UNCHANGED <<driver, idx, faulted>>
     \/ /\ Goto(p, "probe")
        /\ faulted' = [faulted EXCEPT ![p] = TRUE]
        /\ UNCHANGED <<driver, idx>>
  /\ UNCHANGED <<dynIds, saved, orig, runVars>>

\* drivers_probe offers a driverless device to every driver that matches it,
\* vfio-pci among them as long as the id is one of its dynamic ids.
Matching(d) == {NativeOf[d]} \cup (IF ModelOf[d] \in dynIds THEN {Vfio} ELSE {})

DriversProbe(p) ==
  /\ pc[p] = "probe"
  /\ \/ /\ driver[Cur(p)] = NoDriver
        /\ \E b \in Matching(Cur(p)) : driver' = [driver EXCEPT ![Cur(p)] = b]
     \/ UNCHANGED driver
  /\ StepBack(p)
  /\ UNCHANGED <<dynIds, saved, orig, runVars, faulted>>

\* vm.start has returned or raised; the caller may start it again.
End(p) ==
  /\ pc[p] \in {"done", "failed"}
  /\ Goto(p, "idle")
  /\ UNCHANGED <<hostVars, idx, saved, orig, runVars, faulted>>

-----------------------------------------------------------------------------
\* The steps a started run takes on its own.
Step(p) ==
  \/ ReadDriver(p) \/ WriteUnbind(p) \/ LookUpIds(p)
  \/ WriteNewId(p) \/ WriteBind(p)
  \/ LaunchQemu(p) \/ LeaveTry(p)
  \/ RestoreRead(p) \/ RestoreUnbind(p) \/ RestoreBind(p) \/ DriversProbe(p)

Next == \E p \in Proc : Start(p) \/ Step(p) \/ End(p)

Spec == Init /\ [][Next]_vars

\* The interpreter keeps executing a started run, and every VM is ended at
\* some time: by its benchmark, its user or its own failure.
Fairness == \A p \in Proc : WF_vars(Step(p))

LiveSpec == Spec /\ Fairness

-----------------------------------------------------------------------------
(***************************************************************************)
(* What the runs check.                                                    *)
(***************************************************************************)

\* The lists a careful operator gives: no device twice in one, and no two
\* invocations that share a vendor:device pair.
SeparateLists ==
  /\ \A p \in Proc : NoDuplicates(PciIds[p])
  /\ \A p, q \in Proc : p # q =>
       \A d \in Listed(p), e \in Listed(q) : ModelOf[d] # ModelOf[e]

\* A run that reached the end of its teardown has put every listed device that
\* had a native driver back on it, unless a step of that same run failed by
\* itself: whatever the other runs did, whatever earlier runs left in the
\* dynamic ids, and whether or not QEMU ever started
\* (VfioGroupFeature.teardown, unbind_device_from_vfio).
RestoredHome ==
  \A p \in Proc : pc[p] = "done" /\ ~faulted[p] =>
    \A d \in Listed(p) : home[p][d] \in Driver => driver[d] = home[p][d]

\* When QEMU is about to be launched every listed device is on vfio-pci, also
\* one that bind_device_to_vfio reached through the refused new_id, unless a
\* probe failed (VfioGroupFeature.setup).
ReadyMeansBound ==
  \A p \in Proc : pc[p] \in {"ready", "running"} /\ ~faulted[p] =>
    \A d \in Listed(p) : driver[d] = Vfio

\* Setup raises only when one of its own operations failed, and never because
\* of where another run, or an earlier one, left a device
\* (bind_device_to_vfio, the writes to unbind and bind).
SetupFailsOnlyByFault ==
  \A p \in Proc : pc[p] = "failed" => faulted[p]

\* A device that no list names keeps its driver, whatever its model: the only
\* thing a run may do to it is to claim it for vfio-pci while it has none
\* (the write to new_id in bind_device_to_vfio).
OthersKeepTheirDriver ==
  [][\A d \in Dev : (\A p \in Proc : d \notin Listed(p)) =>
       \/ driver'[d] = driver[d]
       \/ driver[d] = NoDriver /\ driver'[d] = Vfio]_driver

\* Two runs that want the same devices, in whatever order, may spoil each
\* other's setup and may wait for each other's VM, but never block each other
\* for good: every started run gets to its end (the writes to unbind, which
\* the kernel blocks while a VM has the device open).
RunFinishes ==
  \A p \in Proc : pc[p] = "read" ~> pc[p] \in {"done", "failed"}
=============================================================================
