----------------------------- MODULE GpuHandover -----------------------------
(***************************************************************************)
(* The GPU tasks of modules/nvidia_cc/tasks/gpu.py next to the vm.start    *)
(* runs of VfioBinding: both move the same driver link and the same        *)
(* dynamic ids, and neither knows of the other.                            *)
(*                                                                         *)
(* VfioBinding's actions are taken as they are.  A task of this module is  *)
(* a process of its own that reads the link, and writes later.             *)
(***************************************************************************)
EXTENDS VfioBinding

CONSTANTS
  Task,       \* concurrent invocations of a gpu task
  Gpu,        \* gpu_pci of config.toml
  MaxTasks    \* bound on the tasks one invocation slot runs

ASSUME GpuConstantsOK ==
  /\ Gpu \in Dev /\ Task \cap Proc = {}
  /\ MaxTasks \in Nat

Nvidia == NativeOf[Gpu]

VARIABLES
  tpc,        \* where each task is
  op,         \* the task it is: bind_nvidia, unbind_nvidia, check
  held,       \* the local driver of the task, read from the link
  tasks,      \* tasks started
  tfaulted,   \* history: an operation of this task failed by itself
  loaded,     \* the nvidia module is loaded (drivers/nvidia exists)
  disturbed   \* history: the runs and tasks during which another one moved
              \* a device or changed the ids

taskVars == <<tpc, op, held, tasks, tfaulted, loaded>>
gvars    == <<vars, taskVars, disturbed>>

TPC == {"idle", "release", "remove_id", "load", "look", "bind", "scan", "query",
        "kept", "bound", "unbound", "shown", "left", "failed"}

Ended == {"kept", "bound", "unbound", "shown", "left", "failed"}

GTypeOK ==
  /\ TypeOK
  /\ tpc \in [Task -> TPC]
  /\ op \in [Task -> {"bind_nvidia", "unbind_nvidia", "check"}]
  /\ held \in [Task -> Bound \cup {NoDriver}]
  /\ tasks \in [Task -> 0 .. MaxTasks]
  /\ tfaulted \in [Task -> BOOLEAN]
  /\ loaded \in BOOLEAN /\ (~loaded => \A d \in Dev : driver[d] # Nvidia)
  /\ disturbed \subseteq Proc \cup Task

GInit ==
  /\ Init
  /\ tpc = [t \in Task |-> "idle"]
  /\ op = [t \in Task |-> "check"]
  /\ held = [t \in Task |-> NoDriver]
  /\ tasks = [t \in Task |-> 0]
  /\ tfaulted = [t \in Task |-> FALSE]
  /\ loaded \in BOOLEAN /\ (~loaded => \A d \in Dev : driver[d] # Nvidia)
  /\ disturbed = {}

TGoto(t, l) == tpc' = [tpc EXCEPT ![t] = l]

Active == {p \in Proc : pc[p] # "idle"} \cup {t \in Task : tpc[t] # "idle"}

\* What the other actors notice: a device moves, or the ids change.
MovesHost == driver' # driver \/ dynIds' # dynIds

Disturbs(a, starts) ==
  disturbed' = (disturbed \cup (IF MovesHost THEN Active \ {a} ELSE {}))
                 \ (IF starts THEN {a} ELSE {})

-----------------------------------------------------------------------------
\* _current_driver, and where the task goes with what it read.
Begin(t, name, next) ==
  /\ tpc[t] = "idle" /\ tasks[t] < MaxTasks
  /\ op' = [op EXCEPT ![t] = name]
  /\ held' = [held EXCEPT ![t] = driver[Gpu]]
  /\ tasks' = [tasks EXCEPT ![t] = @ + 1]
  /\ tfaulted' = [tfaulted EXCEPT ![t] = FALSE]
  /\ TGoto(t, next)
  /\ UNCHANGED <<vars, loaded>>

\* Mutant: the dynamic id is only removed from a GPU that had a driver.
BindNvidiaSkipsId(t) ==
  Begin(t, "bind_nvidia", CASE driver[Gpu] = Nvidia   -> "kept"
                            [] driver[Gpu] = NoDriver -> "load"
                            [] OTHER                  -> "release")

BindNvidia(t) ==
  Begin(t, "bind_nvidia", CASE driver[Gpu] = Nvidia   -> "kept"
                            [] driver[Gpu] = NoDriver -> "remove_id"
                            [] OTHER                  -> "release")

UnbindNvidia(t) ==
  Begin(t, "unbind_nvidia", IF driver[Gpu] = Nvidia THEN "release" ELSE "left")

\* check shows the driver, and queries the CC mode unless that driver is in
\* the way.
Check(t) ==
  Begin(t, "check", CASE driver[Gpu] = NoDriver -> "query"
                      [] driver[Gpu] = Vfio     -> "scan"
                      [] OTHER                  -> "shown")

\* _vfio_in_use, by what the processes have open at this later time.
Scan(t) ==
  /\ tpc[t] = "scan"
  /\ TGoto(t, IF InUse(Gpu) THEN "shown" ELSE "query")
  /\ UNCHANGED <<vars, op, held, tasks, tfaulted, loaded>>

\* Later again, the tool is run on whatever has become of the GPU.
Query(t) ==
  /\ tpc[t] = "query"
  /\ TGoto(t, "shown")
  /\ UNCHANGED <<vars, op, held, tasks, tfaulted, loaded>>

\* Mutant: the write goes to devices/<gpu>/driver/unbind, whatever it names.
ReleaseWhatever(t) ==
  /\ tpc[t] = "release"
  /\ driver[Gpu] # NoDriver /\ ~InUse(Gpu)
  /\ driver' = [driver EXCEPT ![Gpu] = NoDriver]
  /\ TGoto(t, IF op[t] = "bind_nvidia" THEN "remove_id" ELSE "unbound")
  /\ UNCHANGED <<dynIds, pc, idx, saved, orig, runVars, faulted>>
  /\ UNCHANGED <<op, held, tasks, tfaulted, loaded>>

\* Mutant: waits for the driver that was read to come back.
ReleaseAwaits(t) ==
  /\ tpc[t] = "release"
  /\ driver[Gpu] = held[t] /\ ~InUse(Gpu)
  /\ driver' = [driver EXCEPT ![Gpu] = NoDriver]
  /\ TGoto(t, IF op[t] = "bind_nvidia" THEN "remove_id" ELSE "unbound")
  /\ UNCHANGED <<dynIds, pc, idx, saved, orig, runVars, faulted>>
  /\ UNCHANGED <<op, held, tasks, tfaulted, loaded>>

\* The write goes to the unbind file of the driver that was read, and raises
\* when the GPU is not bound to that driver any more.
Release(t) ==
  /\ tpc[t] = "release"
  /\ \/ /\ driver[Gpu] = held[t] /\ ~InUse(Gpu)
        /\ driver' = [driver EXCEPT ![Gpu] = NoDriver]
        /\ TGoto(t, IF op[t] = "bind_nvidia" THEN "remove_id" ELSE "unbound")
     \/ /\ driver[Gpu] # held[t]
        /\ TGoto(t, "failed")
        /\ UNCHANGED driver
  /\ UNCHANGED <<dynIds, pc, idx, saved, orig, runVars, faulted>>
  /\ UNCHANGED <<op, held, tasks, tfaulted, loaded>>

\* get_pci_ids may fail.  An id that was never added is no error, and a device
\* that vfio-pci has keeps it.
RemoveId(t) ==
  /\ tpc[t] = "remove_id"
  /\ \/ /\ dynIds' = dynIds \ {ModelOf[Gpu]}
        /\ TGoto(t, "load")
        /\ UNCHANGED tfaulted
     \/ /\ TGoto(t, "failed")
        /\ tfaulted' = [tfaulted EXCEPT ![t] = TRUE]
        /\ UNCHANGED dynIds
  /\ UNCHANGED <<driver, pc, idx, saved, orig, runVars, faulted>>
  /\ UNCHANGED <<op, held, tasks, loaded>>

\* modprobe offers every driverless GPU to the new driver; it, or the probe of
\* a device, may fail.
LoadNvidia(t) ==
  /\ tpc[t] = "load"
  /\ \/ /\ loaded
        /\ TGoto(t, "look")
        /\ UNCHANGED <<driver, tfaulted, loaded>>
     \/ /\ ~loaded
        /\ loaded' = TRUE
        /\ \E S \in SUBSET {d \in Dev : NativeOf[d] = Nvidia /\ driver[d] = NoDriver} :
             driver' = [d \in Dev |-> IF d \in S THEN Nvidia ELSE driver[d]]
        /\ TGoto(t, "look")
        /\ UNCHANGED tfaulted
     \/ /\ ~loaded
        /\ TGoto(t, "failed")
        /\ tfaulted' = [tfaulted EXCEPT ![t] = TRUE]
        /\ UNCHANGED <<driver, loaded>>
  /\ UNCHANGED <<dynIds, pc, idx, saved, orig, runVars, faulted>>
  /\ UNCHANGED <<op, held, tasks>>

\* Mutant: binds without a second look at the driver.
LookNoMore(t) ==
  /\ tpc[t] = "look"
  /\ TGoto(t, "bind")
  /\ UNCHANGED <<vars, op, held, tasks, tfaulted, loaded>>

\* modprobe, or another process, may have bound the GPU by now.
LookAgain(t) ==
  /\ tpc[t] = "look"
  /\ TGoto(t, IF driver[Gpu] = Nvidia THEN "bound" ELSE "bind")
  /\ UNCHANGED <<vars, op, held, tasks, tfaulted, loaded>>

\* bind refuses a GPU that has a driver; the driver's probe may fail.
BindGpu(t) ==
  /\ tpc[t] = "bind"
  /\ \/ /\ driver[Gpu] = NoDriver
        /\ driver' = [driver EXCEPT ![Gpu] = Nvidia]
        /\ TGoto(t, "bound")
        /\ UNCHANGED tfaulted
     \/ /\ driver[Gpu] # NoDriver
        /\ TGoto(t, "failed")
        /\ UNCHANGED <<driver, tfaulted>>
     \/ /\ TGoto(t, "failed")
        /\ tfaulted' = [tfaulted EXCEPT ![t] = TRUE]
        /\ UNCHANGED driver
  /\ UNCHANGED <<dynIds, pc, idx, saved, orig, runVars, faulted>>
  /\ UNCHANGED <<op, held, tasks, loaded>>

\* The task returns or raises, and its locals are gone.
EndTask(t) ==
  /\ tpc[t] \in Ended
  /\ TGoto(t, "idle")
  /\ op' = [op EXCEPT ![t] = "check"]
  /\ held' = [held EXCEPT ![t] = NoDriver]
  /\ tfaulted' = [tfaulted EXCEPT ![t] = FALSE]
  /\ UNCHANGED <<vars, tasks, loaded>>

-----------------------------------------------------------------------------
StartTask(t) == BindNvidia(t) \/ UnbindNvidia(t) \/ Check(t)

TaskStep(t) ==
  \/ Scan(t) \/ Query(t) \/ Release(t) \/ RemoveId(t) \/ LoadNvidia(t) \/ LookAgain(t)
  \/ BindGpu(t)

VmStep(p) == Step(p) /\ Disturbs(p, FALSE) /\ UNCHANGED taskVars

GpuStep(t) == TaskStep(t) /\ Disturbs(t, FALSE)

GNext ==
  \/ \E p \in Proc :
       \/ VmStep(p)
       \/ Start(p) /\ Disturbs(p, TRUE) /\ UNCHANGED taskVars
       \/ End(p) /\ Disturbs(p, TRUE) /\ UNCHANGED taskVars
  \/ \E t \in Task :
       \/ GpuStep(t)
       \/ StartTask(t) /\ Disturbs(t, TRUE)
       \/ EndTask(t) /\ Disturbs(t, TRUE)

\* As in VfioBinding: what has started keeps executing, and every VM ends.
GFairness ==
  /\ \A p \in Proc : WF_gvars(VmStep(p))
  /\ \A t \in Task : WF_gvars(GpuStep(t))

GSpec     == GInit /\ [][GNext]_gvars
GLiveSpec == GSpec /\ GFairness

-----------------------------------------------------------------------------
\* The operation of actor a ran to its end with no failure of its own and with
\* no other actor moving the host's devices meanwhile.
Alone(a) == a \notin disturbed

\* A bind_nvidia that returns leaves the GPU on nvidia, whatever earlier runs
\* and tasks left behind.  One that had to bind it has also made vfio-pci forget
\* its model, so that a later probe cannot claim it; one that found the GPU on
\* nvidia already ("kept") returns before that, and an id that an earlier run
\* has added stays (bind_nvidia, _remove_vfio_dynamic_id).
BindHandsBack ==
  \A t \in Task : Alone(t) /\ ~tfaulted[t] =>
    /\ tpc[t] \in {"kept", "bound"} => driver[Gpu] = Nvidia
    /\ tpc[t] = "bound" => ModelOf[Gpu] \notin dynIds

\* What nothing disturbed works: a task fails by its own operations only, never
\* because of the state in which an earlier run or task left the GPU, and so
\* does vm.start, whose teardown restores the drivers (bind_nvidia,
\* unbind_nvidia, bind_device_to_vfio, unbind_device_from_vfio).
AloneRunWorks ==
  /\ \A t \in Task : tpc[t] = "failed" /\ Alone(t) => tfaulted[t]
  /\ \A p \in Proc : Alone(p) /\ ~faulted[p] =>
       /\ pc[p] # "failed"
       /\ pc[p] = "done" => \A d \in Listed(p) : home[p][d] \in Driver =>
                              driver[d] = home[p][d]

\* unbind_nvidia takes the GPU from nvidia only: a task that read nvidia never
\* pulls a GPU off vfio-pci that a run has bound since (the unbind files are
\* those of the driver that was read).
UnbindSparesVfio ==
  [][\A t \in Task : tpc[t] = "release" /\ op[t] = "unbind_nvidia"
       /\ tpc'[t] = "unbound" => driver[Gpu] = Nvidia]_gvars

\* Every task ends, and every run of vm.start: a task or a run that waits for
\* another VM to let go of the GPU gets it in the end, and no two block each
\* other for good (RunFinishes is VfioBinding's).
AllFinish ==
  /\ RunFinishes
  /\ \A t \in Task : tpc[t] # "idle" ~> tpc[t] \in Ended
=============================================================================
