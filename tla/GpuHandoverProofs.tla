-------------------------- MODULE GpuHandoverProofs --------------------------
(***************************************************************************)
(* Proofs about GpuHandover, for any number of vm.start runs and of gpu    *)
(* tasks: what a task or a run promises when nobody disturbs it, whatever  *)
(* state the host was in when it began, and what it promises always.       *)
(***************************************************************************)
EXTENDS GpuHandover, VfioBindingProofs

(***************************************************************************)
(* Type correctness.  That no device is on nvidia before the module is     *)
(* loaded needs the drivers that the runs remember.                        *)
(***************************************************************************)

GTypes ==
  /\ tpc \in [Task -> TPC]
  /\ op \in [Task -> {"bind_nvidia", "unbind_nvidia", "check"}]
  /\ held \in [Task -> Bound \cup {NoDriver}]
  /\ tasks \in [Task -> 0 .. MaxTasks]
  /\ tfaulted \in [Task -> BOOLEAN]
  /\ loaded \in BOOLEAN
  /\ disturbed \subseteq Proc \cup Task
  /\ \A t \in Task : tpc[t] \in {"look", "bind"} => loaded

\* A driver that d may be bound to by now, other than vfio-pci.
Native(d, b) == b = NativeOf[d] /\ (b = Nvidia => loaded)

\* Devices are on, and runs remember, native drivers only, and those are loaded.
NativeOnly ==
  /\ \A d \in Dev : driver[d] \in {Vfio, NoDriver} \/ Native(d, driver[d])
  /\ \A p \in Proc, d \in Dev :
       orig[p][d] \in {NoDriver, Unset} \/ Native(d, orig[p][d])
  /\ \A p \in Proc : pc[p] \in {"unbind", "ids", "new_id", "bind"} =>
       saved[p] = NoDriver \/ Native(Cur(p), saved[p])
  /\ \A p \in Proc : pc[p] \in {"restore_unbind", "restore_bind", "probe"} =>
       orig[p][Cur(p)] \in Driver

Types == TypeOK /\ RestoresDriver /\ GTypes /\ NativeOnly

\* The constants of the GPU.
LEMMA GpuFacts ==
  /\ Gpu \in Dev /\ ModelOf[Gpu] \in Model /\ Nvidia \in Driver
  /\ NativeOf[Gpu] = Nvidia /\ Nvidia # Vfio /\ Nvidia # NoDriver
  BY ConstantsOK, GpuConstantsOK DEF Nvidia

\* The types together are those that the runs check.
LEMMA TypesImply == Types => GTypeOK
  <1> SUFFICES ASSUME Types PROVE GTypeOK
    OBVIOUS
  <1>1. ~loaded => \A d \in Dev : driver[d] # Nvidia
    BY GpuFacts DEF Types, NativeOnly, Native
  <1>2. QED BY <1>1 DEF Types, GTypes, GTypeOK

\* The initial values have their types.
LEMMA TypesInit == GInit => Types
  <1> SUFFICES ASSUME GInit PROVE Types
    OBVIOUS
  <1>1. TypeOK /\ RestoresDriver
    BY TypeInit DEF GInit
  <1>2. GTypes
    BY GpuConstantsOK DEF GInit, GTypes, TPC, Bound
  <1>3. NativeOnly
    <2>1. \A d \in Dev : driver[d] = NoDriver \/ Native(d, driver[d])
      BY DEF GInit, Init, Native
    <2>2. QED BY <2>1 DEF GInit, Init, NativeOnly
  <1>4. QED BY <1>1, <1>2, <1>3 DEF Types

\* What any step records of the disturbed is within the types.
LEMMA DisturbedType ==
  ASSUME GTypes, NEW a, NEW s \in BOOLEAN, Disturbs(a, s)
  PROVE  disturbed' \subseteq Proc \cup Task
  BY DEF GTypes, Disturbs, Active

\* A step of a run leaves the drivers native, those remembered included.
LEMMA RunKeepsNative ==
  ASSUME Types, NEW p \in Proc, Start(p) \/ Step(p) \/ End(p), loaded' = loaded
  PROVE  NativeOnly'
  <1> USE DEF Types, TypeOK, hostVars, runVars, Goto
  <1>f. Frame(p)
    BY Framed
  <1>0. Cur(p) \in Dev /\ \A q \in Proc : Cur(q) \in Dev
    BY PositionsStep DEF Cur
  <1>o. ASSUME /\ \A d \in Dev : \/ driver'[d] \in {Vfio, NoDriver}
                                 \/ Native(d, driver'[d])
               /\ \A d \in Dev : orig'[p][d] \in {NoDriver, Unset}
                                 \/ Native(d, orig'[p][d])
               /\ pc'[p] \in {"unbind", "ids", "new_id", "bind"} =>
                    saved'[p] = NoDriver \/ Native(Cur(p)', saved'[p])
               /\ pc'[p] \in {"restore_unbind", "restore_bind", "probe"} =>
                    (orig[p][Cur(p)])' \in Driver
        PROVE  NativeOnly'
    <2>1. ASSUME NEW q \in Proc, q # p
          PROVE  /\ pc'[q] = pc[q] /\ saved'[q] = saved[q]
                 /\ orig'[q] = orig[q] /\ Cur(q)' = Cur(q)
      BY <1>f, <2>1 DEF Frame, Cur
    <2>2. \A d \in Dev : driver'[d] \in {Vfio, NoDriver} \/ Native(d, driver[d])'
      BY <1>o DEF Native
    <2>3. \A q \in Proc, d \in Dev :
            orig'[q][d] \in {NoDriver, Unset} \/ Native(d, orig[q][d])'
      BY <1>o, <2>1 DEF NativeOnly, Native
    <2>4. ASSUME NEW q \in Proc, pc'[q] \in {"unbind", "ids", "new_id", "bind"}
          PROVE  saved'[q] = NoDriver \/ Native(Cur(q), saved[q])'
      <3>1. CASE q = p
        BY <1>o, <2>4, <3>1 DEF Native
      <3>2. CASE q # p
        BY <1>0, <2>1, <2>4, <3>2 DEF NativeOnly, Native
      <3>3. QED BY <3>1, <3>2
    <2>5. \A q \in Proc : pc'[q] \in {"restore_unbind", "restore_bind", "probe"} =>
            (orig[q][Cur(q)])' \in Driver
      BY <1>o, <2>1 DEF NativeOnly
    <2>6. QED BY <2>2, <2>3, <2>4, <2>5 DEF NativeOnly
  <1>s. StepBack(p) => pc'[p] \in {"done", "restore"}
    BY DEF StepBack
  <1>r. Return(p, NoDriver) \/ Return(p, saved[p]) => pc'[p] \in {"ready", "read"}
    BY DEF Return
  <1>1. CASE Start(p)
    BY <1>1, <1>o DEF Start, NativeOnly
  <1>2. CASE End(p) \/ LaunchQemu(p) \/ LeaveTry(p)
    BY <1>2, <1>o DEF End, LaunchQemu, LeaveTry, NativeOnly
  <1>3. CASE ReadDriver(p)
    <2>1. CASE driver[Cur(p)] = Vfio /\ Return(p, NoDriver) /\ UNCHANGED saved
      BY <1>3, <1>o, <1>r, <2>1 DEF ReadDriver, Return, NativeOnly
    <2>2. CASE /\ driver[Cur(p)] # Vfio /\ UNCHANGED <<idx, orig>>
               /\ saved' = [saved EXCEPT ![p] = driver[Cur(p)]]
               /\ Goto(p, IF driver[Cur(p)] = NoDriver THEN "ids" ELSE "unbind")
      <3>1. Cur(p)' = Cur(p) /\ driver' = driver
        BY <1>3, <2>2 DEF ReadDriver, Cur
      <3>2. QED BY <1>0, <1>o, <2>2, <3>1 DEF NativeOnly
    <2>3. QED BY <1>3, <2>1, <2>2 DEF ReadDriver
  <1>4. CASE WriteUnbind(p) \/ LookUpIds(p)
    <2>1. /\ Cur(p)' = Cur(p) /\ UNCHANGED <<saved, orig>>
          /\ driver' = driver \/ driver' = [driver EXCEPT ![Cur(p)] = NoDriver]
          /\ pc[p] \in {"unbind", "ids"} /\ pc'[p] \in {"ids", "new_id", "failed"}
      BY <1>4 DEF WriteUnbind, LookUpIds, SetupRaises, Cur
    <2>2. QED BY <1>0, <1>o, <2>1 DEF NativeOnly
  <1>5. CASE WriteNewId(p) \/ WriteBind(p)
    <2>1. CASE pc'[p] \in {"bind", "failed"} /\ UNCHANGED <<driver, idx, orig, saved>>
      <3>1. Cur(p)' = Cur(p) /\ pc[p] \in {"new_id", "bind"}
        BY <1>5, <2>1 DEF WriteNewId, WriteBind, Cur
      <3>2. QED BY <1>0, <1>o, <2>1, <3>1 DEF NativeOnly
    <2>2. CASE Return(p, saved[p]) /\ UNCHANGED saved
      <3>1. \A d \in Dev : driver'[d] = driver[d] \/ driver'[d] = Vfio
        BY <1>5, <2>2 DEF WriteNewId, WriteBind, Claim, SetupRaises
      <3>2. pc[p] \in {"new_id", "bind"}
        BY <1>5 DEF WriteNewId, WriteBind
      <3>3. \A d \in Dev : orig'[p][d] = orig[p][d]
                              \/ (d = Cur(p) /\ orig'[p][d] = saved[p])
        <4>1. orig' = [orig EXCEPT ![p][Cur(p)] = saved[p]]
          BY <2>2 DEF Return
        <4>2. QED BY <4>1, <1>0
      <3>4. QED BY <1>o, <1>r, <2>2, <3>1, <3>2, <3>3 DEF NativeOnly
    <2>3. QED BY <1>5, <2>1, <2>2 DEF WriteNewId, WriteBind, SetupRaises
  <1>6. CASE RestoreRead(p)
    <2>1. CASE StepBack(p)
      BY <1>6, <1>o, <1>s, <2>1 DEF RestoreRead, NativeOnly
    <2>2. CASE orig[p][Cur(p)] \in Driver /\ Goto(p, "restore_unbind") /\ UNCHANGED idx
      <3>1. Cur(p)' = Cur(p)
        BY <2>2 DEF Cur
      <3>2. QED BY <1>6, <1>o, <2>2, <3>1 DEF RestoreRead, NativeOnly
    <2>3. QED BY <1>6, <2>1, <2>2 DEF RestoreRead
  <1>7. CASE RestoreUnbind(p)
    <2>1. CASE StepBack(p) /\ UNCHANGED driver
      BY <1>7, <1>o, <1>s, <2>1 DEF RestoreUnbind, NativeOnly
    <2>2. CASE /\ driver' = [driver EXCEPT ![Cur(p)] = NoDriver]
               /\ Goto(p, "restore_bind") /\ UNCHANGED idx
      <3>1. Cur(p)' = Cur(p) /\ pc[p] = "restore_unbind" /\ orig' = orig
        BY <1>7, <2>2 DEF RestoreUnbind, Cur
      <3>2. QED BY <1>o, <2>2, <3>1 DEF NativeOnly
    <2>3. QED BY <1>7, <2>1, <2>2 DEF RestoreUnbind
  <1>8. CASE RestoreBind(p)
    <2>0. pc[p] = "restore_bind" /\ UNCHANGED <<orig, saved>>
      BY <1>8 DEF RestoreBind
    <2>1. CASE driver' = [driver EXCEPT ![Cur(p)] = orig[p][Cur(p)]] /\ StepBack(p)
      <3>1. Native(Cur(p), orig[p][Cur(p)])
        BY <1>0, <2>0, ConstantsOK DEF NativeOnly
      <3>2. QED BY <1>o, <1>s, <2>0, <2>1, <3>1 DEF NativeOnly
    <2>2. CASE Goto(p, "probe") /\ UNCHANGED <<driver, idx>>
      <3>1. Cur(p)' = Cur(p)
        BY <2>2 DEF Cur
      <3>2. QED BY <1>o, <2>0, <2>2, <3>1 DEF NativeOnly
    <2>3. QED BY <1>8, <2>1, <2>2 DEF RestoreBind
  <1>9. CASE DriversProbe(p)
    <2>0. pc[p] = "probe" /\ UNCHANGED <<orig, saved>> /\ StepBack(p)
      BY <1>9 DEF DriversProbe
    <2>1. Native(Cur(p), NativeOf[Cur(p)])
      BY <1>0, <2>0, ConstantsOK DEF NativeOnly, Native
    <2>2. \A d \in Dev : driver'[d] = driver[d] \/ driver'[d] = Vfio
                         \/ (d = Cur(p) /\ driver'[d] = NativeOf[d])
      <3>1. CASE UNCHANGED driver
        BY <3>1
      <3>2. CASE \E b \in Matching(Cur(p)) : driver' = [driver EXCEPT ![Cur(p)] = b]
        BY <1>0, <3>2 DEF Matching
      <3>3. QED BY <1>9, <3>1, <3>2 DEF DriversProbe
    <2>3. QED BY <1>o, <1>s, <2>0, <2>1, <2>2 DEF NativeOnly
  <1>10. QED
    BY <1>1, <1>2, <1>3, <1>4, <1>5, <1>6, <1>7, <1>8, <1>9 DEF Step

\* What a step of a task may do to the host: it takes devices from their
\* drivers, binds some to a loaded nvidia, and drops ids.
TaskMoves ==
  /\ UNCHANGED <<pc, idx, saved, orig, runs, home, faulted>>
  /\ driver' \in [Dev -> Bound \cup {NoDriver}]
  /\ \A d \in Dev : \/ driver'[d] \in {driver[d], NoDriver}
                    \/ driver'[d] = Nvidia /\ NativeOf[d] = Nvidia /\ loaded'
  /\ dynIds' \subseteq dynIds
  /\ loaded => loaded'

\* No step of a task does more, and its own variables keep their types.
LEMMA TaskKeepsTypes ==
  ASSUME Types, NEW t \in Task, NEW s \in BOOLEAN, Disturbs(t, s),
         StartTask(t) \/ TaskStep(t) \/ EndTask(t)
  PROVE  TaskMoves /\ GTypes'
  <1> USE DEF Types, TypeOK, GTypes, TPC, TaskMoves, vars, runVars, TGoto, Bound
  <1>0. disturbed' \subseteq Proc \cup Task /\ driver[Gpu] \in Bound \cup {NoDriver}
    BY DisturbedType, GpuFacts
  <1>1. CASE StartTask(t)
    <2>1. PICK name \in {"bind_nvidia", "unbind_nvidia", "check"},
               next \in {"kept", "remove_id", "release", "left", "scan", "query", "shown"} :
            Begin(t, name, next)
      BY <1>1 DEF StartTask, BindNvidia, UnbindNvidia, Check
    <2>2. QED BY <1>0, <2>1, GpuConstantsOK DEF Begin
  <1>2. CASE Scan(t) \/ Query(t) \/ LookAgain(t) \/ EndTask(t)
    BY <1>0, <1>2 DEF Scan, Query, LookAgain, EndTask
  <1>3. CASE Release(t)
    BY <1>0, <1>3 DEF Release
  <1>4. CASE RemoveId(t)
    BY <1>0, <1>4 DEF RemoveId
  <1>5. CASE LoadNvidia(t)
    <2>1. CASE \E S \in SUBSET {d \in Dev : NativeOf[d] = Nvidia /\ driver[d] = NoDriver} :
                 driver' = [d \in Dev |-> IF d \in S THEN Nvidia ELSE driver[d]]
      <3>1. /\ driver' \in [Dev -> Bound \cup {NoDriver}]
            /\ \A d \in Dev : \/ driver'[d] = driver[d]
                              \/ driver'[d] = Nvidia /\ NativeOf[d] = Nvidia
        BY <2>1, GpuFacts
      <3>2. QED BY <1>0, <1>5, <3>1 DEF LoadNvidia
    <2>2. CASE UNCHANGED driver
      BY <1>0, <1>5, <2>2 DEF LoadNvidia
    <2>3. QED BY <1>5, <2>1, <2>2 DEF LoadNvidia
  <1>6. CASE BindGpu(t)
    BY <1>0, <1>6, GpuFacts DEF BindGpu
  <1>7. QED BY <1>1, <1>2, <1>3, <1>4, <1>5, <1>6 DEF TaskStep

\* Such a step keeps the types of VfioBinding.
LEMMA TaskMovesTypes ==
  ASSUME Types, TaskMoves, GTypes'
  PROVE  Types'
  <1> USE DEF Types, TaskMoves
  <1>1. TypeOK' /\ RestoresDriver'
    BY DEF TypeOK, RestoresDriver, Cur
  <1>2. \A d \in Dev : driver'[d] \in {Vfio, NoDriver} \/ Native(d, driver[d])'
    BY DEF NativeOnly, Native
  <1>3. NativeOnly'
    BY <1>2 DEF NativeOnly, Native, Cur
  <1>4. QED BY <1>1, <1>3

\* A run's step keeps the types of the tasks.
LEMMA RunKeepsTypes ==
  ASSUME Types, NEW p \in Proc, Start(p) \/ Step(p) \/ End(p),
         NEW s \in BOOLEAN, Disturbs(p, s), UNCHANGED taskVars
  PROVE  Types'
  <1>1. TypeOK' /\ RestoresDriver'
    BY TypeNext DEF Next, Types
  <1>2. NativeOnly'
    BY RunKeepsNative DEF taskVars
  <1>3. GTypes'
    BY DisturbedType DEF Types, GTypes, taskVars
  <1>4. QED BY <1>1, <1>2, <1>3 DEF Types

\* The types are inductive.
LEMMA TypesNext == Types /\ [GNext]_gvars => Types'
  <1> SUFFICES ASSUME Types, [GNext]_gvars PROVE Types'
    OBVIOUS
  <1>1. ASSUME NEW p \in Proc,
               \/ VmStep(p)
               \/ Start(p) /\ Disturbs(p, TRUE) /\ UNCHANGED taskVars
               \/ End(p) /\ Disturbs(p, TRUE) /\ UNCHANGED taskVars
        PROVE  Types'
    BY <1>1, RunKeepsTypes DEF VmStep
  <1>2. ASSUME NEW t \in Task,
               \/ GpuStep(t)
               \/ StartTask(t) /\ Disturbs(t, TRUE)
               \/ EndTask(t) /\ Disturbs(t, TRUE)
        PROVE  Types'
    BY <1>2, TaskKeepsTypes, TaskMovesTypes DEF GpuStep
  <1>3. CASE UNCHANGED gvars
    BY <1>3 DEF gvars, vars, taskVars, Types, TypeOK, RestoresDriver, Cur, GTypes,
                NativeOnly, Native
  <1>4. QED BY <1>1, <1>2, <1>3 DEF GNext

\* Every variable keeps its type, and no device is ever on nvidia before its
\* module is loaded: not even teardown's drivers_probe puts one there (GpuHandover
\* as a whole).
THEOREM GpuTypeCorrect == GSpec => []GTypeOK
  <1>1. Types /\ [GNext]_gvars => Types'
    BY TypesNext
  <1>2. QED BY <1>1, TypesInit, TypesImply, PTL DEF GSpec
-----------------------------------------------------------------------------
(***************************************************************************)
(* What the undisturbed promise.  AloneTask and AloneRun say, for every    *)
(* state of a task and of a run, what nobody else has changed since it     *)
(* looked.                                                                 *)
(***************************************************************************)

AloneTask(t) ==
  /\ tpc[t] = "release" => driver[Gpu] = held[t]
  /\ tpc[t] \in {"remove_id", "load", "bind"} => driver[Gpu] = NoDriver
  /\ tpc[t] = "look" => driver[Gpu] \in {NoDriver, Nvidia}
  /\ tpc[t] \in {"kept", "bound"} => driver[Gpu] = Nvidia
  /\ tpc[t] \in {"load", "look", "bind", "bound"} => ModelOf[Gpu] \notin dynIds
  /\ tpc[t] = "failed" => tfaulted[t]

\* unbind_nvidia goes on with a GPU that it has seen on nvidia only.
ReadNvidia ==
  \A t \in Task : tpc[t] = "release" /\ op[t] = "unbind_nvidia" => held[t] = Nvidia

AloneInv ==
  /\ Types /\ ReadNvidia
  /\ \A t \in Task : Alone(t) => AloneTask(t)
  /\ \A p \in Proc : Alone(p) /\ ~faulted[p] => ProgressOf(p)

\* Whoever is active and stays undisturbed has seen nothing of the host move.
LEMMA Unseen ==
  ASSUME NEW a, NEW b, NEW s \in BOOLEAN, Disturbs(a, s), b # a, b \in Active,
         b \notin disturbed'
  PROVE  b \notin disturbed /\ driver' = driver /\ dynIds' = dynIds
  BY DEF Disturbs, MovesHost

\* Only a start or an end forgets that an actor was disturbed.
LEMMA DisturbedSticks ==
  ASSUME NEW a, Disturbs(a, FALSE), a \notin disturbed'
  PROVE  a \notin disturbed
  BY DEF Disturbs

\* A task that nobody disturbs keeps what it knows, whoever takes a step.
LEMMA AloneTaskOthers ==
  ASSUME Types, NEW t \in Task, Alone(t) => AloneTask(t),
         NEW a, a # t, NEW s \in BOOLEAN, Disturbs(a, s), Alone(t)',
         tpc'[t] = tpc[t], held'[t] = held[t], tfaulted'[t] = tfaulted[t]
  PROVE  AloneTask(t)'
  <1>1. CASE tpc[t] = "idle"
    BY <1>1 DEF AloneTask
  <1>2. CASE tpc[t] # "idle"
    <2>1. t \in Active
      BY <1>2 DEF Active
    <2>2. Alone(t) /\ driver' = driver /\ dynIds' = dynIds
      BY <2>1, Unseen DEF Alone
    <2>3. QED BY <2>2 DEF AloneTask
  <1>3. QED BY <1>1, <1>2

\* So does a run.
LEMMA AloneRunOthers ==
  ASSUME Types, NEW p \in Proc, Alone(p) /\ ~faulted[p] => ProgressOf(p),
         NEW a, a # p, NEW s \in BOOLEAN, Disturbs(a, s), Alone(p)', ~faulted'[p],
         pc'[p] = pc[p], idx'[p] = idx[p], saved'[p] = saved[p],
         orig'[p] = orig[p], home'[p] = home[p], faulted'[p] = faulted[p]
  PROVE  ProgressOf(p)'
  <1>1. CASE pc[p] = "idle"
    BY <1>1 DEF ProgressOf, SetupPC, TeardownPC
  <1>2. CASE pc[p] # "idle"
    <2>1. p \in Active
      BY <1>2 DEF Active
    <2>2. Alone(p) /\ driver' = driver /\ dynIds' = dynIds
      BY <2>1, Unseen DEF Alone
    <2>3. ProgressOf(p)
      BY <2>2
    <2>4. QED
      BY <2>2, <2>3 DEF ProgressOf, Split, Taken, AtHome, SavedHome, Cur
  <1>3. QED BY <1>1, <1>2

\* A task knows the driver that it has just read.
LEMMA AloneTaskStarts ==
  ASSUME Types, NEW t \in Task, StartTask(t)
  PROVE  AloneTask(t)'
  <1> USE DEF Types, GTypes, TGoto, vars
  <1>1. CASE BindNvidia(t)
    BY <1>1, GpuFacts DEF BindNvidia, Begin, AloneTask
  <1>2. CASE UnbindNvidia(t)
    BY <1>2, GpuFacts DEF UnbindNvidia, Begin, AloneTask
  <1>3. CASE Check(t)
    BY <1>3, GpuFacts DEF Check, Begin, AloneTask
  <1>4. QED BY <1>1, <1>2, <1>3 DEF StartTask

\* Its steps do what it knows they will: the driver that it has read is still
\* there to be released, and a GPU that it has released is free to be bound.
LEMMA AloneTaskSteps ==
  ASSUME Types, NEW t \in Task, TaskStep(t), AloneTask(t)
  PROVE  AloneTask(t)'
  <1> USE DEF Types, TypeOK, GTypes, TGoto, vars, AloneTask
  <1>1. CASE Scan(t) \/ Query(t) \/ LookAgain(t)
    BY <1>1, GpuFacts DEF Scan, Query, LookAgain
  <1>2. CASE Release(t)
    BY <1>2, GpuFacts DEF Release
  <1>3. CASE RemoveId(t)
    BY <1>3, GpuFacts DEF RemoveId
  <1>4. CASE LoadNvidia(t)
    <2>1. driver'[Gpu] \in {NoDriver, Nvidia} /\ dynIds' = dynIds
      BY <1>4, GpuFacts DEF LoadNvidia
    <2>2. QED BY <1>4, <2>1 DEF LoadNvidia
  <1>5. CASE BindGpu(t)
    BY <1>5, GpuFacts DEF BindGpu
  <1>6. QED BY <1>1, <1>2, <1>3, <1>4, <1>5 DEF TaskStep

\* What a task does, it does to its own locals only.
LEMMA TaskFramed ==
  ASSUME Types, NEW t \in Task, StartTask(t) \/ TaskStep(t) \/ EndTask(t),
         NEW u \in Task, u # t
  PROVE  /\ tpc'[u] = tpc[u] /\ held'[u] = held[u] /\ op'[u] = op[u]
         /\ tfaulted'[u] = tfaulted[u]
  <1> USE DEF Types, GTypes, TGoto, vars
  <1>1. CASE StartTask(t)
    BY <1>1 DEF StartTask, BindNvidia, UnbindNvidia, Check, Begin
  <1>2. CASE Scan(t) \/ Query(t) \/ LookAgain(t) \/ EndTask(t) \/ Release(t)
    BY <1>2 DEF Scan, Query, LookAgain, EndTask, Release
  <1>3. CASE RemoveId(t) \/ LoadNvidia(t) \/ BindGpu(t)
    BY <1>3 DEF RemoveId, LoadNvidia, BindGpu
  <1>4. QED BY <1>1, <1>2, <1>3 DEF TaskStep

\* unbind_nvidia stays one that has read nvidia until it writes.
LEMMA ReadNvidiaStep ==
  ASSUME Types, ReadNvidia, NEW t \in Task, StartTask(t) \/ TaskStep(t) \/ EndTask(t)
  PROVE  ReadNvidia'
  <1> USE DEF Types, GTypes, TGoto, vars
  <1> SUFFICES ASSUME NEW u \in Task, tpc'[u] = "release", op'[u] = "unbind_nvidia"
               PROVE  held'[u] = Nvidia
    BY DEF ReadNvidia, Nvidia
  <1>1. CASE u # t
    BY <1>1, TaskFramed DEF ReadNvidia
  <1>2. CASE u = t /\ StartTask(t)
    BY <1>2 DEF StartTask, BindNvidia, UnbindNvidia, Check, Begin
  <1>3. CASE u = t /\ (Scan(t) \/ Query(t) \/ LookAgain(t) \/ EndTask(t) \/ Release(t))
    BY <1>3 DEF Scan, Query, LookAgain, EndTask, Release
  <1>4. CASE u = t /\ (RemoveId(t) \/ LoadNvidia(t) \/ BindGpu(t))
    BY <1>4 DEF RemoveId, LoadNvidia, BindGpu
  <1>5. QED BY <1>1, <1>2, <1>3, <1>4 DEF TaskStep

\* In the beginning nobody has looked at anything.
LEMMA AloneInit == GInit => AloneInv
  <1> SUFFICES ASSUME GInit PROVE AloneInv
    OBVIOUS
  <1>1. Types
    BY TypesInit
  <1>2. ReadNvidia /\ \A t \in Task : AloneTask(t)
    BY DEF GInit, ReadNvidia, AloneTask
  <1>3. Progress
    BY ProgressInit DEF GInit
  <1>4. QED BY <1>1, <1>2, <1>3 DEF AloneInv, Progress

\* A step of a task keeps the invariant.
LEMMA AloneTaskNext ==
  ASSUME AloneInv, NEW t \in Task,
         \/ GpuStep(t)
         \/ StartTask(t) /\ Disturbs(t, TRUE)
         \/ EndTask(t) /\ Disturbs(t, TRUE)
  PROVE  AloneInv'
  <1> USE DEF AloneInv
  <1>0. PICK s \in BOOLEAN : Disturbs(t, s)
    BY DEF GpuStep
  <1>1. StartTask(t) \/ TaskStep(t) \/ EndTask(t)
    BY DEF GpuStep
  <1>2. TaskMoves /\ Types' /\ ReadNvidia'
    BY <1>0, <1>1, TaskKeepsTypes, TaskMovesTypes, ReadNvidiaStep
  <1>3. ASSUME NEW u \in Task, Alone(u)'
        PROVE  AloneTask(u)'
    <2>1. CASE u # t
      BY <1>0, <1>1, <1>3, <2>1, TaskFramed, AloneTaskOthers
    <2>2. CASE u = t /\ StartTask(t)
      BY <2>2, AloneTaskStarts
    <2>3. CASE u = t /\ GpuStep(t)
      BY <1>3, <2>3, DisturbedSticks, AloneTaskSteps DEF GpuStep, Alone
    <2>4. CASE u = t /\ EndTask(t)
      BY <2>4 DEF EndTask, TGoto, AloneTask, Types, GTypes
    <2>5. QED BY <2>1, <2>2, <2>3, <2>4
  <1>4. ASSUME NEW p \in Proc, Alone(p)', ~faulted'[p]
        PROVE  ProgressOf(p)'
    <2>1. t # p
      BY GpuConstantsOK
    <2>2. QED BY <1>0, <1>2, <1>4, <2>1, AloneRunOthers DEF TaskMoves
  <1>5. QED BY <1>2, <1>3, <1>4

\* So does a step of a run, if no list names a device twice.
LEMMA AloneRunNext ==
  ASSUME AloneInv, NEW p \in Proc, NoDuplicates(PciIds[p]),
         \/ VmStep(p)
         \/ Start(p) /\ Disturbs(p, TRUE) /\ UNCHANGED taskVars
         \/ End(p) /\ Disturbs(p, TRUE) /\ UNCHANGED taskVars
  PROVE  AloneInv'
  <1> USE DEF AloneInv
  <1>0. PICK s \in BOOLEAN : Disturbs(p, s)
    BY DEF VmStep
  <1>1. (Start(p) \/ Step(p) \/ End(p)) /\ UNCHANGED taskVars
    BY DEF VmStep
  <1>t. TypeOK
    BY DEF Types
  <1>2. Types' /\ ReadNvidia'
    BY <1>0, <1>1, RunKeepsTypes DEF ReadNvidia, taskVars
  <1>3. ASSUME NEW t \in Task, Alone(t)'
        PROVE  AloneTask(t)'
    <2>1. p # t
      BY GpuConstantsOK
    <2>2. QED BY <1>0, <1>1, <1>3, <2>1, AloneTaskOthers DEF taskVars
  <1>4. ASSUME NEW q \in Proc, Alone(q)', ~faulted'[q]
        PROVE  ProgressOf(q)'
    <2>1. CASE q # p
      BY <1>0, <1>1, <1>t, <1>4, <2>1, Framed, AloneRunOthers DEF Frame
    <2>2. CASE q = p /\ Start(p)
      BY <1>t, <2>2, ProgressStart
    <2>3. CASE q = p /\ VmStep(p)
      <3>1. ProgressOf(p)
        BY <1>t, <1>4, <2>3, DisturbedSticks, FaultSticks DEF VmStep, Alone
      <3>2. QED
        BY <1>t, <1>4, <2>3, <3>1, ProgressSetup, ProgressTeardown DEF VmStep, Step
    <2>4. CASE q = p /\ End(p)
      <3>1. pc'[p] = "idle"
        BY <1>t, <2>4 DEF End, Goto, TypeOK
      <3>2. QED BY <2>4, <3>1 DEF ProgressOf, SetupPC, TeardownPC
    <2>5. QED BY <1>1, <2>1, <2>2, <2>3, <2>4
  <1>5. QED BY <1>2, <1>3, <1>4

\* The invariant holds in every reachable state.
LEMMA AloneHolds ==
  ASSUME \A p \in Proc : NoDuplicates(PciIds[p])
  PROVE  GSpec => []AloneInv
  <1>1. AloneInv /\ [GNext]_gvars => AloneInv'
    <2> SUFFICES ASSUME AloneInv, [GNext]_gvars PROVE AloneInv'
      OBVIOUS
    <2>1. CASE GNext
      BY <2>1, AloneTaskNext, AloneRunNext DEF GNext
    <2>2. CASE UNCHANGED gvars
      <3>1. Types'
        BY <2>2, TypesNext DEF AloneInv
      <3>2. ReadNvidia' /\ \A t \in Task : Alone(t)' => AloneTask(t)'
        BY <2>2 DEF gvars, vars, taskVars, AloneInv, ReadNvidia, Alone, AloneTask
      <3>3. \A p \in Proc : Alone(p)' /\ ~faulted'[p] => ProgressOf(p)'
        BY <2>2 DEF gvars, vars, AloneInv, Alone, ProgressOf, Split, Taken, AtHome,
                    SavedHome, Cur
      <3>4. QED BY <3>1, <3>2, <3>3 DEF AloneInv
    <2>3. QED BY <2>1, <2>2
  <1>2. QED BY <1>1, AloneInit, PTL DEF GSpec

\* bind_nvidia, undisturbed and without a failure of its own, ends with the GPU
\* on nvidia, whatever it found, and if it had to bind the GPU itself, with the
\* model forgotten by vfio-pci, whatever earlier runs had added (bind_nvidia).
THEOREM HandsBack ==
  ASSUME \A p \in Proc : NoDuplicates(PciIds[p])
  PROVE  GSpec => []BindHandsBack
  <1>1. AloneInv => BindHandsBack
    BY DEF AloneInv, AloneTask, BindHandsBack
  <1>2. QED BY <1>1, AloneHolds, PTL

\* Undisturbed, a task fails by its own operations only, and vm.start brings up
\* and takes home its devices, whatever earlier runs and tasks have left on the
\* host (bind_nvidia, unbind_nvidia, VfioGroupFeature).
THEOREM AloneWorks ==
  ASSUME \A p \in Proc : NoDuplicates(PciIds[p])
  PROVE  GSpec => []AloneRunWorks
  <1>1. AloneInv => AloneRunWorks
    <2> SUFFICES ASSUME AloneInv PROVE AloneRunWorks
      OBVIOUS
    <2>1. \A t \in Task : tpc[t] = "failed" /\ Alone(t) => tfaulted[t]
      BY DEF AloneInv, AloneTask
    <2>2. \A p \in Proc : Alone(p) /\ ~faulted[p] =>
            /\ pc[p] # "failed"
            /\ pc[p] = "done" => \A d \in Listed(p) : home[p][d] \in Driver =>
                                   driver[d] = home[p][d]
      BY DEF AloneInv, ProgressOf, AtHome, Listed
    <2>3. QED BY <2>1, <2>2 DEF AloneRunWorks
  <1>2. QED BY <1>1, AloneHolds, PTL

\* unbind_nvidia never takes the GPU from another driver than nvidia, whoever
\* disturbs it (unbind_nvidia).
THEOREM SparesVfio == GSpec => UnbindSparesVfio
  <1> DEFINE Spared == \A t \in Task : tpc[t] = "release" /\ op[t] = "unbind_nvidia"
                         /\ tpc'[t] = "unbound" => driver[Gpu] = Nvidia
  <1>1. Types /\ ReadNvidia /\ [GNext]_gvars => ReadNvidia'
    <2> SUFFICES ASSUME Types, ReadNvidia, [GNext]_gvars PROVE ReadNvidia'
      OBVIOUS
    <2>1. ASSUME UNCHANGED taskVars PROVE ReadNvidia'
      BY <2>1 DEF taskVars, ReadNvidia
    <2>2. ASSUME NEW t \in Task, StartTask(t) \/ TaskStep(t) \/ EndTask(t)
          PROVE  ReadNvidia'
      BY <2>2, ReadNvidiaStep
    <2>3. QED BY <2>1, <2>2 DEF GNext, VmStep, GpuStep, gvars
  <1>2. Types /\ ReadNvidia /\ [GNext]_gvars => [Spared]_gvars
    <2> SUFFICES ASSUME Types, ReadNvidia, GNext, NEW t \in Task, tpc[t] = "release",
                        op[t] = "unbind_nvidia", tpc'[t] = "unbound"
                 PROVE  driver[Gpu] = Nvidia
      OBVIOUS
    <2> USE DEF Types, GTypes, TGoto, vars
    <2>1. CASE UNCHANGED taskVars
      BY <2>1 DEF taskVars
    <2>2. ASSUME NEW u \in Task, StartTask(u) \/ TaskStep(u) \/ EndTask(u)
          PROVE  driver[Gpu] = Nvidia
      <3>1. u = t
        BY <2>2, TaskFramed
      <3>2. CASE Release(t)
        BY <3>2 DEF Release, ReadNvidia
      <3>3. CASE ~Release(t)
        BY <2>2, <3>1, <3>3 DEF StartTask, BindNvidia, UnbindNvidia, Check, Begin,
             EndTask, Ended, TaskStep, Scan, Query, RemoveId, LoadNvidia, LookAgain, BindGpu
      <3>4. QED BY <3>2, <3>3
    <2>3. QED BY <2>1, <2>2 DEF GNext, VmStep, GpuStep
  <1>3. GInit => ReadNvidia
    BY AloneInit DEF AloneInv
  <1>4. Types /\ [GNext]_gvars => Types'
    BY TypesNext
  <1>5. QED BY <1>1, <1>2, <1>3, <1>4, TypesInit, PTL DEF GSpec, UnbindSparesVfio
=============================================================================
