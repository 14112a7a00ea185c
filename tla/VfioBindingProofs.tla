-------------------------- MODULE VfioBindingProofs --------------------------
(***************************************************************************)
(* Proofs about VfioBinding: for any set of invocations with separate      *)
(* lists, of any length, over any devices, teardown brings every device    *)
(* home.                                                                   *)
(***************************************************************************)
EXTENDS VfioBinding, TLAPS

(***************************************************************************)
(* Type correctness.                                                       *)
(***************************************************************************)

\* A position of the list, its end and the neighbours that Return and StepBack
\* go to are positions of the list.
LEMMA PositionsStep ==
  ASSUME NEW p \in Proc, NEW i \in Positions(p)
  PROVE  /\ Len(PciIds[p]) \in Nat \ {0}
         /\ Positions(p) = 1 .. Len(PciIds[p])
         /\ 1 \in Positions(p) /\ Len(PciIds[p]) \in Positions(p)
         /\ i # Len(PciIds[p]) => i + 1 \in Positions(p)
         /\ i # 1 => i - 1 \in Positions(p)
         /\ Positions(p) \subseteq Nat
         /\ PciIds[p][i] \in Dev
  BY ConstantsOK DEF Positions

\* No list is empty.
LEMMA FirstPosition ==
  ASSUME NEW p \in Proc
  PROVE  1 \in Positions(p)
  BY ConstantsOK DEF Positions

\* What a step of p leaves alone, for every other process.
Frame(p) ==
  \A q \in Proc : q # p =>
    /\ pc'[q] = pc[q] /\ idx'[q] = idx[q] /\ saved'[q] = saved[q]
    /\ orig'[q] = orig[q] /\ home'[q] = home[q] /\ faulted'[q] = faulted[q]

\* A new run starts with values of the right types.
LEMMA TypeStart ==
  ASSUME TypeOK, NEW p \in Proc, Start(p)
  PROVE  TypeOK'
  BY ConstantsOK, FirstPosition DEF TypeOK, Start, Goto, PC, hostVars, Bound, Positions

\* The driver that teardown binds a device back to is one that setup saved.
RestoresDriver ==
  \A p \in Proc : pc[p] \in {"restore_unbind", "restore_bind"} =>
    orig[p][Cur(p)] \in Driver

\* Every step of a run keeps the types; the first device has no predecessor, and
\* the last one no successor.
LEMMA TypeStep ==
  ASSUME TypeOK, RestoresDriver, NEW p \in Proc, Step(p)
  PROVE  TypeOK'
  <1> USE DEF TypeOK, hostVars, runVars, Bound, PC, Goto
  <1>0. /\ idx[p] \in Positions(p) /\ Cur(p) \in Dev /\ ModelOf[Cur(p)] \in Model
        /\ NativeOf[Cur(p)] \in Driver
        /\ driver[Cur(p)] \in Driver \cup {Vfio, NoDriver}
    BY PositionsStep, ConstantsOK DEF Cur
  <1>r. ASSUME NEW o \in Driver \cup {NoDriver}, Return(p, o)
        PROVE  /\ orig' \in [Proc -> [Dev -> Driver \cup {NoDriver, Unset}]]
               /\ pc' \in [Proc -> PC]
               /\ idx' \in [Proc -> Nat] /\ \A q \in Proc : idx'[q] \in Positions(q)
    <2>1. orig' \in [Proc -> [Dev -> Driver \cup {NoDriver, Unset}]]
      BY <1>r, <1>0 DEF Return
    <2>2. CASE idx[p] = Len(PciIds[p])
      BY <1>r, <2>1, <2>2 DEF Return
    <2>3. CASE idx[p] # Len(PciIds[p])
      <3>1. idx[p] + 1 \in Positions(p)
        BY <2>3, <1>0, PositionsStep
      <3>2. idx' = [idx EXCEPT ![p] = @ + 1] /\ pc' = [pc EXCEPT ![p] = "read"]
        BY <1>r, <2>3 DEF Return
      <3>3. QED BY <2>1, <3>1, <3>2
    <2>4. QED BY <2>2, <2>3
  <1>s. ASSUME StepBack(p)
        PROVE  /\ pc' \in [Proc -> PC]
               /\ idx' \in [Proc -> Nat] /\ \A q \in Proc : idx'[q] \in Positions(q)
    <2>1. CASE idx[p] = 1
      BY <1>s, <2>1 DEF StepBack
    <2>2. CASE idx[p] # 1
      <3>1. idx[p] - 1 \in Positions(p) /\ idx[p] - 1 \in Nat
        BY <2>2, <1>0, PositionsStep
      <3>2. idx' = [idx EXCEPT ![p] = @ - 1] /\ pc' = [pc EXCEPT ![p] = "restore"]
        BY <1>s, <2>2 DEF StepBack
      <3>3. QED BY <3>1, <3>2
    <2>3. QED BY <2>1, <2>2
  <1>1. CASE ReadDriver(p)
    <2>1. CASE driver[Cur(p)] = Vfio /\ Return(p, NoDriver) /\ UNCHANGED saved
      BY <1>1, <2>1, <1>r DEF ReadDriver
    <2>2. CASE driver[Cur(p)] # Vfio /\ UNCHANGED <<idx, orig>>
               /\ saved' = [saved EXCEPT ![p] = driver[Cur(p)]]
               /\ Goto(p, IF driver[Cur(p)] = NoDriver THEN "ids" ELSE "unbind")
      BY <1>1, <2>2, <1>0 DEF ReadDriver
    <2>3. QED BY <1>1, <2>1, <2>2 DEF ReadDriver
  <1>2. CASE WriteUnbind(p)
    BY <1>2, <1>0 DEF WriteUnbind, SetupRaises
  <1>3. CASE LookUpIds(p)
    BY <1>3 DEF LookUpIds, SetupRaises
  <1>4. CASE WriteNewId(p)
    <2>1. CASE ModelOf[Cur(p)] \in dynIds /\ Goto(p, "bind")
               /\ UNCHANGED <<hostVars, idx, orig, faulted>>
      BY <1>4, <2>1 DEF WriteNewId
    <2>2. CASE /\ dynIds' = dynIds \cup {ModelOf[Cur(p)]}
               /\ \/ Claim(Claimable(ModelOf[Cur(p)])) /\ UNCHANGED faulted
                  \/ /\ Claim(Claimable(ModelOf[Cur(p)]) \ {Cur(p)})
                     /\ faulted' = [faulted EXCEPT ![p] = TRUE]
               /\ Return(p, saved[p])
      <3>1. driver' \in [Dev -> Bound \cup {NoDriver}] /\ dynIds' \subseteq Model
            /\ faulted' \in [Proc -> BOOLEAN]
        BY <2>2, <1>0 DEF Claim
      <3>2. QED BY <1>4, <2>2, <3>1, <1>r DEF WriteNewId
    <2>3. QED BY <1>4, <2>1, <2>2 DEF WriteNewId
  <1>5. CASE WriteBind(p)
    <2>1. CASE /\ driver' = [driver EXCEPT ![Cur(p)] = Vfio]
               /\ Return(p, saved[p]) /\ UNCHANGED <<dynIds, saved, faulted>>
      BY <1>5, <2>1, <1>0, <1>r DEF WriteBind
    <2>2. CASE SetupRaises(p)
      BY <1>5, <2>2 DEF WriteBind, SetupRaises
    <2>3. QED BY <1>5, <2>1, <2>2 DEF WriteBind
  <1>6. CASE LaunchQemu(p)
    BY <1>6 DEF LaunchQemu
  <1>7. CASE LeaveTry(p)
    BY <1>7, <1>0, PositionsStep DEF LeaveTry
  <1>8. CASE RestoreRead(p)
    <2>1. CASE StepBack(p)
      BY <1>8, <2>1, <1>s DEF RestoreRead
    <2>2. CASE Goto(p, "restore_unbind") /\ UNCHANGED idx
      BY <1>8, <2>2 DEF RestoreRead
    <2>3. QED BY <1>8, <2>1, <2>2 DEF RestoreRead
  <1>9. CASE RestoreUnbind(p)
    <2>1. CASE StepBack(p) /\ UNCHANGED driver
      BY <1>9, <2>1, <1>s DEF RestoreUnbind
    <2>2. CASE /\ driver' = [driver EXCEPT ![Cur(p)] = NoDriver]
               /\ Goto(p, "restore_bind") /\ UNCHANGED idx
      BY <1>9, <2>2, <1>0 DEF RestoreUnbind
    <2>3. QED BY <1>9, <2>1, <2>2 DEF RestoreUnbind
  <1>10. CASE RestoreBind(p)
    <2>1. CASE /\ pc[p] = "restore_bind"
               /\ driver' = [driver EXCEPT ![Cur(p)] = orig[p][Cur(p)]]
               /\ StepBack(p) /\ UNCHANGED faulted
      <3>1. orig[p][Cur(p)] \in Driver
        BY <2>1 DEF RestoresDriver
      <3>2. QED BY <1>10, <2>1, <3>1, <1>s, <1>0 DEF RestoreBind
    <2>2. CASE Goto(p, "probe") /\ UNCHANGED <<driver, idx>>
      BY <1>10, <2>2 DEF RestoreBind
    <2>3. QED BY <1>10, <2>1, <2>2 DEF RestoreBind
  <1>11. CASE DriversProbe(p)
    <2>1. driver' \in [Dev -> Bound \cup {NoDriver}]
      BY <1>11, <1>0 DEF DriversProbe, Matching
    <2>2. StepBack(p) /\ UNCHANGED <<dynIds, saved, orig, runVars, faulted>>
      BY <1>11 DEF DriversProbe
    <2>3. QED BY <2>1, <2>2, <1>s
  <1>12. QED
    BY <1>1, <1>2, <1>3, <1>4, <1>5, <1>6, <1>7, <1>8, <1>9, <1>10, <1>11 DEF Step

\* A step of p changes no variable of another process but the shared drivers.
LEMMA Framed ==
  ASSUME TypeOK, NEW p \in Proc, Start(p) \/ Step(p) \/ End(p)
  PROVE  Frame(p)
  <1> USE DEF TypeOK, Frame, Goto, hostVars, runVars
  <1>1. CASE Start(p)
    BY <1>1 DEF Start
  <1>2. CASE End(p)
    BY <1>2 DEF End
  <1>3. CASE ReadDriver(p) \/ WriteUnbind(p) \/ LookUpIds(p)
    BY <1>3 DEF ReadDriver, WriteUnbind, LookUpIds, Return, SetupRaises
  <1>4. CASE WriteNewId(p) \/ WriteBind(p)
    BY <1>4 DEF WriteNewId, WriteBind, Return, SetupRaises
  <1>5. CASE LaunchQemu(p) \/ LeaveTry(p)
    BY <1>5 DEF LaunchQemu, LeaveTry
  <1>6. CASE RestoreRead(p) \/ RestoreUnbind(p) \/ RestoreBind(p) \/ DriversProbe(p)
    BY <1>6 DEF RestoreRead, RestoreUnbind, RestoreBind, DriversProbe, StepBack
  <1>7. QED BY <1>1, <1>2, <1>3, <1>4, <1>5, <1>6 DEF Step

\* Teardown reaches its writes only for a device with a saved driver.
LEMMA RestoresDriverStep ==
  ASSUME TypeOK, RestoresDriver, NEW p \in Proc, Start(p) \/ Step(p) \/ End(p)
  PROVE  RestoresDriver'
  <1> USE DEF TypeOK, Goto, hostVars, runVars
  <1> SUFFICES ASSUME NEW q \in Proc, pc'[q] \in {"restore_unbind", "restore_bind"}
               PROVE  (orig[q][Cur(q)])' \in Driver
    BY DEF RestoresDriver
  <1>1. CASE q # p
    BY <1>1, Framed DEF Frame, RestoresDriver, Cur
  <1>2. CASE q = p
    <2>1. CASE RestoreRead(p)
      BY <1>2, <2>1 DEF RestoreRead, StepBack, Cur
    <2>2. CASE RestoreUnbind(p)
      BY <1>2, <2>2 DEF RestoreUnbind, StepBack, RestoresDriver, Cur
    <2>3. CASE RestoreBind(p) \/ DriversProbe(p)
      BY <1>2, <2>3 DEF RestoreBind, DriversProbe, StepBack
    <2>4. CASE Start(p) \/ End(p) \/ LaunchQemu(p) \/ LeaveTry(p)
      BY <1>2, <2>4 DEF Start, End, LaunchQemu, LeaveTry
    <2>5. CASE ReadDriver(p) \/ WriteUnbind(p) \/ LookUpIds(p)
      BY <1>2, <2>5 DEF ReadDriver, WriteUnbind, LookUpIds, Return, SetupRaises
    <2>6. CASE WriteNewId(p) \/ WriteBind(p)
      BY <1>2, <2>6 DEF WriteNewId, WriteBind, Return, SetupRaises
    <2>7. QED BY <2>1, <2>2, <2>3, <2>4, <2>5, <2>6 DEF Step
  <1>3. QED BY <1>1, <1>2

\* The initial values have their types, and nothing is being restored.
LEMMA TypeInit == Init => TypeOK /\ RestoresDriver
  BY ConstantsOK, FirstPosition
     DEF Init, TypeOK, RestoresDriver, Bound, PC, Positions

\* The types are inductive together with RestoresDriver.
LEMMA TypeNext == TypeOK /\ RestoresDriver /\ [Next]_vars => TypeOK' /\ RestoresDriver'
  <1> SUFFICES ASSUME TypeOK, RestoresDriver, [Next]_vars
               PROVE  TypeOK' /\ RestoresDriver'
    OBVIOUS
  <1>1. ASSUME NEW p \in Proc, Start(p)
        PROVE  TypeOK' /\ RestoresDriver'
    BY <1>1, TypeStart, RestoresDriverStep
  <1>2. ASSUME NEW p \in Proc, Step(p)
        PROVE  TypeOK' /\ RestoresDriver'
    BY <1>2, TypeStep, RestoresDriverStep
  <1>3. ASSUME NEW p \in Proc, End(p)
        PROVE  TypeOK' /\ RestoresDriver'
    <2>1. TypeOK'
      BY <1>3 DEF End, TypeOK, Goto, PC, hostVars, runVars
    <2>2. QED BY <1>3, <2>1, RestoresDriverStep
  <1>4. CASE UNCHANGED vars
    BY <1>4 DEF vars, TypeOK, RestoresDriver, Cur
  <1>5. QED BY <1>1, <1>2, <1>3, <1>4 DEF Next

\* Every variable keeps its type: positions stay within the lists, and the
\* drivers written back to sysfs are drivers (VfioBinding as a whole).
THEOREM TypeCorrect == Spec => []TypeOK
  <1>1. Init => TypeOK /\ RestoresDriver
    BY TypeInit
  <1>2. TypeOK /\ RestoresDriver /\ [Next]_vars => (TypeOK /\ RestoresDriver)'
    BY TypeNext
  <1>3. QED BY <1>1, <1>2, PTL DEF Spec
-----------------------------------------------------------------------------
(***************************************************************************)
(* Every device comes home.  RestoredHome speaks of the last state of a    *)
(* run only; the inductive invariant Progress says, for every state of a   *)
(* run without a failure of its own, which devices of the list it has      *)
(* taken, which it has not touched or has given back, and what it          *)
(* remembers about the current one.                                        *)
(***************************************************************************)

\* d is on vfio-pci, and original_drivers knows where it came from.
Taken(p, d) ==
  driver[d] = Vfio /\ (home[p][d] \in Driver => orig[p][d] = home[p][d])

\* d is on the native driver it had when the run started, if it had one.
AtHome(p, d) == home[p][d] \in Driver => driver[d] = home[p][d]

SavedHome(p, d) == home[p][d] \in Driver => saved[p] = home[p][d]

SetupPC    == {"read", "unbind", "ids", "new_id", "bind"}
TeardownPC == {"restore", "restore_unbind", "restore_bind", "probe"}

Split(p) ==
  \A j \in Positions(p) :
    /\ j < idx[p] => Taken(p, PciIds[p][j])
    /\ j > idx[p] => AtHome(p, PciIds[p][j])

ProgressOf(p) ==
  /\ pc[p] \in SetupPC \cup TeardownPC => Split(p)
  /\ pc[p] = "read" => AtHome(p, Cur(p))
  /\ pc[p] = "unbind" => /\ SavedHome(p, Cur(p))
                         /\ driver[Cur(p)] # NoDriver
  /\ pc[p] \in {"ids", "new_id", "bind"} => /\ SavedHome(p, Cur(p))
                                            /\ driver[Cur(p)] = NoDriver
  /\ pc[p] = "bind" => ModelOf[Cur(p)] \in dynIds
  /\ pc[p] \in {"ready", "running"} => \A j \in Positions(p) : Taken(p, PciIds[p][j])
  /\ pc[p] \in {"restore", "restore_unbind"} => Taken(p, Cur(p))
  /\ pc[p] = "restore_bind" =>
       /\ driver[Cur(p)] = NoDriver
       /\ home[p][Cur(p)] \in Driver => orig[p][Cur(p)] = home[p][Cur(p)]
  /\ pc[p] = "done" => \A j \in Positions(p) : AtHome(p, PciIds[p][j])
  /\ pc[p] \notin {"probe", "failed"}

Progress == \A p \in Proc : ~faulted[p] => ProgressOf(p)

\* A step of p leaves the devices of the other lists, and the ids that vfio-pci
\* has got, alone: this is where the lists must be separate.
LEMMA Isolation ==
  ASSUME TypeOK, RestoresDriver, SeparateLists,
         NEW p \in Proc, Start(p) \/ Step(p) \/ End(p),
         NEW q \in Proc, q # p
  PROVE  /\ \A d \in Listed(q) : driver'[d] = driver[d]
         /\ dynIds \subseteq dynIds'
  <1> USE DEF TypeOK, hostVars, runVars
  <1>0. /\ Cur(p) \in Dev /\ Cur(p) \in Listed(p)
        /\ Listed(q) \subseteq Dev
        /\ \A d \in Listed(q) : ModelOf[d] # ModelOf[Cur(p)]
    <2>1. Cur(p) \in Dev /\ Cur(p) \in Listed(p) /\ Listed(q) \subseteq Dev
      BY PositionsStep DEF Cur, Listed
    <2>2. \A d \in Listed(q) : ModelOf[d] # ModelOf[Cur(p)]
      BY <2>1 DEF SeparateLists
    <2>3. QED BY <2>1, <2>2
  <1>1. CASE Start(p) \/ End(p) \/ LaunchQemu(p) \/ LeaveTry(p)
    BY <1>1 DEF Start, End, LaunchQemu, LeaveTry
  <1>2. CASE ReadDriver(p) \/ LookUpIds(p) \/ RestoreRead(p)
    BY <1>2 DEF ReadDriver, LookUpIds, RestoreRead, SetupRaises
  <1>3. CASE WriteNewId(p)
    BY <1>3, <1>0 DEF WriteNewId, Claim, Claimable
  <1>4. CASE WriteUnbind(p) \/ WriteBind(p)
    BY <1>4, <1>0 DEF WriteUnbind, WriteBind, SetupRaises
  <1>5. CASE RestoreUnbind(p) \/ RestoreBind(p) \/ DriversProbe(p)
    BY <1>5, <1>0 DEF RestoreUnbind, RestoreBind, DriversProbe
  <1>6. QED BY <1>1, <1>2, <1>3, <1>4, <1>5 DEF Step

\* A step of p does not disturb how far another run is with its own list.
LEMMA ProgressOfOthers ==
  ASSUME TypeOK, RestoresDriver, SeparateLists, Progress,
         NEW p \in Proc, Start(p) \/ Step(p) \/ End(p),
         NEW q \in Proc, q # p, ~faulted'[q]
  PROVE  ProgressOf(q)'
  <1>1. /\ \A d \in Listed(q) : driver'[d] = driver[d]
        /\ dynIds \subseteq dynIds'
    BY Isolation
  <1>2. /\ pc'[q] = pc[q] /\ idx'[q] = idx[q] /\ saved'[q] = saved[q]
        /\ orig'[q] = orig[q] /\ home'[q] = home[q] /\ faulted'[q] = faulted[q]
    BY Framed DEF Frame
  <1>3. \A j \in Positions(q) : PciIds[q][j] \in Listed(q)
    BY DEF Listed
  <1>4. Cur(q) \in Listed(q) /\ Cur(q)' = Cur(q)
    BY <1>2, <1>3 DEF Cur, TypeOK
  <1>5. \A d \in Listed(q) :
          /\ Taken(q, d) => Taken(q, d)'
          /\ AtHome(q, d) => AtHome(q, d)'
          /\ SavedHome(q, d) => SavedHome(q, d)'
    BY <1>1, <1>2 DEF Taken, AtHome, SavedHome
  <1>6. Split(q) => Split(q)'
    BY <1>2, <1>3, <1>5 DEF Split
  <1>7. ProgressOf(q)
    BY <1>2 DEF Progress
  <1>8. QED BY <1>1, <1>2, <1>3, <1>4, <1>5, <1>6, <1>7 DEF ProgressOf

\* What Return does to a run whose current device is on vfio-pci now.
LEMMA ReturnProgress ==
  ASSUME TypeOK, NEW p \in Proc, NoDuplicates(PciIds[p]), NEW o \in Driver \cup {NoDriver},
         Split(p), Return(p, o), home' = home,
         driver' \in [Dev -> Bound \cup {NoDriver}],
         \A d \in Listed(p) \ {Cur(p)} :
           driver[d] # NoDriver => driver'[d] = driver[d],
         driver'[Cur(p)] = Vfio,
         home[p][Cur(p)] \in Driver => o = home[p][Cur(p)]
  PROVE  ProgressOf(p)'
  <1> DEFINE n == Len(PciIds[p])
  <1>i. PICK i : i = idx[p]
    OBVIOUS
  <1>0. /\ i \in Positions(p) /\ Positions(p) = 1 .. n /\ n \in Nat \ {0}
        /\ Cur(p) = PciIds[p][i] /\ Cur(p) \in Dev
        /\ \A j \in Positions(p) : PciIds[p][j] \in Dev /\ PciIds[p][j] \in Listed(p)
    BY <1>i, PositionsStep DEF Cur, TypeOK, Listed
  <1>1. \A j \in Positions(p) : j # i => PciIds[p][j] # Cur(p)
    BY <1>0 DEF NoDuplicates, Positions
  <1>2. /\ orig'[p][Cur(p)] = o
        /\ \A d \in Dev : d # Cur(p) => orig'[p][d] = orig[p][d]
    BY <1>0 DEF Return, TypeOK
  <1>3. Taken(p, PciIds[p][i])'
    BY <1>0, <1>2 DEF Taken
  <1>4. ASSUME NEW j \in Positions(p), j < i
        PROVE  Taken(p, PciIds[p][j])'
    <2>1. Taken(p, PciIds[p][j]) /\ PciIds[p][j] # Cur(p)
      BY <1>i, <1>0, <1>1, <1>4 DEF Split
    <2>2. driver'[PciIds[p][j]] = Vfio
      BY <1>0, <2>1, ConstantsOK DEF Taken
    <2>3. QED BY <1>0, <1>2, <2>1, <2>2 DEF Taken
  <1>5. ASSUME NEW j \in Positions(p), j > i
        PROVE  AtHome(p, PciIds[p][j])'
    <2>1. AtHome(p, PciIds[p][j]) /\ PciIds[p][j] # Cur(p)
      BY <1>i, <1>0, <1>1, <1>5 DEF Split
    <2>2. QED BY <1>0, <2>1, ConstantsOK DEF AtHome
  <1>6. CASE i = n
    <2>1. pc'[p] = "ready"
      BY <1>i, <1>6 DEF Return, Goto, TypeOK
    <2>2. \A j \in Positions(p) : Taken(p, PciIds[p][j])'
      BY <1>0, <1>3, <1>4, <1>6
    <2>3. QED BY <2>1, <2>2 DEF ProgressOf, SetupPC, TeardownPC
  <1>7. CASE i # n
    <2>1. pc'[p] = "read" /\ idx'[p] = i + 1 /\ i + 1 \in Positions(p)
      BY <1>i, <1>0, <1>7 DEF Return, Goto, TypeOK
    <2>2. Split(p)'
      BY <1>0, <1>3, <1>4, <1>5, <2>1 DEF Split
    <2>3. AtHome(p, Cur(p))'
      BY <1>0, <1>5, <2>1 DEF Cur
    <2>4. QED BY <2>1, <2>2, <2>3 DEF ProgressOf, SetupPC, TeardownPC
  <1>8. QED BY <1>6, <1>7

\* What StepBack does to a run whose current device is home now.
LEMMA StepBackProgress ==
  ASSUME TypeOK, NEW p \in Proc, NoDuplicates(PciIds[p]),
         Split(p), StepBack(p), home' = home, orig' = orig,
         \A d \in Listed(p) \ {Cur(p)} : driver'[d] = driver[d],
         home[p][Cur(p)] \in Driver => driver'[Cur(p)] = home[p][Cur(p)]
  PROVE  ProgressOf(p)'
  <1> DEFINE n == Len(PciIds[p])
  <1>i. PICK i : i = idx[p]
    OBVIOUS
  <1>0. /\ i \in Positions(p) /\ Positions(p) = 1 .. n /\ n \in Nat \ {0}
        /\ Cur(p) = PciIds[p][i] /\ Cur(p) \in Dev
        /\ \A j \in Positions(p) : PciIds[p][j] \in Dev /\ PciIds[p][j] \in Listed(p)
    BY <1>i, PositionsStep DEF Cur, TypeOK, Listed
  <1>1. \A j \in Positions(p) : j # i => PciIds[p][j] # Cur(p)
    BY <1>0 DEF NoDuplicates, Positions
  <1>2. AtHome(p, PciIds[p][i])'
    BY <1>0 DEF AtHome
  <1>3. ASSUME NEW j \in Positions(p), j < i
        PROVE  Taken(p, PciIds[p][j])'
    BY <1>i, <1>0, <1>1, <1>3 DEF Split, Taken
  <1>4. ASSUME NEW j \in Positions(p), j > i
        PROVE  AtHome(p, PciIds[p][j])'
    BY <1>i, <1>0, <1>1, <1>4 DEF Split, AtHome
  <1>5. CASE i = 1
    <2>1. pc'[p] = "done"
      BY <1>i, <1>5 DEF StepBack, Goto, TypeOK
    <2>2. \A j \in Positions(p) : AtHome(p, PciIds[p][j])'
      BY <1>0, <1>2, <1>4, <1>5
    <2>3. QED BY <2>1, <2>2 DEF ProgressOf, SetupPC, TeardownPC
  <1>6. CASE i # 1
    <2>1. pc'[p] = "restore" /\ idx'[p] = i - 1 /\ i - 1 \in Positions(p)
      BY <1>i, <1>0, <1>6 DEF StepBack, Goto, TypeOK
    <2>2. Split(p)'
      BY <1>0, <1>2, <1>3, <1>4, <2>1 DEF Split
    <2>3. Taken(p, Cur(p))'
      BY <1>0, <1>3, <2>1 DEF Cur
    <2>4. QED BY <2>1, <2>2, <2>3 DEF ProgressOf, SetupPC, TeardownPC
  <1>7. QED BY <1>5, <1>6

\* A new run has taken none of its devices.
LEMMA ProgressStart ==
  ASSUME TypeOK, NEW p \in Proc, Start(p)
  PROVE  ProgressOf(p)'
  <1>1. pc'[p] = "read" /\ home'[p] = driver /\ driver' = driver /\ idx'[p] = 1
    BY DEF Start, Goto, TypeOK, hostVars
  <1>2. \A d \in Dev : AtHome(p, d)'
    BY <1>1 DEF AtHome
  <1>3. \A j \in Positions(p) : PciIds[p][j] \in Dev /\ ~(j < 1)
    BY PositionsStep
  <1>4. Split(p)' /\ AtHome(p, Cur(p))'
    BY <1>1, <1>2, <1>3, FirstPosition DEF Split, Cur
  <1>5. QED BY <1>1, <1>4 DEF ProgressOf, SetupPC, TeardownPC

\* A step of setup that moves on within the handling of the current device.
LEMMA SplitKept ==
  ASSUME TypeOK, NEW p \in Proc, NoDuplicates(PciIds[p]), Split(p),
         UNCHANGED <<idx, orig, home>>,
         \A d \in Listed(p) \ {Cur(p)} : driver'[d] = driver[d]
  PROVE  Split(p)'
  <1>1. \A j \in Positions(p) : PciIds[p][j] \in Listed(p)
    BY DEF Listed
  <1>2. \A j \in Positions(p) : j # idx[p] => PciIds[p][j] # Cur(p)
    BY DEF NoDuplicates, Positions, Cur, TypeOK
  <1>3. idx[p] \in Nat /\ Positions(p) \subseteq Nat
    BY PositionsStep DEF TypeOK
  <1>4. QED BY <1>1, <1>2, <1>3 DEF Split, Taken, AtHome

\* Setup takes the devices of its list one after the other.
LEMMA ProgressSetup ==
  ASSUME TypeOK, NEW p \in Proc, NoDuplicates(PciIds[p]), ProgressOf(p), ~faulted'[p],
         ReadDriver(p) \/ WriteUnbind(p) \/ LookUpIds(p)
           \/ WriteNewId(p) \/ WriteBind(p)
  PROVE  ProgressOf(p)'
  <1> USE DEF hostVars, runVars
  <1>0. /\ Cur(p) \in Dev /\ ModelOf[Cur(p)] \in Model
        /\ Listed(p) \subseteq Dev
        /\ driver[Cur(p)] \in Driver \cup {Vfio, NoDriver}
        /\ saved[p] \in Driver \cup {NoDriver}
    BY PositionsStep, ConstantsOK DEF Cur, TypeOK, Bound, Listed
  <1>1. CASE ReadDriver(p)
    <2>0. Split(p) /\ AtHome(p, Cur(p))
      BY <1>1 DEF ReadDriver, ProgressOf, SetupPC
    <2>1. CASE driver[Cur(p)] = Vfio /\ Return(p, NoDriver) /\ UNCHANGED saved
      BY <1>1, <2>0, <2>1, ReturnProgress, ConstantsOK DEF ReadDriver, AtHome, TypeOK
    <2>2. CASE /\ driver[Cur(p)] # Vfio
               /\ saved' = [saved EXCEPT ![p] = driver[Cur(p)]]
               /\ Goto(p, IF driver[Cur(p)] = NoDriver THEN "ids" ELSE "unbind")
               /\ UNCHANGED <<idx, orig>>
      <3>1. Split(p)'
        BY <1>1, <2>0, <2>2, SplitKept DEF ReadDriver
      <3>2. /\ saved'[p] = driver[Cur(p)] /\ home' = home /\ driver' = driver
            /\ Cur(p)' = Cur(p)
            /\ pc'[p] = IF driver[Cur(p)] = NoDriver THEN "ids" ELSE "unbind"
        BY <1>1, <2>2 DEF ReadDriver, Goto, TypeOK, Cur
      <3>3. SavedHome(p, Cur(p))'
        BY <2>0, <3>2 DEF SavedHome, AtHome
      <3>4. QED BY <3>1, <3>2, <3>3 DEF ProgressOf, SetupPC, TeardownPC
    <2>3. QED BY <1>1, <2>1, <2>2 DEF ReadDriver
  <1>2. CASE WriteUnbind(p)
    <2>0. Split(p) /\ SavedHome(p, Cur(p)) /\ driver[Cur(p)] # NoDriver
      BY <1>2 DEF WriteUnbind, ProgressOf, SetupPC
    <2>1. /\ driver' = [driver EXCEPT ![Cur(p)] = NoDriver]
          /\ Goto(p, "ids") /\ UNCHANGED <<dynIds, idx, saved, orig, home>>
      BY <1>2, <2>0 DEF WriteUnbind
    <2>2. Split(p)'
      BY <1>0, <2>0, <2>1, SplitKept DEF TypeOK
    <2>3. pc'[p] = "ids" /\ Cur(p)' = Cur(p) /\ driver'[Cur(p)] = NoDriver
          /\ SavedHome(p, Cur(p))'
      BY <1>0, <2>0, <2>1 DEF Goto, TypeOK, Cur, SavedHome
    <2>4. QED BY <2>2, <2>3 DEF ProgressOf, SetupPC, TeardownPC
  <1>3. CASE LookUpIds(p)
    <2>0. Split(p) /\ SavedHome(p, Cur(p)) /\ driver[Cur(p)] = NoDriver
      BY <1>3 DEF LookUpIds, ProgressOf, SetupPC
    <2>1. Goto(p, "new_id") /\ UNCHANGED <<hostVars, idx, saved, orig, home>>
      BY <1>3 DEF LookUpIds, TypeOK
    <2>2. Split(p)'
      BY <2>0, <2>1, SplitKept
    <2>3. pc'[p] = "new_id" /\ Cur(p)' = Cur(p) /\ driver' = driver
          /\ SavedHome(p, Cur(p))'
      BY <2>0, <2>1 DEF Goto, TypeOK, Cur, SavedHome
    <2>4. QED BY <2>0, <2>2, <2>3 DEF ProgressOf, SetupPC, TeardownPC
  <1>4. CASE WriteNewId(p)
    <2>0. Split(p) /\ SavedHome(p, Cur(p)) /\ driver[Cur(p)] = NoDriver
      BY <1>4 DEF WriteNewId, ProgressOf, SetupPC
    <2>1. CASE ModelOf[Cur(p)] \in dynIds /\ Goto(p, "bind")
               /\ UNCHANGED <<hostVars, idx, orig, faulted>>
      <3>1. Split(p)'
        BY <1>4, <2>0, <2>1, SplitKept DEF WriteNewId
      <3>2. pc'[p] = "bind" /\ Cur(p)' = Cur(p) /\ driver' = driver
            /\ ModelOf[Cur(p)] \in dynIds' /\ SavedHome(p, Cur(p))'
        BY <1>4, <2>0, <2>1 DEF WriteNewId, Goto, TypeOK, Cur, SavedHome
      <3>3. QED BY <2>0, <3>1, <3>2 DEF ProgressOf, SetupPC, TeardownPC
    <2>2. CASE Claim(Claimable(ModelOf[Cur(p)])) /\ Return(p, saved[p])
      <3>1. /\ driver'[Cur(p)] = Vfio
            /\ \A d \in Dev : driver[d] # NoDriver => driver'[d] = driver[d]
            /\ driver' \in [Dev -> Bound \cup {NoDriver}]
        BY <1>0, <2>0, <2>2 DEF Claim, Claimable, TypeOK, Bound
      <3>2. home' = home /\ Return(p, saved[p])
        BY <1>4, <2>2 DEF WriteNewId
      <3>3. QED BY <1>0, <2>0, <3>1, <3>2, ReturnProgress DEF SavedHome
    <2>3. QED BY <1>4, <2>1, <2>2 DEF WriteNewId, TypeOK
  <1>5. CASE WriteBind(p)
    <2>0. Split(p) /\ SavedHome(p, Cur(p)) /\ driver[Cur(p)] = NoDriver
          /\ ModelOf[Cur(p)] \in dynIds
      BY <1>5 DEF WriteBind, ProgressOf, SetupPC
    <2>1. /\ driver' = [driver EXCEPT ![Cur(p)] = Vfio]
          /\ Return(p, saved[p]) /\ home' = home
      BY <1>5, <2>0 DEF WriteBind, TypeOK
    <2>2. /\ driver'[Cur(p)] = Vfio
          /\ \A d \in Listed(p) \ {Cur(p)} : driver'[d] = driver[d]
          /\ driver' \in [Dev -> Bound \cup {NoDriver}]
      BY <1>0, <2>1 DEF TypeOK, Bound
    <2>3. QED BY <1>0, <2>0, <2>1, <2>2, ReturnProgress DEF SavedHome
  <1>6. QED BY <1>1, <1>2, <1>3, <1>4, <1>5

\* Teardown puts the devices of its list back one after the other.
LEMMA ProgressTeardown ==
  ASSUME TypeOK, NEW p \in Proc, NoDuplicates(PciIds[p]), ProgressOf(p), ~faulted'[p],
         LaunchQemu(p) \/ LeaveTry(p) \/ RestoreRead(p)
           \/ RestoreUnbind(p) \/ RestoreBind(p) \/ DriversProbe(p)
  PROVE  ProgressOf(p)'
  <1> USE DEF hostVars, runVars
  <1>0. /\ Cur(p) \in Dev /\ Listed(p) \subseteq Dev
        /\ orig[p][Cur(p)] \in Driver \cup {NoDriver, Unset}
        /\ \A j \in Positions(p) : PciIds[p][j] \in Listed(p)
    BY PositionsStep DEF Cur, TypeOK, Listed
  <1>1. CASE LaunchQemu(p)
    <2>1. \A j \in Positions(p) : Taken(p, PciIds[p][j])'
      BY <1>1 DEF LaunchQemu, ProgressOf, Taken
    <2>2. pc'[p] = "running"
      BY <1>1 DEF LaunchQemu, Goto, TypeOK
    <2>3. QED BY <2>1, <2>2 DEF ProgressOf, SetupPC, TeardownPC
  <1>2. CASE LeaveTry(p)
    <2>1. \A j \in Positions(p) : Taken(p, PciIds[p][j])'
      BY <1>2 DEF LeaveTry, ProgressOf, Taken
    <2>2. pc'[p] = "restore" /\ idx'[p] = Len(PciIds[p])
      BY <1>2 DEF LeaveTry, Goto, TypeOK
    <2>3. /\ Len(PciIds[p]) \in Positions(p)
          /\ \A j \in Positions(p) : ~(j > Len(PciIds[p]))
      BY PositionsStep, FirstPosition
    <2>4. Split(p)' /\ Taken(p, Cur(p))'
      BY <2>1, <2>2, <2>3 DEF Split, Cur
    <2>5. QED BY <2>2, <2>4 DEF ProgressOf, SetupPC, TeardownPC
  <1>3. CASE RestoreRead(p)
    <2>0. Split(p) /\ Taken(p, Cur(p))
      BY <1>3 DEF RestoreRead, ProgressOf, TeardownPC
    <2>1. CASE StepBack(p) /\ orig[p][Cur(p)] \notin Driver
      <3>1. home[p][Cur(p)] \notin Driver
        BY <2>0, <2>1 DEF Taken
      <3>2. /\ home' = home /\ orig' = orig /\ driver' = driver
        BY <1>3 DEF RestoreRead
      <3>3. QED BY <2>0, <2>1, <3>1, <3>2, StepBackProgress
    <2>2. CASE Goto(p, "restore_unbind") /\ UNCHANGED idx
      <3>1. Split(p)'
        BY <1>3, <2>0, <2>2, SplitKept DEF RestoreRead
      <3>2. pc'[p] = "restore_unbind" /\ Taken(p, Cur(p))'
        BY <1>3, <2>0, <2>2 DEF RestoreRead, Goto, TypeOK, Cur, Taken
      <3>3. QED BY <3>1, <3>2 DEF ProgressOf, SetupPC, TeardownPC
    <2>3. QED BY <1>0, <1>3, <2>0, <2>1, <2>2, ConstantsOK DEF RestoreRead, Taken
  <1>4. CASE RestoreUnbind(p)
    <2>0. Split(p) /\ Taken(p, Cur(p)) /\ driver[Cur(p)] # NoDriver
      BY <1>4, ConstantsOK DEF RestoreUnbind, ProgressOf, TeardownPC, Taken
    <2>1. /\ driver' = [driver EXCEPT ![Cur(p)] = NoDriver]
          /\ Goto(p, "restore_bind")
          /\ UNCHANGED <<dynIds, idx, saved, orig, home>>
      BY <1>4, <2>0 DEF RestoreUnbind
    <2>2. Split(p)'
      BY <1>0, <2>0, <2>1, SplitKept DEF TypeOK
    <2>3. /\ pc'[p] = "restore_bind" /\ Cur(p)' = Cur(p)
          /\ driver'[Cur(p)] = NoDriver
      BY <1>0, <2>1 DEF Goto, TypeOK, Cur
    <2>4. (home[p][Cur(p)] \in Driver => orig[p][Cur(p)] = home[p][Cur(p)])'
      BY <2>0, <2>1, <2>3 DEF Taken
    <2>5. QED BY <2>2, <2>3, <2>4 DEF ProgressOf, SetupPC, TeardownPC
  <1>5. CASE RestoreBind(p)
    <2>0. /\ Split(p) /\ driver[Cur(p)] = NoDriver
          /\ home[p][Cur(p)] \in Driver => orig[p][Cur(p)] = home[p][Cur(p)]
      BY <1>5 DEF RestoreBind, ProgressOf, TeardownPC
    <2>1. /\ driver' = [driver EXCEPT ![Cur(p)] = orig[p][Cur(p)]]
          /\ StepBack(p) /\ home' = home /\ orig' = orig
      BY <1>5, <2>0 DEF RestoreBind, TypeOK
    <2>2. /\ driver'[Cur(p)] = orig[p][Cur(p)]
          /\ \A d \in Listed(p) \ {Cur(p)} : driver'[d] = driver[d]
      BY <1>0, <2>1 DEF TypeOK
    <2>3. QED BY <2>0, <2>1, <2>2, StepBackProgress
  <1>6. CASE DriversProbe(p)
    BY <1>6 DEF DriversProbe, ProgressOf
  <1>7. QED BY <1>1, <1>2, <1>3, <1>4, <1>5, <1>6

\* Only Start forgets a failure of the run before.
LEMMA FaultSticks ==
  ASSUME TypeOK, NEW p \in Proc, Step(p) \/ End(p), ~faulted'[p]
  PROVE  ~faulted[p]
  <1> USE DEF TypeOK
  <1>1. CASE End(p)
    BY <1>1 DEF End
  <1>2. CASE ReadDriver(p) \/ WriteUnbind(p) \/ LookUpIds(p)
    BY <1>2 DEF ReadDriver, WriteUnbind, LookUpIds
  <1>3. CASE WriteNewId(p) \/ WriteBind(p)
    BY <1>3 DEF WriteNewId, WriteBind
  <1>4. CASE LaunchQemu(p) \/ LeaveTry(p) \/ RestoreRead(p) \/ RestoreUnbind(p)
    BY <1>4 DEF LaunchQemu, LeaveTry, RestoreRead, RestoreUnbind
  <1>5. CASE RestoreBind(p) \/ DriversProbe(p)
    BY <1>5 DEF RestoreBind, DriversProbe
  <1>6. QED BY <1>1, <1>2, <1>3, <1>4, <1>5 DEF Step

\* No run has begun.
LEMMA ProgressInit == Init => Progress
  BY DEF Init, Progress, ProgressOf, SetupPC, TeardownPC

Inductive == TypeOK /\ RestoresDriver /\ Progress

\* With separate lists the whole invariant is inductive.
LEMMA ProgressNext ==
  ASSUME SeparateLists, Inductive, [Next]_vars
  PROVE  Inductive'
  <1> USE DEF Inductive
  <1>1. TypeOK' /\ RestoresDriver'
    BY TypeNext
  <1>2. ASSUME NEW p \in Proc, Start(p) \/ Step(p) \/ End(p),
               NEW q \in Proc, ~faulted'[q]
        PROVE  ProgressOf(q)'
    <2>1. CASE q # p
      BY <1>2, <2>1, ProgressOfOthers
    <2>2. CASE q = p /\ Start(p)
      BY <2>2, ProgressStart
    <2>3. CASE q = p /\ Step(p)
      <3>1. ProgressOf(p) /\ NoDuplicates(PciIds[p])
        BY <1>2, <2>3, FaultSticks DEF Progress, SeparateLists
      <3>2. QED BY <1>2, <2>3, <3>1, ProgressSetup, ProgressTeardown DEF Step
    <2>4. CASE q = p /\ End(p)
      <3>1. pc'[p] = "idle"
        BY <2>4 DEF End, Goto, TypeOK
      <3>2. QED BY <2>4, <3>1 DEF ProgressOf, SetupPC, TeardownPC
    <2>5. QED BY <1>2, <2>1, <2>2, <2>3, <2>4
  <1>3. CASE UNCHANGED vars
    <2>1. \A q \in Proc : ProgressOf(q) => ProgressOf(q)'
      BY <1>3 DEF vars, ProgressOf, Split, Taken, AtHome, SavedHome, Cur
    <2>2. QED BY <1>1, <1>3, <2>1 DEF Progress, vars
  <1>4. CASE Next
    BY <1>1, <1>2, <1>4 DEF Next, Progress
  <1>5. QED BY <1>3, <1>4

\* With separate lists the whole invariant holds in every reachable state.
LEMMA InductiveHolds ==
  ASSUME SeparateLists
  PROVE  Spec => []Inductive
  <1>1. Init => Inductive
    BY TypeInit, ProgressInit DEF Inductive
  <1>2. Inductive /\ [Next]_vars => Inductive'
    BY ProgressNext
  <1>3. QED BY <1>1, <1>2, PTL DEF Spec

\* With separate lists, a run that tore down without a failure of its own has
\* put every device it took back on its native driver, for any number of
\* invocations and devices (VfioGroupFeature.teardown).
THEOREM ComesHome ==
  ASSUME SeparateLists
  PROVE  Spec => []RestoredHome
  <1>1. Inductive => RestoredHome
    BY DEF Inductive, Progress, ProgressOf, AtHome, RestoredHome, Listed
  <1>2. QED BY <1>1, InductiveHolds, PTL

\* With separate lists, every listed device is on vfio-pci from the end of
\* setup until QEMU has gone (VfioGroupFeature.setup).
THEOREM LaunchedBound ==
  ASSUME SeparateLists
  PROVE  Spec => []ReadyMeansBound
  <1>1. Inductive => ReadyMeansBound
    BY DEF Inductive, Progress, ProgressOf, Taken, ReadyMeansBound, Listed
  <1>2. QED BY <1>1, InductiveHolds, PTL

\* With separate lists, setup never raises because of what another run or an
\* earlier one left behind (bind_device_to_vfio).
THEOREM SetupSucceeds ==
  ASSUME SeparateLists
  PROVE  Spec => []SetupFailsOnlyByFault
  <1>1. Inductive => SetupFailsOnlyByFault
    BY DEF Inductive, Progress, ProgressOf, SetupFailsOnlyByFault
  <1>2. QED BY <1>1, InductiveHolds, PTL

\* No run ever takes a device that no list names from its driver, whatever the
\* lists have in common (the write to new_id in bind_device_to_vfio).
THEOREM OthersUndisturbed == Spec => OthersKeepTheirDriver
  <1> DEFINE Kept == \A d \in Dev : (\A p \in Proc : d \notin Listed(p)) =>
                       \/ driver'[d] = driver[d]
                       \/ driver[d] = NoDriver /\ driver'[d] = Vfio
  <1>1. TypeOK /\ [Next]_vars => [Kept]_driver
    <2> SUFFICES ASSUME TypeOK, NEW p \in Proc, Start(p) \/ Step(p) \/ End(p),
                        NEW d \in Dev, d \notin Listed(p)
                 PROVE  \/ driver'[d] = driver[d]
                        \/ driver[d] = NoDriver /\ driver'[d] = Vfio
      BY DEF Next, vars
    <2> USE DEF hostVars, TypeOK
    <2>0. Cur(p) \in Dev /\ Cur(p) # d
      BY PositionsStep DEF Cur, Listed
    <2>1. CASE Start(p) \/ End(p) \/ LaunchQemu(p) \/ LeaveTry(p)
      BY <2>1 DEF Start, End, LaunchQemu, LeaveTry
    <2>2. CASE ReadDriver(p) \/ LookUpIds(p) \/ RestoreRead(p)
      BY <2>2 DEF ReadDriver, LookUpIds, RestoreRead, SetupRaises
    <2>3. CASE WriteNewId(p)
      BY <2>3 DEF WriteNewId, Claim, Claimable
    <2>4. CASE WriteUnbind(p) \/ WriteBind(p)
      BY <2>0, <2>4 DEF WriteUnbind, WriteBind, SetupRaises
    <2>5. CASE RestoreUnbind(p) \/ RestoreBind(p) \/ DriversProbe(p)
      BY <2>0, <2>5 DEF RestoreUnbind, RestoreBind, DriversProbe
    <2>6. QED BY <2>1, <2>2, <2>3, <2>4, <2>5 DEF Step
  <1>2. QED BY <1>1, TypeCorrect, PTL DEF Spec, OthersKeepTheirDriver
=============================================================================
