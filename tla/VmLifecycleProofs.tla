-------------------------- MODULE VmLifecycleProofs --------------------------
(***************************************************************************)
(* Proofs about VmLifecycle, for any number of features and of interrupts. *)
(***************************************************************************)
EXTENDS VmLifecycle, TLAPS

(***************************************************************************)
(* Type correctness.                                                       *)
(***************************************************************************)

\* An exception always continues at a location of the program.
LEMMA HandlerType ==
  ASSUME TypeOK, pc # "ended"
  PROVE  Handler(pc) \in PC
  <1> USE DEF TypeOK, Handler, AfterPerf
  <1>1. {"ended", "teardown", "kill", "close", "poweroff", "sar_stop",
         "perf_stop"} \subseteq PC
    BY DEF PC, SpawnPC, RunnerPC, ReapPC
  <1>2. CASE pc \in {"setup", "command", "teardown"} \cup SpawnPC \cup ReapPC
    BY <1>1, <1>2 DEF SpawnPC, ReapPC
  <1>3. CASE pc \in RunnerPC
    BY <1>1, <1>3 DEF RunnerPC
  <1>4. QED BY <1>2, <1>3 DEF PC

\* The initial values have their types.
LEMMA TypeInit == Init => TypeOK
  <1> SUFFICES ASSUME Init PROVE TypeOK
    OBVIOUS
  <1>1. /\ idx \in 0 .. NumFeatures /\ count \in 0 .. Timeout
        /\ interrupts \in 0 .. MaxInterrupts
    BY ConstantsOK DEF Init
  <1>2. /\ held \subseteq Features /\ stuck \subseteq Features /\ cut \subseteq PC
        /\ pc \in PC /\ conf \in Conf /\ qemu \in {"none", "dead"} \cup Alive
        /\ sar \in Monitor /\ perf \in Monitor
    BY DEF Init, PC, Monitor
  <1>3. QED BY <1>1, <1>2 DEF Init, TypeOK

\* Every step keeps the types.
LEMMA TypeNext == TypeOK /\ [Next]_vars => TypeOK'
  <1> SUFFICES ASSUME TypeOK, [Next]_vars PROVE TypeOK'
    OBVIOUS
  <1> USE ConstantsOK DEF TypeOK, featureVars, qemuVars, monitorVars, pastVars,
                          At, Goto, Features
  <1>l. /\ {"setup", "command", "teardown", "ended", "tmux", "spawned", "panes",
            "socket", "qmp", "port", "pin", "ssh", "sar", "guest_sar", "perf",
            "action", "perf_stop", "sar_stop", "guest_sar_stop", "poweroff",
            "grace", "close", "kill", "reap"} \subseteq PC
        /\ {"starting", "up", "booted", "hung", "poweroff"} = Alive
    BY DEF PC, SpawnPC, RunnerPC, ReapPC, Alive
  <1>m. /\ {"off", "on", "lost"} = Monitor
        /\ Stopped(sar) \in Monitor /\ Stopped(perf) \in Monitor
    BY DEF Stopped, Monitor
  <1>r. ASSUME Raise, pc # "ended" PROVE pc' \in PC
    BY <1>r, HandlerType DEF Raise
  <1>1. CASE SetupFeature
    <2>1. idx + 1 \in 0 .. NumFeatures /\ idx + 1 \in 1 .. NumFeatures
      BY <1>1 DEF SetupFeature
    <2>2. QED BY <1>1, <2>1, <1>r DEF SetupFeature
  <1>2. CASE SetupReturns \/ BuildCommand
    BY <1>2, <1>l, <1>r DEF SetupReturns, BuildCommand
  <1>3. CASE NewTmuxSession \/ EnterTry \/ ListPanes
    BY <1>3, <1>l, <1>r DEF NewTmuxSession, EnterTry, ListPanes
  <1>4. CASE PollSocket \/ ConnectQmp \/ GetSshPort
    BY <1>4, <1>l, <1>r DEF PollSocket, ConnectQmp, GetSshPort, FirstStep
  <1>5. CASE PinVcpu \/ WaitForSsh
    BY <1>5, <1>l, <1>r DEF PinVcpu, WaitForSsh, FirstStep
  <1>6. CASE StartSar \/ StartGuestSar \/ StartPerf \/ RunAction
    BY <1>6, <1>l, <1>m, <1>r DEF StartSar, StartGuestSar, StartPerf, RunAction
  <1>7. CASE StopPerf \/ StopSar \/ StopGuestSar
    BY <1>7, <1>l, <1>m DEF StopPerf, StopSar, StopGuestSar, AfterPerf
  <1>8. CASE PowerOff \/ CloseQmp \/ KillServer \/ Reap
    BY <1>8, <1>l DEF PowerOff, CloseQmp, KillServer, Reap
  <1>9. CASE Grace
    BY <1>9, <1>l DEF Grace
  <1>10. CASE TeardownFeature \/ TeardownReturns
    <2>1. CASE TeardownFeature
      <3>1. idx - 1 \in 0 .. NumFeatures /\ idx \in 1 .. NumFeatures
        BY <2>1 DEF TeardownFeature
      <3>2. QED BY <2>1, <3>1 DEF TeardownFeature
    <2>2. CASE TeardownReturns
      BY <2>2, <1>l DEF TeardownReturns
    <2>3. QED BY <1>10, <2>1, <2>2
  <1>11. CASE Interrupt
    <2>1. pc' \in PC /\ interrupts' \in 0 .. MaxInterrupts /\ cut' \subseteq PC
      BY <1>11, <1>r DEF Interrupt
    <2>2. held' \subseteq 1 .. NumFeatures
      <3>1. held' \in {held, held \cup ({idx + 1} \cap (1 .. NumFeatures)), held \ {idx}}
        BY <1>11 DEF Interrupt, CutHeld
      <3>2. QED BY <3>1
    <2>3. /\ qemu' \in {qemu, "starting", "poweroff"}
          /\ hup' \in BOOLEAN /\ guestSar' \in BOOLEAN
          /\ UNCHANGED <<conf, idx, stuck, prepared, pid, count>>
      BY <1>11 DEF Interrupt, CutQemu, CutGuestSar
    <2>4. sar' \in Monitor /\ perf' \in Monitor
      BY <1>11, <1>m DEF Interrupt, CutMonitor
    <2>5. QED BY <2>1, <2>2, <2>3, <2>4, <1>l
  <1>12. CASE Environment
    BY <1>12, <1>l DEF Environment, QemuListens, GuestBoots, GuestHangs, QemuDies
  <1>13. CASE UNCHANGED vars
    BY <1>13 DEF vars
  <1>14. QED
    BY <1>1, <1>2, <1>3, <1>4, <1>5, <1>6, <1>7, <1>8, <1>9, <1>10, <1>11,
       <1>12, <1>13 DEF Next, Step, LocalStep, RemoteStep

\* Every variable keeps its type, the position of the builder's loops within
\* the list of features among them (VmLifecycle as a whole).
THEOREM TypeCorrect == Spec => []TypeOK
  BY TypeInit, TypeNext, PTL DEF Spec
-----------------------------------------------------------------------------
(***************************************************************************)
(* QEMU is gone before the teardown.  The finally block of spawn_qemu      *)
(* waits for QEMU only if it knows its pid; so the invariant follows the   *)
(* pid from list-panes to the block, and says where QEMU cannot run yet.   *)
(***************************************************************************)

Reaped ==
  /\ pc \in {"setup", "command", "tmux"} => qemu = "none"
  /\ pc \in {"socket", "qmp", "port", "close"} \cup RunnerPC => pid
  /\ pc \in {"kill", "reap"} /\ cut \cap SpawnWindow = {} => pid \/ ~QemuOn
  /\ pc \in {"teardown", "ended"} /\ cut \cap SpawnWindow = {} => ~QemuOn

\* There is no QEMU at first.
LEMMA ReapedInit == Init => Reaped
  BY DEF Init, Reaped, RunnerPC

\* Where an exception goes, by the location it leaves.
LEMMA HandlerPlaces ==
  ASSUME TypeOK, pc # "ended"
  PROVE  /\ pc \in {"setup", "teardown"} => Handler(pc) = "ended"
         /\ pc \in {"command", "tmux", "spawned", "kill", "reap"} => Handler(pc) = "teardown"
         /\ pc \in {"panes", "socket", "qmp", "close"} => Handler(pc) = "kill"
         /\ pc \in RunnerPC \cup {"port"} =>
              Handler(pc) \in {"close", "poweroff", "sar_stop", "perf_stop"}
  BY DEF TypeOK, Handler, AfterPerf, PC, SpawnPC, RunnerPC, ReapPC, Conf, Actions

\* QEMU is gone once the reaping loop was left with its pid known; no step but an
\* interrupt in SpawnWindow, or a failure of list-panes, leads around that loop.
LEMMA ReapedNext == TypeOK /\ Reaped /\ [Next]_vars => Reaped'
  <1> SUFFICES ASSUME TypeOK, Reaped, [Next]_vars PROVE Reaped'
    OBVIOUS
  <1> USE DEF featureVars, qemuVars, monitorVars, pastVars, At, Goto, Reaped,
              QemuOn, Alive, RunnerPC
  <1>h. pc # "ended" =>
         /\ pc \in {"setup", "teardown"} => Handler(pc) = "ended"
         /\ pc \in {"command", "tmux", "spawned", "kill", "reap"} => Handler(pc) = "teardown"
         /\ pc \in {"panes", "socket", "qmp", "close"} => Handler(pc) = "kill"
         /\ pc \in RunnerPC \cup {"port"} =>
              Handler(pc) \in {"close", "poweroff", "sar_stop", "perf_stop"}
    BY HandlerPlaces
  <1>1. CASE SetupFeature \/ SetupReturns \/ BuildCommand
    BY <1>1, <1>h DEF SetupFeature, SetupReturns, BuildCommand, Raise
  <1>2. CASE NewTmuxSession \/ EnterTry \/ ListPanes
    BY <1>2, <1>h DEF NewTmuxSession, EnterTry, ListPanes, Raise, SpawnWindow
  <1>3. CASE PollSocket \/ ConnectQmp
    BY <1>3, <1>h DEF PollSocket, ConnectQmp, Raise
  <1>4. CASE GetSshPort \/ PinVcpu \/ WaitForSsh
    BY <1>4, <1>h DEF GetSshPort, PinVcpu, WaitForSsh, FirstStep, Raise
  <1>5. CASE StartSar \/ StartGuestSar \/ StartPerf \/ RunAction
    BY <1>5, <1>h DEF StartSar, StartGuestSar, StartPerf, RunAction, Raise
  <1>6. CASE StopPerf \/ StopSar \/ StopGuestSar
    BY <1>6 DEF StopPerf, StopSar, StopGuestSar, AfterPerf
  <1>7. CASE PowerOff \/ Grace \/ CloseQmp
    BY <1>7 DEF PowerOff, Grace, CloseQmp
  <1>8. CASE KillServer \/ Reap
    BY <1>8 DEF KillServer, Reap
  <1>9. CASE TeardownFeature \/ TeardownReturns
    BY <1>9 DEF TeardownFeature, TeardownReturns
  <1>10. CASE Interrupt
    <2>1. pc # "ended" /\ pc' = Handler(pc) /\ cut' = cut \cup {pc} /\ pid' = pid
          /\ (pc \notin {"tmux", "poweroff"} => qemu' = qemu)
      BY <1>10 DEF Interrupt, CutQemu, Raise
    <2>2. CASE pc \in SpawnWindow
      <3>1. cut' \cap SpawnWindow # {}
        BY <2>1, <2>2
      <3>2. pc' \in {"teardown", "kill"}
        BY <1>h, <2>1, <2>2 DEF SpawnWindow
      <3>3. QED BY <3>1, <3>2
    <2>3. CASE pc \notin SpawnWindow
      <3>1. /\ pc # "poweroff" => qemu' = qemu
            /\ cut' \cap SpawnWindow = {} => cut \cap SpawnWindow = {}
        BY <2>1, <2>3 DEF SpawnWindow
      <3>2. CASE pc \in {"setup", "teardown", "command"}
        BY <1>h, <2>1, <3>1, <3>2
      <3>3. CASE pc \in {"socket", "qmp", "close"}
        BY <1>h, <2>1, <3>1, <3>3
      <3>4. CASE pc \in RunnerPC \cup {"port"}
        BY <1>h, <2>1, <3>1, <3>4
      <3>5. QED
        BY <2>1, <2>3, <3>2, <3>3, <3>4
           DEF TypeOK, PC, SpawnPC, ReapPC, SpawnWindow
    <2>4. QED BY <2>2, <2>3
  <1>11. CASE Environment
    BY <1>11 DEF Environment, QemuListens, GuestBoots, GuestHangs, QemuDies
  <1>12. CASE UNCHANGED vars
    BY <1>12 DEF vars
  <1>13. QED
    BY <1>1, <1>2, <1>3, <1>4, <1>5, <1>6, <1>7, <1>8, <1>9, <1>10, <1>11,
       <1>12 DEF Next, Step, LocalStep, RemoteStep

\* Reaped is an invariant.
LEMMA ReapedHolds == Spec => [](TypeOK /\ Reaped)
  <1>1. Init => TypeOK /\ Reaped
    BY TypeInit, ReapedInit
  <1>2. TypeOK /\ Reaped /\ [Next]_vars => (TypeOK /\ Reaped)'
    BY TypeNext, ReapedNext
  <1>3. QED BY <1>1, <1>2, PTL DEF Spec

\* No feature is torn down while QEMU runs, wherever QEMU or the program fails
\* and wherever an interrupt hits outside of SpawnWindow (spawn_qemu).
THEOREM TornDownAfterQemu == Spec => []TeardownAfterQemu
  <1>1. Reaped => TeardownAfterQemu
    BY DEF Reaped, TeardownAfterQemu, At
  <1>2. QED BY <1>1, ReapedHolds, PTL
-----------------------------------------------------------------------------
(***************************************************************************)
(* Nothing stays held.                                                     *)
(***************************************************************************)

\* Once prepared, only features that the teardown has not reached yet, and
\* stuck ones, hold anything.
Released ==
  /\ pc = "setup" => ~prepared
  /\ prepared /\ pc # "ended" => held \subseteq (1 .. idx) \cup stuck
  /\ AllReleased

\* Nothing is held at first.
LEMMA ReleasedInit == Init => Released
  BY DEF Init, Released, AllReleased, At

\* A step that stays clear of the builder's two loops and of the last location.
LEMMA ReleasedKept ==
  ASSUME TypeOK, Released, UNCHANGED featureVars,
         pc \notin {"setup", "teardown", "ended"}, pc' \notin {"setup", "ended"}
  PROVE  Released'
  BY DEF Released, AllReleased, At, featureVars

\* Only the builder's two loops change what is held, and each turn of the
\* teardown takes care of the feature at idx.
LEMMA ReleasedNext == TypeOK /\ Released /\ [Next]_vars => Released'
  <1> SUFFICES ASSUME TypeOK, Released, [Next]_vars PROVE Released'
    OBVIOUS
  <1> USE DEF At, Goto
  <1>h. pc # "ended" =>
         /\ pc \in {"setup", "teardown"} => Handler(pc) = "ended"
         /\ pc \notin {"setup", "teardown"} => Handler(pc) \notin {"setup", "ended"}
    BY HandlerPlaces DEF TypeOK, PC, SpawnPC, RunnerPC, ReapPC
  <1>1. CASE SetupFeature
    BY <1>1, <1>h DEF SetupFeature, Raise, Released, AllReleased
  <1>2. CASE SetupReturns
    BY <1>2 DEF SetupReturns, Released, AllReleased, TypeOK, Features
  <1>3. CASE BuildCommand
    BY <1>3, <1>h, ReleasedKept DEF BuildCommand, Raise
  <1>4. CASE NewTmuxSession \/ EnterTry \/ ListPanes \/ PollSocket \/ ConnectQmp
    BY <1>4, <1>h, ReleasedKept
       DEF NewTmuxSession, EnterTry, ListPanes, PollSocket, ConnectQmp, Raise
  <1>5. CASE GetSshPort \/ PinVcpu \/ WaitForSsh
    BY <1>5, <1>h, ReleasedKept DEF GetSshPort, PinVcpu, WaitForSsh, FirstStep, Raise
  <1>6. CASE StartSar \/ StartGuestSar \/ StartPerf \/ RunAction
    BY <1>6, <1>h, ReleasedKept
       DEF StartSar, StartGuestSar, StartPerf, RunAction, Raise
  <1>7. CASE StopPerf \/ StopSar \/ StopGuestSar
    BY <1>7, ReleasedKept DEF StopPerf, StopSar, StopGuestSar, AfterPerf
  <1>8. CASE PowerOff \/ Grace \/ CloseQmp \/ KillServer
    BY <1>8, ReleasedKept DEF PowerOff, Grace, CloseQmp, KillServer
  <1>9. CASE Reap
    BY <1>9, ReleasedKept DEF Reap
  <1>10. CASE TeardownFeature
    <2>1. /\ idx \in 1 .. NumFeatures /\ idx' = idx - 1 /\ pc = "teardown"
          /\ pc' = pc /\ prepared' = prepared
          /\ \/ held' = held \ {idx} /\ stuck' = stuck
             \/ stuck' = stuck \cup {idx} /\ held' = held
      BY <1>10 DEF TeardownFeature, TypeOK
    <2>2. 1 .. idx \subseteq (1 .. idx') \cup {idx}
      BY <2>1
    <2>3. prepared => held' \subseteq (1 .. idx') \cup stuck'
      BY <2>1, <2>2 DEF Released
    <2>4. QED BY <2>1, <2>3 DEF Released, AllReleased
  <1>11. CASE TeardownReturns
    <2>1. /\ idx = 0 /\ pc = "teardown" /\ pc' = "ended"
          /\ prepared' = prepared /\ held' = held /\ stuck' = stuck /\ cut' = cut
      BY <1>11 DEF TeardownReturns, featureVars, pastVars
    <2>2. prepared => held \subseteq stuck
      BY <2>1 DEF Released
    <2>3. QED BY <2>1, <2>2 DEF Released, AllReleased
  <1>12. CASE Interrupt
    <2>1. /\ pc # "ended" /\ pc' = Handler(pc) /\ cut' = cut \cup {pc}
          /\ UNCHANGED <<idx, stuck, prepared>>
          /\ pc \notin {"setup", "teardown"} => held' = held
      BY <1>12 DEF Interrupt, CutHeld, Raise
    <2>2. CASE pc \in {"setup", "teardown"}
      BY <1>h, <2>1, <2>2 DEF Released, AllReleased
    <2>3. CASE pc \notin {"setup", "teardown"}
      BY <1>h, <2>1, <2>3, ReleasedKept DEF featureVars
    <2>4. QED BY <2>2, <2>3
  <1>13. CASE Environment
    BY <1>13 DEF Environment, QemuListens, GuestBoots, GuestHangs, QemuDies, Released,
                 AllReleased, featureVars, pastVars
  <1>14. CASE UNCHANGED vars
    BY <1>14 DEF vars, Released, AllReleased, featureVars, pastVars
  <1>15. QED
    BY <1>1, <1>2, <1>3, <1>4, <1>5, <1>6, <1>7, <1>8, <1>9, <1>10, <1>11,
       <1>12, <1>13, <1>14 DEF Next, Step, LocalStep, RemoteStep

\* Whatever raises and wherever an interrupt hits outside of the teardown, a
\* run whose setup returned tears every feature down (QemuVmBuilder.teardown).
THEOREM NothingHeld == Spec => []AllReleased
  <1>1. Init => TypeOK /\ Released
    BY TypeInit, ReleasedInit
  <1>2. TypeOK /\ Released /\ [Next]_vars => (TypeOK /\ Released)'
    BY TypeNext, ReleasedNext
  <1>3. Released => AllReleased
    BY DEF Released
  <1>4. QED BY <1>1, <1>2, <1>3, PTL DEF Spec
-----------------------------------------------------------------------------
(***************************************************************************)
(* The monitors stop.  A monitor runs between its start and its finally    *)
(* block; which of the two blocks an exception meets is up to the options, *)
(* so the invariant says which options lead to which location.             *)
(***************************************************************************)

Nested ==
  /\ pc = "ssh" => conf.action # "attach"
  /\ pc \in {"sar", "guest_sar", "sar_stop", "guest_sar_stop"} => conf.sar
  /\ pc \in {"perf", "perf_stop"} => conf.perf
  /\ pc \in {"sar", "guest_sar", "perf", "perf_stop", "sar_stop", "guest_sar_stop"} =>
       conf.action = "bench"
  /\ sar = "on" => /\ conf.sar /\ conf.action = "bench"
                   /\ \/ pc \in {"guest_sar", "perf", "action", "perf_stop", "sar_stop"}
                      \/ "sar_stop" \in cut
  /\ sar = "lost" => "sar" \in cut
  /\ perf = "on" => /\ conf.perf /\ conf.action = "bench"
                    /\ pc \in {"action", "perf_stop"} \/ "perf_stop" \in cut
  /\ perf = "lost" => "perf" \in cut

\* No monitor runs at first.
LEMMA NestedInit == Init => Nested
  BY DEF Init, Nested

\* Where an exception goes within the nest of monitors, by the options.
LEMMA HandlerNest ==
  ASSUME TypeOK, pc # "ended"
  PROVE  /\ pc \notin {"sar", "guest_sar", "perf", "perf_stop", "action"} =>
              Handler(pc) \in {"ended", "teardown", "kill", "close", "poweroff"}
         /\ pc \in {"sar", "guest_sar"} => Handler(pc) = "sar_stop"
         /\ pc = "perf" => Handler(pc) = "perf_stop"
         /\ pc = "perf_stop" => Handler(pc) = IF conf.sar THEN "sar_stop" ELSE "poweroff"
         /\ pc = "action" /\ conf.action # "bench" => Handler(pc) = "poweroff"
         /\ pc = "action" /\ conf.action = "bench" =>
              Handler(pc) = CASE conf.perf               -> "perf_stop"
                              [] ~conf.perf /\ conf.sar  -> "sar_stop"
                              [] ~conf.perf /\ ~conf.sar -> "poweroff"
  <1> USE DEF TypeOK, Handler, AfterPerf, Conf, PC, SpawnPC, RunnerPC, ReapPC
  <1>1. CASE pc = "action"
    BY <1>1
  <1>2. CASE pc \in RunnerPC \ {"action"}
    BY <1>2
  <1>3. CASE pc \notin RunnerPC
    BY <1>3
  <1>4. QED BY <1>1, <1>2, <1>3

\* Every path into a monitor leads out of it through its finally block.
LEMMA NestedNext == TypeOK /\ Nested /\ [Next]_vars => Nested'
  <1> SUFFICES ASSUME TypeOK, Nested, [Next]_vars PROVE Nested'
    OBVIOUS
  <1> USE DEF featureVars, qemuVars, monitorVars, pastVars, At, Goto, Nested, Raise
  <1>1. CASE SetupFeature \/ SetupReturns \/ BuildCommand
    BY <1>1, HandlerNest DEF SetupFeature, SetupReturns, BuildCommand
  <1>2. CASE NewTmuxSession \/ EnterTry \/ ListPanes
    BY <1>2, HandlerNest DEF NewTmuxSession, EnterTry, ListPanes
  <1>3. CASE PollSocket \/ ConnectQmp
    BY <1>3, HandlerNest DEF PollSocket, ConnectQmp
  <1>4. CASE GetSshPort \/ PinVcpu
    BY <1>4, HandlerNest DEF GetSshPort, PinVcpu, FirstStep
  <1>5. CASE WaitForSsh
    <2>1. conf.action \in {"ssh-cmd", "bench"}
      BY <1>5 DEF WaitForSsh, TypeOK, Conf, Actions
    <2>2. QED BY <1>5, <2>1 DEF WaitForSsh
  <1>6. CASE StartSar \/ StartGuestSar
    BY <1>6, HandlerNest DEF StartSar, StartGuestSar
  <1>7. CASE StartPerf
    BY <1>7, HandlerNest DEF StartPerf
  <1>8. CASE RunAction
    <2>1. /\ pc = "action" /\ pc' = Handler(pc)
          /\ UNCHANGED <<conf, sar, perf, cut>>
      BY <1>8 DEF RunAction
    <2>2. CASE conf.action = "bench" /\ conf.perf
      BY <2>1, <2>2, HandlerNest
    <2>3. CASE conf.action = "bench" /\ ~conf.perf
      BY <2>1, <2>3, HandlerNest
    <2>4. CASE conf.action # "bench"
      BY <2>1, <2>4, HandlerNest
    <2>5. QED BY <2>2, <2>3, <2>4
  <1>9. CASE StopPerf \/ StopSar \/ StopGuestSar
    BY <1>9 DEF StopPerf, StopSar, StopGuestSar, AfterPerf, Stopped
  <1>10. CASE PowerOff \/ Grace \/ CloseQmp
    BY <1>10 DEF PowerOff, Grace, CloseQmp
  <1>11. CASE KillServer \/ Reap \/ TeardownFeature \/ TeardownReturns
    BY <1>11 DEF KillServer, Reap, TeardownFeature, TeardownReturns
  <1>12. CASE Interrupt
    <2>1. /\ pc # "ended" /\ pc' = Handler(pc) /\ cut' = cut \cup {pc}
          /\ conf' = conf
          /\ sar' \in IF pc = "sar" THEN {sar, "on", "lost"} ELSE {sar, "off"}
          /\ perf' \in IF pc = "perf" THEN {perf, "on", "lost"} ELSE {perf, "off"}
      BY <1>12, SMT DEF Interrupt, CutMonitor, Stopped
    <2>2. CASE pc = "action" /\ conf.action = "bench"
      <3>1. CASE conf.perf
        BY <2>1, <2>2, <3>1, HandlerNest
      <3>2. CASE ~conf.perf
        BY <2>1, <2>2, <3>2, HandlerNest
      <3>3. QED BY <3>1, <3>2
    <2>3. CASE pc = "action" /\ conf.action # "bench"
      BY <2>1, <2>3, HandlerNest
    <2>4. CASE pc \in {"sar", "guest_sar", "perf", "perf_stop"}
      BY <2>1, <2>4, HandlerNest
    <2>5. CASE pc \notin {"action", "sar", "guest_sar", "perf", "perf_stop"}
      BY <2>1, <2>5, HandlerNest
    <2>6. QED BY <2>2, <2>3, <2>4, <2>5
  <1>13. CASE Environment
    BY <1>13 DEF Environment, QemuListens, GuestBoots, GuestHangs, QemuDies
  <1>14. CASE UNCHANGED vars
    BY <1>14 DEF vars
  <1>15. QED
    BY <1>1, <1>2, <1>3, <1>4, <1>5, <1>6, <1>7, <1>8, <1>9, <1>10, <1>11,
       <1>12, <1>13, <1>14 DEF Next, Step, LocalStep, RemoteStep

\* Whatever raises, and wherever an interrupt hits, a host monitor runs on into
\* the poweroff of the guest only if its own start or stop was interrupted
\* (run_benchmark_action, monitor_with_sar, monitor_with_perf_kvm).
THEOREM MonitorsAreStopped == Spec => []MonitorsStopped
  <1>1. Init => TypeOK /\ Nested
    BY TypeInit, NestedInit
  <1>2. TypeOK /\ Nested /\ [Next]_vars => (TypeOK /\ Nested)'
    BY TypeNext, NestedNext
  <1>3. Nested => MonitorsStopped
    BY DEF Nested, MonitorsStopped, ReapPC
  <1>4. QED BY <1>1, <1>2, <1>3, PTL DEF Spec
-----------------------------------------------------------------------------
(***************************************************************************)
(* Without interrupts, the run implements VmSession.                       *)
(***************************************************************************)

HoldPC == {"command"} \cup SpawnPC \cup RunnerPC \cup ReapPC

\* The stage of the session is a function of the location.
LEMMA StageOf ==
  ASSUME TypeOK
  PROVE  /\ pc = "setup" => Stage = "acquire"
         /\ pc = "teardown" => Stage = "release"
         /\ pc = "ended" => Stage = "over"
         /\ pc \in HoldPC => Stage = "hold"
         /\ pc \in HoldPC <=> pc \notin {"setup", "teardown", "ended"}
  BY DEF TypeOK, Stage, At, PC, HoldPC, SpawnPC, RunnerPC, ReapPC

\* The initial states are initial states of the session.
LEMMA SessionInit == Init => Session!Init
  BY StageOf, TypeInit DEF Init, Session!Init, QemuOn, Alive

\* A step within the hold of the builder is one of the VM's power, or stutters.
LEMMA SessionHold ==
  ASSUME TypeOK, TypeOK', UNCHANGED <<idx, held>>,
         pc \in HoldPC, pc' \in HoldPC
  PROVE  [Session!Next]_(Session!sessionVars)
  <1>1. Stage = "hold" /\ Stage' = "hold"
    <2>1. Stage = "hold"
      BY StageOf
    <2>2. Stage' = "hold"
      BY DEF TypeOK, Stage, At, PC, HoldPC, SpawnPC, RunnerPC, ReapPC
    <2>3. QED BY <2>1, <2>2
  <1>2. QemuOn \in BOOLEAN /\ QemuOn' \in BOOLEAN
    BY DEF QemuOn
  <1>3. QED BY <1>1, <1>2 DEF Session!Next, Session!sessionVars, Session!PowerOn, Session!PowerOff

\* The program's next location, when it leaves a stage.
LEMMA StageNext ==
  ASSUME TypeOK'
  PROVE  /\ pc' = "setup" => Stage' = "acquire"
         /\ pc' = "teardown" => Stage' = "release"
         /\ pc' = "ended" => Stage' = "over"
         /\ pc' = "command" => Stage' = "hold"
  BY DEF TypeOK, Stage, At, PC, SpawnPC, RunnerPC, ReapPC

\* Without interrupts, each step is one of the session or a stutter.
LEMMA SessionNext ==
  ASSUME MaxInterrupts = 0, ~PidMayBeLost, TypeOK, TypeOK', Reaped, cut = {}, [Next]_vars
  PROVE  [Session!Next]_(Session!sessionVars) /\ (cut = {})'
  <1> USE DEF At, Goto
  <1>c. ~Interrupt
    BY DEF Interrupt, TypeOK
  <1>s. /\ pc = "setup" => Stage = "acquire"
        /\ pc = "teardown" => Stage = "release"
        /\ pc \in HoldPC => Stage = "hold"
    BY StageOf
  <1>t. /\ pc' = "setup" => Stage' = "acquire"
        /\ pc' = "teardown" => Stage' = "release"
        /\ pc' = "ended" => Stage' = "over"
        /\ pc' = "command" => Stage' = "hold"
    BY StageNext
  <1>h. pc # "ended" =>
         /\ pc \in {"setup", "teardown"} => Handler(pc) = "ended"
         /\ pc \in {"command", "tmux", "spawned", "kill", "reap"} => Handler(pc) = "teardown"
         /\ pc \in {"panes", "socket", "qmp", "close"} => Handler(pc) = "kill"
         /\ pc \in RunnerPC \cup {"port"} =>
              Handler(pc) \in {"close", "poweroff", "sar_stop", "perf_stop"}
    BY HandlerPlaces
  <1>u. UNCHANGED cut
    BY <1>c, ZenonT(60) DEF Next, Step, LocalStep, RemoteStep, Environment, vars, pastVars, SetupFeature,
         SetupReturns, BuildCommand, NewTmuxSession, EnterTry, ListPanes,
         PollSocket, ConnectQmp, GetSshPort, PinVcpu, WaitForSsh, StartSar,
         StartGuestSar, StartPerf, RunAction, StopPerf, StopSar, StopGuestSar,
         PowerOff, Grace, CloseQmp, KillServer, Reap, TeardownFeature,
         TeardownReturns, QemuListens, GuestBoots, GuestHangs, QemuDies
  <1>q. QemuOn <=> qemu \in Alive
    BY DEF QemuOn
  <1>r. QemuOn' <=> qemu' \in Alive
    BY DEF QemuOn
  <1>n. [Session!Next]_(Session!sessionVars)
    <2> USE DEF featureVars, qemuVars, Session!sessionVars
    <2>1. CASE SetupFeature
      <3>1. /\ Stage = "acquire" /\ idx < NumFeatures /\ QemuOn' = QemuOn
        BY <2>1, <1>s, <1>q, <1>r DEF SetupFeature, QemuOn
      <3>2. CASE /\ idx' = idx + 1 /\ held' = held \cup {idx + 1} /\ pc' = pc
        <4>1. Stage' = "acquire"
          BY <2>1, <3>2, <1>t DEF SetupFeature
        <4>2. QED BY <3>1, <3>2, <4>1 DEF Session!Next, Session!Acquire
      <3>3. CASE Raise /\ held' \in {held, held \cup {idx + 1}} /\ idx' = idx
        <4>1. Stage' = "over"
          BY <2>1, <3>3, <1>t, <1>h DEF SetupFeature, Raise
        <4>2. QED BY <3>1, <3>3, <4>1 DEF Session!Next, Session!GiveUp
      <3>4. QED BY <2>1, <3>2, <3>3 DEF SetupFeature
    <2>2. CASE SetupReturns
      <3>1. /\ Stage = "acquire" /\ Stage' = "hold" /\ QemuOn' = QemuOn
            /\ idx = NumFeatures /\ UNCHANGED <<idx, held>>
        BY <2>2, <1>s, <1>t DEF SetupReturns, QemuOn
      <3>2. QED BY <3>1 DEF Session!Next, Session!Hold
    <2>3. CASE pc \in HoldPC /\ pc' = "teardown" /\ UNCHANGED <<idx, held, qemu>>
               /\ ~QemuOn
      <3>1. /\ Stage = "hold" /\ Stage' = "release" /\ QemuOn' = QemuOn
        BY <2>3, <1>s, <1>t DEF QemuOn
      <3>2. QED BY <2>3, <3>1 DEF Session!Next, Session!Unhold
    <2>4. CASE pc \in HoldPC /\ pc' \in HoldPC /\ UNCHANGED <<idx, held>>
      BY <2>4, SessionHold
    <2>5. CASE BuildCommand
      BY <2>3, <2>4, <2>5, <1>h
         DEF BuildCommand, Raise, HoldPC, SpawnPC, Reaped, QemuOn, Alive
    <2>6. CASE NewTmuxSession
      BY <2>3, <2>4, <2>6, <1>h
         DEF NewTmuxSession, Raise, HoldPC, SpawnPC, Reaped, QemuOn, Alive
    <2>7. CASE EnterTry \/ ListPanes \/ PollSocket \/ ConnectQmp
      BY <2>4, <2>7, <1>h
         DEF EnterTry, ListPanes, PollSocket, ConnectQmp, Raise, HoldPC, SpawnPC, ReapPC
    <2>8. CASE GetSshPort \/ PinVcpu \/ WaitForSsh
      BY <2>4, <2>8, <1>h
         DEF GetSshPort, PinVcpu, WaitForSsh, FirstStep, Raise, HoldPC, SpawnPC,
             RunnerPC, ReapPC
    <2>9. CASE StartSar \/ StartGuestSar \/ StartPerf \/ RunAction
      BY <2>4, <2>9, <1>h
         DEF StartSar, StartGuestSar, StartPerf, RunAction, Raise, HoldPC,
             RunnerPC, ReapPC
    <2>10. CASE StopPerf \/ StopSar \/ StopGuestSar
      BY <2>4, <2>10 DEF StopPerf, StopSar, StopGuestSar, AfterPerf, HoldPC, RunnerPC
    <2>11. CASE PowerOff \/ Grace \/ CloseQmp \/ KillServer
      BY <2>4, <2>11 DEF PowerOff, Grace, CloseQmp, KillServer, HoldPC, RunnerPC, ReapPC
    <2>12. CASE Reap
      BY <2>3, <2>12 DEF Reap, HoldPC, ReapPC, Reaped
    <2>13. CASE TeardownFeature
      <3>1. /\ Stage = "release" /\ Stage' = "release"
            /\ QemuOn = FALSE /\ QemuOn' = FALSE
            /\ idx > 0 /\ idx' = idx - 1 /\ held' \in {held, held \ {idx}}
        BY <2>13, <1>s, <1>t DEF TeardownFeature, Reaped, QemuOn
      <3>2. QED BY <3>1 DEF Session!Next, Session!Release
    <2>14. CASE TeardownReturns
      <3>1. /\ Stage = "release" /\ Stage' = "over" /\ QemuOn' = QemuOn
            /\ idx = 0 /\ UNCHANGED <<idx, held>>
        BY <2>14, <1>s, <1>t DEF TeardownReturns, QemuOn
      <3>2. QED BY <3>1 DEF Session!Next, Session!Finish
    <2>15. CASE QemuListens \/ GuestBoots \/ GuestHangs
      <3>1. QemuOn = TRUE /\ QemuOn' = TRUE
        BY <2>15 DEF QemuListens, GuestBoots, GuestHangs, QemuOn, Alive
      <3>2. pc' = pc /\ UNCHANGED <<idx, held>>
        BY <2>15 DEF QemuListens, GuestBoots, GuestHangs
      <3>3. Stage' = Stage
        BY <3>2 DEF Stage
      <3>4. QED BY <3>1, <3>2, <3>3
    <2>16. CASE QemuDies
      <3>1. QemuOn /\ QemuOn' = FALSE /\ Stage' = Stage /\ UNCHANGED <<idx, held>>
        BY <2>16 DEF QemuDies, QemuOn, Alive, Stage
      <3>2. QED BY <3>1 DEF Session!Next, Session!PowerOff
    <2>17. CASE UNCHANGED vars
      BY <2>17 DEF vars, Stage, QemuOn
    <2>18. QED
      BY <2>1, <2>2, <2>5, <2>6, <2>7, <2>8, <2>9, <2>10, <2>11, <2>12, <2>13,
         <2>14, <2>15, <2>16, <2>17, <1>c
         DEF Next, Step, LocalStep, RemoteStep, Environment
  <1>e. QED BY <1>n, <1>u

\* Without interrupts, and if list-panes tells the pid of a running QEMU,
\* features are set up before QEMU starts, kept while it runs, and torn down in
\* the reverse order once it has gone, however many they are and whatever else
\* fails (QemuVmBuilder, spawn_qemu).
THEOREM ImplementsSession ==
  ASSUME MaxInterrupts = 0, ~PidMayBeLost
  PROVE  Spec => KeepsSession
  <1>1. Init => Session!Init /\ cut = {}
    BY SessionInit DEF Init
  <1>2. TypeOK /\ TypeOK' /\ Reaped /\ cut = {} /\ [Next]_vars
          => [Session!Next]_(Session!sessionVars) /\ (cut = {})'
    BY SessionNext
  <1>3. Spec => [](cut = {})
    BY <1>1, <1>2, ReapedHolds, PTL DEF Spec
  <1>4. QED BY <1>1, <1>2, <1>3, ReapedHolds, PTL DEF Spec, KeepsSession, Session!Spec
=============================================================================
