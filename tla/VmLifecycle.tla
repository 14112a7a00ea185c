----------------------------- MODULE VmLifecycle -----------------------------
(***************************************************************************)
(* One `vm.start` of a VM: the setup and teardown of the builder's         *)
(* features (vm.py, qemu_builder.py), QEMU in its tmux session             *)
(* (spawn_qemu), the runner's context (spawn_runner), the action with its  *)
(* monitors (actions/runner.py, utils/monitoring.py) and the shutdown.     *)
(*                                                                         *)
(* The context managers nest, so an exception at a location continues at   *)
(* the innermost enclosing finally block: Handler.  A KeyboardInterrupt    *)
(* may hit any location, those of the finally blocks too.  QEMU and its    *)
(* guest run beside the program and may die at any time.                   *)
(***************************************************************************)
EXTENDS Naturals

CONSTANTS
  NumFeatures,    \* len(QemuVmBuilder.features)
  Timeout,        \* the timeout parameter of QemuVm.shutdown, in seconds
  MaxInterrupts,  \* bound on the interrupts of a run
  PidMayBeLost    \* whether list-panes may fail although QEMU runs

ASSUME ConstantsOK ==
  /\ NumFeatures \in Nat \ {0} /\ Timeout \in Nat \ {0} /\ MaxInterrupts \in Nat
  /\ PidMayBeLost \in BOOLEAN

VARIABLES
  conf,           \* the options of the run
  pc,             \* where the program is
  idx,            \* features set up, and later features not yet torn down
  held,           \* features that hold something of the host
  stuck,          \* history: features whose teardown failed
  prepared,       \* history: builder.setup() returned
  qemu,           \* the QEMU process, and how far its guest is
  pid,            \* whether qemu_pid is set
  hup,            \* whether tmux kill-server has signalled QEMU
  sar,            \* the host's sar process
  guestSar,       \* whether the guest's sar process runs
  perf,           \* the perf kvm process
  count,          \* seconds that shutdown has waited
  interrupts,     \* interrupts so far
  cut             \* history: the locations they hit, and list-panes if it
                  \* failed by itself while QEMU ran

featureVars == <<idx, held, stuck, prepared>>
qemuVars    == <<qemu, hup>>
monitorVars == <<sar, guestSar, perf>>
pastVars    == <<interrupts, cut>>
vars == <<conf, pc, featureVars, qemuVars, pid, monitorVars, count, pastVars>>

Actions == {"attach", "ssh-cmd", "bench"}

Conf == [action : Actions, pin : BOOLEAN, sar : BOOLEAN, perf : BOOLEAN]

SpawnPC   == {"tmux", "spawned", "panes", "socket", "qmp", "port"}
RunnerPC  == {"pin", "ssh", "sar", "guest_sar", "perf", "action",
              "perf_stop", "sar_stop", "guest_sar_stop", "poweroff", "grace"}
ReapPC    == {"close", "kill", "reap"}
PC == {"setup", "command", "teardown", "ended"} \cup SpawnPC \cup RunnerPC \cup ReapPC

Alive  == {"starting", "up", "booted", "hung", "poweroff"}
QemuOn == qemu \in Alive

Features == 1 .. NumFeatures

\* A lost monitor runs, but host_sar_proc (perf_proc) was never assigned.
Monitor == {"off", "on", "lost"}

TypeOK ==
  /\ conf \in Conf
  /\ pc \in PC
  /\ idx \in 0 .. NumFeatures
  /\ held \subseteq Features /\ stuck \subseteq Features
  /\ prepared \in BOOLEAN
  /\ qemu \in {"none", "dead"} \cup Alive
  /\ pid \in BOOLEAN /\ hup \in BOOLEAN
  /\ sar \in Monitor /\ guestSar \in BOOLEAN /\ perf \in Monitor
  /\ count \in 0 .. Timeout
  /\ interrupts \in 0 .. MaxInterrupts
  /\ cut \subseteq PC

Init ==
  /\ conf \in Conf
  /\ pc = "setup" /\ idx = 0
  /\ held = {} /\ stuck = {} /\ prepared = FALSE
  /\ qemu = "none" /\ pid = FALSE /\ hup = FALSE
  /\ sar = "off" /\ guestSar = FALSE /\ perf = "off"
  /\ count = 0 /\ interrupts = 0 /\ cut = {}

-----------------------------------------------------------------------------
AfterPerf == IF conf.sar THEN "sar_stop" ELSE "poweroff"

\* Where the program goes on when an exception leaves a location: to the
\* finally block of the innermost context manager, or out of vm.start.
Handler(l) ==
  CASE l \in {"setup", "teardown"}                  -> "ended"
    [] l \in {"command", "tmux", "spawned"}         -> "teardown"
    [] l \in {"panes", "socket", "qmp", "close"}    -> "kill"
    [] l \in {"port", "pin", "poweroff", "grace"}   -> "close"
    [] l = "ssh"                                    -> "poweroff"
    [] l \in {"sar", "guest_sar"}                   -> "sar_stop"
    [] l = "perf"                                   -> "perf_stop"
    [] l = "action" /\ conf.action # "bench"        -> "poweroff"
    [] l = "action" /\ conf.action = "bench"        ->
         IF conf.perf THEN "perf_stop" ELSE AfterPerf
    [] l = "perf_stop"                              -> AfterPerf
    [] l \in {"sar_stop", "guest_sar_stop"}         -> "poweroff"
    [] l \in {"kill", "reap"}                       -> "teardown"

At(l)   == pc = l
Goto(l) == pc' = l
Raise   == pc' = Handler(pc)

-----------------------------------------------------------------------------
(***************************************************************************)
(* The builder.                                                            *)
(***************************************************************************)

SetupFeature ==
  /\ At("setup") /\ idx < NumFeatures
  /\ \/ /\ idx' = idx + 1
        /\ held' = held \cup {idx + 1}
        /\ UNCHANGED pc
     \/ /\ Raise
        /\ held' \in {held, held \cup {idx + 1}}
        /\ UNCHANGED idx
  /\ UNCHANGED <<conf, stuck, prepared, qemuVars, pid, monitorVars, count, pastVars>>

SetupReturns ==
  /\ At("setup") /\ idx = NumFeatures
  /\ Goto("command")
  /\ prepared' = TRUE
  /\ UNCHANGED <<conf, idx, held, stuck, qemuVars, pid, monitorVars, count, pastVars>>

\* build_command, get_action and prepare_action_output: before any process.
BuildCommand ==
  /\ At("command")
  /\ Goto("tmux") \/ Raise
  /\ UNCHANGED <<conf, featureVars, qemuVars, pid, monitorVars, count, pastVars>>

\* Mutant: the loop runs once too often.
TeardownPastFirst ==
  /\ At("teardown")
  /\ idx' = idx - 1
  /\ held' = held \ {idx}
  /\ UNCHANGED <<conf, pc, stuck, prepared, qemuVars, pid, monitorVars, count, pastVars>>

\* Mutant: teardown without the try block around each feature.
TeardownAborts ==
  /\ At("teardown") /\ idx > 0
  /\ \/ idx' = idx - 1 /\ held' = held \ {idx} /\ UNCHANGED <<pc, stuck>>
     \/ stuck' = stuck \cup {idx} /\ Goto("ended") /\ UNCHANGED <<idx, held>>
  /\ UNCHANGED <<conf, prepared, qemuVars, pid, monitorVars, count, pastVars>>

\* Mutant: teardown in the order of setup.
TeardownForwards ==
  /\ At("teardown") /\ idx > 0
  /\ idx' = idx - 1
  /\ held' = held \ {NumFeatures + 1 - idx}
  /\ UNCHANGED <<conf, pc, stuck, prepared, qemuVars, pid, monitorVars, count, pastVars>>

\* An exception of a feature's teardown is printed, and the loop goes on.
TeardownFeature ==
  /\ At("teardown") /\ idx > 0
  /\ idx' = idx - 1
  /\ \/ held' = held \ {idx} /\ UNCHANGED stuck
     \/ stuck' = stuck \cup {idx} /\ UNCHANGED held
  /\ UNCHANGED <<conf, pc, prepared, qemuVars, pid, monitorVars, count, pastVars>>

TeardownReturns ==
  /\ At("teardown") /\ idx = 0
  /\ Goto("ended")
  /\ UNCHANGED <<conf, featureVars, qemuVars, pid, monitorVars, count, pastVars>>

-----------------------------------------------------------------------------
(***************************************************************************)
(* spawn_qemu and spawn_runner, on the way in.                             *)
(***************************************************************************)

NewTmuxSession ==
  /\ At("tmux")
  /\ \/ Goto("spawned") /\ qemu' = "starting"
     \/ Raise /\ UNCHANGED qemu
  /\ UNCHANGED <<conf, featureVars, hup, pid, monitorVars, count, pastVars>>

EnterTry ==
  /\ At("spawned")
  /\ Goto("panes")
  /\ UNCHANGED <<conf, featureVars, qemuVars, pid, monitorVars, count, pastVars>>

\* The tmux server is gone when its only pane is: list-panes fails then.  That
\* it fails, or prints no number, while QEMU runs leaves the pid unknown.
ListPanes ==
  /\ At("panes")
  /\ \/ QemuOn /\ Goto("socket") /\ pid' = TRUE /\ UNCHANGED cut
     \/ ~QemuOn /\ Raise /\ UNCHANGED <<pid, cut>>
     \/ QemuOn /\ PidMayBeLost /\ Raise /\ cut' = cut \cup {pc} /\ UNCHANGED pid
  /\ UNCHANGED <<conf, featureVars, qemuVars, monitorVars, count, interrupts>>

\* The polling of the socket; it goes on while QEMU is starting.  A socket that
\* a dead QEMU left behind fails one step later, with the same handler.
PollSocket ==
  /\ At("socket")
  /\ \/ QemuOn /\ qemu # "starting" /\ Goto("qmp")
     \/ ~QemuOn /\ Raise
  /\ UNCHANGED <<conf, featureVars, qemuVars, pid, monitorVars, count, pastVars>>

\* connect_qmp, then the QMP command of QemuVm's constructor (get_ssh_port);
\* either may fail under a running QEMU too.
ConnectQmp ==
  /\ At("qmp")
  /\ \/ QemuOn /\ Goto("port")
     \/ Raise
  /\ UNCHANGED <<conf, featureVars, qemuVars, pid, monitorVars, count, pastVars>>

\* What do_action does with a runner once it is pinned.
FirstStep == IF conf.action = "attach" THEN "action" ELSE "ssh"

GetSshPort ==
  /\ At("port")
  /\ \/ QemuOn /\ Goto(IF conf.pin THEN "pin" ELSE FirstStep)
     \/ Raise
  /\ UNCHANGED <<conf, featureVars, qemuVars, pid, monitorVars, count, pastVars>>

\* A failed taskset is printed; a failed QMP command or a pin map that does
\* not fit the host raises.
PinVcpu ==
  /\ At("pin")
  /\ \/ QemuOn /\ Goto(FirstStep)
     \/ Raise
  /\ UNCHANGED <<conf, featureVars, qemuVars, pid, monitorVars, count, pastVars>>

\* wait_for_ssh tries until the guest answers, also when QEMU is gone.
WaitForSsh ==
  /\ At("ssh") /\ qemu = "booted"
  /\ Goto(IF conf.action = "ssh-cmd" THEN "action"
          ELSE IF conf.sar THEN "sar"
          ELSE IF conf.perf THEN "perf" ELSE "action")
  /\ UNCHANGED <<conf, featureVars, qemuVars, pid, monitorVars, count, pastVars>>

-----------------------------------------------------------------------------
(***************************************************************************)
(* run_benchmark_action: monitor_with_sar around monitor_with_perf_kvm     *)
(* around the action.                                                      *)
(***************************************************************************)

\* The file of pinned CPUs is written before the try block.
StartSar ==
  /\ At("sar")
  /\ \/ Goto("guest_sar") /\ sar' = "on"
     \/ Raise /\ UNCHANGED sar
     \/ Goto("poweroff") /\ UNCHANGED sar
  /\ UNCHANGED <<conf, featureVars, qemuVars, pid, guestSar, perf, count, pastVars>>

StartGuestSar ==
  /\ At("guest_sar")
  /\ \/ /\ Goto(IF conf.perf THEN "perf" ELSE "action")
        /\ guestSar' = (qemu = "booted")
     \/ Raise /\ UNCHANGED guestSar
  /\ UNCHANGED <<conf, featureVars, qemuVars, pid, sar, perf, count, pastVars>>

\* A failure to read the guest's /proc/iomem is printed; one to start perf
\* raises.
StartPerf ==
  /\ At("perf")
  /\ \/ Goto("action") /\ perf' = "on"
     \/ Raise /\ UNCHANGED perf
  /\ UNCHANGED <<conf, featureVars, qemuVars, pid, sar, guestSar, count, pastVars>>

\* Mutant: the monitors are stopped after the yield, not in a finally block.
RunActionNoFinally ==
  /\ At("action")
  /\ Raise \/ Goto("poweroff")
  /\ UNCHANGED <<conf, featureVars, qemuVars, pid, monitorVars, count, pastVars>>

\* The action returns or raises: the finally blocks run either way.
RunAction ==
  /\ At("action")
  /\ Raise
  /\ UNCHANGED <<conf, featureVars, qemuVars, pid, monitorVars, count, pastVars>>

\* A finally block stops the process that its variable refers to, if any.
Stopped(monitor) == IF monitor = "on" THEN "off" ELSE monitor

\* SIGINT, and SIGKILL if perf takes more than five minutes; then the report.
StopPerf ==
  /\ At("perf_stop")
  /\ perf' = Stopped(perf)
  /\ Goto(AfterPerf)
  /\ UNCHANGED <<conf, featureVars, qemuVars, pid, sar, guestSar, count, pastVars>>

StopSar ==
  /\ At("sar_stop")
  /\ sar' = Stopped(sar)
  /\ Goto("guest_sar_stop")
  /\ UNCHANGED <<conf, featureVars, qemuVars, pid, guestSar, perf, count, pastVars>>

StopGuestSar ==
  /\ At("guest_sar_stop")
  /\ guestSar' = (guestSar /\ qemu # "booted")
  /\ Goto("poweroff")
  /\ UNCHANGED <<conf, featureVars, qemuVars, pid, sar, perf, count, pastVars>>

-----------------------------------------------------------------------------
(***************************************************************************)
(* The way out: QemuVm.shutdown, connect_qmp and spawn_qemu.               *)
(***************************************************************************)

\* ssh reports a failure when the guest does not answer, and may do so when
\* the guest closes the connection because it is going down.
PowerOff ==
  /\ At("poweroff")
  /\ \/ /\ qemu = "booted"
        /\ qemu' = "poweroff"
        /\ Goto("grace") \/ Goto("close")
     \/ /\ qemu # "booted"
        /\ Goto("close")
        /\ UNCHANGED qemu
  /\ UNCHANGED <<conf, featureVars, hup, pid, monitorVars, count, pastVars>>

\* An `if`, not a loop: at most one second.
Grace ==
  /\ At("grace")
  /\ count' = IF count < Timeout /\ QemuOn THEN count + 1 ELSE count
  /\ Goto("close")
  /\ UNCHANGED <<conf, featureVars, qemuVars, pid, monitorVars, pastVars>>

CloseQmp ==
  /\ At("close")
  /\ Goto("kill")
  /\ UNCHANGED <<conf, featureVars, qemuVars, pid, monitorVars, count, pastVars>>

\* Mutant: kill-server without -L reaches another tmux server.
KillOtherServer ==
  /\ At("kill")
  /\ Goto("reap")
  /\ UNCHANGED <<conf, featureVars, qemuVars, pid, monitorVars, count, pastVars>>

KillServer ==
  /\ At("kill")
  /\ hup' = TRUE
  /\ Goto("reap")
  /\ UNCHANGED <<conf, featureVars, qemu, pid, monitorVars, count, pastVars>>

\* Mutant: QEMU is not waited for after the kill.
ReapAtOnce ==
  /\ At("reap")
  /\ Goto("teardown")
  /\ UNCHANGED <<conf, featureVars, qemuVars, pid, monitorVars, count, pastVars>>

\* The loop on os.kill(qemu_pid, 0), left at once when qemu_pid is not set.
Reap ==
  /\ At("reap") /\ (pid => ~QemuOn)
  /\ Goto("teardown")
  /\ UNCHANGED <<conf, featureVars, qemuVars, pid, monitorVars, count, pastVars>>

-----------------------------------------------------------------------------
\* What an interrupt at this location may have left of its operation.
CutQemu ==
  CASE At("tmux")                          -> {qemu, "starting"}
    [] At("poweroff") /\ qemu = "booted"   -> {qemu, "poweroff"}
    [] OTHER                               -> {qemu}

\* Between the start of the process and its assignment, the process is lost.
CutMonitor(monitor, start, stop) ==
  CASE At(start) -> {monitor, "on", "lost"}
    [] At(stop)  -> {monitor, Stopped(monitor)}
    [] OTHER     -> {monitor}

CutGuestSar ==
  CASE At("guest_sar")      -> {guestSar, qemu = "booted"}
    [] At("guest_sar_stop") -> {guestSar, guestSar /\ qemu # "booted"}
    [] OTHER                -> {guestSar}

CutHeld ==
  CASE At("setup")    -> {held, held \cup ({idx + 1} \cap Features)}
    [] At("teardown") -> {held, held \ {idx}}
    [] OTHER          -> {held}

\* KeyboardInterrupt: the operation of the location may have had its effect or
\* not; the loop of QemuVmBuilder.teardown catches Exception only.  A signal to
\* the program alone is meant: Ctrl-C on its terminal reaches the monitors too.
Interrupt ==
  /\ pc # "ended" /\ interrupts < MaxInterrupts
  /\ Raise
  /\ interrupts' = interrupts + 1
  /\ cut' = cut \cup {pc}
  /\ qemu' \in CutQemu
  /\ hup' \in IF At("kill") THEN BOOLEAN ELSE {hup}
  /\ sar' \in CutMonitor(sar, "sar", "sar_stop")
  /\ perf' \in CutMonitor(perf, "perf", "perf_stop")
  /\ guestSar' \in CutGuestSar
  /\ held' \in CutHeld
  /\ UNCHANGED <<conf, idx, stuck, prepared, pid, count>>

QemuListens ==
  /\ qemu = "starting" /\ qemu' = "up"
  /\ UNCHANGED <<conf, pc, featureVars, hup, pid, monitorVars, count, pastVars>>

GuestBoots ==
  /\ qemu = "up" /\ qemu' = "booted"
  /\ UNCHANGED <<conf, pc, featureVars, hup, pid, monitorVars, count, pastVars>>

\* The guest answers no more, while QEMU runs on.
GuestHangs ==
  /\ qemu = "booted" /\ qemu' = "hung"
  /\ UNCHANGED <<conf, pc, featureVars, hup, pid, monitorVars, count, pastVars>>

\* QEMU crashes, is killed, or its guest is powered off from within.
QemuDies ==
  /\ QemuOn /\ qemu' = "dead"
  /\ guestSar' = FALSE
  /\ UNCHANGED <<conf, pc, featureVars, hup, pid, sar, perf, count, pastVars>>

\* The steps that wait for nothing but the host, its processes and QEMU.
LocalStep ==
  \/ SetupFeature \/ SetupReturns \/ BuildCommand
  \/ NewTmuxSession \/ EnterTry \/ ListPanes \/ PollSocket \/ ConnectQmp
  \/ GetSshPort \/ PinVcpu \/ WaitForSsh
  \/ StartSar \/ StopPerf \/ StopSar
  \/ Grace \/ CloseQmp \/ KillServer \/ Reap
  \/ TeardownFeature \/ TeardownReturns

\* The steps that wait for a command in the guest, without a limit.
RemoteStep == StartGuestSar \/ StartPerf \/ RunAction \/ StopGuestSar \/ PowerOff

Step == LocalStep \/ RemoteStep

Environment == QemuListens \/ GuestBoots \/ GuestHangs \/ QemuDies

Next == Step \/ Interrupt \/ Environment

Spec == Init /\ [][Next]_vars

\* A command ends unless its guest hangs: ssh limits the time to connect only.
\* An attached terminal ends with QEMU, or when its user likes.
CommandEnds ==
  /\ qemu # "hung"
  /\ At("action") /\ conf.action = "attach" => ~QemuOn

\* The program runs on but for the commands in a guest that hangs, a QEMU that
\* starts gets to its monitor or dies, and one that tmux has hung up dies.
\* Nothing says that a guest boots, or when, or that a hung one ever goes.
Fairness ==
  /\ WF_vars(LocalStep)
  /\ WF_vars(CommandEnds /\ RemoteStep)
  /\ WF_vars(qemu = "starting" /\ (QemuListens \/ QemuDies))
  /\ WF_vars(hup /\ QemuDies)

LiveSpec == Spec /\ Fairness
-----------------------------------------------------------------------------
(***************************************************************************)
(* What the runs check.                                                    *)
(***************************************************************************)

\* An interrupt at these locations, or a failure of list-panes, leaves a QEMU
\* that nobody waits for: its pid is not known, or the waiting was interrupted.
SpawnWindow == {"tmux", "spawned", "panes", "kill", "reap"}

\* The features are torn down after QEMU has gone, whatever raised and
\* wherever an interrupt hit, but for the few locations of SpawnWindow
\* (spawn_qemu's finally block within vm.start's).
TeardownAfterQemu ==
  At("teardown") /\ cut \cap SpawnWindow = {} => ~QemuOn

\* Once builder.setup() has returned, the run leaves nothing of the host held
\* but by the features whose teardown itself failed: unless an interrupt hit
\* the teardown, neither an exception nor an interrupt skips one
\* (QemuVmBuilder.teardown, and the try block of vm.start).
AllReleased ==
  At("ended") /\ prepared /\ "teardown" \notin cut => held \subseteq stuck

\* A host monitor that still runs when the guest is asked to power off, or
\* later, was interrupted in its own start, between Popen and the assignment of
\* its result, or in its own stop: no exception and no other interrupt makes one
\* record the shutdown or the next run (the nesting in run_benchmark_action).
MonitorsStopped ==
  pc \in {"poweroff", "grace", "teardown", "ended"} \cup ReapPC =>
    /\ sar = "on"    => "sar_stop" \in cut
    /\ sar = "lost"  => "sar" \in cut
    /\ perf = "on"   => "perf_stop" \in cut
    /\ perf = "lost" => "perf" \in cut

\* A run that got an answer from its guest comes to its end, whatever becomes of
\* QEMU from then on, unless the guest hangs for good under a QEMU that lives:
\* nothing limits a command in it (ssh_cmd; the loop on os.kill in spawn_qemu).
AnsweredRunEnds ==
  At("action") /\ conf.action # "attach" ~> At("ended") \/ [](qemu = "hung")

\* The stage of the builder's session at each location.
Stage == CASE At("setup")    -> "acquire"
           [] At("teardown") -> "release"
           [] At("ended")    -> "over"
           [] pc \in {"command"} \cup SpawnPC \cup RunnerPC \cup ReapPC -> "hold"

Session == INSTANCE VmSession WITH stage <- Stage, on <- QemuOn, level <- idx

\* Without interrupts, and if list-panes tells the pid, a run keeps the promises
\* of the builder: VmSession.
KeepsSession == Session!Spec

(***************************************************************************)
(* What the docstrings say, and the code does not do.                      *)
(***************************************************************************)

\* Once QEMU has failed the features get torn down; QemuFeature: "Teardown is
\* guaranteed to execute even if QEMU fails."
FailedQemuTearsDown == qemu = "dead" ~> pc \in {"teardown", "ended"}

\* A guest that has accepted the poweroff gets the whole timeout before QEMU is
\* killed (count is 0 when ssh reported a failure, and shutdown gave up);
\* spawn_runner: "the runner is gracefully shut down when the context exits".
GuestMayPowerOff == At("kill") /\ qemu = "poweroff" => count \in {0, Timeout}
=============================================================================
