------------------------------- MODULE FioSuite -------------------------------
(***************************************************************************)
(* The suite: run_all and run_tests (modules/fio/tasks/fio.py) with the    *)
(* check of the PCIe link around each job (check_speed in                  *)
(* core/tasks/utils/pci.py).                                               *)
(*                                                                         *)
(* One job is one call of vm.start, which returns or raises; FioStorage    *)
(* and VmLifecycle say what happens within it.  The link may be anything   *)
(* whenever it is read.                                                    *)
(***************************************************************************)
EXTENDS FioJobs

CONSTANTS
  Suites,     \* arguments of run_all: setups (each with its size of the VM),
              \* blocks and jobs are sequences,
              \* known (the host has an entry in config.toml), continue and
              \* qemu are Booleans, iterations is a number
  Links,      \* what lspci may report of the link: <<capability, status>> in
              \* tenths of GT/s, or <<>> when it fails or names no link
  ValidSpeeds,\* valid_pcie_speeds of the host, or {} for "at its maximum"
  HasGpu,     \* config.toml names a GPU for this host
  VmSetups    \* setups with an entry in vm_device_addresses

ASSUME SuiteConstantsOK ==
  /\ Links \subseteq {<<>>} \cup Nat \X Nat
  /\ ValidSpeeds \subseteq Nat \ {0} /\ HasGpu \in BOOLEAN
  /\ VmSetups \subseteq {"amd", "snp"}
  /\ \A s \in Suites :
       /\ s.setups \in Seq(STRING) /\ s.blocks \in Seq(Nat)
       /\ s.jobs \in Seq([words : Seq(STRING), suffix : STRING])
       /\ s.known \in BOOLEAN /\ s.continue \in BOOLEAN /\ s.iterations \in Nat

VARIABLES
  suite,      \* the arguments of this call of run_all
  pc,
  iteration, config, job,   \* counters of the three loops, from 1
  vfio,       \* vfio_pcie, the devices the job passes through
  results,    \* of this call of run_tests
  allResults, \* of run_all
  exc,        \* the exception on its way: none, speed, vm
  told,       \* history: entry, vm and exit of the current job went well
  log         \* history: the jobs that were begun, and whether they went well

position == <<iteration, config, job>>
vars == <<suite, pc, position, vfio, results, allResults, exc, told, log>>

PC == {"config", "job", "enter", "start", "exit", "record", "summary", "done"}

\* itertools.product, the last factor fastest.
Combinations ==
  LET n == Len(suite.blocks) IN
  [i \in 1 .. Len(suite.setups) * n |->
     <<suite.setups[1 + ((i - 1) \div n)], suite.blocks[1 + ((i - 1) % n)]>>]

Setup == Combinations[config][1]
Name  == suite.jobs[job]
Cfg   == FromJobName(Name)
Checked == StorageTarget(Setup, suite.qemu).host_pci # "none"
Position == <<iteration, config, job>>
Goto(l) == pc' = l

NoTruth == [entry |-> FALSE, vm |-> FALSE, exit |-> FALSE]

\* vm.start returned, and the link, where it is checked, was fast enough before
\* and after.
WentWell == told.vm /\ (Checked => told.entry /\ told.exit)

\* What run_tests appends.  Its "config" names no block size; at is what a
\* reader of the list goes by.
Outcome(status) ==
  [config |-> <<Setup, Name>>, status |-> status, at |-> Position]

TypeOK ==
  /\ suite \in Suites /\ pc \in PC
  /\ iteration \in 1 .. 1 + suite.iterations
  /\ config \in 1 .. 1 + Len(Combinations)
  /\ job \in 1 .. 1 + Len(suite.jobs)
  /\ vfio \in Seq({"nvme", "gpu", "missing"})
  /\ exc \in {"none", "speed", "vm"}
  /\ \A i \in DOMAIN results : results[i].status \in {"SUCCESS", "FAILED"}
  /\ \A i \in DOMAIN allResults : allResults[i].status \in {"SUCCESS", "FAILED"}
  /\ told \in [entry : BOOLEAN, vm : BOOLEAN, exit : BOOLEAN]
  /\ \A k \in DOMAIN log : log[k].well \in BOOLEAN

\* No iteration, or nothing to combine: the loops of run_all are over at once.
Init ==
  /\ suite \in Suites
  /\ pc = IF suite.iterations = 0 \/ Combinations = <<>> THEN "summary" ELSE "config"
  /\ iteration = 1 /\ config = 1 /\ job = 1
  /\ vfio = <<>> /\ results = <<>> /\ allResults = <<>>
  /\ exc = "none" /\ told = NoTruth /\ log = <<>>

-----------------------------------------------------------------------------
\* Mutant: one iteration too many.
NextIterationLate ==
  /\ iteration' = iteration + 1 /\ config' = 1
  /\ Goto(IF iteration > suite.iterations THEN "summary" ELSE "config")

\* The two loops of run_all: the next configuration, the next iteration or,
\* after break, the next iteration at once.
NextIteration ==
  /\ iteration' = iteration + 1 /\ config' = 1
  /\ Goto(IF iteration = suite.iterations THEN "summary" ELSE "config")

NextConfig ==
  IF config < Len(Combinations)
    THEN config' = config + 1 /\ Goto("config") /\ UNCHANGED iteration
    ELSE NextIteration

\* Mutant: an exception ends the configurations even with continue_on_error.
TestsRaiseAlwaysBreaks ==
  /\ NextIteration
  /\ job' = 1 /\ results' = <<>> /\ UNCHANGED allResults

\* An exception leaves run_tests, and its results are gone with it.
TestsRaise ==
  /\ IF suite.continue THEN NextConfig ELSE NextIteration
  /\ job' = 1 /\ results' = <<>> /\ UNCHANGED allResults

\* run_tests is called, and looks for the host's devices before anything else.
BeginTests ==
  /\ pc = "config"
  /\ \/ /\ suite.known
        /\ results' = <<>> /\ job' = 1 /\ Goto("job")
        /\ UNCHANGED <<iteration, config, allResults>>
     \/ ~suite.known /\ TestsRaise
  /\ UNCHANGED <<suite, vfio, exc, told, log>>

\* The drive, and a GPU for cufile; without one in config.toml it is None.
Devices ==
  vfio' = StorageTarget(Setup, suite.qemu).vfio
             \o (IF Cfg.engine \notin CudaEngines THEN <<>>
                 ELSE IF HasGpu THEN <<"gpu">> ELSE <<"missing">>)

\* The head of the loop: the job's name, target and devices, outside of try.
PlanJob ==
  /\ pc = "job" /\ job <= Len(suite.jobs)
  /\ exc' = "none" /\ told' = NoTruth
  /\ \/ /\ Parses(Name) /\ HasTarget(Setup, suite.qemu, VmSetups)
        /\ Devices
        /\ Goto(IF Checked THEN "enter" ELSE "start")
        /\ UNCHANGED <<position, results, allResults>>
     \/ /\ ~(Parses(Name) /\ HasTarget(Setup, suite.qemu, VmSetups))
        /\ TestsRaise
        /\ UNCHANGED vfio
  /\ UNCHANGED <<suite, log>>

\* gts_to_gen: an unknown speed is generation 0.
GtsToGen(gts) ==
  CASE gts = 25  -> 1 [] gts = 50  -> 2 [] gts = 80  -> 3
    [] gts = 160 -> 4 [] gts = 320 -> 5 [] gts = 640 -> 6
    [] OTHER     -> 0

\* get_pci_device, parse_lspci_device and the tests of check_speed.
SpeedOK(link) ==
  /\ link # <<>>
  /\ IF ValidSpeeds = {} THEN GtsToGen(link[2]) = GtsToGen(link[1])
                         ELSE GtsToGen(link[2]) \in ValidSpeeds

EnterSpeed ==
  /\ pc = "enter"
  /\ \E link \in Links :
       /\ told' = [told EXCEPT !.entry = SpeedOK(link)]
       /\ exc' = IF SpeedOK(link) THEN "none" ELSE "speed"
       /\ Goto(IF SpeedOK(link) THEN "start" ELSE "record")
  /\ UNCHANGED <<suite, position, vfio, results, allResults, log>>

\* vm.start returns, or raises; it cannot pass None to QEMU.
StartVm ==
  /\ pc = "start"
  /\ \E ok \in IF Has(vfio, "missing") /\ Setup # "host" THEN {FALSE} ELSE BOOLEAN :
       /\ told' = [told EXCEPT !.vm = ok]
       /\ exc' = IF ok THEN "none" ELSE "vm"
  /\ Goto(IF Checked THEN "exit" ELSE "record")
  /\ UNCHANGED <<suite, position, vfio, results, allResults, log>>

\* Mutant: the link is read again only if the job went well, and not tested.
ExitSpeedUnchecked ==
  /\ pc = "exit"
  /\ \E link \in Links : told' = [told EXCEPT !.exit = SpeedOK(link)]
  /\ Goto("record")
  /\ UNCHANGED <<suite, position, vfio, results, allResults, exc, log>>

\* The finally block of check_speed: what it raises replaces vm.start's error.
ExitSpeed ==
  /\ pc = "exit"
  /\ \E link \in Links :
       /\ told' = [told EXCEPT !.exit = SpeedOK(link)]
       /\ exc' = IF SpeedOK(link) THEN exc ELSE "speed"
  /\ Goto("record")
  /\ UNCHANGED <<suite, position, vfio, results, allResults, log>>

\* Mutant: a failed job is recorded, and the next one begins regardless.
RecordGoesOn ==
  /\ pc = "record"
  /\ log' = Append(log, [at |-> Position, well |-> WentWell])
  /\ results' = Append(results, Outcome(IF exc = "none" THEN "SUCCESS" ELSE "FAILED"))
  /\ job' = job + 1
  /\ Goto("job")
  /\ UNCHANGED <<suite, iteration, config, vfio, allResults, exc, told>>

\* The end of the try statement.
Record ==
  /\ pc = "record"
  /\ log' = Append(log, [at |-> Position, well |-> WentWell])
  /\ \/ /\ exc = "none" \/ suite.continue
        /\ results' = Append(results,
                             Outcome(IF exc = "none" THEN "SUCCESS" ELSE "FAILED"))
        /\ job' = job + 1
        /\ Goto("job")
        /\ UNCHANGED <<iteration, config, allResults>>
     \/ /\ exc # "none" /\ ~suite.continue
        /\ TestsRaise
  /\ UNCHANGED <<suite, vfio, exc, told>>

\* Mutant: the results of the last configuration replace those before it.
EndTestsReplaces ==
  /\ pc = "job" /\ job > Len(suite.jobs)
  /\ allResults' = results
  /\ NextConfig
  /\ job' = 1 /\ results' = <<>>
  /\ UNCHANGED <<suite, vfio, exc, told, log>>

\* run_tests returns, and run_all takes its results over.
EndTests ==
  /\ pc = "job" /\ job > Len(suite.jobs)
  /\ allResults' = allResults \o results
  /\ NextConfig
  /\ job' = 1 /\ results' = <<>>
  /\ UNCHANGED <<suite, vfio, exc, told, log>>

\* The two counts are printed.
Summary ==
  /\ pc = "summary"
  /\ Goto("done")
  /\ UNCHANGED <<suite, position, vfio, results, allResults, exc, told, log>>

Next ==
  \/ BeginTests \/ PlanJob \/ EnterSpeed \/ StartVm \/ ExitSpeed \/ Record
  \/ EndTests \/ Summary

Spec == Init /\ [][Next]_vars
-----------------------------------------------------------------------------
(***************************************************************************)
(* What the runs check.                                                    *)
(***************************************************************************)

Reported == allResults \o results

\* The list a run of the whole suite should leave, in order.
Positions ==
  (1 .. suite.iterations) \X (1 .. Len(Combinations)) \X (1 .. Len(suite.jobs))

Before(a, b) ==
  \/ a[1] < b[1]
  \/ a[1] = b[1] /\ a[2] < b[2]
  \/ a[1] = b[1] /\ a[2] = b[2] /\ a[3] < b[3]

\* Every report is of a job that ran, in the order of the three loops and no job
\* twice, and it says SUCCESS exactly if vm.start returned and the link was fast
\* enough both before and after the job, also when the two failed together and
\* one exception replaced the other (run_tests, run_all, check_speed).
HonestResults ==
  /\ \A i, k \in DOMAIN log : i < k => Before(log[i].at, log[k].at)
  /\ \A i, k \in DOMAIN Reported : i < k => Before(Reported[i].at, Reported[k].at)
  /\ \A i \in DOMAIN Reported : \E k \in DOMAIN log :
       /\ log[k].at = Reported[i].at
       /\ (Reported[i].status = "SUCCESS") = log[k].well

\* The host is known, every name of the list parses, and every setup has its target.
Plannable ==
  /\ suite.known
  /\ \A i \in DOMAIN suite.jobs : Parses(suite.jobs[i])
  /\ \A i \in DOMAIN suite.setups : HasTarget(suite.setups[i], suite.qemu, VmSetups)

\* With continue_on_error, a suite whose jobs can all be planned runs and
\* reports each of them in every configuration and iteration, whatever fails.
NothingLost ==
  pc = "done" /\ suite.continue /\ Plannable =>
    /\ {Reported[i].at : i \in DOMAIN Reported} = Positions
    /\ Len(Reported) = Len(log)

\* Without continue_on_error, no job runs after one that failed, up to the end
\* of the iteration: break leaves the loop over the configurations only.
StopsAtFailure ==
  ~suite.continue =>
    \A i, k \in DOMAIN log : i < k /\ ~log[i].well => log[k].at[1] > log[i].at[1]

\* One configuration that cannot be planned does not keep the later ones from
\* being run: with continue_on_error each configuration that has a target gets
\* its first job run, if that one's name parses and the host is known (run_all).
OtherConfigsRun ==
  pc = "done" /\ suite.continue /\ suite.known /\ Len(suite.jobs) > 0
    /\ Parses(suite.jobs[1]) =>
    \A it \in 1 .. suite.iterations, c \in DOMAIN Combinations :
      HasTarget(Combinations[c][1], suite.qemu, VmSetups) =>
        \E k \in DOMAIN log : log[k].at = <<it, c, 1>>

(***************************************************************************)
(* What a comment says, and the code does not do.                          *)
(***************************************************************************)

\* With continue_on_error every job of the list is run: the default list names
\* "io_uring_cmd", which storage.py documents as an engine.
AllJobsRun ==
  pc = "done" /\ suite.continue /\ suite.known
    /\ (\A i \in DOMAIN suite.setups : HasTarget(suite.setups[i], suite.qemu, VmSetups)) =>
    {log[k].at : k \in DOMAIN log} = Positions
=============================================================================
