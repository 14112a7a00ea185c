------------------------------ MODULE FioStorage ------------------------------
(***************************************************************************)
(* A suite of storage jobs on one NVMe drive: the action run_fio           *)
(* (modules/fio/tasks/actions/storage.py), the actions run_gdsio and       *)
(* run_elbencho (modules/gdsio/tasks/actions), the formatters and the      *)
(* cleanup (modules/nvme/tasks/utils/storage.py) and the secure erase      *)
(* (modules/nvme/tasks/utils/nvme.py).  A job of kind "gds" is one of the  *)
(* latter two actions, which do the same to the drive.                     *)
(*                                                                         *)
(* Every command may fail by itself, at the locations of Faults, and fails *)
(* for sure when the kernel refuses it because of what is mapped, mounted  *)
(* or bound.  On the host the mappings, the mounts and the drivers outlive *)
(* a job; in a VM the guest is gone after each job, and only the drive's   *)
(* LBA format and partition table persist.                                 *)
(***************************************************************************)
EXTENDS Naturals, Sequences

CONSTANTS
  Kinds,      \* kinds of the jobs in the suite
  Sizes,      \* block_size arguments of the suite
  Setups,     \* "host": the jobs run on the host; "vm": each one in its VM
  Faults,     \* locations where a command may fail by itself
  MaxJobs     \* bound on the jobs of the suite

NoSize == 0   \* block_size=None: the erase keeps the LBA format

VARIABLES
  setup,      \* of run_tests
  job,        \* [kind, size] of the current job
  pc, step,   \* where it is, and within its formatter
  exc,        \* whether an exception is passing the finally block
  lba,        \* LBA format of the drive, in bytes
  label,      \* whether the drive has a partition table
  mapped,     \* open device-mapper devices
  mounts,     \* what is mounted on /mnt/encrypted, the topmost first
  spdk,       \* whether the drive is bound to SPDK's driver
  jobs,       \* jobs started
  clean,      \* history: the current job began on a clean drive
  faultAt,    \* history: where its commands have failed by themselves
  residue     \* history: an earlier job on this host was left unreleased

driveVars  == <<lba, label>>
kernelVars == <<mapped, mounts, spdk>>
pastVars   == <<clean, faultAt, residue>>
vars == <<setup, job, pc, step, exc, driveVars, kernelVars, jobs, pastVars>>

AllKinds == {"spdk", "raw", "plain", "luks", "dmverity", "fsverity", "gds"}

ASSUME ConstantsOK ==
  /\ Kinds \subseteq AllKinds /\ Kinds # {}
  /\ Sizes \subseteq {NoSize, 512, 4096} /\ Sizes # {}
  /\ Setups \subseteq {"host", "vm"} /\ Setups # {}
  /\ MaxJobs \in Nat

PC == {"idle", "erase", "format", "precondition", "spdk_setup", "fio",
       "spdk_reset", "cleanup", "reset_lba", "done", "failed"}

-----------------------------------------------------------------------------
(***************************************************************************)
(* The formatters, one command after the other.                            *)
(***************************************************************************)

Op == [parted |-> [do |-> "parted"], mkfs   |-> [do |-> "mkfs"],
       file   |-> [do |-> "file"],   umount |-> [do |-> "umount"],
       hash   |-> [do |-> "hash"],   enable |-> [do |-> "enable"]]

Mount(what) == [do |-> "mount", what |-> what]
Open(what)  == [do |-> "open", what |-> what]

\* Mutant: plain, gds and fsverity jobs use the partition they find.
FormatterReusesPartition(kind) ==
  CASE kind \in {"plain", "gds", "fsverity"} -> <<Op.mkfs, Mount("part"), Op.file>>
    [] kind = "luks"     -> <<Op.parted, Op.hash, Open("luks"), Op.mkfs,
                              Mount("luks"), Op.file>>
    [] kind = "dmverity" -> <<Op.parted, Op.mkfs, Mount("part"), Op.file,
                              Op.umount, Op.hash, Open("verity"), Mount("verity")>>
    [] OTHER             -> <<>>

\* format_plain_device, format_luks_device_with_mode, format_dmverity_device
\* and format_fsverity_device; a raw job is not formatted.
Formatter(kind) ==
  CASE kind \in {"plain", "gds"} -> <<Op.parted, Op.mkfs, Mount("part"), Op.file>>
    [] kind = "luks"     -> <<Op.parted, Op.hash, Open("luks"), Op.mkfs,
                              Mount("luks"), Op.file>>
    [] kind = "dmverity" -> <<Op.parted, Op.mkfs, Mount("part"), Op.file,
                              Op.umount, Op.hash, Open("verity"), Mount("verity")>>
    [] kind = "fsverity" -> <<Op.parted, Op.mkfs, Mount("part"), Op.file, Op.enable>>
    [] OTHER             -> <<>>

\* A partition is held by a mount or by a mapping.
Busy == mounts # <<>> \/ mapped # {}

\* The kernel rereads no partition table in use, and a name is mapped once.
Possible(op) ==
  CASE op.do = "parted" -> ~Busy /\ ~spdk
    [] op.do = "open"   -> op.what \notin mapped
    [] op.do = "umount" -> mounts # <<>>
    [] OTHER            -> TRUE

Do(op) ==
  /\ label'  = (label \/ op.do = "parted")
  /\ mapped' = IF op.do = "open" THEN mapped \cup {op.what} ELSE mapped
  /\ mounts' = CASE op.do = "mount"  -> <<op.what>> \o mounts
                 [] op.do = "umount" -> Tail(mounts)
                 [] OTHER            -> mounts

Goto(l) == pc' = l

\* The current command fails by itself.
Fault == pc \in Faults /\ faultAt' = faultAt \cup {pc}

-----------------------------------------------------------------------------
TypeOK ==
  /\ setup \in Setups
  /\ job \in [kind : Kinds, size : Sizes]
  /\ pc \in PC
  /\ step \in 1 .. 1 + Len(Formatter(job.kind))
  /\ exc \in BOOLEAN /\ lba \in {512, 4096} /\ label \in BOOLEAN
  /\ mapped \subseteq {"luks", "verity"}
  /\ mounts \in Seq({"part", "luks", "verity"})
  /\ spdk \in BOOLEAN /\ jobs \in 0 .. MaxJobs
  /\ clean \in BOOLEAN /\ faultAt \subseteq Faults /\ residue \in BOOLEAN

\* A drive as the operator leaves it: formatted with 512-byte blocks, with or
\* without a partition table, unused.
Init ==
  /\ setup \in Setups
  /\ job \in [kind : Kinds, size : Sizes]
  /\ pc = "idle" /\ step = 1 /\ exc = FALSE
  /\ lba = 512 /\ label \in BOOLEAN
  /\ mapped = {} /\ mounts = <<>> /\ spdk = FALSE
  /\ jobs = 0 /\ clean = TRUE /\ faultAt = {} /\ residue = FALSE

\* Nothing is mapped, mounted or bound, and the blocks have 512 bytes.
Released == ~Busy /\ ~spdk
Clean    == Released /\ lba = 512

\* run_fio erases the drive first; run_gdsio and run_elbencho take it as it is,
\* and have no block_size.
Beginning(kind) == IF kind = "gds" THEN "format" ELSE "erase"

NewJob ==
  \E k \in Kinds, s \in Sizes :
    /\ k = "gds" => s = NoSize
    /\ job' = [kind |-> k, size |-> s]

\* Mutant: the next job is counted but not reset.
StartJobKeepsStep ==
  /\ pc = "idle" /\ jobs < MaxJobs
  /\ NewJob
  /\ Goto(Beginning(job'.kind))
  /\ exc' = FALSE /\ clean' = Clean /\ faultAt' = {}
  /\ jobs' = jobs + 1
  /\ UNCHANGED <<setup, step, driveVars, kernelVars, residue>>

StartJob ==
  /\ pc = "idle" /\ jobs < MaxJobs
  /\ NewJob
  /\ Goto(Beginning(job'.kind))
  /\ step' = 1 /\ exc' = FALSE /\ clean' = Clean /\ faultAt' = {}
  /\ jobs' = jobs + 1
  /\ UNCHANGED <<setup, driveVars, kernelVars, residue>>

\* What a completed `nvme format` leaves on the drive; --force does not mind
\* mounts or mappings.
Erased(size) ==
  /\ lba' = IF size = NoSize THEN lba ELSE size
  /\ label' = FALSE

\* nvme_secure_erase: id-ns and format, then udevadm, each of them checked.
\* There is no block device to erase while SPDK has the drive.
Erase ==
  /\ pc = "erase"
  /\ \/ ~spdk /\ Erased(job.size) /\ Goto("format") /\ UNCHANGED faultAt
     \/ ~spdk /\ Erased(job.size) /\ Goto("failed") /\ Fault
     \/ Goto("failed") /\ Fault /\ UNCHANGED driveVars
     \/ spdk /\ Goto("failed") /\ UNCHANGED <<driveVars, faultAt>>
  /\ UNCHANGED <<setup, job, step, exc, kernelVars, jobs, clean, residue>>

\* One command of the formatter; an exception leaves run_fio, for the try block
\* begins further down.  What fails at the first one may be the setpci of
\* force_mps, or the wait for the partition that parted has made already.
Format ==
  /\ pc = "format" /\ step <= Len(Formatter(job.kind))
  /\ LET op == Formatter(job.kind)[step] IN
     \/ /\ Possible(op) /\ Do(op)
        /\ step' = step + 1
        /\ UNCHANGED <<pc, faultAt>>
     \/ /\ ~Possible(op) /\ Goto("failed")
        /\ UNCHANGED <<step, label, mapped, mounts, faultAt>>
     \/ /\ Fault /\ Goto("failed")
        /\ label' \in {label, label \/ (op.do = "parted" /\ Possible(op))}
        /\ UNCHANGED <<step, mapped, mounts>>
  /\ UNCHANGED <<setup, job, exc, lba, spdk, jobs, clean, residue>>

\* needs_precondition and needs_spdk_setup of FioJobConfig.  Without a formatter
\* it is force_mps, or the lookup of io_uring_cmd's device, that may fail.
Formatted ==
  /\ pc = "format" /\ step > Len(Formatter(job.kind))
  /\ \/ /\ Goto(CASE job.kind \in {"spdk", "raw", "luks"} -> "precondition"
                  [] OTHER                               -> "fio")
        /\ UNCHANGED faultAt
     \/ Formatter(job.kind) = <<>> /\ Fault /\ Goto("failed")
  /\ UNCHANGED <<setup, job, step, exc, driveVars, kernelVars, jobs, clean, residue>>

Precondition ==
  /\ pc = "precondition"
  /\ \/ /\ Goto(IF job.kind = "spdk" THEN "spdk_setup" ELSE "fio")
        /\ UNCHANGED faultAt
     \/ Fault /\ Goto("failed")
  /\ UNCHANGED <<setup, job, step, exc, driveVars, kernelVars, jobs, clean, residue>>

\* Where the finally block begins for the kind of the job.
Finally == CASE job.kind = "spdk" -> "spdk_reset"
             [] job.kind = "raw"  -> "reset_lba"
             [] OTHER             -> "cleanup"

\* spdk-setup passes over a drive in use without a complaint; then
\* setup_hugepages, which may fail with the drive bound.
SpdkSetup ==
  /\ pc = "spdk_setup"
  /\ \/ /\ spdk' = ~Busy
        /\ \/ Goto("fio") /\ UNCHANGED <<exc, faultAt>>
           \/ Fault /\ Goto(Finally) /\ exc' = TRUE
     \/ /\ Fault /\ Goto(Finally) /\ exc' = TRUE
        /\ UNCHANGED spdk
  /\ UNCHANGED <<setup, job, step, driveVars, mapped, mounts, jobs, clean, residue>>

\* An exception passes the finally block; run_gdsio and run_elbencho have none,
\* and clean up only behind their last command.
Raise == IF job.kind = "gds" THEN Goto("failed") /\ UNCHANGED exc
                             ELSE Goto(Finally) /\ exc' = TRUE

\* fio's SPDK engine needs the drive on SPDK's driver, the others on nvme.
RunFio ==
  /\ pc = "fio"
  /\ \/ spdk = (job.kind = "spdk") /\ Goto(Finally) /\ UNCHANGED <<exc, faultAt>>
     \/ spdk # (job.kind = "spdk") /\ Raise /\ UNCHANGED faultAt
     \/ Fault /\ Raise
  /\ UNCHANGED <<setup, job, step, driveVars, kernelVars, jobs, clean, residue>>

\* The reset is checked: its failure leaves the finally block at once.
SpdkReset ==
  /\ pc = "spdk_reset"
  /\ \/ Goto("reset_lba") /\ spdk' = FALSE /\ UNCHANGED faultAt
     \/ Fault /\ Goto("failed") /\ UNCHANGED spdk
  /\ UNCHANGED <<setup, job, step, exc, driveVars, mapped, mounts, jobs, clean, residue>>

\* The parts of cleanup_encrypted_device.  The storage type is "luks-...", but
\* "dmverity-ext4" is not "dmverity".
Unmounted == IF mounts = <<>> THEN mounts ELSE Tail(mounts)
Closed(m) == IF job.kind = "luks" /\ \A i \in DOMAIN m : m[i] # "luks"
               THEN mapped \ {"luks"} ELSE mapped

\* Mutant: the mapping is closed before the file system is unmounted.
CleanupCloseFirst ==
  /\ pc = "cleanup"
  /\ mounts' = Unmounted /\ mapped' = Closed(mounts)
  /\ label' = (label /\ Busy')
  /\ Goto("reset_lba")
  /\ UNCHANGED <<setup, job, step, exc, lba, spdk, jobs, pastVars>>

\* umount, close and wipefs, none of them checked; the kernel closes no mapping
\* that is mounted and wipes no drive that is busy.
Cleanup ==
  /\ pc = "cleanup"
  /\ \/ /\ mounts' = Unmounted /\ mapped' = Closed(mounts')
        /\ label' = (label /\ Busy')
        /\ UNCHANGED faultAt
     \/ /\ Fault
        /\ mounts' \in {mounts, Unmounted}
        /\ mapped' \in {mapped, Closed(mounts')}
        /\ label' \in {label, label /\ Busy'}
  /\ Goto("reset_lba")
  /\ UNCHANGED <<setup, job, step, exc, lba, spdk, jobs, clean, residue>>

\* Mutant: the block size is reset only after a job that succeeded.
ResetLbaOnSuccess ==
  /\ pc = "reset_lba"
  /\ IF job.size = 4096 /\ ~exc THEN Erased(512) ELSE UNCHANGED driveVars
  /\ Goto(IF exc THEN "failed" ELSE "done")
  /\ UNCHANGED <<setup, job, step, exc, kernelVars, jobs, pastVars>>

\* Back to 512 bytes if another size was used; an exception is printed.  A gds
\* job has no size to reset.
ResetLba ==
  /\ pc = "reset_lba"
  /\ \/ job.size \in {NoSize, 512} /\ UNCHANGED <<driveVars, faultAt>>
     \/ job.size = 4096 /\ Erased(512) /\ UNCHANGED faultAt
     \/ job.size = 4096 /\ Fault /\ UNCHANGED driveVars
  /\ Goto(IF exc THEN "failed" ELSE "done")
  /\ UNCHANGED <<setup, job, step, exc, kernelVars, jobs, clean, residue>>

\* Jobs that the code does not release: the try block begins behind the formatter
\* and the preconditioning, run_gdsio and run_elbencho have none, a failed reset
\* ends the finally block, and a dm-verity mapping is not closed at all.
LeavesResidue ==
  \/ job.kind = "dmverity"
  \/ job.kind = "gds" /\ pc = "failed"
  \/ faultAt \cap {"format", "precondition", "spdk_reset", "cleanup"} # {}

\* Mutant: the next job runs in the guest of the last one.
EndJobSameGuest ==
  /\ pc \in {"done", "failed"}
  /\ Goto("idle")
  /\ residue' = (residue \/ (setup = "host" /\ LeavesResidue))
  /\ UNCHANGED <<setup, job, step, exc, driveVars, kernelVars, jobs, clean, faultAt>>

\* run_tests notes the result and takes the next job, or the operator calls the
\* next one; a guest goes with its VM, and the host keeps what it has.
EndJob ==
  /\ pc \in {"done", "failed"}
  /\ Goto("idle")
  /\ residue' = (residue \/ (setup = "host" /\ LeavesResidue))
  /\ IF setup = "host" THEN UNCHANGED kernelVars
                         ELSE mapped' = {} /\ mounts' = <<>> /\ spdk' = FALSE
  /\ UNCHANGED <<setup, job, step, exc, driveVars, jobs, clean, faultAt>>

Next ==
  \/ StartJob \/ Erase \/ Format \/ Formatted \/ Precondition \/ SpdkSetup
  \/ RunFio \/ SpdkReset \/ Cleanup \/ ResetLba \/ EndJob

Spec == Init /\ [][Next]_vars
-----------------------------------------------------------------------------
(***************************************************************************)
(* What the runs check.                                                    *)
(***************************************************************************)

\* The file that fio of a formatted job reads lies on these.
OwnMapped == CASE job.kind = "luks"     -> {"luks"}
               [] job.kind = "dmverity" -> {"verity"}
               [] OTHER                 -> {}

OwnMount == CASE job.kind = "luks"     -> "luks"
              [] job.kind = "dmverity" -> "verity"
              [] OTHER                 -> "part"

\* fio measures the LBA format that was asked for and, in a formatted job, the
\* file on this job's own layers and on no older one, whatever earlier jobs
\* have left mapped or mounted, also on the host (run_fio, the formatters).
MeasuresItsOwn ==
  pc = "fio" =>
    /\ job.size # NoSize => lba = job.size
    /\ job.kind \notin {"spdk", "raw"} =>
         mounts = <<OwnMount>> /\ mapped = OwnMapped /\ label

\* A job fails, without a command of its own failing, only because of what is
\* left of an earlier job, and only on the host, after one that LeavesResidue
\* names: no other job, however it failed, makes a later one fail, and in VMs
\* none does (run_tests, run_fio, cleanup_encrypted_device).
FailsByResidueOnly == pc = "failed" /\ faultAt = {} => residue /\ ~clean

\* A job that began on a clean drive has nothing mapped, mounted or bound at
\* its end, also when fio, the SPDK setup or the last erase failed.  That of a
\* dm-verity job is excepted, see SuccessLeavesNothing, and a gds job that
\* failed, for it has no finally block (run_fio, run_gdsio,
\* cleanup_encrypted_device).
NothingLeft ==
  pc \in {"done", "failed"} /\ clean /\ job.kind # "dmverity"
    /\ (job.kind = "gds" => pc = "done")
    /\ faultAt \subseteq {"spdk_setup", "fio", "reset_lba"} => Released

\* A job that began on a clean drive leaves 512-byte blocks, also when it was
\* run with 4096 and fio or the SPDK setup failed (the finally block of run_fio;
\* a failure before its try block, or of the finally block, is excepted).
BackTo512 ==
  pc \in {"done", "failed"} /\ clean /\ faultAt \subseteq {"spdk_setup", "fio"} =>
    lba = 512

(***************************************************************************)
(* What a comment says, and the code does not do.                          *)
(***************************************************************************)

\* A job that succeeded on a clean drive has cleaned up after itself; storage.py:
\* "needs_cleanup: Whether device cleanup is needed after FIO".
SuccessLeavesNothing == pc = "done" /\ clean => Released
=============================================================================
