--------------------------- MODULE FioStorageProofs ---------------------------
(***************************************************************************)
(* Proofs about FioStorage, for suites of any length, any kinds of jobs,   *)
(* any block sizes and any places where commands fail.                     *)
(***************************************************************************)
EXTENDS FioStorage, TLAPS

(***************************************************************************)
(* A formatter that begins on a released drive finds what it needs at each *)
(* of its commands: what is mapped and mounted when command k is next is   *)
(* this.                                                                   *)
(***************************************************************************)
FormattedKinds == {"plain", "luks", "dmverity", "fsverity", "gds"}

MappedAt(kind, k) ==
  CASE kind = "luks" /\ k > 3     -> {"luks"}
    [] kind = "dmverity" /\ k > 7 -> {"verity"}
    [] OTHER                      -> {}

MountsAt(kind, k) ==
  CASE kind \in {"plain", "fsverity", "gds"} /\ k > 3 -> <<"part">>
    [] kind = "luks" /\ k > 5                         -> <<"luks">>
    [] kind = "dmverity" /\ k \in 4..5                -> <<"part">>
    [] kind = "dmverity" /\ k > 8                     -> <<"verity">>
    [] OTHER                                          -> << >>

At(k) == mapped = MappedAt(job.kind, k) /\ mounts = MountsAt(job.kind, k) /\ ~spdk

\* How many commands each formatter has, and which comes when.
LEMMA Commands ==
  ASSUME NEW kind \in AllKinds
  PROVE  /\ Len(Formatter(kind)) \in Nat
         /\ kind \in FormattedKinds => Len(Formatter(kind)) > 0 /\ Formatter(kind)[1] = Op.parted
         /\ kind \in {"spdk", "raw"} => Len(Formatter(kind)) = 0
  BY DEF AllKinds, FormattedKinds, Formatter

\* One command on the way: it is possible, and it leads on.
LEMMA Command ==
  ASSUME NEW kind \in AllKinds, NEW k \in 1..Len(Formatter(kind)),
         mapped = MappedAt(kind, k), mounts = MountsAt(kind, k), ~spdk
  PROVE  /\ Possible(Formatter(kind)[k])
         /\ Do(Formatter(kind)[k]) =>
              /\ mapped' = MappedAt(kind, k + 1) /\ mounts' = MountsAt(kind, k + 1)
              /\ label' = (label \/ k = 1)
  <1> USE DEF Possible, Do, MappedAt, MountsAt, Op, Mount, Open, Busy
  <1>1. CASE kind \in {"plain", "gds"}
    <2>1. Formatter(kind) = <<Op.parted, Op.mkfs, Mount("part"), Op.file>>
      BY <1>1 DEF Formatter
    <2>2. k \in 1..4
      BY <2>1
    <2>3. k = 1 \/ k = 2 \/ k = 3 \/ k = 4
      BY <2>2
    <2>4. CASE k = 1
      BY <1>1, <2>1, <2>4
    <2>5. CASE k = 2
      BY <1>1, <2>1, <2>5
    <2>6. CASE k = 3
      BY <1>1, <2>1, <2>6
    <2>7. CASE k = 4
      BY <1>1, <2>1, <2>7
    <2>8. QED BY <2>3, <2>4, <2>5, <2>6, <2>7
  <1>2. CASE kind = "luks"
    <2>1. Formatter(kind) = <<Op.parted, Op.hash, Open("luks"), Op.mkfs, Mount("luks"), Op.file>>
      BY <1>2 DEF Formatter
    <2>2. k \in 1..6
      BY <2>1
    <2>3. k = 1 \/ k = 2 \/ k = 3 \/ k = 4 \/ k = 5 \/ k = 6
      BY <2>2
    <2>4. CASE k = 1
      BY <1>2, <2>1, <2>4
    <2>5. CASE k = 2
      BY <1>2, <2>1, <2>5
    <2>6. CASE k = 3
      BY <1>2, <2>1, <2>6
    <2>7. CASE k = 4
      BY <1>2, <2>1, <2>7
    <2>8. CASE k = 5
      BY <1>2, <2>1, <2>8
    <2>9. CASE k = 6
      BY <1>2, <2>1, <2>9
    <2>10. QED BY <2>3, <2>4, <2>5, <2>6, <2>7, <2>8, <2>9
  <1>3. CASE kind = "dmverity"
    <2>1. Formatter(kind) = <<Op.parted, Op.mkfs, Mount("part"), Op.file,
                              Op.umount, Op.hash, Open("verity"), Mount("verity")>>
      BY <1>3 DEF Formatter
    <2>2. k \in 1..8
      BY <2>1
    <2>3. k = 1 \/ k = 2 \/ k = 3 \/ k = 4 \/ k = 5 \/ k = 6 \/ k = 7 \/ k = 8
      BY <2>2
    <2>4. CASE k = 1
      BY <1>3, <2>1, <2>4
    <2>5. CASE k = 2
      BY <1>3, <2>1, <2>5
    <2>6. CASE k = 3
      BY <1>3, <2>1, <2>6
    <2>7. CASE k = 4
      BY <1>3, <2>1, <2>7
    <2>8. CASE k = 5
      BY <1>3, <2>1, <2>8
    <2>9. CASE k = 6
      BY <1>3, <2>1, <2>9
    <2>10. CASE k = 7
      BY <1>3, <2>1, <2>10
    <2>11. CASE k = 8
      BY <1>3, <2>1, <2>11
    <2>12. QED BY <2>3, <2>4, <2>5, <2>6, <2>7, <2>8, <2>9, <2>10, <2>11
  <1>4. CASE kind = "fsverity"
    <2>1. Formatter(kind) = <<Op.parted, Op.mkfs, Mount("part"), Op.file, Op.enable>>
      BY <1>4 DEF Formatter
    <2>2. k \in 1..5
      BY <2>1
    <2>3. k = 1 \/ k = 2 \/ k = 3 \/ k = 4 \/ k = 5
      BY <2>2
    <2>4. CASE k = 1
      BY <1>4, <2>1, <2>4
    <2>5. CASE k = 2
      BY <1>4, <2>1, <2>5
    <2>6. CASE k = 3
      BY <1>4, <2>1, <2>6
    <2>7. CASE k = 4
      BY <1>4, <2>1, <2>7
    <2>8. CASE k = 5
      BY <1>4, <2>1, <2>8
    <2>9. QED BY <2>3, <2>4, <2>5, <2>6, <2>7, <2>8
  <1>5. CASE kind \in {"spdk", "raw"}
    BY <1>5, Commands
  <1>6. QED BY <1>1, <1>2, <1>3, <1>4, <1>5 DEF AllKinds

(***************************************************************************)
(* Type correctness.                                                       *)
(***************************************************************************)
Mountable == {"part", "luks", "verity"}

\* What a command maps is a name the suite maps, and what it mounts can be
\* mounted.
LEMMA CommandType ==
  ASSUME NEW kind \in AllKinds, NEW k \in 1..Len(Formatter(kind)),
         mapped \subseteq {"luks", "verity"}, mounts \in Seq(Mountable), label \in BOOLEAN,
         Possible(Formatter(kind)[k]), Do(Formatter(kind)[k])
  PROVE  mapped' \subseteq {"luks", "verity"} /\ mounts' \in Seq(Mountable) /\ label' \in BOOLEAN
  <1> DEFINE op == Formatter(kind)[k]
  <1>1. /\ op.do = "open" => op.what \in {"luks", "verity"}
        /\ op.do = "mount" => op.what \in Mountable
    <2> USE DEF Op, Mount, Open, Mountable
    <2>1. CASE kind \in {"plain", "fsverity", "gds"}
      <3>1. k \in 1..5 /\ (kind # "fsverity" => k # 5)
        BY <2>1 DEF Formatter
      <3>2. k = 1 \/ k = 2 \/ k = 3 \/ k = 4 \/ k = 5
        BY <3>1
      <3>3. QED BY <2>1, <3>1, <3>2 DEF Formatter
    <2>2. CASE kind = "luks"
      <3>1. Formatter(kind) = <<Op.parted, Op.hash, Open("luks"), Op.mkfs, Mount("luks"), Op.file>>
        BY <2>2 DEF Formatter
      <3>2. k = 1 \/ k = 2 \/ k = 3 \/ k = 4 \/ k = 5 \/ k = 6
        BY <3>1
      <3>3. QED BY <3>1, <3>2
    <2>3. CASE kind = "dmverity"
      <3>1. Formatter(kind) = <<Op.parted, Op.mkfs, Mount("part"), Op.file,
                                Op.umount, Op.hash, Open("verity"), Mount("verity")>>
        BY <2>3 DEF Formatter
      <3>2. k = 1 \/ k = 2 \/ k = 3 \/ k = 4 \/ k = 5 \/ k = 6 \/ k = 7 \/ k = 8
        BY <3>1
      <3>3. QED BY <3>1, <3>2
    <2>4. CASE kind \in {"spdk", "raw"}
      BY <2>4, Commands
    <2>5. QED BY <2>1, <2>2, <2>3, <2>4 DEF AllKinds
  <1> HIDE DEF op
  <1>2. Possible(op) /\ Do(op)
    BY DEF op
  <1>3. mapped' \subseteq {"luks", "verity"} /\ label' \in BOOLEAN
    BY <1>1, <1>2 DEF Do
  <1>4. CASE op.do = "mount"
    <2>1. mounts' = <<op.what>> \o mounts
      BY <1>2, <1>4 DEF Do
    <2>2. QED BY <1>1, <1>3, <1>4, <2>1
  <1>5. CASE op.do = "umount"
    <2>1. mounts' = Tail(mounts) /\ mounts # << >>
      BY <1>2, <1>5 DEF Do, Possible
    <2>2. QED BY <1>3, <2>1
  <1>6. CASE op.do \notin {"mount", "umount"}
    BY <1>2, <1>3, <1>6 DEF Do
  <1>7. QED BY <1>4, <1>5, <1>6

\* The type invariant without the command, which the job's formatter bounds.
OtherTypes ==
  /\ setup \in Setups /\ job \in [kind : Kinds, size : Sizes]
  /\ pc \in PC /\ exc \in BOOLEAN /\ jobs \in 0..MaxJobs
  /\ lba \in {512, 4096} /\ label \in BOOLEAN
  /\ mapped \subseteq {"luks", "verity"} /\ mounts \in Seq(Mountable) /\ spdk \in BOOLEAN
  /\ clean \in BOOLEAN /\ faultAt \subseteq Faults /\ residue \in BOOLEAN

CommandOf(j) == 1..1 + Len(Formatter(j.kind))

LEMMA Types ==
  /\ TypeOK <=> OtherTypes /\ step \in CommandOf(job)
  /\ TypeOK' <=> OtherTypes' /\ step' \in CommandOf(job')
  BY DEF TypeOK, OtherTypes, CommandOf, Mountable

\* A job of the suite has a formatter.
LEMMA JobSound ==
  ASSUME NEW j \in [kind : Kinds, size : Sizes]
  PROVE  j.kind \in AllKinds /\ Len(Formatter(j.kind)) \in Nat /\ 1 \in CommandOf(j)
  <1>1. j.kind \in AllKinds
    BY ConstantsOK
  <1>2. QED BY <1>1, Commands DEF CommandOf

\* block_size is one of two sizes, or none.
LEMMA SizeSound ==
  ASSUME NEW s \in Sizes
  PROVE  s \in {0, 512, 4096}
  BY ConstantsOK DEF NoSize

\* The initial values have their types.
LEMMA TypeInit == Init => TypeOK
  <1> SUFFICES ASSUME Init PROVE TypeOK
    OBVIOUS
  <1>1. job \in [kind : Kinds, size : Sizes]
    BY DEF Init
  <1>2. step \in CommandOf(job)
    BY <1>1, JobSound DEF Init
  <1>3. OtherTypes
    <2>1. << >> \in Seq(Mountable) /\ 0 \in 0..MaxJobs
      BY ConstantsOK
    <2>2. exc \in BOOLEAN /\ label \in BOOLEAN /\ spdk \in BOOLEAN /\ clean \in BOOLEAN
          /\ residue \in BOOLEAN
      BY DEF Init
    <2>3. QED BY <1>1, <2>1, <2>2 DEF Init, OtherTypes, PC
  <1>4. QED BY <1>2, <1>3, Types

\* Every step keeps the types.
LEMMA TypeNext == TypeOK /\ [Next]_vars => TypeOK'
  <1> SUFFICES ASSUME OtherTypes, step \in CommandOf(job), [Next]_vars
               PROVE  OtherTypes' /\ step' \in CommandOf(job')
    BY Types
  <1>k. job.kind \in AllKinds /\ Len(Formatter(job.kind)) \in Nat
    BY JobSound DEF OtherTypes
  <1>b. exc \in BOOLEAN /\ label \in BOOLEAN /\ spdk \in BOOLEAN /\ clean \in BOOLEAN
          /\ residue \in BOOLEAN
    BY DEF OtherTypes
  <1> USE DEF driveVars, kernelVars, pastVars, Goto, Fault
  <1>1. CASE StartJob
    <2>1. job' \in [kind : Kinds, size : Sizes] /\ step' = 1
      BY <1>1 DEF StartJob, NewJob
    <2>2. step' \in CommandOf(job')
      BY <2>1, JobSound
    <2>3. clean' \in BOOLEAN /\ exc' \in BOOLEAN
      <3>1. clean' = Clean /\ Clean \in BOOLEAN /\ exc' = FALSE
        BY <1>1 DEF StartJob, Clean
      <3>2. QED BY <3>1
    <2>4. jobs' \in 0..MaxJobs
      BY <1>1, ConstantsOK DEF StartJob, OtherTypes
    <2>5. /\ UNCHANGED <<setup, lba, label, mapped, mounts, spdk, residue>>
          /\ pc' \in {"erase", "format"} /\ faultAt' = {}
      BY <1>1 DEF StartJob, Beginning
    <2>6. QED BY <2>1, <2>2, <2>3, <2>4, <2>5 DEF OtherTypes, PC
  <1>2. CASE Erase
    <2>1. job.size \in {0, 512, 4096}
      <3>1. job.size \in Sizes
        BY DEF OtherTypes
      <3>2. QED BY <3>1, SizeSound
    <2>2. lba' \in {512, 4096}
      BY <1>2, <2>1 DEF Erase, OtherTypes, Erased, NoSize
    <2>3. label' = FALSE \/ label' = label
      BY <1>2 DEF Erase, Erased
    <2>4. label' \in BOOLEAN
      BY <1>b, <2>3
    <2>5. faultAt' \subseteq Faults /\ pc' \in PC
      BY <1>2 DEF Erase, OtherTypes, PC
    <2>6. UNCHANGED <<setup, job, step, exc, mapped, mounts, spdk, jobs, clean, residue>>
      BY <1>2 DEF Erase
    <2>7. QED BY <2>2, <2>4, <2>5, <2>6 DEF OtherTypes
  <1>3. CASE Format
    <2> DEFINE op == Formatter(job.kind)[step]
    <2>1. step \in 1..Len(Formatter(job.kind)) /\ step \in Nat
      BY <1>3, <1>k DEF Format, CommandOf
    <2>2. CASE Possible(op) /\ Do(op) /\ step' = step + 1 /\ UNCHANGED <<pc, faultAt>>
      <3>1. mapped' \subseteq {"luks", "verity"} /\ mounts' \in Seq(Mountable) /\ label' \in BOOLEAN
        BY <1>k, <2>1, <2>2, CommandType DEF OtherTypes
      <3>2. step' \in 1..1 + Len(Formatter(job.kind))
        BY <1>k, <2>1, <2>2
      <3>3. UNCHANGED <<setup, job, exc, lba, spdk, jobs, clean, residue>>
        BY <1>3 DEF Format
      <3> HIDE DEF op
      <3>4. QED BY <2>2, <3>1, <3>2, <3>3 DEF OtherTypes, CommandOf
    <2>3. CASE /\ pc' = "failed" /\ UNCHANGED <<step, mapped, mounts>>
               /\ faultAt' \subseteq Faults /\ label' \in BOOLEAN
      <3>1. UNCHANGED <<setup, job, exc, lba, spdk, jobs, clean, residue>>
        BY <1>3 DEF Format
      <3> HIDE DEF op
      <3>2. QED BY <2>3, <3>1 DEF OtherTypes, PC, CommandOf
    <2>4. QED
      <3>1. faultAt \subseteq Faults
        BY DEF OtherTypes
      <3>2. label' = label \/ label' = (label \/ (op.do = "parted" /\ Possible(op))) => label' \in BOOLEAN
        BY <1>b, Zenon
      <3> HIDE DEF op
      <3>3. QED BY <1>3, <2>2, <2>3, <3>1, <3>2 DEF Format, op
  <1>4. CASE Formatted
    <2>1. faultAt' \subseteq Faults /\ pc' \in PC
      BY <1>4 DEF Formatted, OtherTypes, PC
    <2>2. QED BY <1>4, <2>1 DEF Formatted, OtherTypes
  <1>5. CASE Precondition
    BY <1>5 DEF Precondition, OtherTypes, PC
  <1>f. Finally \in PC
    BY DEF Finally, PC
  <1>6. CASE SpdkSetup
    <2>1. (exc' = TRUE \/ exc' = exc) /\ (spdk' = ~Busy \/ spdk' = spdk)
      BY <1>6 DEF SpdkSetup
    <2>2. exc' \in BOOLEAN /\ spdk' \in BOOLEAN
      BY <1>b, <2>1 DEF Busy
    <2>3. faultAt' \subseteq Faults /\ pc' \in PC
      BY <1>6, <1>f DEF SpdkSetup, OtherTypes, PC
    <2>4. UNCHANGED <<setup, job, step, lba, label, mapped, mounts, jobs, clean, residue>>
      BY <1>6 DEF SpdkSetup
    <2>5. QED BY <2>2, <2>3, <2>4 DEF OtherTypes
  <1>7. CASE RunFio
    <2>1. exc' = TRUE \/ exc' = exc
      BY <1>7 DEF RunFio, Raise
    <2>2. exc' \in BOOLEAN
      BY <1>b, <2>1
    <2>3. faultAt' \subseteq Faults /\ pc' \in PC
      <3>1. pc' = Finally \/ pc' = "failed"
        BY <1>7 DEF RunFio, Raise
      <3>2. faultAt' = faultAt \/ ("fio" \in Faults /\ faultAt' = faultAt \cup {"fio"})
        BY <1>7 DEF RunFio
      <3>3. QED BY <1>f, <3>1, <3>2 DEF OtherTypes, PC
    <2>4. UNCHANGED <<setup, job, step, lba, label, mapped, mounts, spdk, jobs, clean, residue>>
      BY <1>7 DEF RunFio
    <2>5. QED BY <2>2, <2>3, <2>4 DEF OtherTypes
  <1>8. CASE SpdkReset
    <2>1. spdk' = FALSE \/ spdk' = spdk
      BY <1>8 DEF SpdkReset
    <2>2. spdk' \in BOOLEAN
      BY <1>b, <2>1
    <2>3. faultAt' \subseteq Faults /\ pc' \in PC
      BY <1>8 DEF SpdkReset, OtherTypes, PC
    <2>4. UNCHANGED <<setup, job, step, exc, lba, label, mapped, mounts, jobs, clean, residue>>
      BY <1>8 DEF SpdkReset
    <2>5. QED BY <2>2, <2>3, <2>4 DEF OtherTypes
  <1>9. CASE Cleanup
    <2>1. Unmounted \in Seq(Mountable)
      BY DEF Unmounted, OtherTypes
    <2>2. mounts' \in {mounts, Unmounted} /\ mapped' \subseteq mapped
      BY <1>9 DEF Cleanup, Closed
    <2>3. label' \in BOOLEAN
      <3>1. label' = label \/ label' = (label /\ Busy')
        BY <1>9 DEF Cleanup
      <3>2. (label /\ Busy') \in BOOLEAN
        OBVIOUS
      <3>3. QED BY <1>b, <3>1, <3>2
    <2>4. faultAt' \subseteq Faults /\ pc' \in PC
      BY <1>9 DEF Cleanup, OtherTypes, PC
    <2>5. UNCHANGED <<setup, job, step, exc, lba, spdk, jobs, clean, residue>>
      BY <1>9 DEF Cleanup
    <2>6. QED BY <2>1, <2>2, <2>3, <2>4, <2>5 DEF OtherTypes
  <1>10. CASE ResetLba
    <2>1. lba' \in {512, 4096}
      BY <1>10 DEF ResetLba, OtherTypes, Erased, NoSize
    <2>2. label' = FALSE \/ label' = label
      BY <1>10 DEF ResetLba, Erased
    <2>3. label' \in BOOLEAN
      BY <1>b, <2>2
    <2>4. faultAt' \subseteq Faults /\ pc' \in PC
      BY <1>10 DEF ResetLba, OtherTypes, PC
    <2>5. UNCHANGED <<setup, job, step, exc, mapped, mounts, spdk, jobs, clean, residue>>
      BY <1>10 DEF ResetLba
    <2>6. QED BY <2>1, <2>3, <2>4, <2>5 DEF OtherTypes
  <1>11. CASE EndJob
    <2>1. << >> \in Seq(Mountable)
      OBVIOUS
    <2>2. mounts' \in Seq(Mountable) /\ mapped' \subseteq {"luks", "verity"}
      <3>1. (mounts' = mounts /\ mapped' = mapped) \/ (mounts' = << >> /\ mapped' = {})
        BY <1>11 DEF EndJob
      <3>2. mounts \in Seq(Mountable) /\ mapped \subseteq {"luks", "verity"}
        BY DEF OtherTypes
      <3>3. QED BY <2>1, <3>1, <3>2
    <2>3. spdk' = FALSE \/ spdk' = spdk
      BY <1>11, Zenon DEF EndJob
    <2>4. spdk' \in BOOLEAN
      BY <1>b, <2>3
    <2>5. UNCHANGED <<setup, job, step, exc, lba, label, jobs, clean, faultAt>> /\ pc' = "idle"
      BY <1>11 DEF EndJob
    <2>6. residue' \in BOOLEAN
      <3>1. residue' = (residue \/ (setup = "host" /\ LeavesResidue))
        BY <1>11 DEF EndJob
      <3>2. QED BY <3>1, Zenon
    <2>7. QED BY <2>2, <2>4, <2>5, <2>6 DEF OtherTypes, PC
  <1>12. CASE UNCHANGED vars
    BY <1>12 DEF vars, OtherTypes
  <1>13. QED BY <1>1, <1>2, <1>3, <1>4, <1>5, <1>6, <1>7, <1>8, <1>9, <1>10, <1>11, <1>12 DEF Next

\* A job is always at a place of run_fio, at a command its formatter has, with
\* mounts and mappings of the suite.
THEOREM TypeCorrect == Spec => []TypeOK
  BY TypeInit, TypeNext, PTL DEF Spec

(***************************************************************************)
(* What is true of a job at each of its places.  A job is fresh if it      *)
(* began with nothing mapped, mounted or bound: on a clean drive, or behind *)
(* jobs that have all been released, as in VMs, whose guests go with them. *)
(* A job that is formatted shows with its first command, parted, that      *)
(* nothing was in use.                                                     *)
(***************************************************************************)
Fresh == clean \/ ~residue
Begun == {"format", "precondition", "spdk_setup", "fio", "spdk_reset", "cleanup", "reset_lba"}
Formatting == job.kind \in FormattedKinds
LastStep == 1 + Len(Formatter(job.kind))

AtIdle == pc = "idle" /\ ~residue => Released

AtErase ==
  pc = "erase" =>
    /\ step = 1 /\ ~exc /\ faultAt = {} /\ job.kind # "gds"
    /\ (Fresh => Released) /\ (clean => lba = 512)

SizeHeld ==
  pc \in Begun =>
    /\ job.size # NoSize => lba = job.size
    /\ clean /\ job.size = NoSize => lba = 512
    /\ job.kind = "gds" => job.size = NoSize

AtFormat ==
  pc = "format" =>
    ~exc /\ faultAt = {} /\ (step > 1 => label) /\ (Fresh \/ step > 1 => At(step))

AtSetup ==
  pc \in {"precondition", "spdk_setup"} =>
    /\ ~exc /\ faultAt = {}
    /\ Formatting => At(LastStep) /\ label
    /\ Fresh => Formatting \/ Released
    /\ pc = "spdk_setup" => job.kind = "spdk"

AtFio ==
  pc = "fio" =>
    /\ ~exc /\ faultAt = {}
    /\ Formatting => At(LastStep) /\ label
    /\ Fresh /\ ~Formatting => ~Busy
    /\ Fresh /\ job.kind = "spdk" => spdk
    /\ Fresh /\ job.kind = "raw" => ~spdk

AtSpdkReset ==
  pc = "spdk_reset" => job.kind = "spdk" /\ (Fresh => ~Busy) /\ (Fresh /\ exc => faultAt # {})

AtCleanup ==
  pc = "cleanup" => Formatting /\ At(LastStep) /\ (exc => faultAt # {})

AtResetLba ==
  pc = "reset_lba" =>
    /\ Fresh /\ exc => faultAt # {}
    /\ Fresh /\ job.kind # "dmverity" /\ "cleanup" \notin faultAt => Released

AtEnd == pc \in {"done", "failed"} /\ Fresh /\ ~LeavesResidue => Released

Places ==
  /\ AtIdle /\ AtErase /\ SizeHeld /\ AtFormat /\ AtSetup /\ AtFio
  /\ AtSpdkReset /\ AtCleanup /\ AtResetLba
  /\ AtEnd /\ FailsByResidueOnly /\ NothingLeft /\ BackTo512

LEMMA PlacesInit == Init => Places
  BY DEF Init, Places, AtIdle, AtErase, SizeHeld, AtFormat, AtSetup, AtFio, AtSpdkReset,
         AtCleanup, AtResetLba, AtEnd, FailsByResidueOnly, NothingLeft, BackTo512, Begun, Released, Busy

\* A job that has all of its layers has those it measures, and no others.
LEMMA Layers ==
  ASSUME job.kind \in FormattedKinds, At(LastStep)
  PROVE  mounts = <<OwnMount>> /\ mapped = OwnMapped /\ ~spdk
  <1> USE DEF At, LastStep, MappedAt, MountsAt, OwnMount, OwnMapped, Formatter
  <1>1. CASE job.kind \in {"plain", "gds"}
    BY <1>1
  <1>2. CASE job.kind = "luks"
    BY <1>2
  <1>3. CASE job.kind = "dmverity"
    BY <1>3
  <1>4. CASE job.kind = "fsverity"
    BY <1>4
  <1>5. QED BY <1>1, <1>2, <1>3, <1>4 DEF FormattedKinds

LEMMA PlacesNext == TypeOK /\ Places /\ [Next]_vars => Places'
  <1> SUFFICES ASSUME TypeOK, Places, [Next]_vars PROVE Places'
    OBVIOUS
  <1>k. /\ job.kind \in AllKinds /\ Len(Formatter(job.kind)) \in Nat
        /\ step \in 1..LastStep /\ job.size \in {0, 512, 4096}
    <2>1. job.kind \in Kinds /\ job.size \in Sizes /\ job \in [kind : Kinds, size : Sizes]
      BY DEF TypeOK
    <2>2. QED BY <2>1, JobSound, SizeSound DEF TypeOK, LastStep
  <1> USE DEF driveVars, kernelVars, pastVars, Goto, Fault
  <1>1. CASE StartJob
    <2>1. /\ pc' \in {"erase", "format"} /\ step' = 1 /\ exc' = FALSE /\ faultAt' = {}
          /\ clean' = Clean
          /\ UNCHANGED <<setup, lba, label, mapped, mounts, spdk, residue>> /\ pc = "idle"
          /\ pc' = "format" => job'.size = NoSize
          /\ pc' = "erase" => job'.kind # "gds"
      BY <1>1 DEF StartJob, NewJob, Beginning
    <2>2. (Fresh => Released)' /\ (clean => lba = 512)'
      BY <2>1 DEF Places, AtIdle, Fresh, Released, Clean, Busy
    <2>3. AtErase'
      BY <2>1, <2>2 DEF AtErase
    <2>4. pc' = "format" => (Fresh => At(1))'
      BY <2>1, <2>2 DEF At, MappedAt, MountsAt, Released, Busy
    <2>5. AtFormat'
      BY <2>1, <2>4 DEF AtFormat, At
    <2>6. SizeHeld'
      BY <2>1, <2>2 DEF SizeHeld, Begun
    <2>7. QED BY <2>1, <2>3, <2>5, <2>6 DEF Places, AtIdle, AtSetup, AtFio, AtSpdkReset,
                AtCleanup, AtResetLba, AtEnd, FailsByResidueOnly, NothingLeft, BackTo512
  <1>2. CASE Erase
    <2>1. UNCHANGED <<setup, job, step, exc, mapped, mounts, spdk, jobs, clean, residue>> /\ pc = "erase"
      BY <1>2 DEF Erase
    <2>2. /\ step = 1 /\ ~exc /\ faultAt = {} /\ job.kind # "gds"
          /\ (Fresh => Released) /\ (clean => lba = 512)
      BY <2>1 DEF Places, AtErase
    <2>3. CASE ~spdk /\ Erased(job.size) /\ pc' = "format" /\ UNCHANGED faultAt
      <3>1. SizeHeld'
        BY <2>1, <2>2, <2>3 DEF SizeHeld, Erased, NoSize
      <3>2. Fresh => At(1)
        BY <1>k, <2>2 DEF At, MappedAt, MountsAt, Released, Busy
      <3>3. AtFormat'
        BY <2>1, <2>2, <2>3, <3>2 DEF AtFormat, Fresh, At
      <3>4. QED BY <2>3, <3>1, <3>3 DEF Places, AtIdle, AtErase, SizeHeld, AtFormat, AtSetup, AtFio,
                AtSpdkReset, AtCleanup, AtResetLba, AtEnd, FailsByResidueOnly, NothingLeft, BackTo512, Begun
    <2>4. CASE pc' = "failed" /\ faultAt' = faultAt \cup {"erase"}
      BY <2>1, <2>2, <2>4 DEF Fresh, Released, Busy, Places, AtIdle, AtErase, SizeHeld, AtFormat, AtSetup, AtFio,
                AtSpdkReset, AtCleanup, AtResetLba, AtEnd, FailsByResidueOnly, NothingLeft, BackTo512, Begun
    <2>5. CASE spdk /\ pc' = "failed" /\ UNCHANGED <<lba, label, faultAt>>
      <3>1. ~Fresh
        BY <2>2, <2>5 DEF Released
      <3>2. QED BY <2>1, <2>5, <3>1 DEF Fresh, Places, AtIdle, AtErase, SizeHeld, AtFormat, AtSetup, AtFio,
                AtSpdkReset, AtCleanup, AtResetLba, AtEnd, FailsByResidueOnly, NothingLeft, BackTo512, Begun
    <2>6. QED BY <1>2, <2>1, <2>3, <2>4, <2>5 DEF Erase
  <1>3. CASE Format
    <2> DEFINE op == Formatter(job.kind)[step]
    <2>1. UNCHANGED <<setup, job, exc, lba, spdk, jobs, clean, residue>> /\ pc = "format"
      BY <1>3 DEF Format
    <2>2. /\ ~exc /\ faultAt = {} /\ (step > 1 => label) /\ (Fresh \/ step > 1 => At(step))
          /\ SizeHeld
      BY <2>1 DEF Places, AtFormat
    <2>3. step \in 1..Len(Formatter(job.kind)) /\ step \in Nat
      BY <1>3, <1>k DEF Format
    <2>4. CASE Possible(op) /\ Do(op) /\ step' = step + 1 /\ UNCHANGED <<pc, faultAt>>
      <3>1. At(step)
        <4>1. CASE step > 1
          BY <2>2, <4>1
        <4>2. CASE step = 1
          <5>1. job.kind \in FormattedKinds /\ op = Op.parted
            BY <1>k, <2>3, <4>2, Commands DEF AllKinds, FormattedKinds
          <5>2. ~Busy /\ ~spdk
            BY <2>4, <5>1 DEF Possible, Op
          <5>3. QED BY <4>2, <5>2 DEF At, MappedAt, MountsAt, Busy
        <4>3. QED BY <2>3, <4>1, <4>2
      <3>2. /\ mapped' = MappedAt(job.kind, step + 1) /\ mounts' = MountsAt(job.kind, step + 1)
            /\ label' = (label \/ step = 1)
        BY <1>k, <2>3, <2>4, <3>1, Command DEF At
      <3>3. AtFormat'
        <4>1. step' = step + 1 /\ exc' = exc /\ faultAt' = faultAt /\ spdk' = spdk /\ job' = job
          BY <2>1, <2>4
        <4>2. mapped' = MappedAt(job'.kind, step') /\ mounts' = MountsAt(job'.kind, step')
          BY <3>2, <4>1
        <4>3. At(step)'
          BY <3>1, <4>1, <4>2 DEF At
        <4>4. label'
          <5>1. label \/ step = 1
            BY <2>2, <2>3
          <5>2. QED BY <3>2, <5>1
        <4>5. QED BY <2>2, <4>1, <4>3, <4>4 DEF AtFormat
      <3>4. SizeHeld'
        BY <2>1, <2>2, <2>4 DEF SizeHeld
      <3>5. QED BY <2>1, <2>4, <3>3, <3>4 DEF Places, AtIdle, AtErase, SizeHeld, AtFormat, AtSetup, AtFio,
                AtSpdkReset, AtCleanup, AtResetLba, AtEnd, FailsByResidueOnly, NothingLeft, BackTo512, Begun
    <2>5. CASE ~Possible(op) /\ pc' = "failed" /\ UNCHANGED <<step, label, mapped, mounts, faultAt>>
      <3>1. ~At(step)
        BY <1>k, <2>3, <2>5, Command DEF At
      <3>2. ~Fresh
        BY <2>2, <3>1
      <3>3. QED BY <2>1, <2>5, <3>2 DEF Fresh, Places, AtIdle, AtErase, SizeHeld, AtFormat, AtSetup, AtFio,
                AtSpdkReset, AtCleanup, AtResetLba, AtEnd, FailsByResidueOnly, NothingLeft, BackTo512, Begun
    <2>6. CASE pc' = "failed" /\ faultAt' = faultAt \cup {"format"}
      BY <2>6 DEF LeavesResidue, Places, AtIdle, AtErase, SizeHeld, AtFormat, AtSetup, AtFio,
                AtSpdkReset, AtCleanup, AtResetLba, AtEnd, FailsByResidueOnly, NothingLeft, BackTo512, Begun
    <2>7. QED BY <1>3, <2>1, <2>4, <2>5, <2>6 DEF Format
  <1>4. CASE Formatted
    <2>0. CASE pc' = "failed" /\ faultAt' = faultAt \cup {"format"}
      BY <2>0 DEF LeavesResidue, Places, AtIdle, AtErase, SizeHeld, AtFormat, AtSetup, AtFio,
                AtSpdkReset, AtCleanup, AtResetLba, AtEnd, FailsByResidueOnly, NothingLeft, BackTo512, Begun
    <2> SUFFICES ASSUME ~(pc' = "failed" /\ faultAt' = faultAt \cup {"format"}) PROVE Places'
      BY <2>0
    <2>1. /\ UNCHANGED <<setup, job, step, exc, lba, label, mapped, mounts, spdk, clean, faultAt, residue>>
          /\ pc = "format" /\ step > Len(Formatter(job.kind))
          /\ pc' = "precondition" \/ pc' = "fio"
          /\ pc' = "fio" => job.kind \notin {"spdk", "raw", "luks"}
      BY <1>4 DEF Formatted
    <2>2. ~exc /\ faultAt = {} /\ (step > 1 => label) /\ (Fresh \/ step > 1 => At(step))
      BY <2>1 DEF Places, AtFormat
    <2>3. step = LastStep
      BY <1>k, <2>1 DEF LastStep
    <2>4. Formatting => step > 1
      BY <1>k, <2>3, Commands DEF Formatting, LastStep
    <2>5. Formatting => At(LastStep) /\ label
      BY <2>2, <2>3, <2>4
    <2>6. Fresh => Formatting \/ Released
      <3>1. CASE Formatting
        BY <3>1
      <3>2. CASE ~Formatting
        <4>1. job.kind \in {"spdk", "raw"}
          BY <1>k, <3>2 DEF AllKinds, Formatting, FormattedKinds
        <4>2. QED BY <2>2, <4>1 DEF At, MappedAt, MountsAt, Released, Busy
      <3>3. QED BY <3>1, <3>2
    <2>7. pc' = "fio" => Formatting
      BY <1>k, <2>1 DEF AllKinds, Formatting, FormattedKinds
    <2>8. (Formatting => At(LastStep))' <=> (Formatting => At(LastStep))
      BY <2>1 DEF Formatting, At, LastStep
    <2>9. AtSetup' /\ AtFio'
      BY <2>1, <2>2, <2>5, <2>6, <2>7, <2>8 DEF AtSetup, AtFio, Fresh, Formatting, Released, Busy,
           FormattedKinds
    <2>10. SizeHeld'
      BY <2>1 DEF Places, SizeHeld, Begun
    <2>11. QED BY <2>1, <2>9, <2>10 DEF Places, AtIdle, AtErase, SizeHeld, AtFormat, AtSetup, AtFio,
                AtSpdkReset, AtCleanup, AtResetLba, AtEnd, FailsByResidueOnly, NothingLeft, BackTo512, Begun
  <1>5. CASE Precondition
    <2>1. UNCHANGED <<setup, job, step, exc, lba, label, mapped, mounts, spdk, clean, residue>>
      BY <1>5 DEF Precondition
    <2>2. /\ pc = "precondition" /\ ~exc /\ faultAt = {}
          /\ Formatting => At(LastStep) /\ label
          /\ Fresh => Formatting \/ Released
      BY <1>5 DEF Precondition, Places, AtSetup
    <2>3. /\ (Formatting => At(LastStep))' <=> (Formatting => At(LastStep))
          /\ (Formatting' <=> Formatting) /\ (Fresh' <=> Fresh) /\ (Released' <=> Released)
      BY <2>1 DEF Formatting, At, LastStep, Fresh, Released, Busy
    <2>4. CASE pc' = (IF job.kind = "spdk" THEN "spdk_setup" ELSE "fio") /\ UNCHANGED faultAt
      <3>1. ~exc' /\ faultAt' = {} /\ (Formatting => At(LastStep) /\ label)'
        <4>1. exc' = exc /\ label' = label /\ faultAt' = faultAt
          BY <2>1, <2>4
        <4>2. (Formatting => label)'
          BY <2>2, <2>3, <4>1
        <4>3. (Formatting => At(LastStep))'
          BY <2>2, <2>3
        <4>4. QED BY <2>2, <4>1, <4>2, <4>3
      <3>2. AtSetup'
        BY <2>1, <2>2, <2>3, <2>4, <3>1 DEF AtSetup
      <3>3. AtFio'
        <4>1. pc' = "fio" => job.kind # "spdk"
          BY <2>4
        <4>2. (Fresh /\ ~Formatting => ~Busy /\ ~spdk)'
          <5>1. Fresh' /\ ~Formatting' => Released'
            BY <2>2, <2>3
          <5>2. QED BY <5>1 DEF Released
        <4>3. (job.kind = "raw" => ~Formatting)'
          BY DEF Formatting, FormattedKinds
        <4>4. QED BY <2>1, <3>1, <4>1, <4>2, <4>3 DEF AtFio
      <3>4. SizeHeld'
        BY <2>1, <2>2, <2>4 DEF Places, SizeHeld, Begun
      <3>5. QED BY <2>4, <3>2, <3>3, <3>4 DEF Places, AtIdle, AtErase, SizeHeld, AtFormat, AtSetup, AtFio,
                AtSpdkReset, AtCleanup, AtResetLba, AtEnd, FailsByResidueOnly, NothingLeft, BackTo512, Begun
    <2>5. CASE pc' = "failed" /\ faultAt' = faultAt \cup {"precondition"}
      BY <2>5 DEF LeavesResidue, Places, AtIdle, AtErase, SizeHeld, AtFormat, AtSetup, AtFio,
                AtSpdkReset, AtCleanup, AtResetLba, AtEnd, FailsByResidueOnly, NothingLeft, BackTo512, Begun
    <2>6. QED BY <1>5, <2>2, <2>4, <2>5 DEF Precondition
  <1>6. CASE SpdkSetup
    <2>1. /\ UNCHANGED <<setup, job, step, lba, label, mapped, mounts, clean, residue>>
          /\ pc = "spdk_setup" /\ Finally = "spdk_reset"
      BY <1>6 DEF SpdkSetup, Finally, Places, AtSetup
    <2>2. /\ ~exc /\ faultAt = {} /\ job.kind = "spdk" /\ ~Formatting
          /\ Fresh => ~Busy /\ ~spdk
      BY <2>1 DEF Places, AtSetup, Formatting, FormattedKinds, Released
    <2>3. (Formatting' <=> Formatting) /\ (Fresh' <=> Fresh) /\ (Busy' <=> Busy)
      BY <2>1 DEF Formatting, Fresh, Busy
    <2>4. SizeHeld' /\ job' = job
      BY <1>6, <2>1 DEF SpdkSetup, Places, SizeHeld, Begun
    <2>5. CASE spdk' = ~Busy /\ pc' = "fio" /\ UNCHANGED <<exc, faultAt>>
      <3>1. AtFio'
        BY <2>2, <2>3, <2>4, <2>5 DEF AtFio
      <3>2. QED BY <2>4, <2>5, <3>1 DEF Places, AtIdle, AtErase, SizeHeld, AtFormat, AtSetup, AtFio,
                AtSpdkReset, AtCleanup, AtResetLba, AtEnd, FailsByResidueOnly, NothingLeft, BackTo512, Begun
    <2>6. CASE pc' = "spdk_reset" /\ faultAt' = faultAt \cup {"spdk_setup"}
      <3>1. AtSpdkReset'
        BY <2>2, <2>3, <2>4, <2>6 DEF AtSpdkReset
      <3>2. QED BY <2>4, <2>6, <3>1 DEF Places, AtIdle, AtErase, SizeHeld, AtFormat, AtSetup, AtFio,
                AtSpdkReset, AtCleanup, AtResetLba, AtEnd, FailsByResidueOnly, NothingLeft, BackTo512, Begun
    <2>7. QED BY <1>6, <2>1, <2>5, <2>6 DEF SpdkSetup
  <1>7. CASE RunFio
    <2>1. /\ UNCHANGED <<setup, job, step, lba, label, mapped, mounts, spdk, clean, residue>>
          /\ pc = "fio"
          /\ \/ pc' = Finally
             \/ job.kind = "gds" /\ pc' = "failed" /\ UNCHANGED exc
      BY <1>7 DEF RunFio, Raise
    <2>2. /\ ~exc /\ faultAt = {}
          /\ Formatting => At(LastStep)
          /\ Fresh /\ ~Formatting => ~Busy
          /\ Fresh /\ job.kind = "spdk" => spdk
          /\ Fresh /\ job.kind = "raw" => ~spdk
      BY <2>1 DEF Places, AtFio
    <2>3. /\ (Formatting => At(LastStep))' <=> (Formatting => At(LastStep))
          /\ (Formatting' <=> Formatting) /\ (Fresh' <=> Fresh) /\ (Busy' <=> Busy)
          /\ (Released' <=> Released)
      BY <2>1 DEF Formatting, At, LastStep, Fresh, Released, Busy
    <2>4. Formatting \/ job.kind = "spdk" \/ job.kind = "raw"
      BY <1>k DEF AllKinds, Formatting, FormattedKinds
    <2>5. (Fresh \/ Formatting) /\ exc' => faultAt' # {}
      <3>1. ASSUME Fresh \/ Formatting PROVE (job.kind = "spdk" => spdk) /\ (job.kind # "spdk" => ~spdk)
        BY <2>2, <2>4, <3>1 DEF Formatting, FormattedKinds, At
      <3>2. CASE UNCHANGED <<exc, faultAt>>
        BY <2>2, <3>2
      <3>3. CASE spdk # (job.kind = "spdk")
        <4>1. spdk \in BOOLEAN
          BY DEF TypeOK
        <4>2. ~(Fresh \/ Formatting)
          <5>1. CASE job.kind = "spdk"
            BY <3>1, <3>3, <4>1, <5>1, Zenon
          <5>2. CASE job.kind # "spdk"
            BY <3>1, <3>3, <4>1, <5>2, Zenon
          <5>3. QED BY <5>1, <5>2
        <4>3. QED BY <4>2
      <3>4. CASE faultAt' = faultAt \cup {"fio"}
        BY <3>4
      <3>5. \/ UNCHANGED <<exc, faultAt>>
            \/ spdk # (job.kind = "spdk")
            \/ faultAt' = faultAt \cup {"fio"}
        BY <1>7 DEF RunFio
      <3>6. QED BY <3>2, <3>3, <3>4, <3>5
    <2>6. CASE job.kind = "spdk"
      <3>1. pc' = "spdk_reset" /\ ~Formatting
        BY <2>1, <2>6 DEF Finally, Formatting, FormattedKinds
      <3>2. AtSpdkReset'
        BY <2>1, <2>2, <2>3, <2>5, <2>6, <3>1 DEF AtSpdkReset
      <3>3. SizeHeld'
        BY <2>1, <3>1 DEF Places, SizeHeld, Begun
      <3>4. QED BY <3>1, <3>2, <3>3 DEF Places, AtIdle, AtErase, SizeHeld, AtFormat, AtSetup, AtFio,
                AtSpdkReset, AtCleanup, AtResetLba, AtEnd, FailsByResidueOnly, NothingLeft, BackTo512, Begun
    <2>7. CASE job.kind = "raw"
      <3>1. pc' = "reset_lba" /\ ~Formatting
        BY <2>1, <2>7 DEF Finally, Formatting, FormattedKinds
      <3>2. Fresh => Released
        BY <2>2, <2>7, <3>1 DEF Released
      <3>3. AtResetLba'
        BY <2>3, <2>5, <3>2 DEF AtResetLba
      <3>4. SizeHeld'
        BY <2>1, <3>1 DEF Places, SizeHeld, Begun
      <3>5. QED BY <3>1, <3>3, <3>4 DEF Places, AtIdle, AtErase, SizeHeld, AtFormat, AtSetup, AtFio,
                AtSpdkReset, AtCleanup, AtResetLba, AtEnd, FailsByResidueOnly, NothingLeft, BackTo512, Begun
    <2>8. CASE Formatting /\ pc' = Finally
      <3>1. pc' = "cleanup"
        BY <2>8 DEF Finally, Formatting, FormattedKinds
      <3>2. AtCleanup'
        BY <2>2, <2>3, <2>5, <2>8 DEF AtCleanup
      <3>3. SizeHeld'
        BY <2>1, <3>1 DEF Places, SizeHeld, Begun
      <3>4. QED BY <3>1, <3>2, <3>3 DEF Places, AtIdle, AtErase, SizeHeld, AtFormat, AtSetup, AtFio,
                AtSpdkReset, AtCleanup, AtResetLba, AtEnd, FailsByResidueOnly, NothingLeft, BackTo512, Begun
    <2>9. CASE job.kind = "gds" /\ pc' = "failed" /\ UNCHANGED exc
      <3>1. faultAt' # {}
        <4>1. ~spdk
          BY <2>2, <2>9 DEF Formatting, FormattedKinds, At
        <4>2. ~(spdk # (job.kind = "spdk"))
          <5>1. spdk = FALSE /\ (job.kind = "spdk") = FALSE
            BY <2>9, <4>1 DEF TypeOK
          <5>2. QED BY <5>1
        <4>3. faultAt' = faultAt \cup {"fio"}
          BY <1>7, <2>9, <4>2 DEF RunFio, Finally
        <4>4. QED BY <4>3
      <3>2. AtEnd' /\ FailsByResidueOnly' /\ NothingLeft'
        BY <2>1, <2>9, <3>1 DEF AtEnd, LeavesResidue, FailsByResidueOnly, NothingLeft
      <3>3. BackTo512'
        <4>1. (job.size # NoSize => lba = job.size) /\ (clean /\ job.size = NoSize => lba = 512)
          BY <2>1 DEF Places, SizeHeld, Begun
        <4>2. job.size = NoSize
          BY <2>1, <2>9 DEF Places, SizeHeld, Begun
        <4>3. QED BY <2>1, <2>9, <4>1, <4>2 DEF BackTo512
      <3>4. QED BY <2>9, <3>2, <3>3 DEF Places, AtIdle, AtErase, SizeHeld, AtFormat, AtSetup,
                AtFio, AtSpdkReset, AtCleanup, AtResetLba, Begun
    <2>10. QED BY <2>1, <2>4, <2>6, <2>7, <2>8, <2>9
  <1>8. CASE SpdkReset
    <2>1. /\ UNCHANGED <<setup, job, step, exc, lba, label, mapped, mounts, clean, residue>>
          /\ pc = "spdk_reset"
      BY <1>8 DEF SpdkReset
    <2>2. (Fresh => ~Busy) /\ (Fresh /\ exc => faultAt # {})
      BY <2>1 DEF Places, AtSpdkReset
    <2>3. CASE pc' = "reset_lba" /\ spdk' = FALSE /\ UNCHANGED faultAt
      <3>1. AtResetLba'
        BY <2>1, <2>2, <2>3 DEF AtResetLba, Fresh, Released, Busy
      <3>2. SizeHeld'
        BY <2>1, <2>3 DEF Places, SizeHeld, Begun
      <3>3. QED BY <2>3, <3>1, <3>2 DEF Places, AtIdle, AtErase, SizeHeld, AtFormat, AtSetup, AtFio,
                AtSpdkReset, AtCleanup, AtResetLba, AtEnd, FailsByResidueOnly, NothingLeft, BackTo512, Begun
    <2>4. CASE pc' = "failed" /\ faultAt' = faultAt \cup {"spdk_reset"}
      BY <2>4 DEF LeavesResidue, Places, AtIdle, AtErase, SizeHeld, AtFormat, AtSetup, AtFio,
                AtSpdkReset, AtCleanup, AtResetLba, AtEnd, FailsByResidueOnly, NothingLeft, BackTo512, Begun
    <2>5. QED BY <1>8, <2>1, <2>3, <2>4 DEF SpdkReset
  <1>9. CASE Cleanup
    <2>1. UNCHANGED <<setup, job, step, exc, lba, spdk, clean, residue>> /\ pc = "cleanup" /\ pc' = "reset_lba"
      BY <1>9 DEF Cleanup
    <2>2. Formatting /\ At(LastStep) /\ (exc => faultAt # {})
      BY <2>1 DEF Places, AtCleanup
    <2>3. mounts = <<OwnMount>> /\ mapped = OwnMapped /\ ~spdk
      BY <2>2, Layers DEF Formatting
    <2>4. SizeHeld'
      BY <2>1 DEF Places, SizeHeld, Begun
    <2>5. CASE mounts' = Unmounted /\ mapped' = Closed(mounts') /\ UNCHANGED faultAt
      <3>1. mounts' = << >>
        BY <2>3, <2>5 DEF Unmounted
      <3>2. job.kind # "dmverity" => mapped' = {}
        <4>1. \A i \in DOMAIN mounts' : mounts'[i] # "luks"
          BY <3>1
        <4>2. CASE job.kind = "luks"
          BY <2>3, <2>5, <4>1, <4>2 DEF Closed, OwnMapped
        <4>3. CASE job.kind # "luks" /\ job.kind # "dmverity"
          BY <2>3, <2>5, <4>3 DEF Closed, OwnMapped
        <4>4. QED BY <4>2, <4>3
      <3>3. AtResetLba'
        BY <2>1, <2>2, <2>3, <2>5, <3>1, <3>2 DEF AtResetLba, Released, Busy
      <3>4. QED BY <2>1, <2>4, <3>3 DEF Places, AtIdle, AtErase, SizeHeld, AtFormat, AtSetup, AtFio,
                AtSpdkReset, AtCleanup, AtResetLba, AtEnd, FailsByResidueOnly, NothingLeft, BackTo512, Begun
    <2>6. CASE faultAt' = faultAt \cup {"cleanup"}
      <3>1. AtResetLba'
        BY <2>6 DEF AtResetLba
      <3>2. QED BY <2>1, <2>4, <3>1 DEF Places, AtIdle, AtErase, SizeHeld, AtFormat, AtSetup, AtFio,
                AtSpdkReset, AtCleanup, AtResetLba, AtEnd, FailsByResidueOnly, NothingLeft, BackTo512, Begun
    <2>7. QED BY <1>9, <2>1, <2>5, <2>6 DEF Cleanup
  <1>10. CASE ResetLba
    <2>1. UNCHANGED <<setup, job, step, exc, mapped, mounts, spdk, clean, residue>> /\ pc = "reset_lba"
      BY <1>10 DEF ResetLba
    <2>2. /\ Fresh /\ exc => faultAt # {}
          /\ Fresh /\ job.kind # "dmverity" /\ "cleanup" \notin faultAt => Released
          /\ job.size # NoSize => lba = job.size
          /\ clean /\ job.size = NoSize => lba = 512
      BY <2>1 DEF Places, AtResetLba, SizeHeld, Begun
    <2>3. /\ pc' \in {"done", "failed"} /\ (pc' = "failed" => exc)
          /\ faultAt \subseteq faultAt'
      BY <1>10 DEF ResetLba
    <2>4. FailsByResidueOnly' /\ AtEnd'
      <3>1. (Released' <=> Released) /\ (Fresh' <=> Fresh)
        BY <2>1 DEF Released, Busy, Fresh
      <3>2. "cleanup" \in faultAt => LeavesResidue'
        BY <2>3 DEF LeavesResidue
      <3>3. job.kind = "dmverity" => LeavesResidue'
        BY <2>1 DEF LeavesResidue
      <3>4. QED BY <2>1, <2>2, <2>3, <3>1, <3>2, <3>3 DEF FailsByResidueOnly, AtEnd, Fresh
    <2>5. NothingLeft'
      <3>1. Released' <=> Released
        BY <2>1 DEF Released, Busy
      <3>2. "cleanup" \in faultAt => ~(faultAt' \subseteq {"spdk_setup", "fio", "reset_lba"})
        BY <2>3
      <3>3. QED BY <2>1, <2>2, <3>1, <3>2 DEF NothingLeft, Fresh
    <2>6. BackTo512'
      <3>1. CASE job.size \in {NoSize, 512} /\ UNCHANGED <<lba, label>>
        BY <2>1, <2>2, <3>1 DEF BackTo512, NoSize
      <3>2. CASE job.size = 4096 /\ Erased(512)
        BY <3>2 DEF BackTo512, Erased, NoSize
      <3>3. CASE faultAt' = faultAt \cup {"reset_lba"}
        BY <3>3 DEF BackTo512
      <3>4. QED BY <1>10, <2>1, <3>1, <3>2, <3>3 DEF ResetLba
    <2>7. QED BY <2>3, <2>4, <2>5, <2>6 DEF Places, AtIdle, AtErase, SizeHeld, AtFormat, AtSetup,
                AtFio, AtSpdkReset, AtCleanup, AtResetLba, Begun
  <1>11. CASE EndJob
    <2>1. /\ pc \in {"done", "failed"} /\ pc' = "idle" /\ UNCHANGED setup
          /\ residue' = (residue \/ (setup = "host" /\ LeavesResidue))
      BY <1>11 DEF EndJob
    <2>2. ASSUME setup = "host" PROVE AtIdle'
      <3>1. UNCHANGED <<mapped, mounts, spdk>>
        BY <1>11, <2>2 DEF EndJob
      <3>2. ~residue' => Fresh /\ ~LeavesResidue
        BY <2>1, <2>2 DEF Fresh
      <3>3. ~residue' => Released
        BY <2>1, <3>2 DEF Places, AtEnd
      <3>4. QED BY <3>1, <3>3 DEF AtIdle, Released, Busy
    <2>3. ASSUME setup # "host" PROVE AtIdle'
      BY <1>11, <2>3 DEF EndJob, AtIdle, Released, Busy
    <2>4. AtIdle'
      BY <2>2, <2>3
    <2>5. QED BY <2>1, <2>4 DEF Places, AtIdle, AtErase, SizeHeld, AtFormat, AtSetup, AtFio,
                AtSpdkReset, AtCleanup, AtResetLba, AtEnd, FailsByResidueOnly, NothingLeft, BackTo512, Begun
  <1>12. CASE UNCHANGED vars
    BY <1>12 DEF vars, Places, AtIdle, AtErase, SizeHeld, AtFormat, AtSetup, AtFio, AtSpdkReset,
         AtCleanup, AtResetLba, AtEnd, FailsByResidueOnly, NothingLeft, BackTo512, Fresh, Formatting, LastStep,
         LeavesResidue, At, Released, Busy
  <1>13. QED BY <1>1, <1>2, <1>3, <1>4, <1>5, <1>6, <1>7, <1>8, <1>9, <1>10, <1>11, <1>12 DEF Next

LEMMA PlacesInvariant == Spec => []Places
  <1>1. Init => TypeOK /\ Places
    BY TypeInit, PlacesInit
  <1>2. (TypeOK /\ Places) /\ [Next]_vars => (TypeOK /\ Places)'
    BY TypeNext, PlacesNext
  <1>3. QED BY <1>1, <1>2, PTL DEF Spec

\* Whatever the jobs before have left, fio measures the size and the layers of
\* its own job.
THEOREM FioMeasuresItsOwn == Spec => []MeasuresItsOwn
  <1>1. TypeOK /\ Places => MeasuresItsOwn
    <2> SUFFICES ASSUME TypeOK, Places, pc = "fio" PROVE MeasuresItsOwn
      BY DEF MeasuresItsOwn
    <2>1. job.size # NoSize => lba = job.size
      BY DEF Places, SizeHeld, Begun
    <2>2. Formatting => At(LastStep) /\ label
      BY DEF Places, AtFio
    <2>3. job.kind \notin {"spdk", "raw"} => Formatting
      <3>1. job.kind \in AllKinds
        BY JobSound DEF TypeOK
      <3>2. QED BY <3>1 DEF AllKinds, Formatting, FormattedKinds
    <2>4. QED BY <2>1, <2>2, <2>3, Layers DEF MeasuresItsOwn, Formatting
  <1>2. QED BY <1>1, PlacesInvariant, TypeCorrect, PTL

\* However many jobs failed before, and wherever, a job whose own commands work
\* fails only behind one that LeavesResidue names, on this host.
THEOREM FailuresDoNotSpread == Spec => []FailsByResidueOnly
  <1>1. Places => FailsByResidueOnly
    BY DEF Places
  <1>2. QED BY <1>1, PlacesInvariant, PTL

\* The finally block releases what a job took, whatever fails after its
\* formatter.
THEOREM FinallyReleases == Spec => []NothingLeft
  <1>1. Places => NothingLeft
    BY DEF Places
  <1>2. QED BY <1>1, PlacesInvariant, PTL

\* The block size is back at 512 bytes after any job that failed in between.
THEOREM FinallyResetsLba == Spec => []BackTo512
  <1>1. Places => BackTo512
    BY DEF Places
  <1>2. QED BY <1>1, PlacesInvariant, PTL
===============================================================================
