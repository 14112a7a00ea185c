------------------------------ MODULE GuestDisk ------------------------------
(***************************************************************************)
(* What a storage benchmark prepares in a guest that is up: huge pages     *)
(* for SPDK (setup_hugepages of core/tasks/qemu.py), or a partition        *)
(* (create_partition and wait_for_block_devices of                         *)
(* modules/nvme/tasks/utils/storage.py) and a test file on it              *)
(* (create_test_file).  It happens in a VM that VmPlacement has started.   *)
(***************************************************************************)
EXTENDS VmPlacement

CONSTANTS
  Totals, Pages,   \* huge page reservations, in gigabytes
  FileSizes,       \* test files, in megabytes
  MaxParallel,     \* _MAX_PARALLEL
  DeviceWait,      \* _DEVICE_WAIT_S, in units of _POLL_S, which is 1
  Settle,          \* _SETTLE_S: the longest a settle takes
  Parts            \* the partitions a job makes

\* Whole gigabytes, and pages of at least one.
ASSUME HugepagesAssumption == Totals \subseteq Int /\ Pages \subseteq Nat \ {0}

\* Whole megabytes.
ASSUME FileAssumption == FileSizes \subseteq Int /\ MaxParallel \in Nat

VARIABLES
  step,       \* what the guest is doing
  huge,       \* the reservation: asked, page, nodes taken for, gigabytes per node
  chunks,     \* the writers of the test file: first megabyte and megabytes
  size,       \* the size of the test file
  clock,      \* time since wait_for_block_devices began
  absent,     \* the partitions that udev has not published
  missing,    \* the partitions the last look found missing
  before      \* the ones absent when that look began

dvars == <<step, huge, chunks, size, clock, absent, missing, before>>

DInit ==
  /\ Init
  /\ step = "boot" /\ huge = << >> /\ chunks = << >> /\ size = 0
  /\ clock = 0 /\ absent = {} /\ missing = {} /\ before = {}

\* Only an action that runs storage jobs comes here; "attach" does not.
In(s) == phase = "running" /\ req.action = "fio" /\ step = s
DGoto(s) == step' = s /\ UNCHANGED vars

-----------------------------------------------------------------------------
\* A guest has as many nodes as its command line has cells, and one without any.
GuestNodes == IF Numa = << >> THEN 1 ELSE Len(Numa)

\* dpdk-hugepages.py writes its argument to every node there is; it fails if the
\* kernel does not find the pages, and the caller with it.  A count that cannot
\* be read is taken for one.
SetupHugepages ==
  /\ In("boot")
  /\ \E total \in Totals, page \in Pages, nodes \in {GuestNodes, 1} :
       huge' = [asked |-> total, page |-> page, nodes |-> nodes,
                per |-> PerNode(total, page, nodes)]
  /\ \E s \in {"ready", "raised"} : DGoto(s)
  /\ UNCHANGED <<chunks, size, clock, absent, missing, before>>

\* parted makes the table or fails; partprobe may fail, and is not asked.
CreatePartition ==
  /\ In("boot")
  /\ \/ absent' = Parts /\ DGoto("settle")
     \/ UNCHANGED absent /\ DGoto("raised")
  /\ UNCHANGED <<huge, chunks, size, clock, missing, before>>

\* udev publishes a partition whenever it gets to it.
Publish ==
  /\ step \in {"settle", "look", "judge", "sleep"}
  /\ \E p \in absent : absent' = absent \ {p}
  /\ UNCHANGED vars /\ UNCHANGED <<step, huge, chunks, size, clock, missing, before>>

SettleUdev ==
  /\ In("settle")
  /\ \E d \in 0..Settle : clock' = clock + d
  /\ before' = absent /\ missing' = {}
  /\ DGoto("look")
  /\ UNCHANGED <<huge, chunks, size, absent>>

\* missing_devices: one ssh per path, and udev does not wait for them.
Look ==
  /\ In("look")
  /\ \E found \in SUBSET (before \ absent) : missing' = before \ found
  /\ clock' \in {clock, clock + 1}
  /\ DGoto("judge")
  /\ UNCHANGED <<huge, chunks, size, absent, before>>

\* Mutant: the deadline comes before what the look has found.
JudgeLate ==
  /\ In("judge")
  /\ DGoto(IF clock >= DeviceWait THEN "missed" ELSE IF missing = {} THEN "mkfs" ELSE "sleep")
  /\ UNCHANGED <<huge, chunks, size, clock, absent, missing, before>>

Judge ==
  /\ In("judge")
  /\ DGoto(IF missing = {} THEN "mkfs" ELSE IF clock >= DeviceWait THEN "missed" ELSE "sleep")
  /\ UNCHANGED <<huge, chunks, size, clock, absent, missing, before>>

Sleep ==
  /\ In("sleep") /\ clock' = clock + 1
  /\ DGoto("settle")
  /\ UNCHANGED <<huge, chunks, size, absent, missing, before>>

\* The writers share the file in contiguous pieces, the first ones a megabyte
\* longer where it does not divide; each continues the key stream at its offset.
Writers(mb) ==
  LET few == IF Resource.cpu < MaxParallel THEN Resource.cpu ELSE MaxParallel
      n == IF mb < few THEN mb ELSE few
  IN  IF n < 1 THEN 1 ELSE n

\* Mutant: the rest of the division is dropped.
ChunkSizeDropsRest(mb, n, i) == mb \div n

ChunkSize(mb, n, i) == (mb \div n) + (IF i < mb % n THEN 1 ELSE 0)

Offset(mb, n, i) ==
  LET f[k \in 0..n] == IF k = 0 THEN 0 ELSE f[k - 1] + ChunkSize(mb, n, k - 1)
  IN  f[i]

CreateTestFile ==
  /\ In("mkfs")
  /\ size' \in FileSizes
  /\ LET n == Writers(size')
     IN  chunks' = [i \in 1..n |-> <<Offset(size', n, i - 1), ChunkSize(size', n, i - 1)>>]
  /\ \E s \in {"ready", "raised"} : DGoto(s)
  /\ UNCHANGED <<huge, clock, absent, missing, before>>

DNext ==
  \/ Next /\ UNCHANGED dvars
  \/ SetupHugepages \/ CreatePartition \/ Publish \/ SettleUdev \/ Look \/ Judge \/ Sleep
  \/ CreateTestFile

DSpec == DInit /\ [][DNext]_<<vars, dvars>>

-----------------------------------------------------------------------------
\* The pages a benchmark finds in its guest are at least those it asked for, and
\* less than a page per node more, if the guest's nodes could be counted; never
\* more nodes' worth of them otherwise (hugepage_split).
ReservesEnough ==
  huge # << >> =>
    LET got == huge.per * GuestNodes
        asked == IF huge.asked <= 0 THEN 0 ELSE huge.asked
    IN  /\ got >= asked
        /\ got < (asked + huge.nodes * huge.page) * (IF huge.nodes = 1 THEN GuestNodes ELSE 1)

\* The writers fill the file exactly once: every megabyte has one writer
\* (create_test_file).
FileWhole ==
  chunks # << >> =>
    \A mb \in 0..size - 1 :
      Cardinality({i \in 1..Len(chunks) :
                     chunks[i][1] <= mb /\ mb < chunks[i][1] + chunks[i][2]}) = 1

\* A job is failed for its partitions only after the whole wait, and only for
\* partitions that were not there when the last look began; it goes on only when
\* all are there (wait_for_block_devices).
MissedForGood ==
  /\ step = "missed" => clock >= DeviceWait /\ missing # {} /\ missing \subseteq before
  /\ step = "mkfs" \/ chunks # << >> => absent = {}
=============================================================================
