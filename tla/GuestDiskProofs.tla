--------------------------- MODULE GuestDiskProofs ---------------------------
(***************************************************************************)
(* What GuestDisk promises for every call, every reservation and every     *)
(* timing of udev: the VM it runs in is VmPlacement's, a job is failed for *)
(* its partitions only when it should be, a reservation is as large as     *)
(* what was asked for and a test file is written whole.                    *)
(***************************************************************************)
EXTENDS GuestDisk, VmPlacementProofs

(***************************************************************************)
(* The VM underneath: preparing the guest takes no part in its placement,  *)
(* so that what is proved of VmPlacement holds here.                       *)
(***************************************************************************)
\* Every behaviour of the guest is, seen from the host, a call of vm.start.
THEOREM GuestRunsInPlacedVm == DSpec => Spec
  <1>1. DInit => Init
    BY DEF DInit
  <1>2. [DNext]_<<vars, dvars>> => [Next]_vars
    BY DEF DNext, DGoto, SetupHugepages, CreatePartition, Publish, SettleUdev, Look, Judge,
           Sleep, CreateTestFile, dvars
  <1>3. QED BY <1>1, <1>2, PTL DEF DSpec, Spec

\* Nor does a benchmark meet a VM that failed to fit after it had booted.
THEOREM GuestRefusedBeforeBoot == DSpec => []FitsBeforeBoot
  BY GuestRunsInPlacedVm, RefusedBeforeBoot, PTL

\* And while a benchmark prepares its guest, its command line is what CommandSound
\* says (with the one use of the legacy switch that it excepts), its vCPUs run next to
\* their memory and no two of its threads share a CPU.
THEOREM GuestKeepsItsPlace ==
  DSpec => [](TypeOK /\ CommandSound /\ VcpusNearTheirMemory /\ PinnedApart)
  BY GuestRunsInPlacedVm, PlacementTypeCorrect, CommandLineSound, VcpusRunNearTheirMemory,
     ThreadsPinnedApart, PTL

(***************************************************************************)
(* wait_for_block_devices.  The invariant orders what the loop knows:      *)
(* what is absent now was missing at the last look, and what that look     *)
(* missed was absent when it began.                                        *)
(***************************************************************************)
Waiting == {"settle", "look", "judge", "sleep"}

WaitInv ==
  /\ step = "look" => absent \subseteq before
  /\ step = "judge" => absent \subseteq missing /\ missing \subseteq before
  /\ step \in {"mkfs", "ready", "raised"} => absent = {}
  /\ step = "boot" => absent = {}
  /\ chunks # << >> => step \in {"ready", "raised"}
  /\ step = "missed" => clock >= DeviceWait /\ missing # {} /\ missing \subseteq before

LEMMA WaitInit == DInit => WaitInv
  BY DEF DInit, WaitInv

LEMMA WaitNext == WaitInv /\ [DNext]_<<vars, dvars>> => WaitInv'
  <1> SUFFICES ASSUME WaitInv, [DNext]_<<vars, dvars>> PROVE WaitInv'
    OBVIOUS
  <1> USE DEF WaitInv, In, DGoto
  <1>1. CASE SetupHugepages
    BY <1>1 DEF SetupHugepages
  <1>2. CASE CreatePartition
    BY <1>2 DEF CreatePartition
  <1>3. CASE Publish
    BY <1>3 DEF Publish
  <1>4. CASE SettleUdev
    BY <1>4 DEF SettleUdev
  <1>5. CASE Look
    BY <1>5 DEF Look
  <1>6. CASE Judge
    BY <1>6 DEF Judge
  <1>7. CASE Sleep
    BY <1>7 DEF Sleep
  <1>8. CASE CreateTestFile
    BY <1>8 DEF CreateTestFile
  <1>9. CASE UNCHANGED dvars
    BY <1>9 DEF dvars
  <1>10. QED BY <1>1, <1>2, <1>3, <1>4, <1>5, <1>6, <1>7, <1>8, <1>9 DEF DNext

\* A job is failed for its partitions only after the whole wait and only for
\* partitions that were not there when the last look began, and goes on only
\* when all are there, however long a settle takes and whenever udev comes.
THEOREM MissedOnlyForGood == DSpec => []MissedForGood
  <1>1. WaitInv => MissedForGood
    BY DEF WaitInv, MissedForGood
  <1>2. QED BY WaitInit, WaitNext, <1>1, PTL DEF DSpec

(***************************************************************************)
(* hugepage_split and setup_hugepages.                                     *)
(***************************************************************************)
\* Rounded up to a multiple of m, a number grows by less than m.
LEMMA RoundedUp ==
  ASSUME NEW t \in Nat \ {0}, NEW m \in Nat \ {0}
  PROVE  LET q == (t + m - 1) \div m
         IN  q \in Nat /\ q * m >= t /\ q * m < t + m
  <1> DEFINE q == (t + m - 1) \div m
             r == (t + m - 1) % m
  <1>1. q \in Nat /\ r \in 0..m - 1 /\ t + m - 1 = m * q + r
    <2>1. t + m - 1 \in Nat
      OBVIOUS
    <2>2. QED BY <2>1, DivRest
  <1> HIDE DEF q, r
  <1>2. m * q = q * m
    BY <1>1
  <1>3. q \in Nat /\ q * m >= t /\ q * m < t + m
    BY <1>1, <1>2
  <1>4. QED BY <1>3 DEF q

\* What n nodes get together is what was asked for, or less than a page per node
\* more.
LEMMA PerNodeSound ==
  ASSUME NEW total \in Nat \ {0}, NEW page \in Nat \ {0}, NEW n \in Nat \ {0}
  PROVE  /\ PerNode(total, page, n) \in Nat
         /\ PerNode(total, page, n) * n >= total
         /\ PerNode(total, page, n) * n < total + n * page
  <1> DEFINE m == n * page
             q == (total + m - 1) \div m
  <1>1. m \in Nat \ {0}
    OBVIOUS
  <1>2. PerNode(total, page, n) = q * page
    BY DEF PerNode
  <1> HIDE DEF m
  <1>3. q \in Nat /\ q * m >= total /\ q * m < total + m
    BY <1>1, RoundedUp
  <1> HIDE DEF q
  <1>4. (q * page) * n = q * m
    BY <1>3 DEF m
  <1>5. q * page \in Nat
    BY <1>3
  <1>6. QED BY <1>2, <1>3, <1>4, <1>5 DEF m

\* A reservation that was divided for one node is made on every node.
LEMMA EveryNodeAsOne ==
  ASSUME NEW per \in Nat, NEW total \in Nat, NEW page \in Nat, NEW n \in Nat \ {0},
         per >= total, per < total + page
  PROVE  per * n >= total /\ per * n < (total + page) * n
  <1>1. PICK d \in Nat : (total + page) = per + d + 1
    <2>1. (total + page) - per - 1 \in Nat /\ (total + page) = per + ((total + page) - per - 1) + 1
      OBVIOUS
    <2>2. QED BY <2>1
  <1>2. (per + d + 1) * n = per * n + d * n + n /\ d * n \in Nat /\ per * n \in Nat
    BY <1>1
  <1>3. PICK e \in Nat : n = e + 1
    <2>1. n - 1 \in Nat /\ n = (n - 1) + 1
      OBVIOUS
    <2>2. QED BY <2>1
  <1>4. per * n = per * e + per /\ per * e \in Nat
    BY <1>3
  <1>5. QED BY <1>1, <1>2, <1>4

HugeInv ==
  huge # << >> =>
    /\ Resource # NoResource
    /\ huge.asked \in Int /\ huge.page \in Nat \ {0} /\ huge.nodes \in {GuestNodes, 1}
    /\ huge.per = PerNode(huge.asked, huge.page, huge.nodes)

LEMMA GuestNodesSound ==
  ASSUME PlacementInv, Resource # NoResource
  PROVE  GuestNodes \in Nat \ {0}
  BY CallSound DEF GuestNodes

LEMMA HugeNext == PlacementInv /\ HugeInv /\ [DNext]_<<vars, dvars>> => HugeInv'
  <1> SUFFICES ASSUME PlacementInv, HugeInv, [DNext]_<<vars, dvars>> PROVE HugeInv'
    OBVIOUS
  <1>1. CASE SetupHugepages
    <2>1. Resource # NoResource /\ req' = req
      BY <1>1 DEF SetupHugepages, In, DGoto, vars, PlacementInv, SetUp
    <2>2. PICK total \in Totals, page \in Pages, nodes \in {GuestNodes, 1} :
            huge' = [asked |-> total, page |-> page, nodes |-> nodes,
                     per |-> PerNode(total, page, nodes)]
      BY <1>1 DEF SetupHugepages
    <2>3. total \in Int /\ page \in Nat \ {0}
      BY HugepagesAssumption
    <2>4. Resource' = Resource /\ GuestNodes' = GuestNodes
      BY <2>1 DEF Resource, GuestNodes, Numa
    <2>5. /\ huge'.asked = total /\ huge'.page = page /\ huge'.nodes = nodes
          /\ huge'.per = PerNode(total, page, nodes)
      BY <2>2
    <2>6. QED BY <2>1, <2>3, <2>4, <2>5 DEF HugeInv
  <1>2. CASE UNCHANGED huge /\ UNCHANGED req
    BY <1>2 DEF HugeInv, Resource, GuestNodes, Numa
  <1>3. SetupHugepages \/ (UNCHANGED huge /\ UNCHANGED req)
    BY DEF DNext, DGoto, CreatePartition, Publish, SettleUdev, Look, Judge, Sleep,
           CreateTestFile, vars, dvars, Next, Goto, Refuse, RunOnHost, Assemble, Setup,
           BuildCommand, Spawn, BeginPin, PinVcpu, PinIothread, PinDone
  <1>4. QED BY <1>1, <1>2, <1>3

LEMMA HugeEnough == PlacementInv /\ HugeInv => ReservesEnough
  <1> SUFFICES ASSUME PlacementInv, HugeInv, huge # << >> PROVE ReservesEnough
    BY DEF ReservesEnough
  <1> DEFINE t == huge.asked
             p == huge.page
             n == huge.nodes
             all == GuestNodes
             asked == IF t <= 0 THEN 0 ELSE t
  <1>1. /\ t \in Int /\ p \in Nat \ {0} /\ all \in Nat \ {0}
        /\ n = all \/ n = 1
        /\ huge.per = PerNode(t, p, n)
    BY GuestNodesSound DEF HugeInv
  <1>2. /\ huge.per * all >= asked
        /\ huge.per * all < (asked + n * p) * (IF n = 1 THEN all ELSE 1)
    <2> HIDE DEF t, p, n, all
    <2>1. CASE t <= 0
      <3>1. huge.per = 0 /\ asked = 0
        BY <1>1, <2>1 DEF PerNode
      <3>2. n * p \in Nat \ {0} /\ (n * p) * all \in Nat \ {0} /\ 0 * all = 0
        BY <1>1
      <3>3. QED BY <1>1, <3>1, <3>2
    <2>2. CASE ~(t <= 0)
      <3>1. t \in Nat \ {0} /\ n \in Nat \ {0} /\ asked = t
        BY <1>1, <2>2
      <3>2. huge.per \in Nat /\ huge.per * n >= t /\ huge.per * n < t + n * p
        BY <1>1, <3>1, PerNodeSound
      <3> HIDE DEF asked
      <3>3. CASE n = 1
        <4>1. huge.per >= t /\ huge.per < t + p /\ n * p = p
          BY <1>1, <3>1, <3>2, <3>3
        <4>2. huge.per * all >= t /\ huge.per * all < (t + p) * all
          BY <1>1, <3>1, <3>2, <4>1, EveryNodeAsOne
        <4>3. QED BY <3>1, <3>3, <4>1, <4>2
      <3>4. CASE n # 1
        <4>1. n = all /\ (t + n * p) * 1 = t + n * p
          BY <1>1, <3>1, <3>4
        <4>2. QED BY <3>1, <3>2, <3>4, <4>1
      <3>5. QED BY <3>3, <3>4
    <2>3. QED BY <2>1, <2>2
  <1>3. QED BY <1>2 DEF ReservesEnough

\* A benchmark finds at least the huge pages it asked for, for every total, page
\* size and number of nodes, and less than a page per node too many
\* (hugepage_split).
THEOREM HugepagesSuffice == DSpec => []ReservesEnough
  <1>1. DInit => HugeInv
    BY DEF DInit, HugeInv
  <1>2. Spec => []PlacementInv
    BY PlacementInvariant
  <1>3. QED BY <1>1, <1>2, HugeNext, HugeEnough, GuestRunsInPlacedVm, PTL DEF DSpec

(***************************************************************************)
(* create_test_file.  The k-th writer begins where k shares of the file,   *)
(* the first ones a megabyte longer, end.                                  *)
(***************************************************************************)
Least(k, r) == IF k <= r THEN k ELSE r
Shares(mb, n, k) == k * (mb \div n) + Least(k, mb % n)

\* Offset is that sum.
LEMMA OffsetIsShares ==
  ASSUME NEW mb \in Nat, NEW n \in Nat \ {0}, NEW i \in 0..n
  PROVE  Offset(mb, n, i) = Shares(mb, n, i)
  <1> DEFINE q == mb \div n
             r == mb % n
             Size(k) == ChunkSize(mb, n, k)
             f == CHOOSE f : f = [k \in 0..n |-> IF k = 0 THEN 0 ELSE f[k - 1] + Size(k - 1)]
             g == [k \in 0..n |-> Shares(mb, n, k)]
  <1>1. q \in Nat /\ r \in 0..n - 1
    BY DivRest
  <1>2. Offset(mb, n, i) = f[i]
    BY DEF Offset
  <1>3. \A k \in 0..n : g[k] = k * q + Least(k, r)
    BY DEF Shares
  <1>4. \A k \in Nat : Size(k) = q + (IF k < r THEN 1 ELSE 0)
    BY DEF ChunkSize
  <1>5. \A k \in 0..n : g[k] = Shares(mb, n, k)
    OBVIOUS
  <1>6. g = [k \in 0..n |-> g[k]]
    OBVIOUS
  <1> HIDE DEF q, r, Size, g
  <1>7. \A k \in 0..n : g[k] = IF k = 0 THEN 0 ELSE g[k - 1] + Size(k - 1)
    <2>1. g[0] = 0
      BY <1>1, <1>3 DEF Least
    <2>2. ASSUME NEW k \in 1..n PROVE g[k] = g[k - 1] + Size(k - 1)
      <3>1. k * q = (k - 1) * q + q
        BY <1>1
      <3>2. g[k] = k * q + Least(k, r) /\ g[k - 1] = (k - 1) * q + Least(k - 1, r)
        BY <1>3
      <3>3. Size(k - 1) = q + (IF k - 1 < r THEN 1 ELSE 0)
        BY <1>4
      <3>4. Least(k, r) = Least(k - 1, r) + (IF k - 1 < r THEN 1 ELSE 0)
        BY <1>1 DEF Least
      <3>5. (k - 1) * q \in Int /\ Least(k - 1, r) \in Int
        BY <1>1 DEF Least
      <3> DEFINE e == IF k - 1 < r THEN 1 ELSE 0
                 m == (k - 1) * q
      <3>6. e \in Int /\ m \in Int
        BY <3>5
      <3> HIDE DEF e, m
      <3>7. g[k] = m + q + (Least(k - 1, r) + e) /\ g[k - 1] = m + Least(k - 1, r) /\ Size(k - 1) = q + e
        BY <3>1, <3>2, <3>3, <3>4 DEF e, m
      <3>8. QED BY <1>1, <3>5, <3>6, <3>7
    <2>3. QED BY <2>1, <2>2
  <1>8. g = [k \in 0..n |-> IF k = 0 THEN 0 ELSE g[k - 1] + Size(k - 1)]
    BY <1>6, <1>7
  <1>9. f = [k \in 0..n |-> IF k = 0 THEN 0 ELSE f[k - 1] + Size(k - 1)]
    BY <1>8
  <1> HIDE DEF f
  <1>10. f[0] = 0 /\ \A k \in 1..n : f[k] = f[k - 1] + Size(k - 1)
    BY <1>9
  <1> DEFINE S == {k \in Nat : k \in 0..n => f[k] = g[k]}
  <1>11. 0 \in S
    BY <1>7, <1>10
  <1>12. ASSUME NEW k \in Nat, k \in S PROVE k + 1 \in S
    <2>1. ASSUME k + 1 \in 0..n PROVE f[k + 1] = g[k + 1]
      <3>1. k + 1 \in 1..n /\ k \in 0..n /\ (k + 1) - 1 = k
        BY <2>1
      <3>2. f[k + 1] = f[k] + Size(k)
        BY <1>10, <3>1
      <3>3. g[k + 1] = g[k] + Size(k)
        BY <1>7, <3>1
      <3>4. QED BY <1>12, <3>1, <3>2, <3>3
    <2>2. QED BY <2>1
  <1>13. Nat \subseteq S
    BY <1>11, <1>12, Induction
  <1>14. QED BY <1>2, <1>5, <1>13

\* The shares begin at nothing, end with the whole file, and do not shrink; each
\* is as long as its writer's piece.
LEMMA SharesSound ==
  ASSUME NEW mb \in Nat, NEW n \in Nat \ {0}
  PROVE  /\ \A k \in 0..n : Shares(mb, n, k) \in Nat
         /\ Shares(mb, n, 0) = 0 /\ Shares(mb, n, n) = mb
         /\ \A k, l \in 0..n : k <= l => Shares(mb, n, k) <= Shares(mb, n, l)
         /\ \A k \in 1..n : Shares(mb, n, k - 1) + ChunkSize(mb, n, k - 1) = Shares(mb, n, k)
  <1> DEFINE q == mb \div n
             r == mb % n
  <1>1. q \in Nat /\ r \in 0..n - 1 /\ mb = n * q + r
    BY DivRest
  <1>2. \A k \in 0..n : Shares(mb, n, k) = k * q + Least(k, r)
    BY DEF Shares
  <1>3. \A k \in 0..n : ChunkSize(mb, n, k) = q + (IF k < r THEN 1 ELSE 0)
    BY DEF ChunkSize
  <1> HIDE DEF q, r
  <1>4. \A k \in 0..n : k * q \in Nat /\ Least(k, r) \in Nat
    BY <1>1 DEF Least
  <1>5. Shares(mb, n, 0) = 0 /\ Shares(mb, n, n) = mb
    BY <1>1, <1>2 DEF Least
  <1>6. ASSUME NEW k \in 0..n, NEW l \in 0..n, k <= l
        PROVE  Shares(mb, n, k) <= Shares(mb, n, l)
    <2>1. q * k <= q * l
      BY <1>1, <1>6, TimesMonotone
    <2>2. q * k = k * q /\ q * l = l * q
      BY <1>1
    <2>3. Least(k, r) <= Least(l, r)
      BY <1>1, <1>6 DEF Least
    <2>4. QED BY <1>2, <1>4, <2>1, <2>2, <2>3
  <1>7. ASSUME NEW k \in 1..n
        PROVE  Shares(mb, n, k - 1) + ChunkSize(mb, n, k - 1) = Shares(mb, n, k)
    <2> DEFINE m == (k - 1) * q
               e == IF k - 1 < r THEN 1 ELSE 0
    <2>1. m \in Nat /\ e \in Nat /\ k * q = m + q
      BY <1>1
    <2>2. Least(k, r) = Least(k - 1, r) + e /\ Least(k - 1, r) \in Nat
      BY <1>1 DEF Least
    <2>3. /\ Shares(mb, n, k - 1) = m + Least(k - 1, r) /\ Shares(mb, n, k) = k * q + Least(k, r)
          /\ ChunkSize(mb, n, k - 1) = q + e
      BY <1>2, <1>3
    <2> HIDE DEF m, e
    <2>4. QED BY <1>1, <2>1, <2>2, <2>3
  <1>8. QED BY <1>2, <1>4, <1>5, <1>6, <1>7

\* Every megabyte of the file is in one writer's piece.
LEMMA OneWriter ==
  ASSUME NEW mb \in Nat, NEW n \in Nat \ {0}, NEW b \in 0..mb - 1
  PROVE  \E i \in 1..n : \A j \in 1..n :
           /\ Offset(mb, n, j - 1) <= b
           /\ b < Offset(mb, n, j - 1) + ChunkSize(mb, n, j - 1)
           <=> j = i
  <1> DEFINE s(k) == Shares(mb, n, k)
  <1>1. /\ \A k \in 0..n : s(k) \in Nat
        /\ s(0) = 0 /\ s(n) = mb
        /\ \A k, l \in 0..n : k <= l => s(k) <= s(l)
        /\ \A k \in 1..n : s(k - 1) + ChunkSize(mb, n, k - 1) = s(k)
    BY SharesSound
  <1>2. \A j \in 1..n : /\ Offset(mb, n, j - 1) = s(j - 1)
                        /\ Offset(mb, n, j - 1) + ChunkSize(mb, n, j - 1) = s(j)
    <2>1. ASSUME NEW j \in 1..n PROVE Offset(mb, n, j - 1) = s(j - 1)
      <3>1. j - 1 \in 0..n
        OBVIOUS
      <3>2. QED BY <3>1, OffsetIsShares
    <2>2. QED BY <1>1, <2>1
  <1> HIDE DEF s
  <1> DEFINE T == {k \in 0..n : b < s(k)}
  <1>3. PICK i \in T : \A m \in T : i <= m
    <2>1. n \in T /\ T \in SUBSET Nat /\ T # {}
      BY <1>1
    <2> HIDE DEF T
    <2>2. QED BY <2>1, LeastNumber
  <1>4. i \in 1..n /\ s(i - 1) <= b /\ b < s(i)
    <2>1. i # 0
      BY <1>1, <1>3
    <2>2. i - 1 \in 0..n /\ i - 1 \notin T
      BY <1>3, <2>1
    <2>3. s(i - 1) \in Nat /\ ~(b < s(i - 1))
      BY <1>1, <2>2
    <2>4. QED BY <1>3, <2>1, <2>3
  <1>5. ASSUME NEW j \in 1..n, s(j - 1) <= b, b < s(j) PROVE j = i
    <2>1. /\ j - 1 \in 0..n /\ i - 1 \in 0..n /\ j \in 0..n /\ i \in 0..n
          /\ s(j) \in Nat /\ s(i) \in Nat /\ s(j - 1) \in Nat /\ s(i - 1) \in Nat
      BY <1>1, <1>4
    <2>2. CASE i < j
      <3>1. s(i) <= s(j - 1)
        BY <1>1, <2>1, <2>2
      <3>2. QED BY <1>4, <1>5, <2>1, <3>1
    <2>3. CASE j < i
      <3>1. s(j) <= s(i - 1)
        BY <1>1, <2>1, <2>3
      <3>2. QED BY <1>4, <1>5, <2>1, <3>1
    <2>4. QED BY <2>1, <2>2, <2>3
  <1>6. \A j \in 1..n : s(j - 1) <= b /\ b < s(j) <=> j = i
    BY <1>4, <1>5
  <1>7. i \in 1..n
    BY <1>4
  <1> HIDE DEF T
  <1>8. ASSUME NEW j \in 1..n
        PROVE  /\ Offset(mb, n, j - 1) <= b
               /\ b < Offset(mb, n, j - 1) + ChunkSize(mb, n, j - 1)
               <=> j = i
    BY <1>2, <1>6
  <1>9. QED BY <1>7, <1>8

\* What has been written, has been written in the pieces of its size.
ChunkInv ==
  chunks # << >> =>
    /\ size \in Int
    /\ \E n \in Nat \ {0} :
         chunks = [i \in 1..n |-> <<Offset(size, n, i - 1), ChunkSize(size, n, i - 1)>>]

\* There is always a writer.
LEMMA WritersSound ==
  ASSUME PlacementInv, Resource # NoResource, NEW mb \in Int
  PROVE  Writers(mb) \in Nat \ {0}
  BY CallSound, FileAssumption DEF Writers

\* Only create_test_file writes, and it writes all its pieces at once.
LEMMA ChunkNext == PlacementInv /\ ChunkInv /\ [DNext]_<<vars, dvars>> => ChunkInv'
  <1> SUFFICES ASSUME PlacementInv, ChunkInv, [DNext]_<<vars, dvars>> PROVE ChunkInv'
    OBVIOUS
  <1>1. CASE CreateTestFile
    <2>1. Resource # NoResource /\ req' = req
      BY <1>1 DEF CreateTestFile, In, DGoto, vars, PlacementInv, SetUp
    <2>2. size' \in Int
      BY <1>1, FileAssumption DEF CreateTestFile
    <2> DEFINE n == Writers(size')
    <2>3. n \in Nat \ {0}
      BY <2>1, <2>2, WritersSound
    <2>4. chunks' = [i \in 1..n |-> <<Offset(size', n, i - 1), ChunkSize(size', n, i - 1)>>]
      BY <1>1 DEF CreateTestFile
    <2>5. \A m, k : Offset(size, m, k)' = Offset(size', m, k)
                    /\ ChunkSize(size, m, k)' = ChunkSize(size', m, k)
      BY DEF Offset, ChunkSize
    <2> HIDE DEF n
    <2>6. QED BY <2>2, <2>3, <2>4 DEF ChunkInv
  <1>2. CASE UNCHANGED <<chunks, size>>
    BY <1>2 DEF ChunkInv
  <1>3. CreateTestFile \/ UNCHANGED <<chunks, size>>
    BY DEF DNext, DGoto, SetupHugepages, CreatePartition, Publish, SettleUdev, Look, Judge,
           Sleep, dvars
  <1>4. QED BY <1>1, <1>2, <1>3

\* Such pieces fill the file.
LEMMA FileWritten == ChunkInv => FileWhole
  <1> SUFFICES ASSUME ChunkInv, chunks # << >>, NEW b \in 0..size - 1
               PROVE  Cardinality({i \in 1..Len(chunks) :
                        chunks[i][1] <= b /\ b < chunks[i][1] + chunks[i][2]}) = 1
    BY DEF FileWhole
  <1>1. size \in Nat
    BY DEF ChunkInv
  <1>2. PICK n \in Nat \ {0} :
          chunks = [i \in 1..n |-> <<Offset(size, n, i - 1), ChunkSize(size, n, i - 1)>>]
    BY DEF ChunkInv
  <1>3. /\ Len(chunks) = n
        /\ \A i \in 1..n : /\ chunks[i][1] = Offset(size, n, i - 1)
                           /\ chunks[i][2] = ChunkSize(size, n, i - 1)
    BY <1>2
  <1>4. PICK i \in 1..n : \A j \in 1..n :
           /\ Offset(size, n, j - 1) <= b
           /\ b < Offset(size, n, j - 1) + ChunkSize(size, n, j - 1)
           <=> j = i
    BY <1>1, OneWriter
  <1>5. {j \in 1..Len(chunks) : chunks[j][1] <= b /\ b < chunks[j][1] + chunks[j][2]} = {i}
    BY <1>3, <1>4
  <1>6. QED BY <1>5, FS_Singleton

\* The writers of a test file fill it exactly once, whatever its size and however
\* many there are: no megabyte is left out and none is written twice, where the
\* size does not divide by the writers too (create_test_file).
THEOREM TestFileWhole == DSpec => []FileWhole
  <1>1. DInit => ChunkInv
    BY DEF DInit, ChunkInv
  <1>2. Spec => []PlacementInv
    BY PlacementInvariant
  <1>3. QED BY <1>1, <1>2, ChunkNext, FileWritten, GuestRunsInPlacedVm, PTL DEF DSpec

=============================================================================
