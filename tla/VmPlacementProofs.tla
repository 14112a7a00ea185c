-------------------------- MODULE VmPlacementProofs --------------------------
(***************************************************************************)
(* Proofs about VmPlacement and the arithmetic of VmResources, for any     *)
(* host, any sizes and any calls of vm.start.                              *)
(***************************************************************************)
EXTENDS VmPlacement, WellFoundedInduction, FiniteSetTheorems, TLAPS

(***************************************************************************)
(* The arithmetic.                                                         *)
(***************************************************************************)

\* Division with rest, as divmod does it.
LEMMA DivRest ==
  ASSUME NEW v \in Nat, NEW n \in Nat \ {0}
  PROVE  /\ v \div n \in Nat /\ v % n \in 0..n - 1
         /\ v = n * (v \div n) + (v % n)
  OBVIOUS

\* Two numbers with the same quotient and rest are the same.
LEMMA SameQuotientAndRest ==
  ASSUME NEW v \in Nat, NEW w \in Nat, NEW n \in Nat \ {0}, NEW base \in Nat,
         (v \div n) + 1 = (w \div n) + 1, base + (v % n) + 1 = base + (w % n) + 1
  PROVE  v = w
  <1>1. v \div n \in Nat /\ v % n \in 0..n - 1 /\ v = n * (v \div n) + (v % n)
    BY DivRest
  <1>2. w \div n \in Nat /\ w % n \in 0..n - 1 /\ w = n * (w \div n) + (w % n)
    BY DivRest
  <1>3. v \div n = w \div n /\ v % n = w % n
    BY <1>1, <1>2
  <1>4. QED BY <1>1, <1>2, <1>3

\* Multiplication keeps the order.
LEMMA TimesMonotone ==
  ASSUME NEW a \in Nat, NEW b \in Nat, NEW c \in Nat, a <= b
  PROVE  c * a <= c * b
  OBVIOUS

\* Where the vCPUs divide evenly, each belongs to a cell and has a place there.
LEMMA CellExists ==
  ASSUME NEW cpu \in Nat \ {0}, NEW nodes \in Seq(HostNode), nodes # << >>,
         cpu % Len(nodes) = 0, NEW v \in 0..cpu - 1
  PROVE  /\ PerCell(nodes, cpu) \in Nat \ {0}
         /\ Cell(nodes, cpu, v) \in 1..Len(nodes)
         /\ v % PerCell(nodes, cpu) \in 0..PerCell(nodes, cpu) - 1
  <1> DEFINE n == Len(nodes)
             per == cpu \div n
  <1>1. n \in Nat \ {0} /\ v \in Nat
    OBVIOUS
  <1>2. /\ PerCell(nodes, cpu) = per
        /\ Cell(nodes, cpu, v) = (v \div per) + 1
        /\ cpu % n = 0
    BY DEF PerCell, Cell
  <1> HIDE DEF n
  <1>3. per \in Nat /\ cpu = n * per
    <2>1. per \in Nat /\ cpu = n * per + (cpu % n)
      BY <1>1, DivRest
    <2> HIDE DEF per
    <2>2. QED BY <1>1, <1>2, <2>1
  <1> HIDE DEF per
  <1>4. per \in Nat \ {0}
    BY <1>1, <1>3
  <1>5. v \div per \in Nat /\ v % per \in 0..per - 1 /\ v = per * (v \div per) + (v % per)
    BY <1>1, <1>4, DivRest
  <1> DEFINE q == v \div per
             r == v % per
  <1>6. q < n
    <2> HIDE DEF q, r
    <2>1. q \in Nat /\ r \in 0..per - 1 /\ v = per * q + r
      BY <1>5 DEF q, r
    <2>2. SUFFICES ASSUME n <= q PROVE FALSE
      BY <1>1, <2>1
    <2>3. per * n <= per * q
      BY <1>1, <1>4, <2>1, <2>2, TimesMonotone
    <2>4. per * n = cpu
      BY <1>1, <1>3, <1>4
    <2>5. QED BY <1>4, <2>1, <2>3, <2>4
  <1>7. (v \div per) + 1 \in 1..n
    BY <1>1, <1>5, <1>6
  <1>8. QED BY <1>2, <1>4, <1>5, <1>7 DEF n

\* The place of a vCPU in the list of its cell's node.
Place(cpu, nodes, base, v) == base + (v % PerCell(nodes, cpu)) + 1

\* vcpu_pin_map puts a vCPU on a CPU that its cell's node has.
LEMMA PinOnItsNode ==
  ASSUME NEW cpu \in Nat \ {0}, NEW nodes \in Seq(HostNode), NEW base \in Nat,
         Fits(nodes, cpu, base), NEW v \in 0..cpu - 1
  PROVE  /\ Cell(nodes, cpu, v) \in 1..Len(nodes)
         /\ Place(cpu, nodes, base, v) \in 1..Len(host_node_cpus(nodes[Cell(nodes, cpu, v)]))
         /\ vcpu_pin_map(nodes, cpu, base)[v]
              = host_node_cpus(nodes[Cell(nodes, cpu, v)])[Place(cpu, nodes, base, v)]
  <1> DEFINE per == PerCell(nodes, cpu)
             c == Cell(nodes, cpu, v)
             cpus == host_node_cpus(nodes[c])
  <1>1. per \in Nat \ {0} /\ c \in 1..Len(nodes) /\ v % per \in 0..per - 1
    BY CellExists DEF Fits
  <1>2. nodes[c] \in HostNode /\ Len(cpus) >= base + per
    BY <1>1 DEF Fits
  <1>3. Len(cpus) \in Nat
    BY <1>2, CpulistAssumption
  <1>4. Place(cpu, nodes, base, v) \in 1..Len(cpus)
    <2> HIDE DEF per, c, cpus
    <2>1. Place(cpu, nodes, base, v) = base + (v % per) + 1
      BY DEF Place, per
    <2>2. QED BY <1>1, <1>2, <1>3, <2>1
  <1>5. QED BY <1>1, <1>4 DEF vcpu_pin_map, Place

\* A CPU has one place in the kernel's lists.
LEMMA OnePlace ==
  ASSUME NEW m \in HostNode, NEW n \in HostNode,
         NEW i \in 1..Len(host_node_cpus(m)), NEW j \in 1..Len(host_node_cpus(n)),
         host_node_cpus(m)[i] = host_node_cpus(n)[j]
  PROVE  m = n /\ i = j
  BY CpulistAssumption

\* No two vCPUs get the same CPU.
LEMMA PinsApart ==
  ASSUME NEW cpu \in Nat \ {0}, NEW nodes \in Seq(HostNode), NEW base \in Nat,
         Fits(nodes, cpu, base),
         \A c, d \in 1..Len(nodes) : nodes[c] = nodes[d] => c = d,
         NEW v \in 0..cpu - 1, NEW w \in 0..cpu - 1,
         vcpu_pin_map(nodes, cpu, base)[v] = vcpu_pin_map(nodes, cpu, base)[w]
  PROVE  v = w
  <1> DEFINE per == PerCell(nodes, cpu)
             c == Cell(nodes, cpu, v)
             d == Cell(nodes, cpu, w)
             i == Place(cpu, nodes, base, v)
             k == Place(cpu, nodes, base, w)
  <1>1. /\ c \in 1..Len(nodes) /\ i \in 1..Len(host_node_cpus(nodes[c]))
        /\ d \in 1..Len(nodes) /\ k \in 1..Len(host_node_cpus(nodes[d]))
        /\ host_node_cpus(nodes[c])[i] = host_node_cpus(nodes[d])[k]
    <2>1. /\ c \in 1..Len(nodes) /\ i \in 1..Len(host_node_cpus(nodes[c]))
          /\ vcpu_pin_map(nodes, cpu, base)[v] = host_node_cpus(nodes[c])[i]
      BY PinOnItsNode
    <2>2. /\ d \in 1..Len(nodes) /\ k \in 1..Len(host_node_cpus(nodes[d]))
          /\ vcpu_pin_map(nodes, cpu, base)[w] = host_node_cpus(nodes[d])[k]
      BY PinOnItsNode
    <2> HIDE DEF c, d, i, k
    <2>3. QED BY <2>1, <2>2
  <1>2. nodes[c] = nodes[d] /\ i = k
    <2> HIDE DEF c, d, i, k
    <2> DEFINE m == nodes[c]
               n == nodes[d]
    <2>1. m \in HostNode /\ n \in HostNode
      BY <1>1
    <2>2. /\ i \in 1..Len(host_node_cpus(m)) /\ k \in 1..Len(host_node_cpus(n))
          /\ host_node_cpus(m)[i] = host_node_cpus(n)[k]
      BY <1>1
    <2> HIDE DEF m, n
    <2>3. m = n /\ i = k
      BY <2>1, <2>2, OnePlace
    <2>4. QED BY <2>3 DEF m, n
  <1>3. c = d
    BY <1>1, <1>2
  <1>4. per \in Nat \ {0} /\ v \in Nat /\ w \in Nat
    BY CellExists DEF Fits
  <1>5. (v \div per) + 1 = (w \div per) + 1
    BY <1>3 DEF Cell
  <1>6. base + (v % per) + 1 = base + (w % per) + 1
    BY <1>2 DEF Place
  <1>7. QED
    <2> HIDE DEF per
    <2>1. QED BY <1>4, <1>5, <1>6, SameQuotientAndRest

\* The blocks of vCPUs GuestNumaFeature gives to the cells are those vcpu_pin_map
\* pins node by node.
LEMMA BlockIsCell ==
  ASSUME NEW v \in Nat, NEW per \in Nat \ {0}, NEW i \in Nat \ {0}
  PROVE  v \in (i - 1) * per..i * per - 1 <=> i = (v \div per) + 1
  <1> DEFINE q == v \div per
             r == v % per
  <1>1. q \in Nat /\ r \in 0..per - 1 /\ v = per * q + r
    BY DivRest
  <1> HIDE DEF q, r
  <1>2. i * per = (i - 1) * per + per /\ (i - 1) * per = per * (i - 1)
    OBVIOUS
  <1>3. CASE i = q + 1
    BY <1>1, <1>2, <1>3
  <1>4. CASE i <= q
    <2>1. per * i <= per * q
      BY <1>1, <1>4, TimesMonotone
    <2>2. QED BY <1>1, <1>2, <1>4, <2>1
  <1>5. CASE q + 2 <= i
    <2>1. per * (q + 1) <= per * (i - 1)
      BY <1>1, <1>5, TimesMonotone
    <2>2. per * (q + 1) = per * q + per
      BY <1>1
    <2>3. QED BY <1>1, <1>2, <1>5, <2>1, <2>2
  <1>6. QED BY <1>1, <1>3, <1>4, <1>5 DEF q

\* The two places that split the vCPUs over the nodes, each on its own, agree: the
\* host CPU a vCPU is pinned to belongs to the node that the memory of the
\* vCPU's cell is bound to, and to no other cell (GuestNumaFeature.qemu_args,
\* vcpu_pin_map).
THEOREM PinsMatchCells ==
  ASSUME NEW resource, resource.cpu \in Nat \ {0}, resource.numa \in Seq(HostNode),
         NEW base \in Nat, Fits(resource.numa, resource.cpu, base),
         NEW v \in 0..resource.cpu - 1, NEW i \in 1..Len(resource.numa),
         v \in GuestNumaFeature(resource)[Len(resource.numa) + i].cpus
  PROVE  /\ i = Cell(resource.numa, resource.cpu, v)
         /\ GuestNumaFeature(resource)[i].nodes = {resource.numa[i]}
         /\ vcpu_pin_map(resource.numa, resource.cpu, base)[v] \in CpusOf(resource.numa[i])
  <1> DEFINE numa == resource.numa
             cpu == resource.cpu
             per == PerCell(numa, cpu)
  <1>0. Len(numa) \in Nat \ {0} /\ per \in Nat \ {0}
    <2>1. /\ cpu \in Nat \ {0} /\ numa \in Seq(HostNode) /\ numa # << >>
          /\ cpu % Len(numa) = 0 /\ v \in 0..cpu - 1
      BY DEF Fits
    <2> HIDE DEF numa, cpu
    <2>2. per \in Nat \ {0}
      BY <2>1, CellExists
    <2>3. Len(numa) \in Nat \ {0}
      BY <2>1
    <2>4. QED BY <2>2, <2>3
  <1>1. /\ GuestNumaFeature(resource)[Len(numa) + i].cpus = (i - 1) * per..i * per - 1
        /\ GuestNumaFeature(resource)[i].nodes = {numa[i]}
    <2> DEFINE Ram(k) == Memory(Object("numa_ram", k - 1), resource.memory \div Len(numa), {numa[k]})
               Node(k) == [Use({Object("numa_ram", k - 1)}) EXCEPT !.id = GuestCell(k - 1),
                             !.cpus = (k - 1) * per..k * per - 1]
    <2>1. Ram(i).nodes = {numa[i]} /\ Node(i).cpus = (i - 1) * per..i * per - 1
      BY DEF Use, Memory, Plain
    <2>2. GuestNumaFeature(resource) =
            [k \in 1..Len(numa) |-> Ram(k)] \o [k \in 1..Len(numa) |-> Node(k)]
      BY DEF GuestNumaFeature
    <2> HIDE DEF Ram, Node, per, numa, cpu
    <2>3. /\ ([k \in 1..Len(numa) |-> Ram(k)] \o [k \in 1..Len(numa) |-> Node(k)])[i] = Ram(i)
          /\ ([k \in 1..Len(numa) |-> Ram(k)] \o [k \in 1..Len(numa) |-> Node(k)])[Len(numa) + i]
               = Node(i)
      <3>1. i \in 1..Len(numa)
        BY DEF numa
      <3>2. QED BY <1>0, <3>1
    <2>4. QED BY <2>1, <2>2, <2>3
  <1>2. Cell(numa, cpu, v) = (v \div per) + 1
    BY DEF Cell
  <1>3. i = Cell(numa, cpu, v)
    <2>1. v \in (i - 1) * per..i * per - 1
      BY <1>1
    <2>2. v \in Nat /\ i \in Nat \ {0}
      OBVIOUS
    <2> HIDE DEF per
    <2>3. i = (v \div per) + 1
      BY <1>0, <2>1, <2>2, BlockIsCell
    <2>4. QED BY <1>2, <2>3
  <1>4. /\ Place(cpu, numa, base, v) \in 1..Len(host_node_cpus(numa[i]))
        /\ vcpu_pin_map(numa, cpu, base)[v] = host_node_cpus(numa[i])[Place(cpu, numa, base, v)]
    BY <1>3, SMTT(20), PinOnItsNode
  <1>5. vcpu_pin_map(numa, cpu, base)[v] \in CpusOf(numa[i])
    BY <1>4 DEF CpusOf
  <1>6. QED BY <1>1, <1>3, <1>5

(***************************************************************************)
(* Induction over the numbers, from the well-foundedness of their order.   *)
(***************************************************************************)

\* A set of numbers has a least one.
LEMMA LeastNumber ==
  ASSUME NEW T \in SUBSET Nat, T # {}
  PROVE  \E n \in T : \A m \in T : n <= m
  <1> DEFINE R == OpToRel(<, Nat)
  <1>1. IsWellFoundedOn(R, Nat)
    BY NatLessThanWellFounded
  <1>2. \A x, y \in Nat : <<x, y>> \in R <=> x < y
    BY DEF OpToRel
  <1> HIDE DEF R
  <1>3. PICK n \in T : \A m \in T : <<m, n>> \notin R
    BY <1>1, WFMin
  <1>4. ASSUME NEW m \in T PROVE n <= m
    <2>1. m \in Nat /\ n \in Nat /\ ~(m < n)
      BY <1>2, <1>3
    <2>2. QED BY <2>1
  <1>5. QED BY <1>4

\* A set with 0 that has with every number the next one has all of them.
LEMMA Induction ==
  ASSUME NEW S, 0 \in S, \A n \in Nat : n \in S => n + 1 \in S
  PROVE  Nat \subseteq S
  <1> DEFINE T == Nat \ S
  <1>1. SUFFICES ASSUME T # {} PROVE FALSE
    OBVIOUS
  <1>2. PICK n \in T : \A m \in T : n <= m
    BY <1>1, LeastNumber
  <1>3. n \in Nat /\ n # 0 /\ n - 1 \in Nat /\ n - 1 \notin T
    BY <1>2
  <1>4. QED BY <1>2, <1>3

\* The same for the numbers from 1 to n.
LEMMA InductionUpTo ==
  ASSUME NEW N \in Nat, NEW S, 1 \in S, \A n \in 1..N - 1 : n \in S => n + 1 \in S
  PROVE  1..N \subseteq S
  <1> DEFINE T == {n \in Nat : n \in 1..N => n \in S}
  <1>1. 0 \in T
    OBVIOUS
  <1>2. ASSUME NEW n \in Nat, n \in T PROVE n + 1 \in T
    BY <1>2
  <1>3. Nat \subseteq T
    BY <1>1, <1>2, Induction
  <1>4. QED BY <1>3

(***************************************************************************)
(* FlattenSeq: the sequences up to the k-th, one after the other.          *)
(***************************************************************************)

Flattened(X, f) ==
  /\ f[1] = X[1]
  /\ \A k \in 1..Len(X) - 1 : f[k + 1] = f[k] \o X[k + 1]

\* The recursive definition of FlattenSeq has a solution.
LEMMA FlattenExists ==
  ASSUME NEW X, NEW N \in Nat \ {0}
  PROVE  \E f : f = [k \in 1..N |-> IF k = 1 THEN X[k] ELSE f[k - 1] \o X[k]]
  <1> DEFINE P(n) == \E f : f = [k \in 1..n |-> IF k = 1 THEN X[k] ELSE f[k - 1] \o X[k]]
             S == {n \in 1..N : P(n)}
  <1>1. P(1)
    <2> DEFINE g == [k \in 1..1 |-> X[k]]
    <2>1. g = [k \in 1..1 |-> IF k = 1 THEN X[k] ELSE g[k - 1] \o X[k]]
      OBVIOUS
    <2>2. QED BY <2>1
  <1>2. ASSUME NEW n \in 1..N - 1, P(n) PROVE P(n + 1)
    <2>1. PICK f : f = [k \in 1..n |-> IF k = 1 THEN X[k] ELSE f[k - 1] \o X[k]]
      BY <1>2
    <2> DEFINE g == [k \in 1..n + 1 |-> IF k <= n THEN f[k] ELSE f[n] \o X[n + 1]]
    <2>2. ASSUME NEW k \in 1..n + 1
          PROVE  g[k] = IF k = 1 THEN X[k] ELSE g[k - 1] \o X[k]
      <3>1. CASE k = n + 1
        BY <3>1
      <3>2. CASE k # n + 1
        <4>1. k \in 1..n /\ (k # 1 => k - 1 \in 1..n /\ k - 1 \in 1..n + 1)
          BY <3>2
        <4>2. f[k] = IF k = 1 THEN X[k] ELSE f[k - 1] \o X[k]
          BY <2>1, <4>1
        <4>3. g[k] = f[k] /\ (k # 1 => g[k - 1] = f[k - 1])
          BY <4>1
        <4>4. QED BY <4>2, <4>3
      <3>3. QED BY <3>1, <3>2
    <2>3. g = [k \in 1..n + 1 |-> IF k = 1 THEN X[k] ELSE g[k - 1] \o X[k]]
      BY <2>2
    <2> HIDE DEF g
    <2>4. QED BY <2>3
  <1> HIDE DEF P
  <1>3. 1 \in S /\ \A n \in 1..N - 1 : n \in S => n + 1 \in S
    BY <1>1, <1>2
  <1>4. 1..N \subseteq S
    BY <1>3, InductionUpTo
  <1>5. P(N)
    BY <1>4
  <1>6. QED BY <1>5 DEF P

\* FlattenSeq is the last of the prefixes.
LEMMA FlattenPrefixes ==
  ASSUME NEW X, Len(X) \in Nat \ {0}
  PROVE  \E f : Flattened(X, f) /\ FlattenSeq(X) = f[Len(X)]
  <1> DEFINE N == Len(X)
             f == CHOOSE f : f = [k \in 1..N |-> IF k = 1 THEN X[k] ELSE f[k - 1] \o X[k]]
  <1>1. f = [k \in 1..N |-> IF k = 1 THEN X[k] ELSE f[k - 1] \o X[k]]
    BY FlattenExists
  <1>2. FlattenSeq(X) = f[N]
    BY DEF FlattenSeq
  <1> HIDE DEF f
  <1>3. f[1] = X[1]
    BY <1>1
  <1>4. ASSUME NEW k \in 1..N - 1 PROVE f[k + 1] = f[k] \o X[k + 1]
    <2>1. k + 1 \in 1..N /\ k + 1 # 1 /\ (k + 1) - 1 = k
      OBVIOUS
    <2>2. QED BY <1>1, <2>1
  <1>5. QED BY <1>2, <1>3, <1>4 DEF Flattened

\* What is in one of two sequences in a row.
LEMMA InConcat ==
  ASSUME NEW S, NEW s \in Seq(S), NEW t \in Seq(S)
  PROVE  /\ s \o t \in Seq(S) /\ Len(s \o t) = Len(s) + Len(t)
         /\ DOMAIN (s \o t) = 1..Len(s) + Len(t)
         /\ Len(s) \in Nat /\ Len(t) \in Nat
         /\ DOMAIN s = 1..Len(s) /\ DOMAIN t = 1..Len(t)
         /\ \A i \in 1..Len(s) : (s \o t)[i] = s[i]
         /\ \A i \in 1..Len(t) : (s \o t)[Len(s) + i] = t[i]
         /\ \A i \in DOMAIN (s \o t) : i \in 1..Len(s) \/ \E k \in 1..Len(t) : i = Len(s) + k
  <1>1. /\ s \o t \in Seq(S) /\ Len(s \o t) = Len(s) + Len(t)
        /\ DOMAIN (s \o t) = 1..Len(s) + Len(t)
        /\ Len(s) \in Nat /\ Len(t) \in Nat
        /\ DOMAIN s = 1..Len(s) /\ DOMAIN t = 1..Len(t)
        /\ \A i \in 1..Len(s) : (s \o t)[i] = s[i]
        /\ \A i \in 1..Len(t) : (s \o t)[Len(s) + i] = t[i]
    OBVIOUS
  <1>2. ASSUME NEW i \in 1..Len(s) + Len(t), i \notin 1..Len(s)
        PROVE  i - Len(s) \in 1..Len(t) /\ i = Len(s) + (i - Len(s))
    BY <1>1, <1>2
  <1>3. QED BY <1>1, <1>2

\* The same, by the number of the element.
LEMMA NumberInConcat ==
  ASSUME NEW S, NEW s \in Seq(S), NEW t \in Seq(S)
  PROVE  /\ s \o t \in Seq(S) /\ Len(s \o t) = Len(s) + Len(t)
         /\ Len(s) \in Nat /\ Len(t) \in Nat
         /\ \A i \in 1..Len(s) : (s \o t)[i] = s[i]
         /\ \A i \in 1..Len(t) : (s \o t)[Len(s) + i] = t[i]
         /\ \A i \in 1..Len(s \o t) : i \in 1..Len(s) \/ \E k \in 1..Len(t) : i = Len(s) + k
  BY InConcat

\* What is in a flattened sequence was in one of its parts.
LEMMA FlattenElements ==
  ASSUME NEW S, NEW X \in Seq(Seq(S))
  PROVE  /\ FlattenSeq(X) \in Seq(S)
         /\ \A j \in DOMAIN FlattenSeq(X) :
              \E l \in 1..Len(X) : \E i \in DOMAIN X[l] : FlattenSeq(X)[j] = X[l][i]
  <1>1. CASE Len(X) = 0
    BY <1>1 DEF FlattenSeq
  <1>2. CASE Len(X) # 0
    <2> DEFINE N == Len(X)
    <2>1. N \in Nat \ {0}
      BY <1>2
    <2>2. PICK f : Flattened(X, f) /\ FlattenSeq(X) = f[N]
      BY <2>1, FlattenPrefixes
    <2>9. \A k \in 1..N - 1 : f[k + 1] = f[k] \o X[k + 1] /\ k + 1 \in 1..N
      <3>1. \A k \in 1..N - 1 : f[k + 1] = f[k] \o X[k + 1]
        BY <2>2, Zenon DEF Flattened
      <3>2. \A k \in 1..N - 1 : k + 1 \in 1..N
        BY ONLY <2>1
      <3>3. QED BY <3>1, <3>2
    <2> DEFINE P(k) == /\ f[k] \in Seq(S)
                       /\ \A j \in DOMAIN f[k] :
                            \E l \in 1..N : \E i \in DOMAIN X[l] : f[k][j] = X[l][i]
    <2>3. P(1)
      BY <2>1, <2>2 DEF Flattened
    <2>4. ASSUME NEW k \in 1..N - 1, P(k) PROVE P(k + 1)
      <3>1. f[k + 1] = f[k] \o X[k + 1] /\ k + 1 \in 1..N
        BY <2>9
      <3>2. f[k] \in Seq(S) /\ X[k + 1] \in Seq(S)
        BY <2>4, <3>1
      <3>3. f[k + 1] \in Seq(S)
        BY <3>1, <3>2, InConcat
      <3>4. ASSUME NEW j \in DOMAIN f[k + 1]
            PROVE  \E l \in 1..N : \E i \in DOMAIN X[l] : f[k + 1][j] = X[l][i]
        <4> DEFINE s == f[k]
                   t == X[k + 1]
        <4>1. s \in Seq(S) /\ t \in Seq(S) /\ f[k + 1] = s \o t
          BY <3>1, <3>2
        <4> HIDE DEF s, t
        <4>2. \/ j \in DOMAIN s /\ f[k + 1][j] = s[j]
              \/ \E i \in DOMAIN t : f[k + 1][j] = t[i]
          BY <4>1, InConcat
        <4>3. QED BY <2>4, <3>1, <4>2 DEF s, t
      <3>5. QED BY <3>3, <3>4
    <2> DEFINE T == {k \in 1..N : P(k)}
    <2> HIDE DEF P
    <2>5. 1 \in T /\ \A n \in 1..N - 1 : n \in T => n + 1 \in T
      BY <2>1, <2>3, <2>4
    <2>6. 1..N \subseteq T
      BY <2>1, <2>5, InductionUpTo
    <2>7. P(N)
      BY <2>1, <2>6
    <2>8. QED BY <2>2, <2>7 DEF P
  <1>3. QED BY <1>1, <1>2

\* Where nothing is in two places of the parts, nothing is twice in the whole.
LEMMA FlattenInjective ==
  ASSUME NEW S, NEW X \in Seq(Seq(S)),
         \A k, l \in 1..Len(X) : \A i \in DOMAIN X[k], m \in DOMAIN X[l] :
           X[k][i] = X[l][m] => k = l /\ i = m
  PROVE  \A i, j \in DOMAIN FlattenSeq(X) : FlattenSeq(X)[i] = FlattenSeq(X)[j] => i = j
  <1>1. CASE Len(X) = 0
    BY <1>1 DEF FlattenSeq
  <1>2. CASE Len(X) # 0
    <2> DEFINE N == Len(X)
    <2>1. N \in Nat \ {0}
      BY <1>2
    <2>2. PICK f : Flattened(X, f) /\ FlattenSeq(X) = f[N]
      BY <2>1, FlattenPrefixes
    <2>9. \A k \in 1..N - 1 : f[k + 1] = f[k] \o X[k + 1] /\ k + 1 \in 1..N
      <3>1. \A k \in 1..N - 1 : f[k + 1] = f[k] \o X[k + 1]
        BY <2>2, Zenon DEF Flattened
      <3>2. \A k \in 1..N - 1 : k + 1 \in 1..N
        BY ONLY <2>1
      <3>3. QED BY <3>1, <3>2
    <2> DEFINE From(k) == \A j \in DOMAIN f[k] :
                            \E l \in 1..k : \E i \in DOMAIN X[l] : f[k][j] = X[l][i]
               Once(k) == \A i, j \in DOMAIN f[k] : f[k][i] = f[k][j] => i = j
               P(k) == f[k] \in Seq(S) /\ From(k) /\ Once(k)
    <2>3. P(1)
      BY <2>1, <2>2 DEF Flattened
    <2>4. ASSUME NEW k \in 1..N - 1, P(k) PROVE P(k + 1)
      <3> DEFINE s == f[k]
                 t == X[k + 1]
      <3>1. f[k + 1] = s \o t /\ k + 1 \in 1..N
        BY <2>9
      <3>2. s \in Seq(S) /\ t \in Seq(S)
        BY <2>4, <3>1
      <3>3. \A j \in DOMAIN s : \E l \in 1..k : \E i \in DOMAIN X[l] : s[j] = X[l][i]
        BY <2>4
      <3>4. \A i, j \in DOMAIN s : s[i] = s[j] => i = j
        BY <2>4
      <3>5. \A i, j \in DOMAIN t : t[i] = t[j] => i = j
        BY <3>1
      <3>6. ASSUME NEW i \in DOMAIN s, NEW j \in DOMAIN t PROVE s[i] # t[j]
        <4>1. PICK l \in 1..k : \E m \in DOMAIN X[l] : s[i] = X[l][m]
          BY <3>3
        <4>2. l \in 1..N /\ l # k + 1
          BY <2>1, <2>4
        <4>3. QED BY <3>1, <4>1, <4>2
      <3> HIDE DEF s, t
      <3>7. f[k + 1] \in Seq(S)
        BY <3>1, <3>2, InConcat
      <3>8. ASSUME NEW j \in DOMAIN f[k + 1]
            PROVE  \E l \in 1..k + 1 : \E i \in DOMAIN X[l] : f[k + 1][j] = X[l][i]
        <4>1. CASE j \in 1..Len(s)
          <5>1. j \in DOMAIN s /\ f[k + 1][j] = s[j]
            BY <3>1, <3>2, <4>1, InConcat
          <5>2. \A l \in 1..k : l \in 1..k + 1
            BY <2>4
          <5>3. PICK l \in 1..k : \E i \in DOMAIN X[l] : s[j] = X[l][i]
            BY <3>3, <5>1
          <5>4. QED BY <5>1, <5>2, <5>3
        <4>2. CASE \E m \in 1..Len(t) : j = Len(s) + m
          <5>1. PICK m \in 1..Len(t) : j = Len(s) + m
            BY <4>2
          <5>2. m \in DOMAIN t /\ f[k + 1][j] = t[m]
            BY <3>1, <3>2, <5>1, InConcat
          <5>3. k + 1 \in 1..k + 1
            BY <2>4
          <5>4. QED BY <5>2, <5>3 DEF t
        <4>3. j \in DOMAIN (s \o t)
          BY <3>1
        <4>4. j \in 1..Len(s) \/ \E m \in 1..Len(t) : j = Len(s) + m
          BY ONLY <3>2, <4>3, InConcat
        <4>5. QED BY <4>1, <4>2, <4>4
      <3>9. ASSUME NEW i \in DOMAIN (s \o t), NEW j \in DOMAIN (s \o t), (s \o t)[i] = (s \o t)[j]
            PROVE  i = j
        <4>1. /\ DOMAIN s = 1..Len(s) /\ DOMAIN t = 1..Len(t)
              /\ \A h \in 1..Len(s) : (s \o t)[h] = s[h]
              /\ \A h \in 1..Len(t) : (s \o t)[Len(s) + h] = t[h]
              /\ \A h \in DOMAIN (s \o t) : h \in 1..Len(s) \/ \E m \in 1..Len(t) : h = Len(s) + m
          BY <3>2, InConcat
        <4>2. CASE i \in 1..Len(s) /\ j \in 1..Len(s)
          BY <3>4, <3>9, <4>1, <4>2
        <4>3. CASE i \in 1..Len(s) /\ \E m \in 1..Len(t) : j = Len(s) + m
          <5>1. PICK m \in 1..Len(t) : j = Len(s) + m
            BY <4>3
          <5>2. s[i] = t[m]
            BY <3>9, <4>1, <4>3, <5>1
          <5>3. QED BY <3>6, <4>1, <4>3, <5>2
        <4>4. CASE (\E m \in 1..Len(t) : i = Len(s) + m) /\ j \in 1..Len(s)
          <5>1. PICK m \in 1..Len(t) : i = Len(s) + m
            BY <4>4
          <5>2. s[j] = t[m]
            BY <3>9, <4>1, <4>4, <5>1
          <5>3. QED BY <3>6, <4>1, <4>4, <5>2
        <4>5. CASE /\ \E m \in 1..Len(t) : i = Len(s) + m
                   /\ \E m \in 1..Len(t) : j = Len(s) + m
          <5>1. PICK m \in 1..Len(t), n \in 1..Len(t) : i = Len(s) + m /\ j = Len(s) + n
            BY <4>5
          <5>2. t[m] = t[n]
            BY <3>9, <4>1, <5>1
          <5>3. QED BY <3>5, <4>1, <5>1, <5>2
        <4>6. QED BY <4>1, <4>2, <4>3, <4>4, <4>5
      <3>10. From(k + 1)
        BY <3>8
      <3>11. Once(k + 1)
        BY <3>1, <3>9
      <3>12. QED BY <3>7, <3>10, <3>11
    <2> DEFINE T == {k \in 1..N : P(k)}
    <2> HIDE DEF P
    <2>5. 1 \in T /\ \A n \in 1..N - 1 : n \in T => n + 1 \in T
      BY <2>1, <2>3, <2>4
    <2>6. 1..N \subseteq T
      BY <2>1, <2>5, InductionUpTo
    <2>7. P(N)
      BY <2>1, <2>6
    <2>8. QED BY <2>2, <2>7 DEF P
  <1>3. QED BY <1>1, <1>2

\* The elements of a at the odd places and those of b at the even ones.
Interleaved(s, a, b, n) ==
  Len(s) = 2 * n /\ \A k \in 1..n : s[2 * k - 1] = a[k] /\ s[2 * k] = b[k]

\* A sequence of pairs flattened: the first of each at the odd places, the second
\* at the even ones.
LEMMA FlattenPairs ==
  ASSUME NEW S, NEW N \in Nat, NEW a, NEW b, \A k \in 1..N : a[k] \in S /\ b[k] \in S,
         NEW X, X = [k \in 1..N |-> <<a[k], b[k]>>]
  PROVE  FlattenSeq(X) \in Seq(S) /\ Interleaved(FlattenSeq(X), a, b, N)
  <1>0. X \in Seq(Seq(S)) /\ Len(X) = N /\ \A k \in 1..N : X[k] = <<a[k], b[k]>>
    OBVIOUS
  <1>1. CASE N = 0
    BY <1>0, <1>1 DEF FlattenSeq, Interleaved
  <1>2. CASE N # 0
    <2>1. N \in Nat \ {0}
      BY <1>2
    <2>2. PICK f : Flattened(X, f) /\ FlattenSeq(X) = f[N]
      BY <1>0, <2>1, FlattenPrefixes
    <2>9. \A k \in 1..N - 1 : f[k + 1] = f[k] \o X[k + 1] /\ k + 1 \in 1..N
      <3>1. \A k \in 1..N - 1 : f[k + 1] = f[k] \o X[k + 1]
        BY <1>0, <2>2, Zenon DEF Flattened
      <3>2. \A k \in 1..N - 1 : k + 1 \in 1..N
        BY ONLY <2>1
      <3>3. QED BY <3>1, <3>2
    <2> DEFINE P(n) == /\ f[n] \in Seq(S) /\ Len(f[n]) = 2 * n
                       /\ \A k \in 1..n : f[n][2 * k - 1] = a[k] /\ f[n][2 * k] = b[k]
    <2>3. P(1)
      <3>1. f[1] = <<a[1], b[1]>> /\ a[1] \in S /\ b[1] \in S
        BY <1>0, <2>1, <2>2 DEF Flattened
      <3>2. QED BY <3>1
    <2>4. ASSUME NEW n \in 1..N - 1, P(n) PROVE P(n + 1)
      <3>1. f[n + 1] = f[n] \o X[n + 1] /\ n + 1 \in 1..N /\ n \in Nat
        <4>1. f[n + 1] = f[n] \o X[n + 1] /\ n + 1 \in 1..N
          BY <2>9, Zenon
        <4>2. QED BY <4>1
      <3> DEFINE s == f[n]
                 t == <<a[n + 1], b[n + 1]>>
      <3>2. /\ s \in Seq(S) /\ Len(s) = 2 * n
            /\ \A k \in 1..n : s[2 * k - 1] = a[k] /\ s[2 * k] = b[k]
        BY <2>4
      <3>3. t \in Seq(S) /\ Len(t) = 2 /\ t[1] = a[n + 1] /\ t[2] = b[n + 1]
        BY <3>1
      <3>4. f[n + 1] = s \o t
        BY <1>0, <3>1
      <3> HIDE DEF s, t
      <3>5. /\ s \o t \in Seq(S) /\ Len(s \o t) = Len(s) + Len(t)
            /\ \A i \in 1..Len(s) : (s \o t)[i] = s[i]
            /\ \A i \in 1..Len(t) : (s \o t)[Len(s) + i] = t[i]
        <4>1. s \in Seq(S) /\ t \in Seq(S)
          BY <3>2, <3>3
        <4>2. QED BY ONLY <4>1, InConcat
      <3>6. ASSUME NEW k \in 1..n + 1
            PROVE  (s \o t)[2 * k - 1] = a[k] /\ (s \o t)[2 * k] = b[k]
        <4>1. CASE k \in 1..n
          <5>1. 2 * k - 1 \in 1..2 * n /\ 2 * k \in 1..2 * n
            BY <3>1, <4>1
          <5>2. (s \o t)[2 * k - 1] = s[2 * k - 1] /\ (s \o t)[2 * k] = s[2 * k]
            BY <3>2, <3>5, <5>1
          <5>3. QED BY <3>2, <4>1, <5>2
        <4>2. CASE k = n + 1
          <5>1. 2 * k - 1 = 2 * n + 1 /\ 2 * k = 2 * n + 2
            BY <3>1, <4>2
          <5>2. (s \o t)[2 * n + 1] = t[1] /\ (s \o t)[2 * n + 2] = t[2]
            BY <3>2, <3>3, <3>5
          <5>3. (s \o t)[2 * k - 1] = t[1] /\ (s \o t)[2 * k] = t[2]
            BY <5>1, <5>2
          <5>4. t[1] = a[k] /\ t[2] = b[k]
            BY <3>3, <4>2
          <5>5. QED BY ONLY <5>3, <5>4
        <4>3. k \in 1..n \/ k = n + 1
          BY ONLY <3>1, k \in 1..n + 1
        <4>4. QED BY <4>1, <4>2, <4>3
      <3>7. Len(s \o t) = 2 * (n + 1)
        BY <3>1, <3>2, <3>3, <3>5
      <3>8. QED BY <3>4, <3>5, <3>6, <3>7
    <2> DEFINE T == {n \in 1..N : P(n)}
    <2> HIDE DEF P
    <2>5. 1 \in T /\ \A n \in 1..N - 1 : n \in T => n + 1 \in T
      BY <2>1, <2>3, <2>4
    <2>6. 1..N \subseteq T
      BY <2>1, <2>5, InductionUpTo
    <2>7. P(N)
      BY <2>1, <2>6
    <2>8. QED BY <2>2, <2>7 DEF P, Interleaved
  <1>3. QED BY <1>1, <1>2

(***************************************************************************)
(* The lists of CPUs and devices, which are flattened sequences.           *)
(***************************************************************************)

\* What is left out is out, and what was once in the list stays there once.
LEMMA WithoutSound ==
  ASSUME NEW S, NEW list \in Seq(S), NEW out
  PROVE  /\ Without(list, out) \in Seq(S)
         /\ \A j \in DOMAIN Without(list, out) :
              \E i \in 1..Len(list) : Without(list, out)[j] = list[i] /\ list[i] \notin out
         /\ (\A i, j \in 1..Len(list) : list[i] = list[j] => i = j) =>
              \A i, j \in DOMAIN Without(list, out) :
                Without(list, out)[i] = Without(list, out)[j] => i = j
  <1> DEFINE X == [i \in 1..Len(list) |-> IF list[i] \in out THEN << >> ELSE <<list[i]>>]
  <1>1. /\ X \in Seq(Seq(S)) /\ Len(X) = Len(list)
        /\ \A i \in 1..Len(list) : X[i] = IF list[i] \in out THEN << >> ELSE <<list[i]>>
    OBVIOUS
  <1>2. Without(list, out) = FlattenSeq(X)
    BY DEF Without
  <1> HIDE DEF X
  <1>3. ASSUME NEW k \in 1..Len(list), NEW i \in DOMAIN X[k]
        PROVE  X[k][i] = list[k] /\ i = 1 /\ list[k] \notin out
    <2>1. DOMAIN << >> = {} /\ \A x : DOMAIN <<x>> = {1} /\ <<x>>[1] = x
      OBVIOUS
    <2>2. X[k] = IF list[k] \in out THEN << >> ELSE <<list[k]>>
      BY <1>1
    <2>3. list[k] \notin out
      BY <1>3, <2>1, <2>2
    <2>4. X[k] = <<list[k]>>
      BY <2>2, <2>3
    <2>5. i = 1
      BY <1>3, <2>1, <2>4
    <2>6. QED BY <2>1, <2>3, <2>4, <2>5
  <1>4. FlattenSeq(X) \in Seq(S)
    BY <1>1, FlattenElements
  <1>5. \A j \in DOMAIN FlattenSeq(X) :
          \E l \in 1..Len(X) : \E i \in DOMAIN X[l] : FlattenSeq(X)[j] = X[l][i]
    BY <1>1, FlattenElements
  <1>6. ASSUME \A i, j \in 1..Len(list) : list[i] = list[j] => i = j
        PROVE  \A i, j \in DOMAIN FlattenSeq(X) : FlattenSeq(X)[i] = FlattenSeq(X)[j] => i = j
    <2>1. \A k, l \in 1..Len(X) : \A i \in DOMAIN X[k], m \in DOMAIN X[l] :
            X[k][i] = X[l][m] => k = l /\ i = m
      BY <1>1, <1>3, <1>6
    <2>2. QED BY <1>1, <2>1, FlattenInjective
  <1>7. QED BY <1>1, <1>2, <1>3, <1>4, <1>5, <1>6

\* The CPUs of the listed nodes are theirs, and none comes twice.
LEMMA AllCpusSound ==
  ASSUME NEW nodes \in Seq(HostNode),
         \A c, d \in 1..Len(nodes) : nodes[c] = nodes[d] => c = d
  PROVE  /\ AllCpus(nodes) \in Seq(Nat)
         /\ \A j \in 1..Len(AllCpus(nodes)) :
              \E c \in 1..Len(nodes) : AllCpus(nodes)[j] \in CpusOf(nodes[c])
         /\ \A i, j \in 1..Len(AllCpus(nodes)) : AllCpus(nodes)[i] = AllCpus(nodes)[j] => i = j
  <1> DEFINE X == [c \in 1..Len(nodes) |-> host_node_cpus(nodes[c])]
  <1>1. \A c \in 1..Len(nodes) : nodes[c] \in HostNode /\ host_node_cpus(nodes[c]) \in Seq(Nat)
    BY CpulistAssumption
  <1>2. /\ X \in Seq(Seq(Nat)) /\ Len(X) = Len(nodes)
        /\ \A c \in 1..Len(nodes) : X[c] = host_node_cpus(nodes[c])
    BY <1>1
  <1>3. AllCpus(nodes) = FlattenSeq(X)
    BY DEF AllCpus
  <1> HIDE DEF X
  <1>4. FlattenSeq(X) \in Seq(Nat)
    BY <1>2, FlattenElements
  <1>5. \A j \in DOMAIN FlattenSeq(X) :
          \E l \in 1..Len(X) : \E i \in DOMAIN X[l] : FlattenSeq(X)[j] = X[l][i]
    BY <1>2, FlattenElements
  <1>6. \A c \in 1..Len(nodes) : DOMAIN X[c] = 1..Len(host_node_cpus(nodes[c]))
    BY <1>1, <1>2
  <1>7. DOMAIN FlattenSeq(X) = 1..Len(FlattenSeq(X))
    BY <1>4
  <1>8. \A j \in 1..Len(FlattenSeq(X)) :
          \E c \in 1..Len(nodes) : FlattenSeq(X)[j] \in CpusOf(nodes[c])
    <2>1. ASSUME NEW c \in 1..Len(nodes), NEW i \in DOMAIN X[c]
          PROVE  X[c][i] \in CpusOf(nodes[c])
      BY <1>2, <1>6 DEF CpusOf
    <2>2. ASSUME NEW j \in 1..Len(FlattenSeq(X))
          PROVE  \E c \in 1..Len(nodes) : FlattenSeq(X)[j] \in CpusOf(nodes[c])
      <3>1. PICK l \in 1..Len(X) : \E i \in DOMAIN X[l] : FlattenSeq(X)[j] = X[l][i]
        BY <1>5, <1>7
      <3>2. l \in 1..Len(nodes)
        BY <1>2
      <3>3. QED BY <2>1, <3>1, <3>2
    <2>3. QED BY <2>2
  <1>9. \A k, l \in 1..Len(X) : \A i \in DOMAIN X[k], m \in DOMAIN X[l] :
          X[k][i] = X[l][m] => k = l /\ i = m
    <2>1. ASSUME NEW k \in 1..Len(X), NEW l \in 1..Len(X), NEW i \in DOMAIN X[k],
                 NEW m \in DOMAIN X[l], X[k][i] = X[l][m]
          PROVE  k = l /\ i = m
      <3>1. /\ nodes[k] \in HostNode /\ nodes[l] \in HostNode
            /\ i \in 1..Len(host_node_cpus(nodes[k])) /\ m \in 1..Len(host_node_cpus(nodes[l]))
            /\ host_node_cpus(nodes[k])[i] = host_node_cpus(nodes[l])[m]
        BY <1>1, <1>2, <1>6, <2>1
      <3>2. nodes[k] = nodes[l] /\ i = m
        BY <3>1, OnePlace
      <3>3. QED BY <1>2, <3>2
    <2>2. QED BY <2>1
  <1>10. \A i, j \in DOMAIN FlattenSeq(X) : FlattenSeq(X)[i] = FlattenSeq(X)[j] => i = j
    BY <1>2, <1>9, FlattenInjective
  <1>11. QED BY <1>3, <1>4, <1>7, <1>8, <1>10

(***************************************************************************)
(* The command line, section by section.  A section is a list of options   *)
(* in which no id is defined and no slot is taken twice, every bus is      *)
(* there before what plugs into it and every id used is one it defines     *)
(* itself or one of E.  Sections of different names make a section.        *)
(***************************************************************************)

\* The ids a command line, or a section of it, defines.
Ids(s) == {s[j].id : j \in 1..Len(s)}
\* Whose slots those of a bus are: the switch has its own.
Slots(bus) == IF bus = Device("sw_up", 0) THEN "downstream" ELSE "slots"

\* What is in one option of a section: the names it may define are N, which also
\* tells whether there are slots and cells; it may use the ids in E.
InSection(o, N, E) ==
  /\ o.id # << >> => o.id[2] \in N
  /\ o.slot # << >> => Slots(o.bus) \in N
  /\ o.uses # {} /\ o.cpus # {} => "cells" \in N
  /\ o.uses \subseteq E

\* s is sound as part of a command line that defines E somewhere and B before s.
Section(s, N, E, B) ==
  /\ \E S : s \in Seq(S)
  /\ \A i \in 1..Len(s) :
       /\ InSection(s[i], N, Ids(s) \cup E)
       /\ s[i].bus \in {<< >>, Builtin} \cup B \/ \E j \in 1..i - 1 : s[i].bus = s[j].id
  /\ \A i, j \in 1..Len(s) :
       \/ s[i].id # << >> /\ s[i].id = s[j].id
       \/ s[i].slot # << >> /\ s[i].bus = s[j].bus /\ s[i].slot = s[j].slot
       => i = j

\* What the kinds of option set, and what they leave as it is in Plain.
LEMMA Fields ==
  /\ Plain.id = << >> /\ Plain.uses = {} /\ Plain.bus = << >> /\ Plain.slot = << >>
  /\ Plain.cpus = {} /\ Plain.nodes = {}
  /\ \A id : /\ Def(id).id = id /\ Def(id).uses = {} /\ Def(id).bus = << >>
             /\ Def(id).slot = << >> /\ Def(id).cpus = {}
  /\ \A ids : /\ Use(ids).id = << >> /\ Use(ids).uses = ids /\ Use(ids).bus = << >>
              /\ Use(ids).slot = << >> /\ Use(ids).cpus = {}
  /\ \A id, size, nodes :
       LET o == Memory(id, size, nodes)
       IN  /\ o.id = id /\ o.uses = {} /\ o.bus = << >> /\ o.slot = << >>
           /\ o.cpus = {} /\ o.nodes = nodes
  /\ \A id, bus, c, n :
       LET o == Port(id, bus, c, n)
       IN  /\ o.id = id /\ o.uses = {} /\ o.bus = bus /\ o.slot = <<c, n>>
           /\ o.cpus = {}
  /\ \A d, bus, ids :
       LET o == HostDevice(d, bus, ids)
       IN  /\ o.id = << >> /\ o.uses = ids /\ o.bus = bus /\ o.slot = << >>
           /\ o.cpus = {}
  BY DEF Plain, Def, Use, Memory, Port, HostDevice

\* One option that defines nothing anew is a section.
LEMMA Singleton ==
  ASSUME NEW o, NEW N, NEW E, NEW B, InSection(o, N, {o.id} \cup E),
         o.bus \in {<< >>, Builtin} \cup B
  PROVE  Section(<<o>>, N, E, B)
  <1>1. <<o>> \in Seq({o}) /\ Len(<<o>>) = 1 /\ <<o>>[1] = o
    OBVIOUS
  <1>2. Ids(<<o>>) = {o.id}
    BY <1>1 DEF Ids
  <1>3. \E S : <<o>> \in Seq(S)
    BY <1>1
  <1>4. \A i \in 1..1 : i = 1
    OBVIOUS
  <1> DEFINE s == <<o>>
  <1>5. /\ Len(s) = 1 /\ s[1] = o /\ Ids(s) = {o.id} /\ \E S : s \in Seq(S)
    BY <1>1, <1>2, <1>3
  <1> HIDE DEF s
  <1>6. Section(s, N, E, B)
    BY <1>4, <1>5 DEF Section
  <1>7. QED BY <1>6 DEF s

\* Two sections in a row define what each of them defines.
LEMMA SectionIds ==
  ASSUME NEW S, NEW s \in Seq(S), NEW t \in Seq(S)
  PROVE  Ids(s \o t) = Ids(s) \cup Ids(t)
  <1> DEFINE u == s \o t
  <1>1. /\ Len(s) \in Nat /\ Len(t) \in Nat /\ Len(u) = Len(s) + Len(t)
        /\ \A i \in 1..Len(s) : u[i] = s[i]
        /\ \A i \in 1..Len(t) : u[Len(s) + i] = t[i]
        /\ \A i \in 1..Len(u) : i \in 1..Len(s) \/ \E k \in 1..Len(t) : i = Len(s) + k
    BY NumberInConcat
  <1> HIDE DEF u
  <1>2. ASSUME NEW x \in Ids(s) PROVE x \in Ids(u)
    BY <1>1, <1>2 DEF Ids
  <1>3. ASSUME NEW x \in Ids(t) PROVE x \in Ids(u)
    <2>1. PICK k \in 1..Len(t) : x = t[k].id
      BY <1>3 DEF Ids
    <2>2. Len(s) + k \in 1..Len(u)
      BY <1>1
    <2>3. QED BY <1>1, <2>1, <2>2 DEF Ids
  <1>4. ASSUME NEW x \in Ids(u) PROVE x \in Ids(s) \cup Ids(t)
    <2>1. PICK i \in 1..Len(u) : x = u[i].id
      BY <1>4 DEF Ids
    <2>2. CASE i \in 1..Len(s)
      BY <1>1, <2>1, <2>2 DEF Ids
    <2>3. CASE \E k \in 1..Len(t) : i = Len(s) + k
      BY <1>1, <2>1, <2>3 DEF Ids
    <2>4. QED BY <1>1, <2>2, <2>3
  <1>5. QED BY <1>2, <1>3, <1>4 DEF u

\* Two sections in a row, of different names, are a section.
LEMMA Concat ==
  ASSUME NEW s, NEW t, NEW N, NEW M, NEW E, NEW B, NEW C, N \cap M = {},
         Section(s, N, E, B), Section(t, M, E, C), C \subseteq B \cup Ids(s)
  PROVE  Section(s \o t, N \cup M, E, B)
  <1> DEFINE u == s \o t
  <1>1. PICK S : s \in Seq(S) /\ t \in Seq(S)
    <2>1. PICK S1 : s \in Seq(S1)
      BY DEF Section
    <2>2. PICK S2 : t \in Seq(S2)
      BY DEF Section
    <2>3. s \in Seq(S1 \cup S2) /\ t \in Seq(S1 \cup S2)
      BY <2>1, <2>2
    <2>4. QED BY <2>3
  <1>2. /\ Len(s) \in Nat /\ Len(t) \in Nat /\ Len(u) = Len(s) + Len(t) /\ u \in Seq(S)
        /\ \A i \in 1..Len(s) : u[i] = s[i]
        /\ \A i \in 1..Len(t) : u[Len(s) + i] = t[i]
        /\ \A i \in 1..Len(u) : i \in 1..Len(s) \/ \E k \in 1..Len(t) : i = Len(s) + k
    BY ONLY <1>1, NumberInConcat
  <1>3. Ids(u) = Ids(s) \cup Ids(t)
    BY <1>1, SectionIds
  <1> HIDE DEF u
  <1>4. ASSUME NEW i \in 1..Len(s)
        PROVE  /\ InSection(u[i], N, Ids(u) \cup E)
               /\ \/ u[i].bus \in {<< >>, Builtin} \cup B
                  \/ \E j \in 1..i - 1 : u[i].bus = u[j].id
    <2>1. /\ InSection(s[i], N, Ids(s) \cup E) /\ u[i] = s[i]
          /\ \/ s[i].bus \in {<< >>, Builtin} \cup B
             \/ \E j \in 1..i - 1 : s[i].bus = s[j].id
      BY <1>2 DEF Section
    <2>2. \A j \in 1..i - 1 : u[j] = s[j]
      BY <1>2
    <2>3. QED BY <1>3, <2>1, <2>2 DEF InSection
  <1>5. ASSUME NEW k \in 1..Len(t)
        PROVE  /\ InSection(u[Len(s) + k], M, Ids(u) \cup E)
               /\ \/ u[Len(s) + k].bus \in {<< >>, Builtin} \cup B
                  \/ \E j \in 1..Len(s) + k - 1 : u[Len(s) + k].bus = u[j].id
    <2>1. /\ InSection(t[k], M, Ids(t) \cup E) /\ u[Len(s) + k] = t[k]
          /\ \/ t[k].bus \in {<< >>, Builtin} \cup C
             \/ \E j \in 1..k - 1 : t[k].bus = t[j].id
      BY <1>2 DEF Section
    <2>2. ASSUME NEW j \in 1..k - 1
          PROVE  Len(s) + j \in 1..Len(s) + k - 1 /\ u[Len(s) + j] = t[j]
      BY <1>2
    <2>3. ASSUME NEW j \in 1..Len(s)
          PROVE  j \in 1..Len(s) + k - 1 /\ u[j] = s[j]
      BY <1>2
    <2>4. CASE t[k].bus \in {<< >>, Builtin} \cup B
      BY <1>3, <2>1, <2>4 DEF InSection
    <2>5. CASE t[k].bus \in Ids(s)
      <3>1. PICK j \in 1..Len(s) : t[k].bus = s[j].id
        BY <2>5 DEF Ids
      <3>2. QED BY <1>3, <2>1, <2>3, <3>1 DEF InSection
    <2>6. CASE \E j \in 1..k - 1 : t[k].bus = t[j].id
      <3>1. PICK j \in 1..k - 1 : t[k].bus = t[j].id
        BY <2>6
      <3>2. QED BY <1>3, <2>1, <2>2, <3>1 DEF InSection
    <2>7. QED BY <2>1, <2>4, <2>5, <2>6
  <1> DEFINE Clash(a, b) == \/ a.id # << >> /\ a.id = b.id
                            \/ a.slot # << >> /\ a.bus = b.bus /\ a.slot = b.slot
  <1>6. ASSUME NEW i \in 1..Len(s), NEW k \in 1..Len(t)
        PROVE  ~Clash(u[i], u[Len(s) + k]) /\ ~Clash(u[Len(s) + k], u[i])
    BY <1>4, <1>5 DEF InSection
  <1>7. ASSUME NEW i \in 1..Len(u), NEW j \in 1..Len(u), Clash(u[i], u[j])
        PROVE  i = j
    <2>1. CASE i \in 1..Len(s) /\ j \in 1..Len(s)
      BY <1>2, <1>7, <2>1 DEF Section
    <2>2. CASE i \in 1..Len(s) /\ j \notin 1..Len(s)
      <3>1. PICK k \in 1..Len(t) : j = Len(s) + k
        BY <1>2, <2>2
      <3>2. QED BY <1>6, <1>7, <2>2, <3>1
    <2>3. CASE i \notin 1..Len(s) /\ j \in 1..Len(s)
      <3>1. PICK k \in 1..Len(t) : i = Len(s) + k
        BY <1>2, <2>3
      <3>2. QED BY <1>6, <1>7, <2>3, <3>1
    <2>4. CASE i \notin 1..Len(s) /\ j \notin 1..Len(s)
      <3>1. PICK k \in 1..Len(t), l \in 1..Len(t) : i = Len(s) + k /\ j = Len(s) + l
        BY <1>2, <2>4
      <3>2. Clash(t[k], t[l])
        BY <1>2, <1>7, <3>1
      <3>3. k = l
        BY <3>2 DEF Section
      <3>4. QED BY <3>1, <3>3
    <2>5. QED BY <2>1, <2>2, <2>3, <2>4
  <1>8. ASSUME NEW i \in 1..Len(u)
        PROVE  /\ InSection(u[i], N \cup M, Ids(u) \cup E)
               /\ \/ u[i].bus \in {<< >>, Builtin} \cup B
                  \/ \E j \in 1..i - 1 : u[i].bus = u[j].id
    <2>1. CASE i \in 1..Len(s)
      BY <1>4, <2>1 DEF InSection
    <2>2. CASE \E k \in 1..Len(t) : i = Len(s) + k
      BY <1>5, <2>2 DEF InSection
    <2>3. QED BY <1>2, <2>1, <2>2
  <1>9. QED BY <1>2, <1>7, <1>8 DEF Section, u

\* The ids of both are ids of the whole.
LEMMA IdsGrow ==
  ASSUME NEW s, NEW t, NEW N, NEW M, NEW E, NEW F, NEW B, NEW C,
         Section(s, N, E, B), Section(t, M, F, C)
  PROVE  Ids(s) \subseteq Ids(s \o t) /\ Ids(t) \subseteq Ids(s \o t)
  <1>1. PICK S1, S2 : s \in Seq(S1) /\ t \in Seq(S2)
    BY DEF Section
  <1>2. s \in Seq(S1 \cup S2) /\ t \in Seq(S1 \cup S2)
    BY <1>1
  <1>3. QED BY <1>2, SectionIds

\* What a section itself defines need not be defined elsewhere.
LEMMA Discharge ==
  ASSUME NEW s, NEW N, NEW E, NEW F, NEW B, Section(s, N, F, B), F \subseteq Ids(s) \cup E
  PROVE  Section(s, N, E, B)
  BY DEF Section, InSection

\* A section may be thought to have more names, and to use more ids.
LEMMA Weaken ==
  ASSUME NEW s, NEW N, NEW M, NEW E, NEW F, NEW B, Section(s, N, E, B), N \subseteq M, E \subseteq F
  PROVE  Section(s, M, F, B)
  BY DEF Section, InSection

\* No option at all is a section.
LEMMA NoSection ==
  ASSUME NEW N, NEW E, NEW B
  PROVE  Section(<< >>, N, E, B)
  BY DEF Section

\* A feature that may be missing is a section where it is one.
LEMMA IfSection ==
  ASSUME NEW c, NEW s, NEW N, NEW E, NEW B, Section(s, N, E, B)
  PROVE  Section(If(c, s), N, E, B)
  BY NoSection DEF If

\* A section that uses only what it defines is one whatever is defined elsewhere.
LEMMA Closed ==
  ASSUME NEW s, NEW N, NEW E, Section(s, N, {}, {})
  PROVE  Section(s, N, E, {})
  <1>1. N \subseteq N /\ {} \subseteq E
    OBVIOUS
  <1>2. QED BY <1>1, Weaken

\* An optional one, too.
LEMMA Optional ==
  ASSUME NEW c, NEW s, NEW N, NEW E, Section(s, N, {}, {})
  PROVE  Section(If(c, s), N, E, {})
  BY Closed, IfSection

\* A function on 1..n is a sequence of n elements.
LEMMA Table ==
  ASSUME NEW n \in Nat, NEW s, s = [i \in 1..n |-> s[i]]
  PROVE  Len(s) = n /\ DOMAIN s = 1..n /\ \E S : s \in Seq(S)
  <1>1. s \in Seq({s[i] : i \in 1..n}) /\ Len(s) = n
    OBVIOUS
  <1>2. QED BY <1>1

\* An option that defines something and one that uses it, in either order.
LEMMA PairSection ==
  ASSUME NEW a, NEW b, NEW name, NEW E, NEW B,
         a.id # << >> => a.id[2] = name, a.uses = {}, a.bus = << >>, a.slot = << >>, a.cpus = {},
         b.id = << >>, b.uses \subseteq {a.id} \cup E, b.slot = << >>, b.cpus = {},
         b.bus = << >> \/ b.bus = a.id
  PROVE  /\ Section(<<a, b>>, {name}, E, B)
         /\ b.bus = << >> => Section(<<b, a>>, {name}, E, B)
  <1>1. /\ <<a, b>> \in Seq({a, b}) /\ Len(<<a, b>>) = 2 /\ <<a, b>>[1] = a /\ <<a, b>>[2] = b
        /\ <<b, a>> \in Seq({a, b}) /\ Len(<<b, a>>) = 2 /\ <<b, a>>[1] = b /\ <<b, a>>[2] = a
        /\ \A i \in 1..2 : i = 1 \/ i = 2
    OBVIOUS
  <1> DEFINE s == <<a, b>>
             t == <<b, a>>
  <1>2. /\ Len(s) = 2 /\ s[1] = a /\ s[2] = b /\ \E S : s \in Seq(S)
        /\ Len(t) = 2 /\ t[1] = b /\ t[2] = a /\ \E S : t \in Seq(S)
    BY <1>1
  <1> HIDE DEF s, t
  <1>3. a.id \in Ids(s) /\ a.id \in Ids(t)
    BY <1>2 DEF Ids
  <1>4. Section(s, {name}, E, B)
    BY <1>1, <1>2, <1>3 DEF Section, InSection
  <1>5. b.bus = << >> => Section(t, {name}, E, B)
    BY <1>1, <1>2, <1>3 DEF Section, InSection
  <1>6. QED BY <1>4, <1>5 DEF s, t

\* The k-th of the n ports p takes the k-th of the devices h; no two ports share
\* an id or a slot.
Plugged(p, h, n, N, E, B) ==
  /\ \A k \in 1..n :
       /\ InSection(p[k], N, E) /\ p[k].bus \in {<< >>, Builtin} \cup B
       /\ InSection(h[k], N, E) /\ h[k].id = << >> /\ h[k].slot = << >>
       /\ h[k].bus = p[k].id
  /\ \A k, l \in 1..n : p[k].id = p[l].id \/ p[k].slot = p[l].slot => k = l

\* Ports, each with the device that plugs into it.
LEMMA PortsSection ==
  ASSUME NEW n \in Nat, NEW p, NEW h, NEW N, NEW E, NEW B, Plugged(p, h, n, N, E, B),
         NEW X, X = [k \in 1..n |-> <<p[k], h[k]>>]
  PROVE  Section(FlattenSeq(X), N, E, B)
  <1> DEFINE Both == {p[k] : k \in 1..n} \cup {h[k] : k \in 1..n}
             s == FlattenSeq(X)
  <1>1. /\ s \in Seq(Both) /\ Len(s) = 2 * n
        /\ \A k \in 1..n : s[2 * k - 1] = p[k] /\ s[2 * k] = h[k]
    <2>1. \A k \in 1..n : p[k] \in Both /\ h[k] \in Both
      OBVIOUS
    <2> HIDE DEF Both
    <2>3. FlattenSeq(X) \in Seq(Both) /\ Interleaved(FlattenSeq(X), p, h, n)
      BY <2>1, FlattenPairs
    <2>4. QED BY <2>3 DEF s, Interleaved
  <1> HIDE DEF s, Both
  <1>2. ASSUME NEW i \in 1..Len(s)
        PROVE  \E k \in 1..n : i = 2 * k - 1 \/ i = 2 * k
    <2>1. i \in 1..2 * n
      BY <1>1
    <2>2. CASE i % 2 = 0
      <3>1. i \div 2 \in 1..n /\ i = 2 * (i \div 2)
        BY <2>1, <2>2
      <3>2. QED BY <3>1
    <2>3. CASE i % 2 = 1
      <3>1. (i + 1) \div 2 \in 1..n /\ i = 2 * ((i + 1) \div 2) - 1
        BY ONLY <2>1, <2>3, n \in Nat
      <3>2. QED BY <3>1
    <2>4. QED BY <2>1, <2>2, <2>3
  <1>3. ASSUME NEW i \in 1..Len(s)
        PROVE  /\ InSection(s[i], N, Ids(s) \cup E)
               /\ \/ s[i].bus \in {<< >>, Builtin} \cup B
                  \/ \E j \in 1..i - 1 : s[i].bus = s[j].id
    <2>1. PICK k \in 1..n : i = 2 * k - 1 \/ i = 2 * k
      BY <1>2
    <2>2. CASE i = 2 * k - 1
      <3>1. s[i] = p[k]
        BY <1>1, <2>2
      <3>2. QED BY <3>1 DEF InSection, Plugged
    <2>3. CASE i = 2 * k
      <3>1. s[i] = h[k] /\ 2 * k - 1 \in 1..i - 1 /\ s[2 * k - 1] = p[k]
        BY <1>1, <2>3
      <3>2. QED BY <3>1 DEF InSection, Plugged
    <2>4. QED BY <2>1, <2>2, <2>3
  <1>4. ASSUME NEW i \in 1..Len(s), NEW j \in 1..Len(s),
               \/ s[i].id # << >> /\ s[i].id = s[j].id
               \/ s[i].slot # << >> /\ s[i].bus = s[j].bus /\ s[i].slot = s[j].slot
        PROVE  i = j
    <2>1. PICK k \in 1..n : i = 2 * k - 1 \/ i = 2 * k
      BY <1>2
    <2>2. PICK l \in 1..n : j = 2 * l - 1 \/ j = 2 * l
      BY <1>2
    <2>3. s[i] \in {p[k], h[k]} /\ s[j] \in {p[l], h[l]}
      BY <1>1, <2>1, <2>2
    <2>4. s[i] # h[k] /\ s[j] # h[l]
      BY <1>4, <2>3 DEF Plugged
    <2>5. i = 2 * k - 1 /\ j = 2 * l - 1 /\ s[i] = p[k] /\ s[j] = p[l]
      BY <1>1, <2>1, <2>2, <2>4
    <2>6. k = l
      BY <1>4, <2>5 DEF Plugged
    <2>7. QED BY <2>5, <2>6
  <1>5. Section(s, N, E, B)
    BY <1>1, <1>3, <1>4 DEF Section
  <1>6. QED BY <1>5 DEF s

\* The features of every VM.
LEMMA CpuSection ==
  ASSUME NEW r
  PROVE  Section(CpuFeature(r), {}, {}, {})
  <1> DEFINE o == [Plain EXCEPT !.size = r.memory, !.cpus = 0..r.cpu - 1]
  <1>1. o.id = << >> /\ o.uses = {} /\ o.bus = << >> /\ o.slot = << >>
    BY DEF Plain
  <1>2. CpuFeature(r) = <<o>>
    BY DEF CpuFeature
  <1> HIDE DEF o
  <1>3. QED BY <1>1, <1>2, Singleton DEF InSection

\* The memory of a VM without cells, which the machine refers to.
LEMMA FlatSection ==
  ASSUME NEW r
  PROVE  /\ Section(FlatMemoryFeature(r), {"ram"}, {}, {})
         /\ Ids(FlatMemoryFeature(r)) = {Object("ram", 1)}
  <1> DEFINE o == Memory(Object("ram", 1), r.memory, Nodes(r))
  <1>1. o.id = Object("ram", 1) /\ o.uses = {} /\ o.bus = << >> /\ o.slot = << >> /\ o.cpus = {}
    BY Fields
  <1>2. FlatMemoryFeature(r) = <<o>>
    BY DEF FlatMemoryFeature
  <1>3. Object("ram", 1)[2] = "ram"
    BY DEF Object, Id
  <1> HIDE DEF o
  <1>4. Section(<<o>>, {"ram"}, {}, {})
    BY <1>1, <1>3, Singleton DEF InSection
  <1>5. Len(<<o>>) = 1 /\ <<o>>[1] = o
    OBVIOUS
  <1>6. QED BY <1>1, <1>2, <1>4, <1>5 DEF Ids

\* The machine: its memory is defined elsewhere, what it is confidential with here.
LEMMA AmdSection ==
  ASSUME NEW c \in BOOLEAN, NEW flat \in BOOLEAN
  PROVE  Section(AmdMachineFeature(c, flat), {"sev"}, IF flat THEN {Object("ram", 1)} ELSE {}, {})
  <1> DEFINE E == IF flat THEN {Object("ram", 1)} ELSE {}
             F == E \cup (IF c THEN {Object("sev", 0)} ELSE {})
             a == Use(F)
             b == Def(Object("sev", 0))
  <1>1. /\ a.id = << >> /\ a.uses = F /\ a.bus = << >> /\ a.slot = << >> /\ a.cpus = {}
        /\ b.id = Object("sev", 0) /\ b.uses = {} /\ b.bus = << >> /\ b.slot = << >>
        /\ b.cpus = {} /\ Object("sev", 0)[2] = "sev"
    BY Fields DEF Object, Id
  <1>2. AmdMachineFeature(c, flat) = <<a>> \o If(c, <<b>>)
    BY DEF AmdMachineFeature
  <1>3. F = E \cup (IF c THEN {Object("sev", 0)} ELSE {})
    OBVIOUS
  <1> HIDE DEF a, b, E, F
  <1>4. Section(<<a>>, {}, F, {})
    BY <1>1, Singleton DEF InSection
  <1>5. Section(If(c, <<b>>), {"sev"}, F, {})
    BY <1>1, Singleton, IfSection DEF InSection
  <1>6. Section(<<a>> \o If(c, <<b>>), {"sev"}, F, {})
    BY <1>4, <1>5, Concat
  <1>7. c => Object("sev", 0) \in Ids(<<a>> \o If(c, <<b>>))
    <2>1. SUFFICES ASSUME c PROVE Object("sev", 0) \in Ids(<<a>> \o <<b>>)
      BY DEF If
    <2>2. Len(<<a>> \o <<b>>) = 2 /\ (<<a>> \o <<b>>)[2] = b
      OBVIOUS
    <2>3. QED BY <1>1, <2>2 DEF Ids
  <1>8. Section(<<a>> \o If(c, <<b>>), {"sev"}, E, {})
    BY <1>3, <1>6, <1>7, Discharge
  <1>9. QED BY <1>2, <1>8 DEF E

\* The cells: a memory object for each node, then a cell for each object.
LEMMA NumaSection ==
  ASSUME NEW r, Len(r.numa) \in Nat
  PROVE  Section(GuestNumaFeature(r), {"numa_ram", "cells"}, {}, {})
  <1> DEFINE n == Len(r.numa)
             Ram(i) == Object("numa_ram", i - 1)
             a == [i \in 1..n |-> Memory(Ram(i), r.memory \div n, {r.numa[i]})]
             per == PerCell(r.numa, r.cpu)
             b == [i \in 1..n |-> [Use({Ram(i)}) EXCEPT !.id = GuestCell(i - 1),
                                                        !.cpus = (i - 1) * per..i * per - 1]]
             E == {Ram(i) : i \in 1..n}
  <1>1. GuestNumaFeature(r) = a \o b
    BY DEF GuestNumaFeature
  <1>2. \A i \in 1..n : /\ a[i].id = Ram(i) /\ a[i].uses = {} /\ a[i].bus = << >>
                        /\ a[i].slot = << >>
    BY Fields
  <1>3. \A i \in 1..n : /\ b[i].id = GuestCell(i - 1) /\ b[i].uses = {Ram(i)} /\ b[i].bus = << >>
                        /\ b[i].slot = << >>
    BY DEF Use, Plain
  <1>4. /\ Len(a) = n /\ \E S : a \in Seq(S)
        /\ Len(b) = n /\ \E S : b \in Seq(S)
    <2>1. a = [i \in 1..n |-> a[i]] /\ b = [i \in 1..n |-> b[i]]
      OBVIOUS
    <2> HIDE DEF a, b
    <2>2. QED BY <2>1, Table
  <1>5. \A i, j \in 1..n : Ram(i)[2] = "numa_ram" /\ (Ram(i) = Ram(j) => i = j)
    BY DEF Object, Id
  <1>5c. \A i, j \in 1..n : /\ GuestCell(i - 1)[2] = "cells"
                            /\ GuestCell(i - 1) = GuestCell(j - 1) => i = j
    BY DEF GuestCell, Id
  <1>6. E = {Ram(i) : i \in 1..n}
    OBVIOUS
  <1> HIDE DEF a, b, E, Ram
  <1>7. Section(a, {"numa_ram"}, E, {})
    BY <1>2, <1>4, <1>5 DEF Section, InSection
  <1>8. Section(b, {"cells"}, E, {})
    <2>1. \A i \in 1..n : /\ b[i].id[2] = "cells" /\ b[i].uses \subseteq Ids(b) \cup E
                          /\ b[i].bus = << >> /\ b[i].slot = << >>
      BY <1>3, <1>5c, <1>6
    <2>2. \A i, j \in 1..n : b[i].id = b[j].id => i = j
      BY <1>3, <1>5c
    <2>3. \A i \in 1..n : InSection(b[i], {"cells"}, Ids(b) \cup E)
      BY <2>1 DEF InSection
    <2>4. QED BY <1>4, <2>1, <2>2, <2>3 DEF Section
  <1>9. Section(a \o b, {"numa_ram", "cells"}, E, {})
    <2>1. {"numa_ram"} \cap {"cells"} = {} /\ {"numa_ram"} \cup {"cells"} = {"numa_ram", "cells"}
      OBVIOUS
    <2>2. Section(a \o b, {"numa_ram"} \cup {"cells"}, E, {})
      BY <1>7, <1>8, <2>1, Concat
    <2>3. QED BY <2>1, <2>2
  <1>10. E \subseteq Ids(a \o b)
    <2>1. PICK S : a \in Seq(S) /\ b \in Seq(S)
      <3>1. PICK S1, S2 : a \in Seq(S1) /\ b \in Seq(S2)
        BY <1>4
      <3>2. a \in Seq(S1 \cup S2) /\ b \in Seq(S1 \cup S2)
        BY <3>1
      <3>3. QED BY <3>2
    <2>2. Ids(a) \subseteq Ids(a \o b)
      BY <2>1, SectionIds
    <2>3. E \subseteq Ids(a)
      BY <1>2, <1>4, <1>6 DEF Ids
    <2>4. QED BY <2>2, <2>3
  <1>11. QED BY <1>1, <1>9, <1>10, Discharge

\* The boot disk.
LEMMA BootSection ==
  ASSUME NEW direct
  PROVE  Section(BootFeature(direct), {"q"}, {}, {})
  <1> DEFINE a == Def(Drive("q", 2))
             b == Use({Drive("q", 2)})
  <1>1. /\ a.id = Drive("q", 2) /\ a.uses = {} /\ a.bus = << >> /\ a.slot = << >>
        /\ a.cpus = {} /\ b.id = << >> /\ b.uses = {a.id} /\ b.bus = << >> /\ b.slot = << >> /\ b.cpus = {}
        /\ a.id[2] = "q"
    BY Fields DEF Drive, Id
  <1>2. BootFeature(direct) = <<a, b>>
    BY DEF BootFeature
  <1> HIDE DEF a, b
  <1>3. Section(<<a, b>>, {"q"}, {}, {})
    BY <1>1, PairSection
  <1>4. QED BY <1>2, <1>3

\* The network for ssh.
LEMMA UserNetSection == Section(UserNetFeature, {"net"}, {}, {})
  <1> DEFINE a == Def(Netdev("net", 0))
             b == Use({Netdev("net", 0)})
  <1>1. /\ a.id = Netdev("net", 0) /\ a.uses = {} /\ a.bus = << >> /\ a.slot = << >>
        /\ a.cpus = {} /\ b.id = << >> /\ b.uses = {a.id} /\ b.bus = << >> /\ b.slot = << >>
        /\ b.cpus = {} /\ a.id[2] = "net"
    BY Fields DEF Netdev, Id
  <1>2. UserNetFeature = <<b, a>>
    BY DEF UserNetFeature
  <1> HIDE DEF a, b
  <1>3. QED BY <1>1, <1>2, PairSection

\* A network interface, whatever its number.
LEMMA NicSection ==
  ASSUME NEW idx
  PROVE  Section(VirtioNicFeature(idx), {"en"}, {}, {})
  <1> DEFINE a == Def(Netdev("en", idx))
             b == Use({Netdev("en", idx)})
  <1>1. /\ a.id = Netdev("en", idx) /\ a.uses = {} /\ a.bus = << >> /\ a.slot = << >>
        /\ a.cpus = {} /\ b.id = << >> /\ b.uses = {a.id} /\ b.bus = << >> /\ b.slot = << >>
        /\ b.cpus = {} /\ a.id[2] = "en"
    BY Fields DEF Netdev, Id
  <1>2. VirtioNicFeature(idx) = <<a, b>>
    BY DEF VirtioNicFeature
  <1> HIDE DEF a, b
  <1>3. Section(<<a, b>>, {"en"}, {}, {})
    BY <1>1, PairSection
  <1>4. QED BY <1>2, <1>3

\* A shared folder, named by its tag.
LEMMA SharedSection ==
  ASSUME NEW tag
  PROVE  Section(SharedFolderFeature(tag), {tag}, {}, {})
  <1> DEFINE a == Def(Id("mount", tag, 0))
  <1>1. /\ a.id[2] = tag /\ a.uses = {} /\ a.bus = << >> /\ a.slot = << >> /\ a.cpus = {}
    BY Fields DEF Id
  <1>2. SharedFolderFeature(tag) = <<a>>
    BY DEF SharedFolderFeature
  <1> HIDE DEF a
  <1>3. QED BY <1>1, <1>2, Singleton DEF InSection

\* An option that names nothing.
LEMMA PlainSection ==
  ASSUME NEW N, NEW E, NEW B
  PROVE  Section(<<Plain>>, N, E, B)
  BY Fields, Singleton DEF InSection

\* The console: two options refer to one character device.
LEMMA ConsoleSection == Section(ConsoleFeature, {"char", "vc"}, {}, {})
  <1> DEFINE char == Id("chardev", "char", 0)
             a == Def(char)
             b == Use({char})
             c == [Use({char}) EXCEPT !.id = Device("vc", 0)]
  <1>1. /\ a.id = char /\ a.uses = {} /\ a.bus = << >> /\ a.slot = << >>
        /\ a.cpus = {} /\ b.id = << >> /\ b.uses = {a.id} /\ b.bus = << >> /\ b.slot = << >>
        /\ b.cpus = {} /\ a.id[2] = "char"
    BY Fields DEF Id
  <1>2. /\ c.id[2] = "vc" /\ c.uses = {a.id} /\ c.bus = << >> /\ c.slot = << >> /\ c.cpus = {}
    BY Fields DEF Use, Plain, Device, Id
  <1>2a. ConsoleFeature = <<Plain, a, b, c>>
    BY DEF ConsoleFeature
  <1> HIDE DEF char, a, b, c
  <1>3. ConsoleFeature = (<<Plain>> \o <<a, b>>) \o <<c>>
    BY <1>2a
  <1>4. Section(<<a, b>>, {"char"}, {a.id}, {})
    BY <1>1, PairSection
  <1>5. Section(<<Plain>> \o <<a, b>>, {} \cup {"char"}, {a.id}, {})
    BY <1>4, PlainSection, Concat
  <1>6. Section(<<c>>, {"vc"}, {a.id}, {})
    BY <1>2, Singleton DEF InSection
  <1>7. Section((<<Plain>> \o <<a, b>>) \o <<c>>, ({} \cup {"char"}) \cup {"vc"}, {a.id}, {})
    BY <1>5, <1>6, Concat
  <1>8. a.id \in Ids((<<Plain>> \o <<a, b>>) \o <<c>>)
    <2>1. /\ Len((<<Plain>> \o <<a, b>>) \o <<c>>) = 4
          /\ ((<<Plain>> \o <<a, b>>) \o <<c>>)[2] = a
      OBVIOUS
    <2>2. QED BY <2>1 DEF Ids
  <1>9. Section(ConsoleFeature, ({} \cup {"char"}) \cup {"vc"}, {}, {})
    BY <1>3, <1>7, <1>8, Discharge
  <1>10. QED BY <1>9, Weaken

\* A disk with or without an iothread of its own.
LEMMA BlkSection ==
  ASSUME NEW idx, NEW iothread
  PROVE  Section(VirtioBlkFeature(idx, iothread), {"qblk", "iothread_blk"}, {}, {})
  <1> DEFINE a == Def(Drive("qblk", idx))
             b == Use({Drive("qblk", idx), Object("iothread_blk", idx)})
             c == Def(Object("iothread_blk", idx))
             d == Use({Drive("qblk", idx)})
  <1>1. /\ a.id = Drive("qblk", idx) /\ a.uses = {} /\ a.bus = << >> /\ a.slot = << >>
        /\ a.cpus = {} /\ a.id[2] = "qblk"
        /\ c.id = Object("iothread_blk", idx) /\ c.uses = {} /\ c.bus = << >> /\ c.slot = << >>
        /\ c.cpus = {} /\ c.id[2] = "iothread_blk"
        /\ b.id = << >> /\ b.uses = {a.id, c.id} /\ b.bus = << >> /\ b.slot = << >> /\ b.cpus = {}
        /\ d.id = << >> /\ d.uses = {a.id} /\ d.bus = << >> /\ d.slot = << >> /\ d.cpus = {}
    BY Fields DEF Id, Drive, Object
  <1>2. VirtioBlkFeature(idx, iothread) = <<a>> \o (IF iothread THEN <<b, c>> ELSE <<d>>)
    BY DEF VirtioBlkFeature
  <1> HIDE DEF a, b, c, d
  <1>3. Section(<<a>>, {"qblk"}, {a.id}, {})
    BY <1>1, Singleton DEF InSection
  <1>4. Section(<<b, c>>, {"iothread_blk"}, {a.id}, {})
    <2>1. b.uses \subseteq {c.id} \cup {a.id}
      BY <1>1
    <2>2. QED BY <1>1, <2>1, PairSection
  <1>5. Section(<<d>>, {"iothread_blk"}, {a.id}, {})
    BY <1>1, Singleton DEF InSection
  <1>6. a.id \in Ids(<<a>> \o <<b, c>>) /\ a.id \in Ids(<<a>> \o <<d>>)
    <2>1. /\ Len(<<a>> \o <<b, c>>) = 3 /\ (<<a>> \o <<b, c>>)[1] = a
          /\ Len(<<a>> \o <<d>>) = 2 /\ (<<a>> \o <<d>>)[1] = a
      OBVIOUS
    <2>2. QED BY <2>1 DEF Ids
  <1>7. /\ Section(<<a>> \o <<b, c>>, {"qblk"} \cup {"iothread_blk"}, {a.id}, {})
        /\ Section(<<a>> \o <<d>>, {"qblk"} \cup {"iothread_blk"}, {a.id}, {})
    BY <1>3, <1>4, <1>5, Concat
  <1>8. /\ Section(<<a>> \o <<b, c>>, {"qblk"} \cup {"iothread_blk"}, {}, {})
        /\ Section(<<a>> \o <<d>>, {"qblk"} \cup {"iothread_blk"}, {}, {})
    BY <1>6, <1>7, Discharge
  <1>9. QED BY <1>2, <1>8, Weaken

\* An emulated NVMe disk: its namespace plugs into the controller before it.
LEMMA NvmeSection ==
  ASSUME NEW idx
  PROVE  Section(NvmeEmulationFeature(idx), {"nvme_n1", "nvme"}, {}, {})
  <1> DEFINE a == Def(Drive("nvme_n1", idx))
             b == Def(Device("nvme", idx))
             c == [Use({Drive("nvme_n1", idx)}) EXCEPT !.bus = Device("nvme", idx)]
  <1>1. /\ a.id = Drive("nvme_n1", idx) /\ a.uses = {} /\ a.bus = << >> /\ a.slot = << >>
        /\ a.cpus = {} /\ a.id[2] = "nvme_n1"
        /\ b.id = Device("nvme", idx) /\ b.uses = {} /\ b.bus = << >> /\ b.slot = << >>
        /\ b.cpus = {} /\ b.id[2] = "nvme"
    BY Fields DEF Id, Drive, Device
  <1>2. c.id = << >> /\ c.uses = {a.id} /\ c.bus = b.id /\ c.slot = << >> /\ c.cpus = {}
    BY <1>1 DEF Use, Plain
  <1>3. NvmeEmulationFeature(idx) = <<a, b, c>>
    BY DEF NvmeEmulationFeature
  <1> HIDE DEF a, b, c
  <1>30. <<a, b, c>> = <<a>> \o <<b, c>>
    OBVIOUS
  <1>4. Section(<<a>>, {"nvme_n1"}, {a.id}, {})
    BY <1>1, Singleton DEF InSection
  <1>5. Section(<<b, c>>, {"nvme"}, {a.id}, {})
    BY <1>1, <1>2, PairSection
  <1>6. Section(<<a>> \o <<b, c>>, {"nvme_n1"} \cup {"nvme"}, {a.id}, {})
    BY <1>4, <1>5, Concat
  <1>7. a.id \in Ids(<<a>> \o <<b, c>>)
    <2>1. Len(<<a>> \o <<b, c>>) = 3 /\ (<<a>> \o <<b, c>>)[1] = a
      OBVIOUS
    <2>2. QED BY <2>1 DEF Ids
  <1>8. Section(<<a>> \o <<b, c>>, {"nvme_n1"} \cup {"nvme"}, {}, {})
    BY <1>6, <1>7, Discharge
  <1>9. QED BY <1>3, <1>30, <1>8, Weaken

\* The edu device.
LEMMA EduSection == Section(EduFeature, {}, {}, {})
  BY PlainSection DEF EduFeature

\* The iothreads of the user's own arguments.
LEMMA ExtraSection ==
  ASSUME NEW extra \in Nat
  PROVE  Section(ExtraCmdFeature(extra), {"user_iothread"}, {}, {})
  <1> DEFINE s == ExtraCmdFeature(extra)
             Io(i) == Object("user_iothread", i)
  <1>1. /\ s = [i \in 1..extra |-> s[i]]
        /\ \A i \in 1..extra : s[i] = Def(Io(i))
    BY DEF ExtraCmdFeature
  <1>2. \A i \in 1..extra : /\ s[i].id = Io(i) /\ s[i].uses = {} /\ s[i].bus = << >>
                            /\ s[i].slot = << >> /\ s[i].cpus = {}
    BY <1>1, Fields
  <1>3. \A i, j \in 1..extra : Io(i)[2] = "user_iothread" /\ (Io(i) = Io(j) => i = j)
    BY DEF Object, Id
  <1> HIDE DEF s, Io
  <1>4. Len(s) = extra /\ \E S : s \in Seq(S)
    BY <1>1, Table
  <1>5. Section(s, {"user_iothread"}, {}, {})
    BY <1>2, <1>3, <1>4 DEF Section, InSection
  <1>6. QED BY <1>5 DEF s

\* A root port with its device, for every device.
LEMMA VfioSection ==
  ASSUME NEW devices, Len(devices) \in Nat, NEW trace
  PROVE  Section(VfioGroupFeature(devices, trace), {"iommufd", "rp", "slots"}, {}, {})
  <1> DEFINE n == Len(devices)
             fd == Object("iommufd", 0)
             Rp(i) == Device("rp", i - 1)
             a == Def(fd)
             p == [i \in 1..n |-> Port(Rp(i), Builtin, 0, i - 1)]
             h == [i \in 1..n |-> HostDevice(devices[i], Rp(i), {fd})]
             X == [i \in 1..n |-> <<Port(Rp(i), Builtin, 0, i - 1),
                                    HostDevice(devices[i], Rp(i), {fd})>>]
  <1>1. /\ a.id = fd /\ a.uses = {} /\ a.bus = << >> /\ a.slot = << >> /\ a.cpus = {}
        /\ fd[2] = "iommufd"
    BY Fields DEF Id, Object
  <1>2. \A i \in 1..n : /\ p[i].id = Rp(i) /\ p[i].uses = {} /\ p[i].bus = Builtin
                        /\ p[i].slot = <<0, i - 1>> /\ p[i].cpus = {}
    BY Fields
  <1>3. \A i \in 1..n : /\ h[i].id = << >> /\ h[i].uses = {fd} /\ h[i].bus = Rp(i)
                        /\ h[i].slot = << >> /\ h[i].cpus = {}
    BY Fields
  <1>4. \A i, j \in 1..n : Rp(i)[2] = "rp" /\ (Rp(i) = Rp(j) => i = j)
    BY DEF Device, Id
  <1>5. Slots(Builtin) = "slots"
    BY DEF Slots, Builtin, Device, Id
  <1>6. X = [i \in 1..n |-> <<p[i], h[i]>>]
    OBVIOUS
  <1>7. VfioGroupFeature(devices, trace) = (<<a>> \o If(trace, <<Plain>>)) \o FlattenSeq(X)
    BY DEF VfioGroupFeature
  <1> HIDE DEF fd, Rp, a, p, h, X
  <1>8. Section(FlattenSeq(X), {"rp", "slots"}, {fd}, {})
    <2>1. \A k \in 1..n :
            /\ InSection(p[k], {"rp", "slots"}, {fd}) /\ p[k].bus \in {<< >>, Builtin} \cup {}
            /\ InSection(h[k], {"rp", "slots"}, {fd}) /\ h[k].id = << >> /\ h[k].slot = << >>
            /\ h[k].bus = p[k].id
      BY <1>2, <1>3, <1>4, <1>5 DEF InSection
    <2>2. \A k, l \in 1..n : p[k].id = p[l].id => k = l
      BY <1>2, <1>4
    <2>3. \A k, l \in 1..n : p[k].slot = p[l].slot => k = l
      BY <1>2
    <2>4. Plugged(p, h, n, {"rp", "slots"}, {fd}, {})
      BY <2>1, <2>2, <2>3 DEF Plugged
    <2>5. n \in Nat
      OBVIOUS
    <2> HIDE DEF n
    <2>6. QED BY <1>6, <2>4, <2>5, PortsSection
  <1>9. Section(<<a>> \o If(trace, <<Plain>>), {"iommufd"}, {fd}, {})
    <2>1. Section(<<a>>, {"iommufd"}, {fd}, {})
      BY <1>1, Singleton DEF InSection
    <2>2. Section(If(trace, <<Plain>>), {}, {fd}, {})
      BY PlainSection, IfSection
    <2>3. Section(<<a>> \o If(trace, <<Plain>>), {"iommufd"} \cup {}, {fd}, {})
      BY <2>1, <2>2, Concat
    <2>4. QED BY <2>3, Weaken
  <1>10. Section((<<a>> \o If(trace, <<Plain>>)) \o FlattenSeq(X),
                 {"iommufd"} \cup {"rp", "slots"}, {fd}, {})
    BY <1>8, <1>9, Concat
  <1>11. fd \in Ids((<<a>> \o If(trace, <<Plain>>)) \o FlattenSeq(X))
    <2>1. fd \in Ids(<<a>> \o If(trace, <<Plain>>))
      <3>1. Len(<<a>> \o If(trace, <<Plain>>)) >= 1 /\ (<<a>> \o If(trace, <<Plain>>))[1] = a
            /\ Len(<<a>> \o If(trace, <<Plain>>)) \in Nat
        BY DEF If
      <3>2. QED BY <1>1, <3>1 DEF Ids
    <2>2. QED BY <1>8, <1>9, <2>1, IdsGrow
  <1>12. Section(VfioGroupFeature(devices, trace), {"iommufd"} \cup {"rp", "slots"}, {}, {})
    BY <1>7, <1>10, <1>11, Discharge
  <1>13. QED BY <1>12, Weaken

\* The switch on its bridge, then a downstream port with its device for every
\* device: the slots of the switch are its own.  The bridge uses the first cell.
LEMMA VfioLegacySection ==
  ASSUME NEW devices, Len(devices) \in Nat, NEW trace
  PROVE  Section(VfioGroupLegacyFeature(devices, trace),
                 {"pxb", "sw_rp", "sw_up", "sw_ds", "slots", "downstream"}, {GuestCell(0)}, {})
  <1> DEFINE n == Len(devices)
             cell == {GuestCell(0)}
             up == Device("sw_up", 0)
             Ds(i) == Device("sw_ds", i - 1)
             a == [Port(Device("pxb", 0), Builtin, 0, 64) EXCEPT !.slot = << >>, !.uses = cell]
             b == Port(Device("sw_rp", 0), Device("pxb", 0), 100, 0)
             c == [Def(up) EXCEPT !.bus = Device("sw_rp", 0)]
             p == [i \in 1..n |-> Port(Ds(i), up, 200 + i - 1, i - 1)]
             h == [i \in 1..n |-> HostDevice(devices[i], Ds(i), {})]
             X == [i \in 1..n |-> <<Port(Ds(i), up, 200 + i - 1, i - 1),
                                    HostDevice(devices[i], Ds(i), {})>>]
  <1>1. /\ a.id = Device("pxb", 0) /\ a.uses = cell /\ a.bus = Builtin /\ a.slot = << >>
        /\ a.cpus = {} /\ a.id[2] = "pxb" /\ a.id # << >>
    BY DEF Port, Plain, Id, Device
  <1>2. /\ b.id[2] = "sw_rp" /\ b.uses = {} /\ b.bus = a.id /\ b.cpus = {}
        /\ b.bus[2] = "pxb"
    BY <1>1, Fields DEF Id, Device
  <1>3. /\ c.id = up /\ c.uses = {} /\ c.bus = b.id /\ c.slot = << >> /\ c.cpus = {}
        /\ up[2] = "sw_up"
    BY Fields DEF Def, Plain, Id, Device
  <1>4. \A i \in 1..n : /\ p[i].id = Ds(i) /\ p[i].uses = {} /\ p[i].bus = up
                        /\ p[i].slot = <<200 + i - 1, i - 1>> /\ p[i].cpus = {}
    BY Fields
  <1>5. \A i \in 1..n : /\ h[i].id = << >> /\ h[i].uses = {} /\ h[i].bus = Ds(i)
                        /\ h[i].slot = << >> /\ h[i].cpus = {}
    BY Fields
  <1>6. \A i, j \in 1..n : Ds(i)[2] = "sw_ds" /\ (Ds(i) = Ds(j) => i = j)
    BY DEF Device, Id
  <1>7. Slots(up) = "downstream" /\ \A bus : bus[2] = "pxb" => Slots(bus) = "slots"
    BY <1>3 DEF Slots
  <1>8. X = [i \in 1..n |-> <<p[i], h[i]>>]
    OBVIOUS
  <1>9. VfioGroupLegacyFeature(devices, trace)
          = (If(trace, <<Plain>>) \o <<a, b, c>>) \o FlattenSeq(X)
    BY DEF VfioGroupLegacyFeature
  <1>9c. cell = {GuestCell(0)}
    OBVIOUS
  <1> HIDE DEF cell, up, Ds, a, b, c, p, h, X
  <1>10. Section(FlattenSeq(X), {"sw_ds", "downstream"}, cell, {up})
    <2>1. \A k \in 1..n :
            /\ InSection(p[k], {"sw_ds", "downstream"}, cell) /\ p[k].bus \in {<< >>, Builtin} \cup {up}
            /\ InSection(h[k], {"sw_ds", "downstream"}, cell) /\ h[k].id = << >> /\ h[k].slot = << >>
            /\ h[k].bus = p[k].id
      BY <1>4, <1>5, <1>6, <1>7 DEF InSection
    <2>2. \A k, l \in 1..n : p[k].id = p[l].id => k = l
      BY <1>4, <1>6
    <2>3. \A k, l \in 1..n : p[k].slot = p[l].slot => k = l
      BY <1>4
    <2>4. Plugged(p, h, n, {"sw_ds", "downstream"}, cell, {up})
      BY <2>1, <2>2, <2>3 DEF Plugged
    <2>5. n \in Nat
      OBVIOUS
    <2> HIDE DEF n
    <2>6. QED BY <1>8, <2>4, <2>5, PortsSection
  <1> DEFINE t == <<a, b, c>>
             M == {"pxb", "sw_rp", "sw_up", "slots"}
  <1>11. Section(t, M, cell, {})
    <2>1. /\ t \in Seq({a, b, c}) /\ Len(t) = 3 /\ t[1] = a /\ t[2] = b /\ t[3] = c
      OBVIOUS
    <2>2. \E S : t \in Seq(S)
      BY <2>1
    <2>3. \A i \in 1..3 : i = 1 \/ i = 2 \/ i = 3
      OBVIOUS
    <2>4. Len(t) = 3 /\ t[1] = a /\ t[2] = b /\ t[3] = c
      BY <2>1
    <2> HIDE DEF t
    <2>5. InSection(a, M, Ids(t) \cup cell) /\ InSection(b, M, Ids(t) \cup cell)
          /\ InSection(c, M, Ids(t) \cup cell)
      BY <1>1, <1>2, <1>3, <1>7 DEF InSection
    <2>6. a.bus = Builtin /\ b.bus = t[1].id /\ c.bus = t[2].id
      BY <1>1, <1>2, <1>3, <2>4
    <2>7. \A i \in 1..3 : \/ t[i].bus \in {<< >>, Builtin} \cup {}
                          \/ \E j \in 1..i - 1 : t[i].bus = t[j].id
      BY <2>3, <2>4, <2>6
    <2>8. a.id # b.id /\ a.id # c.id /\ b.id # c.id /\ a.slot = << >> /\ c.slot = << >>
      BY <1>1, <1>2, <1>3
    <2>9. QED BY <2>2, <2>3, <2>4, <2>5, <2>7, <2>8 DEF Section
  <1>12. up \in Ids(t)
    <2>1. Len(t) = 3 /\ t[3] = c
      OBVIOUS
    <2>2. QED BY <1>3, <2>1 DEF Ids
  <1> HIDE DEF t
  <1>13. Section(If(trace, <<Plain>>) \o t, {} \cup M, cell, {}) /\ up \in Ids(If(trace, <<Plain>>) \o t)
    <2>1. Section(If(trace, <<Plain>>), {}, cell, {})
      BY PlainSection, IfSection
    <2>2. QED BY <1>11, <1>12, <2>1, Concat, IdsGrow
  <1>14. Section((If(trace, <<Plain>>) \o t) \o FlattenSeq(X),
                 ({} \cup M) \cup {"sw_ds", "downstream"}, cell, {})
    BY <1>10, <1>13, Concat
  <1>15. QED BY <1>9, <1>9c, <1>14, Weaken DEF t

\* A cell: it has vCPUs and takes its memory from an object.
IsCell(o) == o.uses # {} /\ o.cpus # {}

\* s is a sound command line so far but for its use of E, with the options h in
\* front and no cell after them.
Command(s, N, E, h) ==
  /\ Section(s, N, E, {})
  /\ Len(h) <= Len(s) /\ \A i \in 1..Len(h) : s[i] = h[i]
  /\ \A i \in 1..Len(s) : i \in 1..Len(h) \/ ~IsCell(s[i])

\* A command line takes one more section, of names it does not have yet.
LEMMA Add ==
  ASSUME NEW s, NEW t, NEW N, NEW M, NEW E, NEW h, Len(h) \in Nat, Command(s, N, E, h),
         Section(t, M, E, {}), N \cap M = {}, "cells" \notin M
  PROVE  Command(s \o t, N \cup M, E, h)
  <1>1. Section(s, N, E, {})
    BY DEF Command
  <1>2. Section(s \o t, N \cup M, E, {})
    BY <1>1, Concat
  <1>3. PICK S1, S2 : s \in Seq(S1) /\ t \in Seq(S2)
    BY <1>1 DEF Section
  <1>4. PICK S : s \in Seq(S) /\ t \in Seq(S)
    <2>1. s \in Seq(S1 \cup S2) /\ t \in Seq(S1 \cup S2)
      BY <1>3
    <2>2. QED BY <2>1
  <1> DEFINE u == s \o t
  <1>5. /\ Len(s) \in Nat /\ Len(t) \in Nat /\ Len(u) = Len(s) + Len(t)
        /\ \A i \in 1..Len(s) : u[i] = s[i]
        /\ \A i \in 1..Len(t) : u[Len(s) + i] = t[i]
        /\ \A i \in 1..Len(u) : i \in 1..Len(s) \/ \E k \in 1..Len(t) : i = Len(s) + k
    BY ONLY <1>4, NumberInConcat
  <1> HIDE DEF u
  <1>6. \A k \in 1..Len(t) : ~IsCell(t[k])
    BY DEF Section, InSection, IsCell
  <1>7. /\ Len(h) <= Len(s) /\ \A i \in 1..Len(h) : s[i] = h[i]
        /\ \A i \in 1..Len(s) : i \in 1..Len(h) \/ ~IsCell(s[i])
    BY DEF Command
  <1>8. Len(h) <= Len(u) /\ \A i \in 1..Len(h) : u[i] = h[i]
    <2>1. Len(h) <= Len(u) /\ \A i \in 1..Len(h) : i \in 1..Len(s)
      BY <1>5, <1>7
    <2>2. QED BY <1>5, <1>7, <2>1
  <1>9. \A i \in 1..Len(u) : i \in 1..Len(h) \/ ~IsCell(u[i])
    BY <1>5, <1>6, <1>7
  <1>10. QED BY <1>2, <1>8, <1>9 DEF Command, u

\* The options a command line of vm.start begins with.
FrontOf(r) ==
  CpuFeature(r) \o (IF r.numa = << >> THEN FlatMemoryFeature(r) ELSE GuestNumaFeature(r))
\* The names its memory may have.
HeadNames == {"ram", "numa_ram", "cells"}

\* The vCPUs and the memory of a VM, with or without cells.
LEMMA HeadSection ==
  ASSUME NEW r, Len(r.numa) \in Nat
  PROVE  /\ Section(FrontOf(r), HeadNames, {}, {}) /\ Len(FrontOf(r)) \in Nat
         /\ r.numa = << >> => Object("ram", 1) \in Ids(FrontOf(r))
  <1> DEFINE m == IF r.numa = << >> THEN FlatMemoryFeature(r) ELSE GuestNumaFeature(r)
  <1>1. Section(m, HeadNames, {}, {}) /\ (r.numa = << >> => Object("ram", 1) \in Ids(m))
    <2>1. {"ram"} \subseteq HeadNames /\ {"numa_ram", "cells"} \subseteq HeadNames
      BY DEF HeadNames
    <2>2. Section(FlatMemoryFeature(r), HeadNames, {}, {})
      BY <2>1, FlatSection, Weaken
    <2>3. Section(GuestNumaFeature(r), HeadNames, {}, {})
      BY <2>1, NumaSection, Weaken
    <2>4. QED BY <2>2, <2>3, FlatSection
  <1>2. FrontOf(r) = CpuFeature(r) \o m
    BY DEF FrontOf
  <1> HIDE DEF m
  <1>3. Section(CpuFeature(r) \o m, {} \cup HeadNames, {}, {})
    BY <1>1, CpuSection, Concat
  <1>4. Ids(m) \subseteq Ids(CpuFeature(r) \o m)
    BY <1>1, CpuSection, IdsGrow
  <1>5. Section(FrontOf(r), HeadNames, {}, {})
    BY <1>2, <1>3, Weaken
  <1>6. Len(FrontOf(r)) \in Nat
    BY <1>5 DEF Section
  <1>7. QED BY <1>1, <1>2, <1>4, <1>5, <1>6

\* What every VM's command line begins with, up to its machine.
LEMMA MachineCommand ==
  ASSUME NEW r, Len(r.numa) \in Nat, NEW c \in BOOLEAN, NEW F
  PROVE  Command(FrontOf(r) \o AmdMachineFeature(c, r.numa = << >>), HeadNames \cup {"sev"}, F,
                 FrontOf(r))
  <1> DEFINE flat == r.numa = << >>
             t == AmdMachineFeature(c, flat)
             E == IF flat THEN {Object("ram", 1)} ELSE {}
             h == FrontOf(r)
             u == h \o t
  <1>1. Section(h, HeadNames, {}, {}) /\ Len(h) \in Nat /\ E \subseteq Ids(h)
    BY HeadSection
  <1>2. Section(t, {"sev"}, E, {})
    <2>1. flat \in BOOLEAN
      OBVIOUS
    <2> HIDE DEF flat
    <2>2. QED BY <2>1, AmdSection
  <1>3. HeadNames \cap {"sev"} = {} /\ "cells" \notin {"sev"}
    BY DEF HeadNames
  <1> HIDE DEF t, h, E
  <1>4. Section(h, HeadNames, E, {})
    BY <1>1, Weaken
  <1>5. Section(u, HeadNames \cup {"sev"}, E, {}) /\ Ids(h) \subseteq Ids(u)
    BY <1>2, <1>3, <1>4, Concat, IdsGrow
  <1>6. Section(u, HeadNames \cup {"sev"}, F, {})
    <2>1. Section(u, HeadNames \cup {"sev"}, {}, {})
      BY <1>1, <1>5, Discharge
    <2>2. QED BY <2>1, Weaken
  <1>7. PICK S1, S2 : h \in Seq(S1) /\ t \in Seq(S2)
    BY <1>1, <1>2 DEF Section
  <1>8. h \in Seq(S1 \cup S2) /\ t \in Seq(S1 \cup S2)
    BY <1>7
  <1>9. /\ Len(t) \in Nat /\ Len(u) = Len(h) + Len(t)
        /\ \A i \in 1..Len(h) : u[i] = h[i]
        /\ \A i \in 1..Len(t) : u[Len(h) + i] = t[i]
        /\ \A i \in 1..Len(u) : i \in 1..Len(h) \/ \E k \in 1..Len(t) : i = Len(h) + k
    BY ONLY <1>8, NumberInConcat
  <1> HIDE DEF u
  <1>10. \A k \in 1..Len(t) : ~IsCell(t[k])
    BY <1>2 DEF Section, InSection, IsCell
  <1>11. Len(h) <= Len(u) /\ \A i \in 1..Len(u) : i \in 1..Len(h) \/ ~IsCell(u[i])
    BY <1>1, <1>9, <1>10
  <1>12. QED BY <1>6, <1>9, <1>11 DEF Command, u, h, t

\* Where the cells of a VM and their memory stand on its command line.
LEMMA FrontOfCells ==
  ASSUME NEW r, Len(r.numa) \in Nat, r.numa # << >>
  PROVE  LET n == Len(r.numa)
             per == PerCell(r.numa, r.cpu)
             front == FrontOf(r)
         IN  /\ Len(front) = 1 + n + n /\ front[1].uses = {}
             /\ \A i \in 1..n : /\ front[1 + i].id = Object("numa_ram", i - 1)
                                /\ front[1 + i].uses = {}
                                /\ front[1 + i].nodes = {r.numa[i]}
             /\ \A i \in 1..n : /\ front[1 + n + i].id = GuestCell(i - 1)
                                /\ front[1 + n + i].uses = {Object("numa_ram", i - 1)}
                                /\ front[1 + n + i].cpus = (i - 1) * per..i * per - 1
  <1> DEFINE n == Len(r.numa)
             Ram(i) == Object("numa_ram", i - 1)
             per == PerCell(r.numa, r.cpu)
             a == [i \in 1..n |-> Memory(Ram(i), r.memory \div n, {r.numa[i]})]
             b == [i \in 1..n |-> [Use({Ram(i)}) EXCEPT !.id = GuestCell(i - 1),
                                                        !.cpus = (i - 1) * per..i * per - 1]]
             o == [Plain EXCEPT !.size = r.memory, !.cpus = 0..r.cpu - 1]
             front == FrontOf(r)
  <1>1. front = <<o>> \o (a \o b)
    BY DEF FrontOf, CpuFeature, GuestNumaFeature
  <1>2. o.uses = {}
    BY DEF Plain
  <1>3. \A i \in 1..n : a[i].id = Ram(i) /\ a[i].uses = {} /\ a[i].nodes = {r.numa[i]}
    BY Fields
  <1>4. \A i \in 1..n : /\ b[i].id = GuestCell(i - 1) /\ b[i].uses = {Ram(i)}
                        /\ b[i].cpus = (i - 1) * per..i * per - 1
    BY DEF Use, Plain
  <1>5. /\ Len(a) = n /\ \E S : a \in Seq(S)
        /\ Len(b) = n /\ \E S : b \in Seq(S)
    <2>1. a = [i \in 1..n |-> a[i]] /\ b = [i \in 1..n |-> b[i]]
      OBVIOUS
    <2> HIDE DEF a, b
    <2>2. QED BY <2>1, Table
  <1> HIDE DEF a, b, o, front, per
  <1>6. PICK S1, S2 : a \in Seq(S1) /\ b \in Seq(S2)
    BY <1>5
  <1>7. PICK S : a \in Seq(S) /\ b \in Seq(S) /\ <<o>> \in Seq(S)
    <2>1. /\ a \in Seq(S1 \cup S2 \cup {o}) /\ b \in Seq(S1 \cup S2 \cup {o})
          /\ <<o>> \in Seq(S1 \cup S2 \cup {o})
      BY <1>6
    <2>2. QED BY <2>1
  <1> DEFINE ab == a \o b
  <1>8. /\ ab \in Seq(S) /\ Len(ab) = n + n
        /\ \A i \in 1..n : ab[i] = a[i]
        /\ \A i \in 1..n : ab[n + i] = b[i]
    <2>1. a \in Seq(S) /\ b \in Seq(S)
      BY <1>7
    <2>2. /\ ab \in Seq(S) /\ Len(ab) = Len(a) + Len(b)
          /\ \A i \in 1..Len(a) : ab[i] = a[i]
          /\ \A i \in 1..Len(b) : ab[Len(a) + i] = b[i]
      BY ONLY <2>1, NumberInConcat
    <2>3. QED BY <1>5, <2>2
  <1>9. Len(<<o>>) = 1 /\ <<o>>[1] = o
    OBVIOUS
  <1> HIDE DEF ab
  <1>10. /\ Len(<<o>> \o ab) = 1 + (n + n)
         /\ (<<o>> \o ab)[1] = o
         /\ \A i \in 1..n + n : (<<o>> \o ab)[1 + i] = ab[i]
    <2> DEFINE q == <<o>>
    <2>1. q \in Seq(S) /\ ab \in Seq(S) /\ Len(q) = 1 /\ q[1] = o
      BY <1>7, <1>8, <1>9
    <2> HIDE DEF q
    <2>5. q \in Seq(S) /\ ab \in Seq(S)
      BY <2>1
    <2>2. /\ Len(q \o ab) = Len(q) + Len(ab)
          /\ \A i \in 1..Len(q) : (q \o ab)[i] = q[i]
          /\ \A i \in 1..Len(ab) : (q \o ab)[Len(q) + i] = ab[i]
      BY ONLY <2>5, NumberInConcat
    <2>3. /\ Len(q \o ab) = 1 + (n + n) /\ (q \o ab)[1] = o
          /\ \A i \in 1..n + n : (q \o ab)[1 + i] = ab[i]
      BY <1>8, <2>1, <2>2
    <2>4. QED BY <2>3 DEF q
  <1>11. /\ Len(front) = 1 + n + n /\ front[1] = o
         /\ \A i \in 1..n + n : front[1 + i] = ab[i]
    BY <1>1, <1>10 DEF ab
  <1>12. \A i \in 1..n : front[1 + i] = a[i] /\ front[1 + n + i] = b[i]
    <2>1. ASSUME NEW i \in 1..n PROVE front[1 + i] = a[i] /\ front[1 + n + i] = b[i]
      <3>1. i \in 1..n + n /\ n + i \in 1..n + n /\ 1 + n + i = 1 + (n + i)
        OBVIOUS
      <3>2. QED BY <1>8, <1>11, <3>1
    <2>2. QED BY <2>1
  <1>13. QED BY <1>2, <1>3, <1>4, <1>11, <1>12 DEF front, per

\* What a call's command line uses and does not define.
Undefined(request) ==
  IF request.legacy /\ request.resource.numa = << >> THEN {GuestCell(0)} ELSE {}

\* What vm.start puts together is a command line that begins with its cells.
LEMMA BuildCommandSound ==
  ASSUME NEW request, NEW n, Len(request.resource.numa) \in Nat, Len(Vfio(request)) \in Nat,
         request.extra \in Nat
  PROVE  \E N : Command(build_command(request, n), N, Undefined(request), FrontOf(request.resource))
  <1> DEFINE r == request.resource
             h == FrontOf(r)
             s1 == h \o AmdMachineFeature(request.type = "snp", r.numa = << >>)
             N1 == HeadNames \cup {"sev"}
             s2 == s1 \o BootFeature(request.direct)
             s3 == s2 \o UserNetFeature
             s4 == s3 \o ConsoleFeature
             s5 == s4 \o SharedFolderFeature("share")
             t6 == If(request.shared, SharedFolderFeature("shared"))
             s6 == s5 \o t6
             t7 == If(request.nic # "none", VirtioNicFeature(n + 1))
             s7 == s6 \o t7
             t8 == If(request.blk \in {"file", "device"}, VirtioBlkFeature(n + 1, request.iothread))
             s8 == s7 \o t8
             t9 == If(request.nvme, NvmeEmulationFeature(n + 1))
             s9 == s8 \o t9
             vfio == IF request.legacy THEN VfioGroupLegacyFeature(Vfio(request), request.trace)
                                       ELSE VfioGroupFeature(Vfio(request), request.trace)
             t10 == If(Vfio(request) # << >>, vfio)
             s10 == s9 \o t10
             t11 == If(request.edu, EduFeature)
             s11 == s10 \o t11
             t12 == ExtraCmdFeature(request.extra)
             E == IF request.legacy THEN {GuestCell(0)} ELSE {}
             VfioNames == {"iommufd", "rp", "slots", "pxb", "sw_rp", "sw_up", "sw_ds", "downstream"}
  <1>1. build_command(request, n) = s11 \o t12
    BY DEF build_command, FrontOf
  <1>2. Command(s1, N1, E, h) /\ Len(h) \in Nat
    <2>1. (request.type = "snp") \in BOOLEAN
      OBVIOUS
    <2>2. QED BY <2>1, MachineCommand, HeadSection
  <1>3. Section(vfio, VfioNames, E, {})
    <2>1. {"iommufd", "rp", "slots"} \subseteq VfioNames
      OBVIOUS
    <2>2. {"pxb", "sw_rp", "sw_up", "sw_ds", "slots", "downstream"} \subseteq VfioNames
      OBVIOUS
    <2> HIDE DEF VfioNames
    <2>3. Section(VfioGroupFeature(Vfio(request), request.trace), VfioNames, E, {})
      BY <2>1, VfioSection, Weaken
    <2>4. Section(VfioGroupLegacyFeature(Vfio(request), request.trace), VfioNames, {GuestCell(0)}, {})
      BY <2>2, VfioLegacySection, Weaken
    <2>5. QED BY <2>3, <2>4
  <1>4. /\ Section(t6, {"shared"}, E, {}) /\ Section(t7, {"en"}, E, {})
        /\ Section(t8, {"qblk", "iothread_blk"}, E, {})
        /\ Section(t9, {"nvme_n1", "nvme"}, E, {}) /\ Section(t10, VfioNames, E, {})
        /\ Section(t11, {}, E, {}) /\ Section(t12, {"user_iothread"}, E, {})
    <2> HIDE DEF vfio, VfioNames, E
    <2>1. Section(t6, {"shared"}, E, {})
      <3>1. Section(SharedFolderFeature("shared"), {"shared"}, {}, {})
        BY SharedSection
      <3>2. QED BY <3>1, Optional
    <2>2. Section(t7, {"en"}, E, {})
      <3>1. Section(VirtioNicFeature(n + 1), {"en"}, {}, {})
        BY NicSection
      <3>2. QED BY <3>1, Optional
    <2>3. Section(t8, {"qblk", "iothread_blk"}, E, {})
      <3>1. Section(VirtioBlkFeature(n + 1, request.iothread), {"qblk", "iothread_blk"}, {}, {})
        BY BlkSection
      <3>2. QED BY <3>1, Optional
    <2>4. Section(t9, {"nvme_n1", "nvme"}, E, {})
      <3>1. Section(NvmeEmulationFeature(n + 1), {"nvme_n1", "nvme"}, {}, {})
        BY NvmeSection
      <3>2. QED BY <3>1, Optional
    <2>5. Section(t10, VfioNames, E, {})
      BY <1>3, IfSection
    <2>6. Section(t11, {}, E, {})
      <3>1. Section(EduFeature, {}, {}, {})
        BY EduSection
      <3>2. QED BY <3>1, Optional
    <2>7. Section(t12, {"user_iothread"}, E, {})
      <3>1. Section(ExtraCmdFeature(request.extra), {"user_iothread"}, {}, {})
        BY ExtraSection
      <3>2. QED BY <3>1, Closed
    <2>8. QED BY <2>1, <2>2, <2>3, <2>4, <2>5, <2>6, <2>7
  <1>4f. /\ Section(BootFeature(request.direct), {"q"}, E, {})
         /\ Section(UserNetFeature, {"net"}, E, {}) /\ Section(ConsoleFeature, {"char", "vc"}, E, {})
         /\ Section(SharedFolderFeature("share"), {"share"}, E, {})
    <2> HIDE DEF E
    <2>1. Section(BootFeature(request.direct), {"q"}, {}, {})
      BY BootSection
    <2>2. Section(SharedFolderFeature("share"), {"share"}, {}, {})
      BY SharedSection
    <2>3. QED BY <2>1, <2>2, UserNetSection, ConsoleSection, Closed
  <1>E. E = IF request.legacy THEN {GuestCell(0)} ELSE {}
    OBVIOUS
  <1> DEFINE N2 == N1 \cup {"q"}
             N3 == N2 \cup {"net"}
             N4 == N3 \cup {"char", "vc"}
             N5 == N4 \cup {"share"}
             N6 == N5 \cup {"shared"}
             N7 == N6 \cup {"en"}
             N8 == N7 \cup {"qblk", "iothread_blk"}
             N9 == N8 \cup {"nvme_n1", "nvme"}
             N10 == N9 \cup VfioNames
             N11 == N10 \cup {}
  <1>5. /\ N1 \cap {"q"} = {} /\ N2 \cap {"net"} = {} /\ N3 \cap {"char", "vc"} = {}
        /\ N4 \cap {"share"} = {} /\ N5 \cap {"shared"} = {} /\ N6 \cap {"en"} = {}
        /\ N7 \cap {"qblk", "iothread_blk"} = {} /\ N8 \cap {"nvme_n1", "nvme"} = {}
        /\ N9 \cap VfioNames = {} /\ N10 \cap {} = {} /\ N11 \cap {"user_iothread"} = {}
    BY DEF HeadNames
  <1>6. /\ "cells" \notin {"q"} /\ "cells" \notin {"net"} /\ "cells" \notin {"char", "vc"}
        /\ "cells" \notin {"share"} /\ "cells" \notin {"shared"} /\ "cells" \notin {"en"}
        /\ "cells" \notin {"qblk", "iothread_blk"} /\ "cells" \notin {"nvme_n1", "nvme"}
        /\ "cells" \notin VfioNames /\ "cells" \notin {} /\ "cells" \notin {"user_iothread"}
    OBVIOUS
  <1> HIDE DEF h, s1, t6, t7, t8, t9, t10, t11, t12, N1, N2, N3, N4, N5, N6, N7, N8, N9, N10, N11,
               VfioNames, vfio, E
  <1>7. Command(s2, N2, E, h)
    BY <1>2, <1>5, <1>4f, <1>6, Add DEF N2
  <1> HIDE DEF s2
  <1>8. Command(s3, N3, E, h)
    BY <1>2, <1>5, <1>6, <1>7, <1>4f, Add DEF N3
  <1> HIDE DEF s3
  <1>9. Command(s4, N4, E, h)
    BY <1>2, <1>5, <1>6, <1>8, <1>4f, Add DEF N4
  <1> HIDE DEF s4
  <1>10. Command(s5, N5, E, h)
    BY <1>2, <1>5, <1>6, <1>9, <1>4f, Add DEF N5
  <1> HIDE DEF s5
  <1>11. Command(s6, N6, E, h)
    BY <1>2, <1>4, <1>5, <1>6, <1>10, Add DEF N6
  <1> HIDE DEF s6
  <1>12. Command(s7, N7, E, h)
    BY <1>2, <1>4, <1>5, <1>6, <1>11, Add DEF N7
  <1> HIDE DEF s7
  <1>13. Command(s8, N8, E, h)
    BY <1>2, <1>4, <1>5, <1>6, <1>12, Add DEF N8
  <1> HIDE DEF s8
  <1>14. Command(s9, N9, E, h)
    BY <1>2, <1>4, <1>5, <1>6, <1>13, Add DEF N9
  <1> HIDE DEF s9
  <1>15. Command(s10, N10, E, h)
    BY <1>2, <1>4, <1>5, <1>6, <1>14, Add DEF N10
  <1> HIDE DEF s10
  <1>16. Command(s11, N11, E, h)
    BY <1>2, <1>4, <1>5, <1>6, <1>15, Add DEF N11
  <1> HIDE DEF s11
  <1>17. Command(s11 \o t12, N11 \cup {"user_iothread"}, E, h)
    BY <1>2, <1>4, <1>5, <1>6, <1>16, Add
  <1> DEFINE cmdline == s11 \o t12
             N == N11 \cup {"user_iothread"}
  <1> HIDE DEF N
  <1>18. Command(cmdline, N, E, h)
    BY <1>17 DEF N
  <1> HIDE DEF cmdline
  <1>19. CASE r.numa = << >>
    <2>1. E = Undefined(request)
      BY <1>E, <1>19 DEF Undefined
    <2>2. QED BY <1>1, <1>18, <2>1 DEF h, cmdline
  <1>20. CASE r.numa # << >>
    <2>1. E \subseteq Ids(cmdline)
      <3>1. Len(r.numa) \in Nat /\ Len(r.numa) >= 1
        <4>1. Len(r.numa) # 0
          BY <1>20
        <4>2. QED BY <4>1
      <3>2. Len(h) = 1 + Len(r.numa) + Len(r.numa) /\ h[1 + Len(r.numa) + 1].id = GuestCell(0)
        <4>1. 1 \in 1..Len(r.numa)
          BY <3>1
        <4>2. h[1 + Len(r.numa) + 1].id = GuestCell(1 - 1) /\ Len(h) = 1 + Len(r.numa) + Len(r.numa)
          BY <1>20, <3>1, <4>1, FrontOfCells DEF h
        <4>3. QED BY <4>2
      <3>3. 1 + Len(r.numa) + 1 \in 1..Len(h) /\ Len(h) <= Len(cmdline) /\ Len(cmdline) \in Nat
        BY <1>18, <3>1, <3>2 DEF Command, Section
      <3>4. GuestCell(0) \in Ids(cmdline)
        <4> DEFINE k == 1 + Len(r.numa) + 1
        <4>1. k \in 1..Len(h) /\ k \in 1..Len(cmdline) /\ h[k].id = GuestCell(0)
          BY <3>1, <3>2, <3>3
        <4> HIDE DEF k
        <4>2. cmdline[k] = h[k]
          BY <1>18, <4>1 DEF Command
        <4>3. QED BY <4>1, <4>2 DEF Ids
      <3>5. QED BY <1>E, <3>4
    <2>2. Section(cmdline, N, {}, {})
      BY <1>18, <2>1, Discharge DEF Command
    <2>3. Undefined(request) = {}
      BY <1>20 DEF Undefined
    <2>4. Command(cmdline, N, Undefined(request), h)
      BY <1>18, <2>2, <2>3 DEF Command
    <2>5. QED BY <1>1, <2>4 DEF h, cmdline
  <1>21. QED BY <1>19, <1>20

(***************************************************************************)
(* The invariant: once the cells are set up, their vCPUs fit; once the     *)
(* pinning has begun they fit with its own base as well, and what is       *)
(* pinned is where Target says.                                            *)
(***************************************************************************)
SetUp == {"ready", "commanded", "up", "lost", "pinning", "pin_failed", "running"}
FitsPinned == Numa # << >> => Fits(Numa, Resource.cpu, PinBase)

PlacementInv ==
  /\ req \in Requests
  /\ phase \in {"built"} \cup SetUp => Resource # NoResource
  /\ phase \in SetUp /\ Numa # << >> => Fits(Numa, Resource.cpu, Resource.pin_base)
  /\ phase = "pinning" => FitsPinned
  /\ vcpus \in Seq(Nat)
  /\ vcpus # << >> =>
       phase \in {"pinning", "running"} /\ FitsPinned /\ Len(vcpus) <= Resource.cpu
  /\ \A k \in 1..Len(vcpus) : vcpus[k] = Target(k - 1)
  /\ FitsBeforeBoot

\* The assumptions, for the call at hand.
LEMMA CallSound ==
  ASSUME PlacementInv, Resource # NoResource
  PROVE  /\ Resource.cpu \in Nat \ {0} /\ Resource.pin_base \in Nat /\ PinBase \in Nat
         /\ Numa \in Seq(HostNode)
         /\ \A c, d \in 1..Len(Numa) : Numa[c] = Numa[d] => c = d
  <1>1. /\ Resource.cpu \in Nat \ {0} /\ Resource.pin_base \in Nat
        /\ req.cli \in Nat \cup {NoBase}
        /\ Numa \in Seq(HostNode)
        /\ \A c, d \in 1..Len(Numa) : Numa[c] = Numa[d] => c = d
    BY RequestsAssumption DEF PlacementInv, Resource, Numa
  <1>2. QED BY <1>1 DEF PinBase

\* Where a vCPU is pinned: on its cell's node, if the VM has cells.
LEMMA TargetSound ==
  ASSUME PlacementInv, Resource # NoResource, FitsPinned, NEW v \in 0..Resource.cpu - 1
  PROVE  /\ Target(v) \in Nat
         /\ Numa # << >> => Target(v) \in Confinement
  <1>1. CASE Numa = << >>
    BY <1>1, CallSound DEF Target
  <1>2. CASE Numa # << >>
    <2> DEFINE node == Numa[Cell(Numa, Resource.cpu, v)]
               p == Place(Resource.cpu, Numa, PinBase, v)
    <2>1. /\ Resource.cpu \in Nat \ {0} /\ Numa \in Seq(HostNode) /\ PinBase \in Nat
          /\ Fits(Numa, Resource.cpu, PinBase)
      BY <1>2, CallSound DEF FitsPinned
    <2>2. /\ Cell(Numa, Resource.cpu, v) \in 1..Len(Numa)
          /\ p \in 1..Len(host_node_cpus(node))
          /\ vcpu_pin_map(Numa, Resource.cpu, PinBase)[v] = host_node_cpus(node)[p]
      BY <2>1, SMTT(20), PinOnItsNode
    <2>3. /\ Cell(Numa, Resource.cpu, v) \in 1..Len(Numa)
          /\ p \in 1..Len(host_node_cpus(node))
          /\ Target(v) = host_node_cpus(node)[p]
      BY <1>2, <2>2 DEF Target
    <2>4. node \in HostNode /\ node \in Nodes(Resource)
      BY <2>3, CallSound DEF Nodes, Numa
    <2> HIDE DEF node, p
    <2>5. Target(v) \in CpusOf(node)
      BY <2>3 DEF CpusOf
    <2>6. host_node_cpus(node) \in Seq(Nat)
      BY <2>4, CpulistAssumption
    <2>7. Target(v) \in Nat
      BY <2>3, <2>6
    <2>8. QED BY <2>4, <2>5, <2>7 DEF Confinement
  <1>3. QED BY <1>1, <1>2

\* No call has pinned anything when it starts.
LEMMA PlacementInit == Init => PlacementInv
  BY DEF Init, PlacementInv, SetUp, FitsBeforeBoot, At

\* A step that only goes on to another phase keeps the invariant if that phase
\* may be entered.
LEMMA PlacementGoto ==
  ASSUME PlacementInv, NEW p, Goto(p),
         p \in {"built"} \cup SetUp => Resource # NoResource,
         p \in SetUp /\ Numa # << >> => Fits(Numa, Resource.cpu, Resource.pin_base),
         p = "pinning" => FitsPinned,
         vcpus # << >> => p \in {"pinning", "running"},
         p = "pin_failed" => req.cli # NoBase
  PROVE  PlacementInv'
  <1>1. phase' = p /\ req' = req /\ vcpus' = vcpus
    BY DEF Goto
  <1>2. /\ Resource' = Resource /\ Numa' = Numa /\ PinBase' = PinBase
        /\ FitsPinned' = FitsPinned
        /\ \A v : Target(v)' = Target(v)
    BY <1>1 DEF Resource, Numa, PinBase, FitsPinned, Target
  <1>3. QED BY <1>1, <1>2 DEF PlacementInv, FitsBeforeBoot, At

\* Every step keeps the invariant.
LEMMA PlacementNext == PlacementInv /\ [Next]_vars => PlacementInv'
  <1> SUFFICES ASSUME PlacementInv, [Next]_vars PROVE PlacementInv'
    OBVIOUS
  <1>1. CASE Refuse
    BY <1>1, PlacementGoto DEF Refuse, At, SetUp, PlacementInv
  <1>2. CASE RunOnHost
    BY <1>2, PlacementGoto DEF RunOnHost, At, SetUp, PlacementInv
  <1>3. CASE Assemble
    <2>1. Resource # NoResource /\ phase = "asked" /\ vcpus = << >>
      BY <1>3 DEF Assemble, At, Refused, Resource, PlacementInv
    <2>2. \E p \in {"refused", "declined", "built"} : Goto(p)
      BY <1>3 DEF Assemble
    <2>3. QED BY <2>1, <2>2, PlacementGoto DEF SetUp
  <1>4. CASE Setup
    <2>1. Resource # NoResource /\ phase = "built" /\ vcpus = << >>
      BY <1>4 DEF Setup, At, PlacementInv
    <2>2. CASE Goto("unfit")
      BY <2>1, <2>2, PlacementGoto DEF SetUp
    <2>3. CASE Goto("ready") /\ (Numa # << >> => Fits(Numa, Resource.cpu, Resource.pin_base))
      BY <2>1, <2>3, PlacementGoto DEF SetUp
    <2>4. QED BY <1>4, <2>2, <2>3 DEF Setup
  <1>5. CASE BuildCommand
    <2>1. phase = "ready" /\ vcpus = << >> /\ Resource # NoResource
      BY <1>5 DEF BuildCommand, At, PlacementInv, SetUp
    <2>2. CASE Goto("unfit")
      BY <2>1, <2>2, PlacementGoto DEF SetUp
    <2>3. CASE phase' = "commanded" /\ UNCHANGED <<req, made, vcpus, ios>>
      <3>1. /\ Resource' = Resource /\ Numa' = Numa /\ PinBase' = PinBase
            /\ FitsPinned' = FitsPinned
            /\ \A v : Target(v)' = Target(v)
        BY <2>3 DEF Resource, Numa, PinBase, FitsPinned, Target
      <3>2. QED BY <2>1, <2>3, <3>1 DEF PlacementInv, SetUp, FitsBeforeBoot, At
    <2>4. QED BY <1>5, <2>2, <2>3 DEF BuildCommand
  <1>6. CASE Spawn
    <2>1. phase = "commanded" /\ (Goto("up") \/ Goto("lost"))
      BY <1>6 DEF Spawn, At
    <2>2. Resource # NoResource /\ vcpus = << >>
          /\ (Numa # << >> => Fits(Numa, Resource.cpu, Resource.pin_base))
      BY <2>1 DEF PlacementInv, SetUp
    <2>3. QED BY <2>1, <2>2, PlacementGoto
  <1>7. CASE BeginPin
    <2>1. phase = "up" /\ Resource # NoResource /\ vcpus = << >>
          /\ (Numa # << >> => Fits(Numa, Resource.cpu, Resource.pin_base))
      BY <1>7 DEF BeginPin, At, PlacementInv, SetUp
    <2>2. CASE Goto("running")
      BY <2>1, <2>2, PlacementGoto
    <2>3. CASE Numa # << >> /\ ~Fits(Numa, Resource.cpu, PinBase) /\ Goto("pin_failed")
      <3>1. req.cli # NoBase
        BY <2>1, <2>3 DEF PinBase
      <3>2. QED BY <2>1, <2>3, <3>1, PlacementGoto
    <2>4. CASE FitsPinned /\ Goto("pinning")
      BY <2>1, <2>4, PlacementGoto
    <2>5. QED BY <1>7, <2>2, <2>3, <2>4 DEF BeginPin, FitsPinned
  <1>8. CASE PinVcpu
    <2>1. phase = "pinning" /\ Resource # NoResource /\ FitsPinned
          /\ (Numa # << >> => Fits(Numa, Resource.cpu, Resource.pin_base))
      BY <1>8 DEF PinVcpu, At, PlacementInv, SetUp
    <2>2. CASE Goto("running")
      BY <2>1, <2>2, PlacementGoto
    <2>3. CASE /\ vcpus' = Append(vcpus, Target(Len(vcpus)))
               /\ UNCHANGED <<req, made, phase, cmd, ios>>
      <3>1. /\ Resource' = Resource /\ Numa' = Numa /\ PinBase' = PinBase
            /\ FitsPinned' = FitsPinned
            /\ \A v : Target(v)' = Target(v)
        BY <2>3 DEF Resource, Numa, PinBase, FitsPinned, Target
      <3>2. vcpus \in Seq(Nat) /\ \A k \in 1..Len(vcpus) : vcpus[k] = Target(k - 1)
        BY DEF PlacementInv
      <3>3. Resource.cpu \in Nat \ {0} /\ Len(vcpus) < Resource.cpu
        BY <1>8, <2>1, CallSound DEF PinVcpu
      <3>4. Target(Len(vcpus)) \in Nat
        BY <2>1, <3>2, <3>3, TargetSound
      <3>5. /\ vcpus' \in Seq(Nat) /\ Len(vcpus') <= Resource.cpu
            /\ \A k \in 1..Len(vcpus') : vcpus'[k] = Target(k - 1)
        BY SMTT(20), <2>3, <3>2, <3>3, <3>4
      <3>6. QED BY <2>1, <2>3, <3>1, <3>5 DEF PlacementInv, SetUp, FitsBeforeBoot, At
    <2>4. QED BY <1>8, <2>2, <2>3 DEF PinVcpu
  <1>9. CASE PinIothread
    <2>1. phase = "pinning" /\ Resource # NoResource /\ FitsPinned
          /\ (Numa # << >> => Fits(Numa, Resource.cpu, Resource.pin_base))
      BY <1>9 DEF PinIothread, At, PlacementInv, SetUp
    <2>2. CASE Goto("running")
      BY <2>1, <2>2, PlacementGoto
    <2>3. CASE UNCHANGED <<req, made, phase, cmd, vcpus>>
      <3>1. /\ Resource' = Resource /\ Numa' = Numa /\ PinBase' = PinBase
            /\ FitsPinned' = FitsPinned
            /\ \A v : Target(v)' = Target(v)
        BY <2>3 DEF Resource, Numa, PinBase, FitsPinned, Target
      <3>2. QED BY <2>3, <3>1 DEF PlacementInv, SetUp, FitsBeforeBoot, At
    <2>4. QED BY <1>9, <2>2, <2>3 DEF PinIothread
  <1>10. CASE PinDone
    <2>1. phase = "pinning" /\ Resource # NoResource /\ Goto("running")
          /\ (Numa # << >> => Fits(Numa, Resource.cpu, Resource.pin_base))
      BY <1>10 DEF PinDone, At, PlacementInv, SetUp
    <2>2. QED BY <2>1, PlacementGoto
  <1>11. CASE UNCHANGED vars
    <2>1. /\ Resource' = Resource /\ Numa' = Numa /\ PinBase' = PinBase
          /\ FitsPinned' = FitsPinned
          /\ \A v : Target(v)' = Target(v)
      BY <1>11 DEF vars, Resource, Numa, PinBase, FitsPinned, Target
    <2>2. QED BY <1>11, <2>1 DEF vars, PlacementInv, FitsBeforeBoot, At
  <1>12. QED
    BY <1>1, <1>2, <1>3, <1>4, <1>5, <1>6, <1>7, <1>8, <1>9, <1>10, <1>11 DEF Next

\* What the two theorems need of the invariant.
LEMMA PlacementInvariant == Spec => []PlacementInv
  BY PlacementInit, PlacementNext, PTL DEF Spec

\* With the pin base of the size itself, no VM fails because its vCPUs do not
\* fit after QEMU has started: GuestNumaFeature.setup has refused it before.
THEOREM RefusedBeforeBoot == Spec => []FitsBeforeBoot
  <1>1. PlacementInv => FitsBeforeBoot
    BY DEF PlacementInv
  <1>2. QED BY <1>1, PlacementInvariant, PTL

\* No two vCPUs share a host CPU, and where the VM has cells each runs on one of
\* its nodes, whatever the host's lists of CPUs, the size and the base.
THEOREM VcpusPinnedApart == Spec => []VcpusApart
  <1>1. PlacementInv => VcpusApart
    <2> SUFFICES ASSUME PlacementInv, vcpus # << >> PROVE VcpusApart
      BY DEF VcpusApart, InNodes
    <2>1. /\ Resource # NoResource /\ FitsPinned /\ Len(vcpus) <= Resource.cpu
          /\ vcpus \in Seq(Nat)
          /\ \A k \in 1..Len(vcpus) : vcpus[k] = Target(k - 1)
      BY DEF PlacementInv, SetUp
    <2>2. /\ Resource.cpu \in Nat \ {0} /\ PinBase \in Nat /\ Numa \in Seq(HostNode)
          /\ \A c, d \in 1..Len(Numa) : Numa[c] = Numa[d] => c = d
      BY <2>1, CallSound
    <2>3. ASSUME NEW k \in 1..Len(vcpus)
          PROVE  k - 1 \in 0..Resource.cpu - 1
      BY <2>1, <2>2
    <2>4. InNodes(vcpus)
      BY <2>1, <2>3, TargetSound DEF InNodes
    <2>5. ASSUME NEW i \in 1..Len(vcpus), NEW j \in 1..Len(vcpus), vcpus[i] = vcpus[j]
          PROVE  i = j
      <3>1. Target(i - 1) = Target(j - 1)
        BY <2>1, <2>5
      <3>2. CASE Numa = << >>
        BY <2>2, <3>1, <3>2 DEF Target
      <3>3. CASE Numa # << >>
        <4>1. vcpu_pin_map(Numa, Resource.cpu, PinBase)[i - 1]
                = vcpu_pin_map(Numa, Resource.cpu, PinBase)[j - 1]
          BY <3>1, <3>3 DEF Target
        <4>2. Fits(Numa, Resource.cpu, PinBase)
          BY <2>1, <3>3 DEF FitsPinned
        <4>3. i - 1 = j - 1
          BY <2>2, <2>3, <4>1, <4>2, PinsApart
        <4>4. QED BY <4>3
      <3>4. QED BY <3>2, <3>3
    <2>6. QED BY <2>4, <2>5 DEF VcpusApart
  <1>2. QED BY <1>1, PlacementInvariant, PTL

(***************************************************************************)
(* The command line of a call, from the moment it is put together.         *)
(***************************************************************************)
Commanded == {"commanded", "up", "lost", "pinning", "pin_failed", "running"}
CommandInv == cmd = IF phase \in Commanded THEN build_command(req, made) ELSE << >>

\* A call has no command line when it starts.
LEMMA CommandInit == Init => CommandInv
  BY DEF Init, CommandInv, Commanded

\* Without BuildCommand, no step goes on to where there is a command line.
LEMMA CommandGoto ==
  ASSUME CommandInv, NEW p, Goto(p), p \in Commanded <=> phase \in Commanded
  PROVE  CommandInv'
  BY DEF Goto, CommandInv

\* BuildCommand makes the command line, and no step changes it.
LEMMA CommandNext == CommandInv /\ [Next]_vars => CommandInv'
  <1> SUFFICES ASSUME CommandInv, [Next]_vars PROVE CommandInv'
    OBVIOUS
  <1>1. CASE Refuse
    BY <1>1, CommandGoto DEF Refuse, At, Commanded
  <1>2. CASE RunOnHost
    BY <1>2, CommandGoto DEF RunOnHost, At, Commanded
  <1>3. CASE Assemble
    <2>1. phase = "asked" /\ \E p \in {"refused", "declined", "built"} : Goto(p)
      BY <1>3 DEF Assemble, At
    <2>2. QED BY <2>1, CommandGoto DEF Commanded
  <1>4. CASE Setup
    BY <1>4, CommandGoto DEF Setup, At, Commanded
  <1>5. CASE BuildCommand
    <2>1. CASE Goto("unfit")
      BY <1>5, <2>1, CommandGoto DEF BuildCommand, At, Commanded
    <2>2. QED BY <1>5, <2>1 DEF BuildCommand, CommandInv, Commanded
  <1>6. CASE Spawn
    BY <1>6, CommandGoto DEF Spawn, At, Commanded
  <1>7. CASE BeginPin
    BY <1>7, CommandGoto DEF BeginPin, At, Commanded
  <1>8. CASE PinVcpu
    <2>1. CASE Goto("running")
      BY <1>8, <2>1, CommandGoto DEF PinVcpu, At, Commanded
    <2>2. QED BY <1>8, <2>1 DEF PinVcpu, CommandInv
  <1>9. CASE PinIothread
    <2>1. CASE Goto("running")
      BY <1>9, <2>1, CommandGoto DEF PinIothread, At, Commanded
    <2>2. QED BY <1>9, <2>1 DEF PinIothread, CommandInv
  <1>10. CASE PinDone
    BY <1>10, CommandGoto DEF PinDone, At, Commanded
  <1>11. CASE UNCHANGED vars
    BY <1>11 DEF vars, CommandInv
  <1>12. QED
    BY <1>1, <1>2, <1>3, <1>4, <1>5, <1>6, <1>7, <1>8, <1>9, <1>10, <1>11 DEF Next

\* What the theorems about the command line need of the invariant.
LEMMA CommandInvariant == Spec => []CommandInv
  BY CommandInit, CommandNext, PTL DEF Spec

\* The command line of a call is a sound one that begins with its cells.
LEMMA CommandBuilt ==
  ASSUME PlacementInv, CommandInv, cmd # << >>
  PROVE  /\ Resource # NoResource /\ phase \in Commanded
         /\ \E N : Command(cmd, N, NoCell, FrontOf(Resource))
  <1>1. phase \in Commanded /\ cmd = build_command(req, made)
    BY DEF CommandInv
  <1>2. Resource # NoResource
    BY <1>1 DEF PlacementInv, Commanded, SetUp
  <1>3. Len(Numa) \in Nat
    BY <1>2, CallSound
  <1>4. req.vfio \in Seq(Addresses) /\ req.extra \in Nat /\ HostDevices \in Seq(Addresses)
    BY RequestsAssumption DEF PlacementInv
  <1>5. Len(Vfio(req)) \in Nat
    <2>1. Without(HostDevices, ToSet(req.vfio)) \in Seq(Addresses)
      BY <1>4, WithoutSound
    <2>2. If(req.passthrough, Without(HostDevices, ToSet(req.vfio))) \in Seq(Addresses)
      BY <2>1 DEF If
    <2>3. Vfio(req) \in Seq(Addresses)
      BY <1>4, <2>2 DEF Vfio
    <2>4. QED BY <2>3
  <1>6. \E N : Command(build_command(req, made), N, Undefined(req), FrontOf(req.resource))
    BY <1>3, <1>4, <1>5, BuildCommandSound DEF Numa, Resource
  <1>7. Undefined(req) = NoCell
    BY DEF Undefined, NoCell, Numa, Resource
  <1>8. QED BY <1>1, <1>2, <1>6, <1>7 DEF Resource

\* Whatever features a call combines and whatever this process started before,
\* QEMU can take the command line: no id is defined twice, what is used is
\* defined, a bus is there before what plugs into it, and no slot is taken twice;
\* but for the cell of the legacy switch with a size that lists no nodes.
THEOREM CommandLineSound == Spec => []CommandSound
  <1>1. PlacementInv /\ CommandInv => CommandSound
    <2> SUFFICES ASSUME PlacementInv, CommandInv PROVE CommandSound
      OBVIOUS
    <2>1. CASE cmd = << >>
      BY <2>1 DEF CommandSound, Options
    <2>2. CASE cmd # << >>
      <3>1. PICK N : Section(cmd, N, NoCell, {})
        BY <2>2, CommandBuilt DEF Command
      <3>2. Len(cmd) \in Nat
        BY <3>1 DEF Section
      <3>3. \A i \in Options : /\ cmd[i].uses \subseteq Defined(Len(cmd)) \cup NoCell
                               /\ cmd[i].bus \in {<< >>, Builtin} \cup Defined(i - 1)
        BY <3>1 DEF Section, InSection, Options, Defined, Ids
      <3>4. QED BY <3>1, <3>3 DEF Section, CommandSound, Options
    <2>3. QED BY <2>1, <2>2
  <1>2. QED BY <1>1, PlacementInvariant, CommandInvariant, PTL

\* The cell of a vCPU is the one vcpu_pin_map takes it for, and its memory is on
\* the node listed there.
LEMMA CellFound ==
  ASSUME PlacementInv, CommandInv, cmd # << >>, Numa # << >>, NEW v \in 0..Resource.cpu - 1
  PROVE  LET c == Cell(Numa, Resource.cpu, v)
             i == 1 + Len(Numa) + c
         IN  CellOf(v) = {i} /\ MemoryOf(i) = {{Numa[c]}}
  <1> DEFINE n == Len(Numa)
             c == Cell(Numa, Resource.cpu, v)
             per == PerCell(Numa, Resource.cpu)
             front == FrontOf(Resource)
             Ram(k) == Object("numa_ram", k - 1)
  <1>1. PICK N : Command(cmd, N, NoCell, front)
    BY CommandBuilt
  <1>2. /\ Resource # NoResource /\ Resource.cpu \in Nat \ {0} /\ Numa \in Seq(HostNode)
        /\ Fits(Numa, Resource.cpu, Resource.pin_base)
    <2>1. Resource # NoResource /\ phase \in SetUp
      BY CommandBuilt DEF Commanded, SetUp
    <2>2. QED BY <2>1, CallSound DEF PlacementInv
  <1>3. per \in Nat \ {0} /\ c \in 1..n /\ n \in Nat
    <2>1. Numa # << >> /\ Resource.cpu % Len(Numa) = 0
      BY <1>2 DEF Fits
    <2>2. QED BY <1>2, <2>1, SMTT(20), CellExists
  <1>4. /\ Len(front) = 1 + n + n /\ front[1].uses = {}
        /\ \A k \in 1..n : front[1 + k].id = Ram(k) /\ front[1 + k].uses = {}
                           /\ front[1 + k].nodes = {Numa[k]}
        /\ \A k \in 1..n : front[1 + n + k].uses = {Ram(k)}
                           /\ front[1 + n + k].cpus = (k - 1) * per..k * per - 1
    BY <1>3, FrontOfCells DEF Numa
  <1>5. /\ Len(cmd) \in Nat /\ Len(front) <= Len(cmd)
        /\ \A i \in 1..Len(front) : cmd[i] = front[i]
        /\ \A i \in 1..Len(cmd) : i \in 1..Len(front) \/ ~IsCell(cmd[i])
        /\ \A i, j \in 1..Len(cmd) : cmd[i].id # << >> /\ cmd[i].id = cmd[j].id => i = j
    BY <1>1 DEF Command, Section
  <1>6. \A k \in 1..n : Ram(k) # << >>
    BY DEF Object, Id
  <1>7. \A k \in 1..n : v \in (k - 1) * per..k * per - 1 <=> k = c
    <2>1. \A k \in 1..n : v \in (k - 1) * per..k * per - 1 <=> k = (v \div per) + 1
      <3>1. v \in Nat /\ \A k \in 1..n : k \in Nat \ {0}
        BY <1>3
      <3> HIDE DEF per, n
      <3>2. QED BY <1>3, <3>1, BlockIsCell
    <2>2. QED BY <2>1 DEF Cell
  <1> HIDE DEF n, c, per, front, Ram
  <1>8. \A k \in 1..n : /\ 1 + k \in 1..Len(cmd) /\ cmd[1 + k] = front[1 + k]
                        /\ 1 + n + k \in 1..Len(cmd) /\ cmd[1 + n + k] = front[1 + n + k]
    <2>1. ASSUME NEW k \in 1..n
          PROVE  1 + k \in 1..Len(front) /\ 1 + n + k \in 1..Len(front)
      BY <1>3, <1>4
    <2>2. 1..Len(front) \subseteq 1..Len(cmd)
      BY <1>3, <1>4, <1>5
    <2>3. QED BY <1>5, <2>1, <2>2
  <1> DEFINE i == 1 + n + c
  <1>9. i \in CellOf(v)
    BY <1>3, <1>4, <1>7, <1>8 DEF CellOf, Cells, Options
  <1>10. ASSUME NEW j \in CellOf(v) PROVE j = i
    <2>1. j \in 1..Len(cmd) /\ v \in cmd[j].cpus /\ cmd[j].uses # {} /\ IsCell(cmd[j])
      BY <1>10 DEF CellOf, Cells, Options, IsCell
    <2>2. j \in 1..Len(front) /\ cmd[j] = front[j]
      BY <1>5, <2>1
    <2>3. j = 1 \/ (\E k \in 1..n : j = 1 + k) \/ (\E k \in 1..n : j = 1 + n + k)
      <3>1. j \in 1..1 + n + n
        BY <1>4, <2>2
      <3>2. CASE j \in 2..1 + n
        <4>1. j - 1 \in 1..n /\ j = 1 + (j - 1)
          BY <1>3, <3>2
        <4>2. QED BY <4>1
      <3>3. CASE j \in 2 + n..1 + n + n
        <4>1. j - 1 - n \in 1..n /\ j = 1 + n + (j - 1 - n)
          BY <1>3, <3>3
        <4>2. QED BY <4>1
      <3>4. QED BY <1>3, <3>1, <3>2, <3>3
    <2>4. PICK k \in 1..n : j = 1 + n + k
      BY <1>4, <2>1, <2>2, <2>3
    <2>5. k = c
      BY <1>4, <1>7, <2>1, <2>2, <2>4
    <2>6. QED BY <2>4, <2>5
  <1>11. MemoryOf(i) = {{Numa[c]}}
    <2>1. cmd[i].uses = {Ram(c)}
      BY <1>3, <1>4, <1>8
    <2>2. /\ 1 + c \in 1..Len(cmd) /\ cmd[1 + c].id = Ram(c)
          /\ cmd[1 + c].nodes = {Numa[c]}
      BY <1>3, <1>4, <1>8
    <2>3. \A j \in 1..Len(cmd) : cmd[j].id \in {Ram(c)} <=> j = 1 + c
      BY <1>3, <1>5, <1>6, <2>2
    <2>4. {j \in Options : cmd[j].id \in cmd[i].uses} = {1 + c}
      BY <2>1, <2>2, <2>3 DEF Options
    <2>5. MemoryOf(i) = {cmd[j].nodes : j \in {1 + c}}
      BY <2>4 DEF MemoryOf
    <2>6. QED BY <2>2, <2>5
  <1>12. QED BY <1>9, <1>10, <1>11 DEF i, n, c

\* The vCPUs run next to their memory: the two places that split them over the
\* host's nodes, GuestNumaFeature.qemu_args and vcpu_pin_map, agree.
THEOREM VcpusRunNearTheirMemory == Spec => []VcpusNearTheirMemory
  <1>1. PlacementInv /\ CommandInv => VcpusNearTheirMemory
    <2> SUFFICES ASSUME PlacementInv, CommandInv, cmd # << >>, Numa # << >>
                 PROVE  /\ \A v \in 0..Resource.cpu - 1 : Cardinality(CellOf(v)) = 1
                        /\ \A k \in 1..Len(vcpus) : \A i \in CellOf(k - 1) :
                             \A nodes \in MemoryOf(i) : \E node \in nodes : vcpus[k] \in CpusOf(node)
      BY DEF VcpusNearTheirMemory
    <2>1. ASSUME NEW v \in 0..Resource.cpu - 1 PROVE Cardinality(CellOf(v)) = 1
      <3>1. PICK i : CellOf(v) = {i}
        BY CellFound
      <3>2. QED BY <3>1, FS_Singleton
    <2>2. ASSUME NEW k \in 1..Len(vcpus), NEW i \in CellOf(k - 1), NEW nodes \in MemoryOf(i)
          PROVE  \E node \in nodes : vcpus[k] \in CpusOf(node)
      <3>1. /\ vcpus \in Seq(Nat) /\ FitsPinned /\ Len(vcpus) <= Resource.cpu
            /\ vcpus[k] = Target(k - 1)
        BY <2>2 DEF PlacementInv
      <3>2. /\ Resource.cpu \in Nat \ {0} /\ PinBase \in Nat /\ Numa \in Seq(HostNode)
        BY CommandBuilt, CallSound
      <3> DEFINE v == k - 1
                 c == Cell(Numa, Resource.cpu, v)
                 p == Place(Resource.cpu, Numa, PinBase, v)
      <3>3. v \in 0..Resource.cpu - 1
        BY <3>1, <3>2
      <3> HIDE DEF v
      <3>4. nodes = {Numa[c]}
        <4>1. CellOf(v) = {1 + Len(Numa) + c} /\ MemoryOf(1 + Len(Numa) + c) = {{Numa[c]}}
          BY <3>3, CellFound
        <4>2. i \in CellOf(v)
          BY DEF v
        <4>3. QED BY <4>1, <4>2
      <3>5. Fits(Numa, Resource.cpu, PinBase)
        BY <3>1 DEF FitsPinned
      <3>6. /\ p \in 1..Len(host_node_cpus(Numa[c]))
            /\ vcpu_pin_map(Numa, Resource.cpu, PinBase)[v] = host_node_cpus(Numa[c])[p]
        BY <3>2, <3>3, <3>5, SMTT(20), PinOnItsNode
      <3>7. vcpus[k] = host_node_cpus(Numa[c])[p]
        BY <3>1, <3>6 DEF Target, v
      <3>8. vcpus[k] \in CpusOf(Numa[c])
        BY <3>6, <3>7 DEF CpusOf
      <3>9. QED BY <3>4, <3>8
    <2>3. QED BY <2>1, <2>2
  <1>2. QED BY <1>1, PlacementInvariant, CommandInvariant, PTL

(***************************************************************************)
(* The iothreads.                                                          *)
(***************************************************************************)

\* The CPUs left over belong to the VM's nodes, no vCPU is pinned to them, and
\* each is there once.
LEMMA SpareSound ==
  ASSUME PlacementInv, Resource # NoResource
  PROVE  /\ Spare \in Seq(Nat)
         /\ \A j \in 1..Len(Spare) : Spare[j] \in Confinement /\ Spare[j] \notin PinnedByMap
         /\ \A i, j \in 1..Len(Spare) : Spare[i] = Spare[j] => i = j
  <1> DEFINE all == AllCpus(Numa)
  <1>1. Numa \in Seq(HostNode) /\ \A c, d \in 1..Len(Numa) : Numa[c] = Numa[d] => c = d
    BY CallSound
  <1>2. /\ all \in Seq(Nat)
        /\ \A j \in 1..Len(all) : \E c \in 1..Len(Numa) : all[j] \in CpusOf(Numa[c])
        /\ \A i, j \in 1..Len(all) : all[i] = all[j] => i = j
    BY <1>1, AllCpusSound
  <1>3. Spare = Without(all, PinnedByMap)
    BY DEF Spare, host_nodes_spare_cpus
  <1> HIDE DEF all
  <1>4. /\ Spare \in Seq(Nat)
        /\ \A j \in DOMAIN Spare : \E i \in 1..Len(all) : Spare[j] = all[i] /\ all[i] \notin PinnedByMap
        /\ \A i, j \in DOMAIN Spare : Spare[i] = Spare[j] => i = j
    <2>1. all \in Seq(Nat) /\ \A i, j \in 1..Len(all) : all[i] = all[j] => i = j
      BY <1>2
    <2> DEFINE W == Without(all, PinnedByMap)
    <2>2. W \in Seq(Nat)
      BY <2>1, WithoutSound
    <2>3. \A j \in DOMAIN W : \E i \in 1..Len(all) : W[j] = all[i] /\ all[i] \notin PinnedByMap
      BY <2>1, WithoutSound
    <2>4. \A i, j \in DOMAIN W : W[i] = W[j] => i = j
      BY <2>1, WithoutSound
    <2>5. Spare = W
      BY <1>3
    <2> HIDE DEF W
    <2>6. QED BY <2>2, <2>3, <2>4, <2>5
  <1>5. DOMAIN Spare = 1..Len(Spare)
    BY <1>4
  <1>6. \A c \in 1..Len(Numa) : CpusOf(Numa[c]) \subseteq Confinement
    BY DEF Confinement, Nodes, Numa
  <1>7. QED BY <1>2, <1>4, <1>5, <1>6

\* A command line has so many iothreads.
LEMMA IothreadsNat ==
  ASSUME PlacementInv, CommandInv
  PROVE  Iothreads \in Nat
  <1>1. Len(cmd) \in Nat
    <2>1. CASE cmd = << >>
      BY <2>1
    <2>2. CASE cmd # << >>
      BY <2>2, CommandBuilt DEF Command, Section
    <2>3. QED BY <2>1, <2>2
  <1> DEFINE T == {i \in 1..Len(cmd) : IsIothread(cmd[i])}
  <1>2. IsFiniteSet(1..Len(cmd))
    BY <1>1, FS_Interval
  <1>3. IsFiniteSet(T)
    BY <1>2, FS_Subset
  <1> HIDE DEF T
  <1>4. Cardinality(T) \in Nat
    BY <1>3, FS_CardinalityType
  <1>5. QED BY <1>4 DEF Iothreads, T

\* Where the k-th iothread is pinned.
IoPlace(k) == IF Numa # << >> THEN Spare[k] ELSE PinBase + Resource.cpu + k - 1

\* How far a call may come.
Phases == {"asked", "refused", "hosted", "declined", "built", "unfit", "ready", "commanded",
           "up", "lost", "pinning", "pin_failed", "running"}

\* The iothreads wait for the vCPUs, and each has a CPU left over for it.
IoInv ==
  /\ phase \in Phases
  /\ ios \in Seq(Nat)
  /\ ios # << >> =>
       /\ phase \in {"pinning", "running"} /\ FitsPinned
       /\ Len(vcpus) = Resource.cpu
       /\ Len(ios) <= Iothreads
       /\ Numa # << >> => Len(ios) <= Len(Spare)
  /\ \A k \in 1..Len(ios) : ios[k] = IoPlace(k)

\* A call has pinned no iothread when it starts.
LEMMA IoInit == Init => IoInv
  BY DEF Init, IoInv, Phases

\* What the CPUs of the iothreads depend on does not change with the pinning.
LEMMA SameCall ==
  ASSUME req' = req
  PROVE  /\ Resource' = Resource /\ Numa' = Numa /\ PinBase' = PinBase
         /\ FitsPinned' = FitsPinned /\ Spare' = Spare
         /\ \A k : IoPlace(k)' = IoPlace(k)
  BY DEF Resource, Numa, PinBase, FitsPinned, Spare, PinnedByMap, IoPlace

\* A step that only goes on to another phase keeps the invariant; with
\* iothreads pinned, only "running" follows.
LEMMA IoGoto ==
  ASSUME IoInv, NEW p, Goto(p), p \in Phases, ios # << >> => p = "running"
  PROVE  IoInv'
  <1>1. phase' = p /\ req' = req /\ cmd' = cmd /\ vcpus' = vcpus /\ ios' = ios
    BY DEF Goto
  <1>2. Iothreads' = Iothreads
    BY <1>1 DEF Iothreads
  <1>3. QED BY <1>1, <1>2, SameCall DEF IoInv

\* Every step keeps the invariant of the iothreads.
LEMMA IoNext == PlacementInv /\ CommandInv /\ IoInv /\ [Next]_vars => IoInv'
  <1> SUFFICES ASSUME PlacementInv, CommandInv, IoInv, [Next]_vars PROVE IoInv'
    OBVIOUS
  <1>1. CASE Refuse
    BY <1>1, IoGoto DEF Refuse, At, IoInv, Phases
  <1>2. CASE RunOnHost
    BY <1>2, IoGoto DEF RunOnHost, At, IoInv, Phases
  <1>3. CASE Assemble
    <2>1. ios = << >> /\ \E p \in {"refused", "declined", "built"} : Goto(p)
      BY <1>3 DEF Assemble, At, IoInv
    <2>2. QED BY <2>1, IoGoto DEF Phases
  <1>4. CASE Setup
    BY <1>4, IoGoto DEF Setup, At, IoInv, Phases
  <1>5. CASE BuildCommand
    <2>1. ios = << >>
      BY <1>5 DEF BuildCommand, At, IoInv
    <2>2. CASE Goto("unfit")
      BY <2>1, <2>2, IoGoto DEF Phases
    <2>3. CASE ios' = ios /\ phase' = "commanded" /\ req' = req
      BY <2>1, <2>3 DEF IoInv, Phases
    <2>4. QED BY <1>5, <2>2, <2>3 DEF BuildCommand
  <1>6. CASE Spawn
    BY <1>6, IoGoto DEF Spawn, At, IoInv, Phases
  <1>7. CASE BeginPin
    BY <1>7, IoGoto DEF BeginPin, At, IoInv, Phases
  <1>8. CASE PinVcpu
    <2>1. CASE Goto("running")
      BY <2>1, IoGoto DEF Phases
    <2>2. CASE vcpus' = Append(vcpus, Target(Len(vcpus))) /\ UNCHANGED <<req, made, phase, cmd, ios>>
      <3>1. ios = << >>
        <4>1. Len(vcpus) < Resource.cpu /\ vcpus \in Seq(Nat)
          BY <1>8 DEF PinVcpu, PlacementInv
        <4>2. QED BY <4>1 DEF IoInv
      <3>2. QED BY <2>2, <3>1 DEF IoInv
    <2>3. QED BY <1>8, <2>1, <2>2 DEF PinVcpu
  <1>9. CASE PinIothread
    <2>1. CASE Goto("running")
      BY <2>1, IoGoto DEF Phases
    <2>2. CASE ~NoCpuLeft /\ ios' = Append(ios, IoTarget) /\ UNCHANGED <<req, made, phase, cmd, vcpus>>
      <3>1. phase = "pinning" /\ Len(vcpus) = Resource.cpu /\ Len(ios) < Iothreads
        BY <1>9 DEF PinIothread, At
      <3>2. Resource # NoResource /\ FitsPinned
        BY <3>1 DEF PlacementInv, SetUp
      <3>3. ios \in Seq(Nat) /\ \A k \in 1..Len(ios) : ios[k] = IoPlace(k)
        BY DEF IoInv
      <3>4. Resource.cpu \in Nat \ {0} /\ PinBase \in Nat
        BY <3>2, CallSound
      <3>5. Spare \in Seq(Nat)
        BY <3>2, SpareSound
      <3>6. Numa # << >> => Len(ios) < Len(Spare)
        BY <2>2, <3>3, <3>5 DEF NoCpuLeft
      <3>7. IoTarget \in Nat /\ IoTarget = IoPlace(Len(ios) + 1)
        BY <3>3, <3>4, <3>5, <3>6 DEF IoTarget, IoPlace
      <3>8. /\ ios' \in Seq(Nat) /\ Len(ios') = Len(ios) + 1
            /\ \A k \in 1..Len(ios') : ios'[k] = IoPlace(k)
        BY <2>2, <3>3, <3>7
      <3>9. Iothreads \in Nat /\ Iothreads' = Iothreads
        BY <2>2, IothreadsNat DEF Iothreads
      <3>10. Len(ios') <= Iothreads /\ (Numa # << >> => Len(ios') <= Len(Spare))
        BY <3>1, <3>3, <3>5, <3>6, <3>8, <3>9
      <3>11. QED BY <2>2, <3>1, <3>2, <3>8, <3>9, <3>10, SameCall DEF IoInv
    <2>3. QED BY <1>9, <2>1, <2>2 DEF PinIothread
  <1>10. CASE PinDone
    BY <1>10, IoGoto DEF PinDone, Phases
  <1>11. CASE UNCHANGED vars
    <2>1. /\ req' = req /\ cmd' = cmd /\ phase' = phase /\ vcpus' = vcpus /\ ios' = ios
      BY <1>11 DEF vars
    <2>2. Iothreads' = Iothreads
      BY <2>1 DEF Iothreads
    <2>3. QED BY <2>1, <2>2, SameCall DEF IoInv
  <1>12. QED
    BY <1>1, <1>2, <1>3, <1>4, <1>5, <1>6, <1>7, <1>8, <1>9, <1>10, <1>11 DEF Next

\* What the theorems about the iothreads need of the invariant.
LEMMA IoInvariant == Spec => []IoInv
  BY PlacementInvariant, CommandInvariant, IoInit, IoNext, PTL DEF Spec

\* The phases and the lists of pinned CPUs of a call are what they should be, and
\* no iothread is pinned before the last vCPU.
THEOREM PlacementTypeCorrect == Spec => []TypeOK
  <1>1. PlacementInv /\ IoInv => TypeOK
    BY DEF PlacementInv, IoInv, TypeOK, Phases
  <1>2. QED BY <1>1, PlacementInvariant, IoInvariant, PTL

\* No two threads of a VM, vCPUs or iothreads, get the same CPU, and none gets one
\* outside what numactl confines QEMU to.
THEOREM ThreadsPinnedApart == Spec => []PinnedApart
  <1>1. PlacementInv /\ IoInv => IothreadsApart
    <2> SUFFICES ASSUME PlacementInv, IoInv, ios # << >> PROVE IothreadsApart
      BY DEF IothreadsApart, InNodes
    <2>1. /\ phase \in {"pinning", "running"} /\ FitsPinned /\ Len(vcpus) = Resource.cpu
          /\ Numa # << >> => Len(ios) <= Len(Spare)
          /\ ios \in Seq(Nat) /\ \A k \in 1..Len(ios) : ios[k] = IoPlace(k)
      BY DEF IoInv
    <2>2. /\ Resource # NoResource /\ vcpus \in Seq(Nat)
          /\ \A k \in 1..Len(vcpus) : vcpus[k] = Target(k - 1)
      BY <2>1 DEF PlacementInv, SetUp
    <2>3. Resource.cpu \in Nat \ {0} /\ PinBase \in Nat
      BY <2>2, CallSound
    <2>4. /\ Spare \in Seq(Nat)
          /\ \A j \in 1..Len(Spare) : Spare[j] \in Confinement /\ Spare[j] \notin PinnedByMap
          /\ \A i, j \in 1..Len(Spare) : Spare[i] = Spare[j] => i = j
      BY <2>2, SpareSound
    <2>5. CASE Numa # << >>
      <3>1. \A k \in 1..Len(ios) : k \in 1..Len(Spare) /\ ios[k] = Spare[k]
        BY <2>1, <2>4, <2>5 DEF IoPlace
      <3>2. \A k \in 1..Len(vcpus) : vcpus[k] \in PinnedByMap
        <4>1. ASSUME NEW k \in 1..Len(vcpus) PROVE vcpus[k] \in PinnedByMap
          <5>1. k - 1 \in 0..Resource.cpu - 1
            BY <2>1, <2>3
          <5>2. vcpus[k] = vcpu_pin_map(Numa, Resource.cpu, PinBase)[k - 1]
            BY <2>2, <2>5 DEF Target
          <5>3. QED BY <5>1, <5>2 DEF PinnedByMap
        <4>2. QED BY <4>1
      <3>3. QED BY <2>4, <3>1, <3>2 DEF IothreadsApart, InNodes
    <2>6. CASE Numa = << >>
      <3>1. \A k \in 1..Len(ios) : ios[k] = PinBase + Resource.cpu + k - 1
        BY <2>1, <2>6 DEF IoPlace
      <3>2. \A k \in 1..Len(vcpus) : vcpus[k] = PinBase + k - 1
        BY <2>2, <2>3, <2>6 DEF Target
      <3>3. \A i, j \in 1..Len(ios) : ios[i] = ios[j] => i = j
        BY <2>3, <3>1
      <3>4. \A i \in 1..Len(vcpus), j \in 1..Len(ios) : vcpus[i] # ios[j]
        BY <2>1, <2>3, <3>1, <3>2
      <3>5. QED BY <2>6, <3>3, <3>4 DEF IothreadsApart, InNodes
    <2>7. QED BY <2>5, <2>6
  <1>2. QED BY <1>1, VcpusPinnedApart, PlacementInvariant, IoInvariant, PTL DEF PinnedApart

=============================================================================
