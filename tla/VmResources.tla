----------------------------- MODULE VmResources -----------------------------
(***************************************************************************)
(* The arithmetic that places a VM on its host                             *)
(* (core/tasks/resources.py, hugepage_split and setup_hugepages of         *)
(* core/tasks/qemu.py): which resources a size name stands for, which host *)
(* CPU each vCPU is pinned to, which CPUs are left over for the iothreads, *)
(* and how a huge page reservation is divided over NUMA nodes.             *)
(***************************************************************************)
EXTENDS Integers, SequencesExt, FiniteSets

CONSTANTS
  Cpulist,      \* the kernel's cpulist of each host NUMA node: a sequence of ranges
  Hosts,        \* the sizes each configured host overrides (config.toml, [hosts.*])
  Defaults,     \* the default sizes ([defaults.vm_resources])
  NoResource    \* get_vm_resource raised: nobody configured that size

-----------------------------------------------------------------------------
\* "0-7,96-191" is <<<<0, 7>>, <<96, 191>>>>: the CPUs range after range, in the
\* order the kernel lists them.
Width(range) == range[2] - range[1] + 1

Before(list, r) ==
  LET f[i \in 0..Len(list)] == IF i = 0 THEN 0 ELSE f[i - 1] + Width(list[i])
  IN  f[r]

parse_cpulist(list) ==
  [k \in 1..Before(list, Len(list)) |->
     LET r == CHOOSE r \in 1..Len(list) : Before(list, r - 1) < k /\ k <= Before(list, r)
     IN  list[r][1] + (k - Before(list, r - 1) - 1)]

HostNode == DOMAIN Cpulist
host_node_cpus(node) == parse_cpulist(Cpulist[node])
CpusOf(node) == {host_node_cpus(node)[k] : k \in 1..Len(host_node_cpus(node))}

\* The kernel puts every CPU on one node, and names it there once.
ASSUME CpulistAssumption ==
  /\ \A node \in HostNode : host_node_cpus(node) \in Seq(Nat)
  /\ \A m, n \in HostNode :
       \A i \in 1..Len(host_node_cpus(m)), j \in 1..Len(host_node_cpus(n)) :
         host_node_cpus(m)[i] = host_node_cpus(n)[j] => m = n /\ i = j

-----------------------------------------------------------------------------
\* A host's own sizes come before the defaults, which load_config has merged in.
get_vm_resource(host, size) ==
  IF host \in DOMAIN Hosts /\ size \in DOMAIN Hosts[host] THEN Hosts[host][size]
  ELSE IF size \in DOMAIN Defaults THEN Defaults[size]
  ELSE NoResource

\* The vCPUs each guest cell, and so each listed host node, gets.
PerCell(nodes, vcpus) == vcpus \div Len(nodes)

\* vcpu_pin_map raises ValueError unless this holds; host_node_cpus raises for a
\* node the host does not have.
Fits(nodes, vcpus, base) ==
  /\ nodes # << >>
  /\ vcpus % Len(nodes) = 0
  /\ \A c \in 1..Len(nodes) :
       /\ nodes[c] \in HostNode
       /\ Len(host_node_cpus(nodes[c])) >= base + PerCell(nodes, vcpus)

\* vCPU number per * cell + k runs on the k-th CPU of that cell's host node,
\* counted from pin_base.
Cell(nodes, vcpus, v) == (v \div PerCell(nodes, vcpus)) + 1

vcpu_pin_map(nodes, vcpus, base) ==
  [v \in 0..vcpus - 1 |->
     host_node_cpus(nodes[Cell(nodes, vcpus, v)])[base + (v % PerCell(nodes, vcpus)) + 1]]

\* [d for d in list if d not in out]
Without(list, out) ==
  FlattenSeq([i \in 1..Len(list) |-> IF list[i] \in out THEN << >> ELSE <<list[i]>>])

\* The CPUs of the listed nodes, node after node.
AllCpus(nodes) == FlattenSeq([c \in 1..Len(nodes) |-> host_node_cpus(nodes[c])])

\* Mutant: the CPUs in use are not left out.
host_nodes_all_cpus(nodes, used) == AllCpus(nodes)

\* Those nobody uses.
host_nodes_spare_cpus(nodes, used) == Without(AllCpus(nodes), used)

-----------------------------------------------------------------------------
\* Mutant: the share rounded down.
PerNodeDown(total, page, nodes) ==
  IF total <= 0 THEN 0 ELSE (total \div (nodes * page)) * page

\* The share of each node, rounded up to whole pages; a total of nothing or less
\* clears the reservation.
PerNode(total, page, nodes) ==
  IF total <= 0 THEN 0
  ELSE ((total + nodes * page - 1) \div (nodes * page)) * page
=============================================================================
