---------------------------- MODULE MCVfioBinding ----------------------------
(***************************************************************************)
(* An instance of VfioBinding.  nvmeA, nvmeB and spare share a vendor:device *)
(* pair; gpu has another one; no list names spare.                         *)
(***************************************************************************)
EXTENDS VfioBinding

CONSTANTS nvmeA, nvmeB, spare, gpu, nvme, nvidia, kioxia, hopper, p1, p2

MCModelOf  == [d \in Dev |-> IF d = gpu THEN hopper ELSE kioxia]
MCNativeOf == [d \in Dev |-> IF d = gpu THEN nvidia ELSE nvme]

\* One invocation takes both NVMe drives, the other one the GPU.
SeparatePciIds == [p \in Proc |-> IF p = p1 THEN <<nvmeA, nvmeB>> ELSE <<gpu>>]
=============================================================================
