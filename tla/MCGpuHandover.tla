---------------------------- MODULE MCGpuHandover ----------------------------
(***************************************************************************)
(* An instance of GpuHandover: two vm.start runs that both take the GPU,   *)
(* and a gpu task beside them.                                             *)
(***************************************************************************)
EXTENDS GpuHandover

CONSTANTS gpu, nvidia, hopper

MCModelOf  == [d \in Dev |-> hopper]
MCNativeOf == [d \in Dev |-> nvidia]
MCPciIds   == [p \in Proc |-> <<gpu>>]
=============================================================================
