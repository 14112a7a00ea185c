----------------------------- MODULE MCGuestDisk -----------------------------
(***************************************************************************)
(* GuestDisk on a host of two nodes with eight CPUs, one node's in two     *)
(* ranges as on a machine with hyper-threads.                              *)
(***************************************************************************)
EXTENDS GuestDisk

CONSTANTS nvme0, gpu0, spare0, vislor, irene

MCCpulist == (0 :> <<<<0, 1>>, <<4, 5>>>>) @@ (1 :> <<<<2, 3>>, <<6, 6>>>>)
MCAddresses == {nvme0, gpu0, spare0}
MCHostDevices == <<nvme0, gpu0>>

Size(cpu, memory, numa, pin_base) ==
  [cpu |-> cpu, memory |-> memory, numa |-> numa, pin_base |-> pin_base]
MCDefaults == [small |-> Size(1, 3, <<0>>, 1), medium |-> Size(2, 4, <<0>>, 2)]
MCHosts ==
  (vislor :> [numa |-> Size(4, 5, <<1, 0>>, 0), odd |-> Size(3, 4, <<0, 1>>, 0),
              full |-> Size(3, 4, <<1>>, 0), flat |-> Size(2, 4, << >>, 1)])
  @@ (irene :> [small |-> Size(2, 3, <<1>>, 1), wide |-> Size(4, 4, <<1>>, 0)])

\* Every size with and without options for the pinning; every kind of machine with
\* every list of PCI devices; their switch on sizes with two cells and with none;
\* and every combination of emulated devices.
Call ==
  [type |-> "amd", attestation |-> FALSE, direct |-> FALSE, nic |-> "none", blk |-> "none",
   iothread |-> TRUE, nvme |-> FALSE, vfio |-> << >>, passthrough |-> FALSE, legacy |-> FALSE,
   trace |-> FALSE, shared |-> FALSE, edu |-> FALSE, extra |-> 0, pin |-> TRUE, cli |-> NoBase,
   action |-> "attach", resource |-> get_vm_resource(vislor, "small")]

MCRequests ==
  {[Call EXCEPT !.resource = get_vm_resource(host, name), !.cli = cli, !.blk = blk, !.extra = extra,
                !.action = "fio"] :
     host \in {vislor, irene}, name \in {"small", "medium", "numa", "odd", "full", "flat", "wide"},
     cli \in {NoBase, 0, 2}, <<blk, extra>> \in {<<"none", 0>>, <<"file", 1>>}}
  \cup
  {[Call EXCEPT !.type = type, !.legacy = legacy, !.trace = trace, !.vfio = vfio,
                !.passthrough = passthrough, !.attestation = attestation] :
     type \in {"amd", "snp", "host", "tdx"}, legacy \in BOOLEAN, trace \in BOOLEAN,
     vfio \in {<< >>, <<gpu0>>, <<spare0, nvme0>>}, passthrough \in BOOLEAN,
     attestation \in BOOLEAN}
  \cup
  {[Call EXCEPT !.legacy = legacy, !.vfio = <<spare0, gpu0>>, !.pin = pin,
                !.resource = get_vm_resource(vislor, name)] :
     legacy \in BOOLEAN, pin \in BOOLEAN, name \in {"numa", "flat"}}
  \cup
  {[Call EXCEPT !.blk = blk, !.nvme = nvme, !.nic = nic, !.shared = shared, !.pin = pin,
                !.iothread = iothread, !.direct = shared, !.edu = pin,
                !.resource = get_vm_resource(vislor, "numa")] :
     blk \in {"none", "file", "device", "missing"}, nvme \in BOOLEAN, nic \in {"none", "mq"},
     shared \in BOOLEAN, pin \in BOOLEAN, iothread \in BOOLEAN}
=============================================================================
