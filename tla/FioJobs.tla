------------------------------- MODULE FioJobs -------------------------------
(***************************************************************************)
(* What a fio job's name means (FioJobConfig.from_job_name in              *)
(* modules/fio/tasks/actions/storage.py) and which devices it needs        *)
(* (Devices.storage_target in core/tasks/utils/device.py).                 *)
(*                                                                         *)
(* A name is cut where the code cuts it: words are the parts between the   *)
(* dashes, up to the first underscore, and suffix is what follows it.      *)
(* "libaio-luks-ext4-aes_bandwidth" is                                     *)
(*   [words  |-> <<"libaio", "luks", "ext4", "aes">>,                      *)
(*    suffix |-> "bandwidth"].                                             *)
(***************************************************************************)
EXTENDS Naturals, Sequences

KnownEngines == {"io_uring_cmd", "libaio", "spdk", "libcufilep2p", "libcufileposix"}
CudaEngines  == {"libcufilep2p", "libcufileposix"}
FileSystems  == {"ext4", "f2fs"}

\* The keys of STORAGE_FORMATTERS, cut at their dashes.
StorageFormatters ==
  {<<"plain">>, <<"luks", "aes">>, <<"luks", "aegis128">>, <<"luks", "aes", "xts">>,
   <<"dmverity">>, <<"fsverity">>}

From(s, n) == SubSeq(s, n, Len(s))
Has(s, w)  == \E i \in DOMAIN s : s[i] = w

\* parse_job_filesystem looks for "ext4" first; no file system raises.
Filesystem(words) == IF Has(words, "ext4") THEN "ext4" ELSE "f2fs"

-----------------------------------------------------------------------------
(***************************************************************************)
(* FioJobConfig.from_job_name: what it raises for, and what it returns.    *)
(***************************************************************************)

Engine(name)  == Head(name.words)
Storage(name) == Tail(name.words)

Category(st) ==
  CASE Len(st) = 1 /\ st[1] \in FileSystems                        -> "plain"
    [] Len(st) > 1 /\ st[1] \in {"luks", "dmverity", "fsverity"}   -> st[1]
    [] OTHER                                                       -> "raw"

\* No known engine, no file system where one is needed, or no third word of
\* the storage type, which is the cipher.
Parses(name) ==
  LET st == Storage(name)  cat == Category(Storage(name)) IN
  /\ Engine(name) \in KnownEngines
  /\ cat \in {"luks", "dmverity", "fsverity"} => \E fs \in FileSystems : Has(st, fs)
  /\ cat = "luks" => Len(st) >= 3

FormatterKey(st) ==
  CASE Category(st) = "luks" -> <<"luks">> \o From(st, 3)
    [] Category(st) = "raw"  -> <<>>
    [] OTHER                 -> <<Category(st)>>

FromJobName(name) ==
  LET st == Storage(name)  cat == Category(Storage(name)) IN
  [engine        |-> Engine(name),
   category      |-> cat,
   filesystem    |-> IF cat = "raw" THEN "none" ELSE Filesystem(st),
   formatter     |-> FormatterKey(st),
   readonly      |-> cat \in {"dmverity", "fsverity"},
   needs_cleanup |-> cat # "raw",
   needs_spdk    |-> Engine(name) = "spdk",
   precondition  |-> cat \in {"raw", "luks"},
   suffix        |-> name.suffix]

-----------------------------------------------------------------------------
(***************************************************************************)
(* Devices.storage_target.                                                 *)
(***************************************************************************)

\* qemu_nvme has no host setup, and a VM needs an address for the drive.
HasTarget(setup, qemuNvme, vmSetups) ==
  IF qemuNvme THEN setup # "host" ELSE setup \in {"host"} \cup vmSetups

\* Which drive fio works on, whose link is checked, and what is passed through.
StorageTarget(setup, qemuNvme) ==
  CASE qemuNvme       -> [pci |-> "qemu", host_pci |-> "none",  vfio |-> <<>>]
    [] setup = "host" -> [pci |-> "nvme", host_pci |-> "nvme",  vfio |-> <<>>]
    [] OTHER          -> [pci |-> "vm",   host_pci |-> "nvme",  vfio |-> <<"nvme">>]

-----------------------------------------------------------------------------
(***************************************************************************)
(* block_size_label: the number, and its unit.                             *)
(***************************************************************************)
BlockSizeLabel(bs) ==
  CASE bs = 512                       -> <<512, "">>
    [] bs = 4096                      -> <<4, "k">>
    [] bs \notin {512, 4096} /\ bs >= 1024 /\ bs % 1024 = 0 -> <<bs \div 1024, "k">>
    [] OTHER                          -> <<bs, "">>

\* _fio_path: the directory of a job's results; 0 stands for no block size.
JobDir(name, bs) ==
  [job |-> name, label |-> IF bs = 0 THEN <<>> ELSE BlockSizeLabel(bs)]
=============================================================================
