----------------------------- MODULE MCFioSuite -----------------------------
(***************************************************************************)
(* Instances of FioSuite.                                                  *)
(***************************************************************************)
EXTENDS FioSuite

Job(words) == [words |-> words, suffix |-> ""]

Spdk    == Job(<<"spdk">>)
Plain   == [words |-> <<"libaio", "ext4">>, suffix |-> "bandwidth"]
Cufile  == Job(<<"libcufilep2p", "ext4">>)
Unknown == Job(<<"io">>)
Uring   == [words |-> <<"io">>, suffix |-> "uring_cmd"]

\* No link; a generation 5 link at full speed and one that has degraded to 3.
MCLinks == {<<>>, <<320, 320>>, <<320, 80>>}

Args(setups, blocks, jobs, continue, qemu, iterations) ==
  [setups |-> setups, blocks |-> blocks, jobs |-> jobs, known |-> TRUE,
   continue |-> continue, qemu |-> qemu, iterations |-> iterations]

\* Two setups or block sizes, two iterations, two or three jobs; names that do
\* not parse at the head and in the middle; setups without a target; nothing to
\* do; a host that config.toml does not know.
MCSuites ==
  {Args(<<"amd", "host">>, <<512>>, js, c, q, 2) :
     js \in {<<Spdk, Cufile>>, <<Plain, Uring>>, <<Unknown, Spdk>>},
     c \in BOOLEAN, q \in BOOLEAN}
  \cup {Args(<<s>>, <<512, 4096>>, js, c, q, 1) :
     s \in {"host", "snp", "amd"}, js \in {<<Spdk, Plain, Cufile>>, <<Plain, Unknown, Spdk>>},
     c \in BOOLEAN, q \in BOOLEAN}
  \cup {Args(<<"amd">>, bs, <<Spdk>>, TRUE, FALSE, it) :
     bs \in {<<>>, <<512>>}, it \in 0 .. 1}
  \cup {[Args(<<"amd", "host">>, <<512>>, <<Spdk>>, c, FALSE, 2) EXCEPT !.known = FALSE] :
     c \in BOOLEAN}

\* The head of FIO_JOBS.
DefaultSuites ==
  {Args(<<"amd">>, <<512>>, <<Spdk, Uring, Plain>>, TRUE, FALSE, 1)}
=============================================================================
