---------------------------- MODULE MCFioResults ----------------------------
(***************************************************************************)
(* FioResults with days of six seconds (Second = 2, Day = 12), so that a   *)
(* log of a few samples passes several midnights.                          *)
(***************************************************************************)
EXTENDS FioResults

MCNames == {<<"snp", "disk", "small">>, <<"snp", "disk", "small2">>, <<"snp", "direct", "small">>,
            <<"host", "small">>}
MCMetrics == {{"bw", "iops", "lat"}, {"iops"}, {}}

\* Jobs that follow each other at once, and a short one after a pause.
MCSchedules == {<<<<1, 4>>, <<4, 9>>>>, <<<<2, 3>>, <<3, 4>>, <<9, 16>>>>}
=============================================================================
