---------------------------- MODULE MCMyThunder ----------------------------
(***************************************************************************)
(* MyThunder on a device that delivers eight bytes, with a header at the   *)
(* front or two bytes later; a chunk can hold the later one whole.         *)
(***************************************************************************)
EXTENDS MyThunder

HeaderAt(h) == [i \in 0 .. StreamLen - 1 |-> IF i - h \in 0 .. 3 THEN i - h + 1 ELSE 0]

MCStreams == {HeaderAt(0), HeaderAt(2)}
=============================================================================
