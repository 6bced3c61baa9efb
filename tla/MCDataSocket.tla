---------------------------- MODULE MCDataSocket ----------------------------
(***************************************************************************)
(* DataSocket on a small instance.  Two addresses are enough for a stale   *)
(* pointer to miss the new bufferevent and for one to alias it; three      *)
(* packets for a session with a first, a middle and a last one.            *)
(***************************************************************************)
EXTENDS DataSocket
=============================================================================
