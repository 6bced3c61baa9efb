---------------------------- MODULE MCLifecycle ----------------------------
(***************************************************************************)
(* Lifecycle with two signal numbers and two signals: the same one twice,  *)
(* or one on top of the other.                                             *)
(***************************************************************************)
EXTENDS Lifecycle
=============================================================================
