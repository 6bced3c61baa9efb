---------------------------- MODULE MCTemperdev ----------------------------
(***************************************************************************)
(* Temperdev with reports of four events.                                  *)
(***************************************************************************)
EXTENDS Temperdev
=============================================================================
