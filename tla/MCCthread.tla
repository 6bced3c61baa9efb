----------------------------- MODULE MCCthread -----------------------------
(***************************************************************************)
(* Cthread with three threads: one can be stopped, one started over it,    *)
(* and one can come after a cancel.                                        *)
(***************************************************************************)
EXTENDS Cthread
=============================================================================
