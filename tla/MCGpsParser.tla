---------------------------- MODULE MCGpsParser ----------------------------
(***************************************************************************)
(* GpsParser on every stream of MaxBytes bytes: a tag of two letters and   *)
(* packets of four, so that two of them follow each other, touch, or stand *)
(* inside one another.                                                     *)
(***************************************************************************)
EXTENDS GpsParser
=============================================================================
