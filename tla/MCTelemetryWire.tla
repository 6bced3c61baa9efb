-------------------------- MODULE MCTelemetryWire --------------------------
(***************************************************************************)
(* TelemetryWire with two words of position, so that one can be of another *)
(* fix than the other, and one each of temperature and direction, which    *)
(* are copied over the first of them.                                      *)
(***************************************************************************)
EXTENDS TelemetryWire

CONSTANTS l1, l2, c, d

BodyPlace == [w \in {l1, l2, c, d} |-> IF w = l2 THEN "body2" ELSE "body1"]
=============================================================================
