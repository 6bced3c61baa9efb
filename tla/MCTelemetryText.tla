-------------------------- MODULE MCTelemetryText --------------------------
(***************************************************************************)
(* TelemetryText over a day and a half, with the samples around each       *)
(* change of the number of digits.                                         *)
(***************************************************************************)
EXTENDS TelemetryText

MCValues == {1, 9, 10, 99, 100, 101, 250, 999, 1000, 1001, 1009, 1010,
             9999, 10000, 10001, 32767, 32768, 65535}
=============================================================================
