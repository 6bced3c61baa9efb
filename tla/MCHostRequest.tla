--------------------------- MODULE MCHostRequest ---------------------------
(***************************************************************************)
(* HostRequest with up to three requests a connection, cut in every way,   *)
(* and a read that holds two.                                              *)
(***************************************************************************)
EXTENDS HostRequest

Types == {"msg_GPS", "msg_temperatue", "msg_direciton", "other"}
MCRequests == [1 .. 2 -> Types] \cup
  {<<"msg_GPS", "msg_temperatue", "msg_GPS">>, <<"other", "msg_GPS", "other">>}
=============================================================================
