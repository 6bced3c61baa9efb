----------------------------- MODULE GpsParser -----------------------------
(***************************************************************************)
(* The receive loop of Serialport::sub_routine (serialport.cpp): one byte  *)
(* at a time out of the serial port, a tag, a packet of fixed length.  The *)
(* loop exists twice, for the GPS ("$AHRS:", gps_packet) and, compiled     *)
(* out, for the gun parser ("$FSA", GunResult); only the two lengths       *)
(* differ, and they are the constants here.                                *)
(*                                                                         *)
(* The letters of either tag are all different and '$' comes first, so a   *)
(* byte is the number of the tag's letter it is, or 0.  The packet buffer  *)
(* holds stream positions.                                                 *)
(***************************************************************************)
EXTENDS Naturals, Sequences

CONSTANTS
  TagLen,     \* strlen(locationGPS)
  PktLen,     \* sizeof(gps_packet)
  MaxBytes    \* bound: bytes received

\* The copy of the tag behind the tag (memcpy(pdata, locationGPS, ...))
\* must fit into the packet.
ASSUME LengthAssumption ==
  /\ TagLen \in Nat /\ PktLen \in Nat
  /\ TagLen >= 2
  /\ 2 * TagLen <= PktLen

VARIABLES
  stream,      \* history: the bytes received so far
  buf,         \* the cells of buf the tag is compared in, by content; what
               \*   else the loop keeps there is overwritten before that
  head_index,  \* the cell of buf the next byte goes to
  gps_state,   \* wait, header or data; finish does not survive the loop body
  cnt,         \* bytes of the packet received
  pdata,       \* how many bytes of t_rxgpspkt are filled
  t_rxgpspkt,  \* the stream position of the byte in each cell, 0 a copied one
  published    \* history: where the submitted packets began

vars == <<stream, buf, head_index, gps_state, cnt, pdata, t_rxgpspkt, published>>

Byte == 0 .. TagLen
Dollar == 1
Pos == Len(stream) + 1      \* the position of the byte read next

Init ==
  /\ stream = <<>>
  /\ buf = [i \in 0 .. TagLen - 1 |-> 0]
  /\ head_index = 0
  /\ gps_state = "gps_wait"
  /\ cnt = 0
  /\ pdata = 0
  /\ t_rxgpspkt = [i \in 0 .. PktLen - 1 |-> 0]
  /\ published = <<>>

\* read(m_fd, &buf[head_index], 1)
Read(b) ==
  /\ Len(stream) < MaxBytes
  /\ stream' = Append(stream, b)
  /\ buf' = [buf EXCEPT ![head_index] = b]

\* *pdata++ = the byte read; a store behind the packet would be lost here,
\* and NoOverrun says it does not happen.
Store == t_rxgpspkt' = [t_rxgpspkt EXCEPT ![pdata] = Pos] /\ pdata' = pdata + 1

GpsWait(b) ==
  /\ gps_state = "gps_wait"
  /\ Read(b)
  /\ IF b = Dollar
       THEN /\ Store
            /\ cnt' = 1
            /\ head_index' = 1
            /\ gps_state' = "gps_header"
       ELSE UNCHANGED <<head_index, gps_state, cnt, pdata, t_rxgpspkt>>
  /\ UNCHANGED published

\* memcmp over one letter less.
IsTag_OneLess(f) == \A i \in 0 .. TagLen - 2 : f[i] = i + 1
IsTag(f) == \A i \in 0 .. TagLen - 1 : f[i] = i + 1

\* The tag was compared and is not the tag: back to waiting, with the bytes
\* compared all used up.
GpsReject_KeepsData ==
  /\ gps_state' = "gps_wait"
  /\ head_index' = 0
  /\ UNCHANGED cnt
  /\ Store
GpsReject ==
  /\ gps_state' = "gps_wait"
  /\ head_index' = 0
  /\ pdata' = 0
  /\ t_rxgpspkt' = [t_rxgpspkt EXCEPT ![pdata] = Pos]
  /\ UNCHANGED cnt

\* The count goes on from where it was.
GpsAccept_KeepsCnt ==
  /\ gps_state' = "gps_data"
  /\ UNCHANGED cnt
  /\ head_index' = 0
  /\ pdata' = pdata + 1
  /\ t_rxgpspkt' = [t_rxgpspkt EXCEPT ![pdata] = Pos]

\* The tag was compared and is the tag; it is copied into the packet once
\* more, behind itself, where the data will overwrite it.
GpsAccept ==
  /\ gps_state' = "gps_data"
  /\ cnt' = head_index + 1
  /\ head_index' = 0
  /\ pdata' = pdata + 1
  /\ t_rxgpspkt' = [i \in 0 .. PktLen - 1 |->
                      IF i = pdata THEN Pos
                      ELSE IF i \in pdata + 1 .. pdata + TagLen THEN 0
                      ELSE t_rxgpspkt[i]]

GpsHeader(b) ==
  /\ gps_state = "gps_header"
  /\ Read(b)
  /\ \/ /\ head_index + 1 < TagLen
        /\ Store
        /\ head_index' = head_index + 1
        /\ UNCHANGED <<gps_state, cnt>>
     \/ /\ head_index + 1 = TagLen
        /\ IF IsTag(buf') THEN GpsAccept ELSE GpsReject
  /\ UNCHANGED published

\* The packet is complete: everything is reset and the fields are submitted
\* to boardctl.
GpsFinish ==
  /\ gps_state' = "gps_wait"
  /\ head_index' = 0
  /\ cnt' = 0
  /\ pdata' = 0
  /\ t_rxgpspkt' = [t_rxgpspkt EXCEPT ![pdata] = Pos]
  /\ published' = Append(published, t_rxgpspkt'[0])

GpsData(b) ==
  /\ gps_state = "gps_data"
  /\ Read(b)
  /\ IF cnt + 1 = PktLen
       THEN GpsFinish
       ELSE /\ Store
            /\ cnt' = cnt + 1
            /\ UNCHANGED <<gps_state, head_index, published>>

Next == \E b \in Byte : GpsWait(b) \/ GpsHeader(b) \/ GpsData(b)

Spec == Init /\ [][Next]_vars
-----------------------------------------------------------------------------
(* Properties.                                                             *)

TypeOK ==
  /\ stream \in Seq(Byte)
  /\ buf \in [0 .. TagLen - 1 -> Byte]
  /\ head_index \in 0 .. TagLen - 1
  /\ gps_state \in {"gps_wait", "gps_header", "gps_data"}
  /\ cnt \in 0 .. PktLen - 1
  /\ pdata \in Nat
  /\ t_rxgpspkt \in [0 .. PktLen - 1 -> Nat]
  /\ published \in Seq(Nat)

\* No byte is stored behind the end of t_rxgpspkt.
NoOverrun ==
  /\ pdata < PktLen
  /\ gps_state = "gps_header" => pdata + 1 + (TagLen - 1 - head_index) + TagLen <= PktLen

\* The filled part of the packet is the last pdata bytes received.
Contiguous == \A i \in 0 .. pdata - 1 : t_rxgpspkt[i] = Len(stream) - pdata + i + 1

TagAt(p) ==
  /\ p + TagLen - 1 <= Len(stream)
  /\ \A j \in 1 .. TagLen : stream[p + j - 1] = j

\* Published packets begin with the tag, are whole, and do not overlap.
PublishedTagged ==
  \A k \in 1 .. Len(published) :
    /\ TagAt(published[k])
    /\ published[k] + PktLen - 1 <= Len(stream)
    /\ k > 1 => published[k - 1] + PktLen <= published[k]

\* Whatever bytes arrive, nothing is stored outside the packet: not by the
\* next *pdata++, and not by the copy of the tag at the end of the header.
\* What is in it is the tag and what followed it, without a gap, though four
\* variables that say so are advanced and reset apart from each other; and
\* what is published is a packet, of which no byte was published before.
PacketIntact == TypeOK /\ NoOverrun /\ Contiguous /\ PublishedTagged

Published(p) == \E k \in 1 .. Len(published) : published[k] = p

\* A packet that arrived whole is published, unless a '$' shortly before it
\* made the loop swallow its tag (a rejected tag is not scanned again), or
\* its tag stands inside a packet that was published.
MissedOnlyIfMasked ==
  \A p \in 1 .. Len(stream) :
    TagAt(p) /\ p + PktLen - 1 <= Len(stream) =>
      \/ Published(p)
      \/ \E d \in 1 .. TagLen - 1 : p > d /\ stream[p - d] = Dollar
      \/ \E d \in 1 .. PktLen - 1 : p > d /\ Published(p - d)

\* What the loop computes, said without a loop: FramesFrom(s)[p] is where
\* packets begin in the stream s from position p on.
FramesFrom(s) ==
  LET f[p \in 1 .. Len(s) + PktLen] ==
        IF p > Len(s) THEN <<>>
        ELSE IF s[p] # Dollar THEN f[p + 1]
        ELSE IF p + TagLen - 1 > Len(s) THEN <<>>
        ELSE IF \E j \in 1 .. TagLen : s[p + j - 1] # j THEN f[p + TagLen]
        ELSE IF p + PktLen - 1 > Len(s) THEN <<>>
        ELSE <<p>> \o f[p + PktLen]
  IN f
Frames(s) == FramesFrom(s)[1]
FindsFrames == published = Frames(stream)
=============================================================================
