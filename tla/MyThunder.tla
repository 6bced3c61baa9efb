----------------------------- MODULE MyThunder -----------------------------
(***************************************************************************)
(* From the FPGA device to the host: the capture path (CapturePath) feeds  *)
(* the uplink, and the event loop sends what the uplink has taken.  The    *)
(* uplink is represented by what it promises, UplinkSession; DataSocket    *)
(* implements that (theorem UplinkIsSession of DataSocketProofs).          *)
(*                                                                         *)
(* A packet is known by its number, that of the payload it carries.        *)
(***************************************************************************)
EXTENDS Naturals, Sequences

CONSTANTS
  EIMUNIT_LEN, DATA_PALOAD_LEN, StreamLen, Streams,   \* see CapturePath
  MaxConns    \* bound: connections made

ASSUME ConnAssumption == MaxConns \in Nat
\* The assumptions of CapturePath.
ASSUME CaptureAssumption ==
  /\ EIMUNIT_LEN \in Nat \ {0}
  /\ DATA_PALOAD_LEN \in Nat \ {0}
  /\ StreamLen \in Nat
  /\ Streams \subseteq [0 .. StreamLen - 1 -> 0 .. 4]

VARIABLES
  \* the EIM and boardctl threads, see CapturePath
  stream, devpos, readdata, first_frame, base, skip, firstLen,
  m_rxevbuf, taken, board, capdata, sent, alive,
  \* the uplink, see UplinkSession
  open, log, n, late,
  output,    \* the packets in the output of the session's bufferevent
  conns,     \* how many sessions there have been
  received,  \* history: the packets the host has got whole
  lost       \* history: the packets it will never get

captureVars == <<stream, devpos, readdata, first_frame, base, skip, firstLen,
                 m_rxevbuf, taken, board, capdata, sent, alive>>
uplinkVars  == <<open, log, n, late>>
vars == <<captureVars, uplinkVars, output, conns, received, lost>>

Capture == INSTANCE CapturePath
Uplink  == INSTANCE UplinkSession

Init ==
  /\ Capture!Init
  /\ Uplink!Init
  /\ output = <<>>
  /\ conns = 0
  /\ received = <<>>
  /\ lost = {}
-----------------------------------------------------------------------------
(* The threads, up to the moment at which a packet is complete.            *)

\* EIMDATA::sub_routine: one turn.
EimStep ==
  /\ \/ \E k \in 1 .. EIMUNIT_LEN : Capture!EimRead(k)
     \/ Capture!EimReadError
  /\ UNCHANGED <<uplinkVars, output, conns, received, lost>>

\* boardctl::sub_routine before its submit.
BoardAssemble ==
  /\ Capture!BoardPoll \/ Capture!BoardRemove
  /\ UNCHANGED <<uplinkVars, output, conns, received, lost>>
-----------------------------------------------------------------------------
(* DataSocket::submit, called by the boardctl thread.                      *)

\* bufferevent_write copies the packet; the boardctl thread reuses it.
Written == [number |-> sent + 1, data |-> capdata]

\* The packet joins the output.
SubmitPut ==
  /\ Capture!BoardSend
  /\ Uplink!Put
  /\ output' = Append(output, Written)
  /\ UNCHANGED <<conns, received, lost>>

\* Without a session it is lost, and when it misses the session.
SubmitDrop ==
  /\ Capture!BoardSend
  /\ Uplink!Drop
  /\ lost' = lost \cup {sent + 1}
  /\ UNCHANGED <<output, conns, received>>

\* The process may die of it too.
SubmitDies ==
  /\ board = "send"
  /\ Uplink!Die
  /\ UNCHANGED <<stream, devpos, readdata, first_frame, base, skip, firstLen,
                 m_rxevbuf, taken, board, capdata, sent>>
  /\ UNCHANGED <<output, conns, received, lost>>
-----------------------------------------------------------------------------
(* The event loop.                                                         *)

\* init or restart: a new bufferevent, whose output is empty.  A submit that
\* has begun may hold the pointer to the one before.
Connect ==
  /\ conns < MaxConns
  /\ Uplink!Open
  /\ late' => board = "send"
  /\ conns' = conns + 1
  /\ UNCHANGED <<captureVars, output, received, lost>>

\* The unsent output moves to the next session's bufferevent.
Release_KeepsOutput ==
  /\ Uplink!Close
  /\ UNCHANGED <<captureVars, output, conns, received, lost>>

\* on_socket_event and release: bufferevent_free, BEV_OPT_CLOSE_ON_FREE.
\* The unsent output is gone, a packet sent in part with it.
Release ==
  /\ Uplink!Close
  /\ output' = <<>>
  /\ lost' = lost \cup {output[i].number : i \in 1 .. Len(output)}
  /\ UNCHANGED <<captureVars, conns, received>>

\* The loop writes the output to the socket, and the host has received the
\* last byte of the packet at its front.
Deliver ==
  /\ open
  /\ output # <<>>
  /\ received' = Append(received, [conn |-> conns, pkt |-> Head(output)])
  /\ output' = Tail(output)
  /\ UNCHANGED <<captureVars, uplinkVars, conns, lost>>
-----------------------------------------------------------------------------
Board == BoardAssemble \/ SubmitPut \/ SubmitDrop

Next ==
  /\ alive
  /\ \/ EimStep
     \/ BoardAssemble \/ SubmitPut \/ SubmitDrop \/ SubmitDies
     \/ Connect \/ Release \/ Deliver

Spec == Init /\ [][Next]_vars

\* The boardctl thread keeps running, and a connection that stays carries
\* what is written to it.  Nothing is assumed of the device, and nothing of
\* the host making or keeping connections.
FairSpec == Spec /\ WF_vars(alive /\ Board) /\ WF_vars(alive /\ Deliver)
-----------------------------------------------------------------------------
(* Properties.                                                             *)

Packet == [number : Nat, data : [1 .. DATA_PALOAD_LEN -> 0 .. StreamLen]]

TypeOK ==
  /\ Capture!TypeOK
  /\ open \in BOOLEAN /\ log \in Seq(Nat) /\ n \in Nat /\ late \in BOOLEAN
  /\ output \in Seq(Packet)
  /\ conns \in 0 .. MaxConns
  /\ received \in Seq([conn : 1 .. MaxConns, pkt : Packet])
  /\ lost \subseteq 1 .. n

\* No packet is forgotten: each that boardctl has finished is on its way,
\* with the host, or was lost with a connection or for want of one; and what
\* the host has is not counted as lost.
Accounted ==
  LET waiting == {output[i].number : i \in 1 .. Len(output)}
      got     == {received[i].pkt.number : i \in 1 .. Len(received)}
  IN /\ waiting \cup got \cup lost = 1 .. sent
     /\ lost \cap (waiting \cup got) = {}

\* Over all connections the host gets the payloads in the order in which
\* they were captured and none twice; a payload is missing between two of
\* them only where the connection was lost in between, and none without
\* having been lost.
HostInOrder ==
  /\ TypeOK /\ Accounted
  /\ \A i \in 2 .. Len(received) :
    LET before == received[i - 1]
        this   == received[i]
    IN /\ before.pkt.number < this.pkt.number
       /\ this.pkt.number # before.pkt.number + 1 => before.conn < this.conn

\* The bytes of a received packet are those at the place its number says in
\* what the EIM thread handed on, whatever the boardctl thread has done to its
\* packet since.
BytesInPlace ==
  \A i \in 1 .. Len(received) : \A j \in 1 .. DATA_PALOAD_LEN :
    LET pkt == received[i].pkt IN
    pkt.data[j] = Capture!OutPos((pkt.number - 1) * DATA_PALOAD_LEN + j - 1)

\* Two bytes of the device's stream that the host may take for neighbours:
\* they are, or the skip bytes at the end of the chunk with the first header
\* are missing between them (eimdata.cpp:91).
Follows(p, q) ==
  q = p + 1 \/ (p = base + firstLen - 1 /\ q = base + firstLen + skip)

\* The payloads of one connection, put together, are a piece of the device's
\* stream with nothing doubled, moved or left out, but for that one place.
HostBytesTile ==
  /\ BytesInPlace
  /\ \A i \in 1 .. Len(received) :
       LET this   == received[i]
           before == received[i - 1]
       IN /\ \A j \in 1 .. DATA_PALOAD_LEN - 1 :
               Follows(this.pkt.data[j], this.pkt.data[j + 1])
          /\ i > 1 /\ this.conn = before.conn =>
               Follows(before.pkt.data[DATA_PALOAD_LEN], this.pkt.data[1])

\* While a connection lasts, every whole payload that is captured and not
\* yet submitted reaches the host: the board has no state in which it keeps
\* packets back.  Only a packet whose submit began before the connection can
\* miss it.
Delivered ==
  \A k \in 1 .. StreamLen \div DATA_PALOAD_LEN :
    (/\ open /\ ~late
     /\ sent < k /\ k * DATA_PALOAD_LEN <= taken + Len(m_rxevbuf))
      ~> \/ ~open \/ ~alive
         \/ \E i \in 1 .. Len(received) : received[i].pkt.number = k
=============================================================================
