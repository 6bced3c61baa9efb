----------------------------- MODULE Telemetry -----------------------------
(***************************************************************************)
(* The telemetry that goes out with every capture packet.  The GPS thread  *)
(* (Serialport::sub_routine, serialport.cpp) and the temperature thread    *)
(* (temperdev::sub_routine, hidtemp.cpp) copy what they measured into      *)
(* members of boardctl (submit_gpstime, submit_location, ...), and the     *)
(* boardctl thread copies the members into its packet; there is no lock.   *)
(*                                                                         *)
(* A member is a set of words, the pieces a copy moves at a time; a word   *)
(* holds the number of the fix, or of the temperature sample, it belongs   *)
(* to.  Neither the compiler nor the processor owes anybody the order of   *)
(* the copies within one fix, so the words are stored and loaded in any    *)
(* order; successive fixes are 43 reads of the port apart.                 *)
(***************************************************************************)
EXTENDS Naturals

CONSTANTS
  GpsWords,    \* the words of m_gpstime, m_location, m_valid[0] and m_angle
  TempWords,   \* the words of m_temparture
  MaxFix,      \* bound: fixes received
  MaxSample,   \* bound: temperature samples read
  MaxPkt       \* bound: packets assembled

Words == GpsWords \cup TempWords

ASSUME WordAssumption == GpsWords \cap TempWords = {} /\ GpsWords # {}
ASSUME BoundAssumption == MaxFix \in Nat /\ MaxSample \in Nat /\ MaxPkt \in Nat

VARIABLES
  m_board,     \* Serialport::m_board: unset until main calls set_boardctl
  member,      \* the members of boardctl: the number each word belongs to
  fix,         \* the fix t_rxgpspkt holds, by number
  gpsTodo,     \* the words of it the GPS thread has yet to store
  lastFix,     \* history: the last fix all of whose words were stored
  sample,      \* the last sample the temperature thread read
  submit_temperatue, \* the sample its text buffer holds, 0 before any
  tempTodo,    \* the words of it the temperature thread has yet to store
  lastTemp,    \* history: the last sample all of whose words were stored
  hid,         \* the temperature thread runs or has returned
  board,       \* where the boardctl thread is
  boardTodo,   \* the words it has yet to copy
  repdata,     \* its packet
  atLeast,     \* history: <<lastFix, lastTemp>> when it began to copy
  overlap,     \* history: a fix or a sample was being stored meanwhile
  pkts,        \* packets submitted
  alive        \* the process runs

gpsVars   == <<m_board, fix, gpsTodo, lastFix>>
tempVars  == <<sample, submit_temperatue, tempTodo, lastTemp, hid>>
boardVars == <<board, boardTodo, repdata, atLeast, pkts>>
vars == <<gpsVars, tempVars, boardVars, member, overlap, alive>>

Init ==
  /\ m_board \in {"null", "garbage"}    \* the constructor leaves it unset
  /\ member = [w \in Words |-> 0]       \* 0: what operator new left there
  /\ fix = 0 /\ gpsTodo = {} /\ lastFix = 0
  /\ sample = 0 /\ submit_temperatue = 0 /\ tempTodo = {} /\ lastTemp = 0
  /\ hid = "read"
  /\ board = "off" /\ boardTodo = {}
  /\ repdata = [w \in Words |-> 0]
  /\ atLeast = <<0, 0>>
  /\ overlap = FALSE
  /\ pkts = 0
  /\ alive = TRUE
-----------------------------------------------------------------------------
(* The main thread.                                                        *)

\* gpsport->set_boardctl(g_myboard), then g_myboard->init(): the GPS and the
\* temperature threads have been running for some time.
MainInit ==
  /\ m_board \in {"null", "garbage"}
  /\ m_board' = "boardctl"
  /\ board' = "poll"
  /\ UNCHANGED <<fix, gpsTodo, lastFix, tempVars, boardTodo, repdata, atLeast,
                 pkts, member, overlap, alive>>
-----------------------------------------------------------------------------
(* The GPS thread.                                                         *)

\* gps_finish: a whole packet has been received.  Without a boardctl it is
\* forgotten; with a pointer nobody set the process dies or scribbles over
\* memory of its own.
GpsFinish ==
  /\ gpsTodo = {}
  /\ fix < MaxFix
  /\ \/ /\ m_board = "boardctl"
        /\ fix' = fix + 1
        /\ gpsTodo' = GpsWords
        /\ overlap' = TRUE
        /\ UNCHANGED <<lastFix, alive>>
     \/ /\ m_board = "null"
        /\ UNCHANGED <<fix, gpsTodo, lastFix, overlap, alive>>
     \/ /\ m_board = "garbage"
        /\ alive' \in BOOLEAN
        /\ UNCHANGED <<fix, gpsTodo, lastFix, overlap>>
  /\ UNCHANGED <<m_board, tempVars, boardVars, member>>

\* submit_gpstime, submit_location, submit_valid_locate, submit_angle: the
\* copy of one word.
GpsStore ==
  \E w \in gpsTodo :
    /\ member' = [member EXCEPT ![w] = fix]
    /\ gpsTodo' = gpsTodo \ {w}
    /\ lastFix' = IF gpsTodo = {w} THEN fix ELSE lastFix
    /\ UNCHANGED <<m_board, fix, tempVars, boardVars, overlap, alive>>
-----------------------------------------------------------------------------
(* The temperature thread.                                                 *)

\* read() of the hiddev.  A sample of zeroes does not touch the text, which
\* is submitted all the same.
HidRead ==
  /\ hid = "read"
  /\ sample < MaxSample
  /\ \/ sample' = sample + 1 /\ submit_temperatue' = sample'
     \/ UNCHANGED <<sample, submit_temperatue>>
  /\ tempTodo' = TempWords
  /\ hid' = "store"
  /\ overlap' = TRUE
  /\ UNCHANGED <<lastTemp, gpsVars, boardVars, member, alive>>

\* A short read or an error: the thread returns, and nobody notices.
HidExit ==
  /\ hid = "read"
  /\ hid' = "exit"
  /\ UNCHANGED <<sample, submit_temperatue, tempTodo, lastTemp, gpsVars,
                 boardVars, member, overlap, alive>>

\* submit_tempature: the copy of one word.
HidStore ==
  \E w \in tempTodo :
    /\ member' = [member EXCEPT ![w] = submit_temperatue]
    /\ tempTodo' = tempTodo \ {w}
    /\ lastTemp' = IF tempTodo = {w} THEN submit_temperatue ELSE lastTemp
    /\ hid' = IF tempTodo = {w} THEN "read" ELSE "store"
    /\ UNCHANGED <<sample, submit_temperatue, gpsVars, boardVars, overlap, alive>>
-----------------------------------------------------------------------------
(* The boardctl thread.                                                    *)

\* A payload has been removed from m_rxevbuf (CapturePath): the members
\* are copied next.
BoardBegin ==
  /\ board = "poll"
  /\ pkts < MaxPkt
  /\ board' = "copy"
  /\ boardTodo' = Words
  /\ atLeast' = <<lastFix, lastTemp>>
  /\ overlap' = (gpsTodo # {} \/ tempTodo # {})
  /\ UNCHANGED <<repdata, pkts, gpsVars, tempVars, member, alive>>

BoardCopy_Some ==
  \E w \in boardTodo :
    /\ repdata' = [repdata EXCEPT ![w] = member[w]]
    /\ boardTodo' = {}
    /\ board' = "send"
    /\ UNCHANGED <<atLeast, pkts, gpsVars, tempVars, member, overlap, alive>>

\* The memcpys from the members to repdata: the copy of one word.
BoardCopy ==
  \E w \in boardTodo :
    /\ repdata' = [repdata EXCEPT ![w] = member[w]]
    /\ boardTodo' = boardTodo \ {w}
    /\ board' = IF boardTodo = {w} THEN "send" ELSE "copy"
    /\ UNCHANGED <<atLeast, pkts, gpsVars, tempVars, member, overlap, alive>>

\* m_upsock->submit(repdata, ...).
BoardSend ==
  /\ board = "send"
  /\ board' = "poll"
  /\ pkts' = pkts + 1
  /\ UNCHANGED <<boardTodo, repdata, atLeast, gpsVars, tempVars, member,
                 overlap, alive>>
-----------------------------------------------------------------------------
Next ==
  /\ alive
  /\ \/ MainInit
     \/ GpsFinish \/ GpsStore
     \/ HidRead \/ HidExit \/ HidStore
     \/ BoardBegin \/ BoardCopy \/ BoardSend

Spec == Init /\ [][Next]_vars
-----------------------------------------------------------------------------
(* Properties.                                                             *)

TypeOK ==
  /\ m_board \in {"null", "garbage", "boardctl"}
  /\ member \in [Words -> Nat]
  /\ fix \in Nat /\ gpsTodo \subseteq GpsWords /\ lastFix \in Nat
  /\ sample \in Nat /\ submit_temperatue \in Nat /\ lastTemp \in Nat
  /\ tempTodo \subseteq TempWords
  /\ hid \in {"read", "store", "exit"}
  /\ board \in {"off", "poll", "copy", "send"}
  /\ boardTodo \subseteq Words
  /\ repdata \in [Words -> Nat]
  /\ atLeast \in Nat \X Nat
  /\ overlap \in BOOLEAN
  /\ pkts \in Nat
  /\ alive \in BOOLEAN

\* Every word of a packet that is sent is at least as recent as the last
\* fix (or sample) that was complete when the assembly of the packet began,
\* and is of a fix that has been received: however the three threads
\* interleave, a packet never carries telemetry older than that.
Fresh ==
  board = "send" =>
    /\ \A w \in GpsWords : repdata[w] \in atLeast[1] .. fix
    /\ \A w \in TempWords : repdata[w] \in atLeast[2] .. submit_temperatue

\* A packet mixes the position of one fix with the time of another only if
\* a store was under way while it was assembled.
TornOnlyIfOverlap ==
  board = "send" /\ ~overlap =>
    /\ \A v, w \in GpsWords : repdata[v] = repdata[w]
    /\ \A v, w \in TempWords : repdata[v] = repdata[w]
=============================================================================
