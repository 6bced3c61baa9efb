--------------------------- MODULE TelemetryWire ---------------------------
(***************************************************************************)
(* The telemetry as the host sees it.  It comes to it in two kinds of      *)
(* message that share one connection: the packets of the boardctl thread   *)
(* (Telemetry) and the answers of host_request_proc (boardctl.cpp), which  *)
(* copies the same members on the main thread.  Neither copy has a lock;   *)
(* only bufferevent_write puts whole messages one after the other.         *)
(*                                                                         *)
(* The body of an answer is static and sent whole, but a request copies    *)
(* only the words of its type into it.  So an answer may carry more than   *)
(* it was asked for: what earlier requests have left there.                *)
(***************************************************************************)
EXTENDS Telemetry, Sequences

CONSTANTS
  LocationWords,   \* the words of m_location a reply has room for
  DirectionWords,  \* the words of m_direction, which nobody ever stores to
  Place,           \* where in the body each word is copied to
  MaxReply         \* bound: answers given

AllWords == Words \cup DirectionWords

ASSUME LocationAssumption == LocationWords \subseteq GpsWords
ASSUME DirectionAssumption == DirectionWords \cap Words = {}
\* One memcpy does not write to the same place twice.
ASSUME PlaceAssumption ==
  \A ws \in {LocationWords, TempWords, DirectionWords} :
    \A v, w \in ws : Place[v] = Place[w] => v = w
ASSUME ReplyAssumption == MaxReply \in Nat

VARIABLES
  main,          \* where the main thread is
  mainTodo,      \* the words it has yet to copy
  replymsg,      \* the static reply: the words its body holds, by number
  asked,         \* history: the words of the request being answered
  replyAtLeast,  \* history: <<lastFix, lastTemp>> when it began to copy
  replyOverlap,  \* history: a fix or a sample was being stored meanwhile
  begun,         \* history: the length of wire when the packet and the
                 \*   answer in progress were begun
  wire           \* history: the messages submitted

replyVars == <<main, mainTodo, replymsg, asked, replyAtLeast>>
wireVars == <<vars, replyVars, replyOverlap, begun, wire>>

WireInit ==
  /\ Init
  /\ main = "start"
  /\ mainTodo = {}
  /\ replymsg = [w \in {} |-> 0]
  /\ asked = {}
  /\ replyAtLeast = <<0, 0>>
  /\ replyOverlap = FALSE
  /\ begun = [packet |-> 0, reply |-> 0]
  /\ wire = <<>>
-----------------------------------------------------------------------------
\* A store under way, for the history of the reply.
NoteOverlap == replyOverlap' = (replyOverlap \/ gpsTodo' # {} \/ tempTodo' # {})

\* main(): set_boardctl and g_myboard->init, then the event loop.
LoopBegin ==
  /\ MainInit
  /\ main' = "loop"
  /\ UNCHANGED <<mainTodo, replymsg, asked, replyAtLeast, replyOverlap, begun,
                 wire>>

\* The GPS and the temperature threads.
SensorStep ==
  /\ \/ GpsFinish \/ GpsStore
     \/ HidRead \/ HidExit \/ HidStore
  /\ NoteOverlap
  /\ UNCHANGED <<replyVars, begun, wire>>

PacketBegin ==
  /\ BoardBegin
  /\ begun' = [begun EXCEPT !.packet = Len(wire)]
  /\ UNCHANGED <<replyVars, replyOverlap, wire>>

PacketCopy ==
  /\ BoardCopy
  /\ UNCHANGED <<replyVars, replyOverlap, begun, wire>>

PacketSend ==
  /\ BoardSend
  /\ wire' = Append(wire, [words |-> repdata, asked |-> Words,
                           begun |-> begun.packet, answer |-> FALSE])
  /\ UNCHANGED <<replyVars, replyOverlap, begun>>
-----------------------------------------------------------------------------
(* host_request_proc, on the main thread.                                  *)

\* Given so far: pkts counts the other messages on the wire.
ReplyAllowed == main = "loop" /\ Len(wire) - pkts < MaxReply

\* Only what the body does not hold yet is copied.
RequestKnown_Cached(ws) ==
  /\ ReplyAllowed
  /\ main' = "copy"
  /\ mainTodo' = ws \ DOMAIN replymsg
  /\ asked' = ws
  /\ replyAtLeast' = <<lastFix, lastTemp>>
  /\ replyOverlap' = (gpsTodo # {} \/ tempTodo # {})
  /\ begun' = [begun EXCEPT !.reply = Len(wire)]
  /\ UNCHANGED <<vars, replymsg, wire>>

\* A request for the words ws: msg_GPS, msg_temperatue or msg_direciton.
\* What else the body holds stays there.
RequestKnown(ws) ==
  /\ ReplyAllowed
  /\ main' = "copy"
  /\ mainTodo' = ws
  /\ asked' = ws
  /\ replyAtLeast' = <<lastFix, lastTemp>>
  /\ replyOverlap' = (gpsTodo # {} \/ tempTodo # {})
  /\ begun' = [begun EXCEPT !.reply = Len(wire)]
  /\ UNCHANGED <<vars, replymsg, wire>>

\* What a word of the body is copied from.
Source(w) == IF w \in Words THEN member[w] ELSE 0

\* The answer to an unknown type is brought up to date as well.
RequestOther_Refreshed ==
  /\ ReplyAllowed
  /\ wire' = Append(wire, [words |-> [w \in DOMAIN replymsg |-> Source(w)],
                           asked |-> {}, begun |-> Len(wire), answer |-> TRUE])
  /\ UNCHANGED <<vars, replyVars, replyOverlap, begun>>

\* A type the switch does not know: the reply goes out as the last request
\* has left it, of that request's type.
RequestOther ==
  /\ ReplyAllowed
  /\ wire' = Append(wire, [words |-> replymsg, asked |-> {},
                           begun |-> Len(wire), answer |-> TRUE])
  /\ UNCHANGED <<vars, replyVars, replyOverlap, begun>>

\* Only the first word reaches the body.
ReplyCopy_Some ==
  \E w \in mainTodo :
    /\ replymsg' = [v \in DOMAIN replymsg \cup asked |->
                      IF v = w THEN Source(w)
                      ELSE IF v \in DOMAIN replymsg THEN replymsg[v] ELSE 0]
    /\ mainTodo' = {}
    /\ UNCHANGED <<vars, main, asked, replyAtLeast, replyOverlap, begun, wire>>

\* The words that stay in the body when w is copied to its place.
Left(w) == {v \in DOMAIN replymsg : Place[v] # Place[w]}

\* memcpy into the body of the reply: the copy of one word, over whichever
\* word of an earlier request has stood there.
ReplyCopy ==
  \E w \in mainTodo :
    /\ replymsg' = [v \in Left(w) \cup {w} |->
                      IF v = w THEN Source(w) ELSE replymsg[v]]
    /\ mainTodo' = mainTodo \ {w}
    /\ UNCHANGED <<vars, main, asked, replyAtLeast, replyOverlap, begun, wire>>

\* m_upsock->submit(&replymsg, ...): bufferevent_write under its lock.
ReplySend ==
  /\ main = "copy"
  /\ mainTodo = {}
  /\ main' = "loop"
  /\ wire' = Append(wire, [words |-> replymsg, asked |-> asked,
                           begun |-> begun.reply, answer |-> TRUE])
  /\ asked' = {}
  /\ UNCHANGED <<vars, mainTodo, replymsg, replyAtLeast, replyOverlap,
                 begun>>
-----------------------------------------------------------------------------
WireNext ==
  /\ alive
  /\ \/ LoopBegin
     \/ SensorStep
     \/ PacketBegin \/ PacketCopy \/ PacketSend
     \/ RequestKnown(LocationWords) \/ RequestKnown(TempWords)
     \/ RequestKnown(DirectionWords) \/ RequestOther
     \/ ReplyCopy \/ ReplySend

WireSpec == WireInit /\ [][WireNext]_wireVars
-----------------------------------------------------------------------------
(* Properties.                                                             *)

\* What a message carries: words by number, m_direction always 0.
IsReading(words) ==
  /\ DOMAIN words \subseteq AllWords
  /\ \A w \in DOMAIN words :
       words[w] \in Nat /\ (w \in DirectionWords => words[w] = 0)

IsMessage(m) ==
  /\ IsReading(m.words)
  /\ m.asked \subseteq DOMAIN m.words
  /\ m.begun \in Nat
  /\ m.answer \in BOOLEAN

WireTypeOK ==
  /\ TypeOK
  /\ main \in {"start", "loop", "copy"}
  /\ asked \in {{}, LocationWords, TempWords, DirectionWords}
  /\ mainTodo \subseteq asked
  /\ asked \ mainTodo \subseteq DOMAIN replymsg
  /\ IsReading(replymsg)
  /\ replyAtLeast \in Nat \X Nat
  /\ replyOverlap \in BOOLEAN
  /\ begun \in [packet : 0 .. Len(wire), reply : 0 .. Len(wire)]
  /\ \A i \in 1 .. Len(wire) : IsMessage(wire[i]) /\ wire[i].begun < i

Answered == main = "copy" /\ mainTodo = {}

\* As Fresh says of packets: in the words it was asked for, an answer is no
\* older than the last fix, or sample, that was complete when its request
\* was read.
ReplyFresh ==
  Answered =>
    /\ \A w \in asked \cap GpsWords : replymsg[w] \in replyAtLeast[1] .. fix
    /\ \A w \in asked \cap TempWords :
         replymsg[w] \in replyAtLeast[2] .. submit_temperatue

\* As TornOnlyIfOverlap says of packets: in the words it was asked for, an
\* answer mixes the positions of two fixes only if one of them was being
\* stored while it was copied.
ReplyTornOnlyIfOverlap ==
  Answered /\ ~replyOverlap =>
    \A v, w \in asked :
      {v, w} \subseteq GpsWords \/ {v, w} \subseteq TempWords
        => replymsg[v] = replymsg[w]

\* However five threads interleave without a lock, no packet carries
\* telemetry older than what was complete when it was begun, nor does an
\* answer in the words its request asks for, though the members, the packet
\* and the static reply keep what earlier fixes and requests put there.  Of
\* the rest of an answer, and of the whole of one to an unknown type, it
\* says nothing: that may be of any age (RestIsRepeated).
NeverStale == WireTypeOK /\ Fresh /\ ReplyFresh

\* A packet mixes two fixes, or two samples, only if a store overlapped the
\* copying into it, and so do the words an answer was asked for.
MixedOnlyIfOverlap == TornOnlyIfOverlap /\ ReplyTornOnlyIfOverlap

\* The two kinds of message can overtake each other: an answer that is sent
\* before a packet can be the younger of the two.  But only if both were in
\* the making at once; a message begun when another had been submitted is
\* never older than that one, in any word that one carries and this one was
\* asked for.  The exception is the rest of an answer, which is all of it
\* when the type is unknown: it may well be older than earlier messages.
WireInOrder ==
  \A j \in 1 .. Len(wire) : \A i \in 1 .. wire[j].begun :
    \A w \in DOMAIN wire[i].words \cap wire[j].asked :
      wire[i].words[w] <= wire[j].words[w]

\* The answer i was asked for w, and none after it up to n was.
LastAsked(w, i, n) ==
  /\ wire[i].answer /\ w \in wire[i].asked
  /\ \A k \in i + 1 .. n : wire[k].answer => w \notin wire[k].asked

\* What an answer carries besides what it was asked for is not memory that
\* nobody has set, and no mixture of its own: each such word is the one the
\* host has already got with the latest answer that was asked for it.  So
\* the second half of a position behind a temperature, or the answer to an
\* unknown type, is as old as that answer, whatever the members hold by now.
RestIsRepeated ==
  \A j \in 1 .. Len(wire) : wire[j].answer =>
    \A w \in DOMAIN wire[j].words \ wire[j].asked :
      \E i \in 1 .. j - 1 :
        LastAsked(w, i, j - 1) /\ wire[i].words[w] = wire[j].words[w]
=============================================================================
