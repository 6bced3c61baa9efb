------------------------ MODULE TelemetryWireProofs ------------------------
(***************************************************************************)
(* The telemetry for any number of words, fixes, samples and messages:     *)
(* what TelemetryWire.tla states as invariants.  And the text of the       *)
(* readings in it, for any hour and any sample: what TelemetryText.tla     *)
(* states.                                                                 *)
(***************************************************************************)
EXTENDS TelemetryWire, TelemetryText, SequenceTheorems, TLAPS

\* What a word is measured against: the latest fix or sample there is and
\* the last one all of whose words were stored.
Newest(w) == IF w \in GpsWords THEN fix ELSE submit_temperatue
Complete(w) == IF w \in GpsWords THEN lastFix ELSE lastTemp
Floor(al, w) == IF w \in GpsWords THEN al[1] ELSE al[2]
Todo == gpsTodo \cup tempTodo

Readings == {r \in UNION {[D -> Nat] : D \in SUBSET AllWords} :
               \A w \in DOMAIN r \cap DirectionWords : r[w] = 0}
Message == [words : Readings, asked : SUBSET AllWords, begun : Nat,
            answer : BOOLEAN]
Requests == {LocationWords, TempWords, DirectionWords}

Types ==
  /\ TypeOK
  /\ main \in {"start", "loop", "copy"}
  /\ replymsg \in Readings
  /\ asked \in Requests \cup {{}} /\ mainTodo \subseteq asked
  /\ asked \ mainTodo \subseteq DOMAIN replymsg
  /\ replyAtLeast \in Nat \X Nat
  /\ replyOverlap \in BOOLEAN
  /\ begun \in [packet : 0 .. Len(wire), reply : 0 .. Len(wire)]
  /\ wire \in Seq(Message)
  /\ \A i \in 1 .. Len(wire) :
       wire[i].begun < i /\ wire[i].asked \subseteq DOMAIN wire[i].words

\* A member is between the last complete reading and the latest one, and is
\* the latest unless its copy is still to come.
SensorInv ==
  /\ \A w \in Words : Complete(w) <= member[w] /\ member[w] <= Newest(w)
  /\ \A w \in Words \ Todo : member[w] = Newest(w)
  /\ gpsTodo = {} => lastFix = fix
  /\ hid # "store" => tempTodo = {}
  /\ submit_temperatue <= sample

\* What a copy in progress has so far, D of its words: begun when the wire
\* had n messages, al was complete, and ov tells of a store meanwhile.
CopyInv(words, D, al, n, ov) ==
  /\ \A w \in Words : Floor(al, w) <= Complete(w)
  /\ \A w \in D : Floor(al, w) <= words[w] /\ words[w] <= Newest(w)
  /\ \A w \in D : \A i \in 1 .. n :
       w \in DOMAIN wire[i].words => wire[i].words[w] <= words[w]
  /\ ~ov => Todo = {} /\ \A w \in D : words[w] = Newest(w)

PacketInv ==
  /\ board # "copy" => boardTodo = {}
  /\ board \in {"copy", "send"} =>
       CopyInv(repdata, Words \ boardTodo, atLeast, begun.packet, overlap)

Copied == (asked \cap Words) \ mainTodo

ReplyInv ==
  /\ main # "copy" => mainTodo = {}
  /\ main = "copy" =>
       CopyInv(replymsg, Copied, replyAtLeast, begun.reply, replyOverlap)

\* Members never go back, so no copy of one is ahead of it.
BehindInv ==
  /\ \A w \in Words : repdata[w] <= member[w]
  /\ \A w \in DOMAIN replymsg \cap Words : replymsg[w] <= member[w]
  /\ \A i \in 1 .. Len(wire) : \A w \in DOMAIN wire[i].words \cap Words :
       wire[i].words[w] <= member[w]

\* Nothing is assembled before main has set the pointer.
StartInv == m_board # "boardctl" => board = "off" /\ main = "start"

IInv ==
  /\ Types /\ StartInv
  /\ SensorInv /\ PacketInv /\ ReplyInv /\ BehindInv /\ WireInOrder
-----------------------------------------------------------------------------
LEMMA ReadingOf ==
  ASSUME NEW D \in SUBSET AllWords, NEW r \in [D -> Nat],
         \A w \in D \cap DirectionWords : r[w] = 0
  PROVE  r \in Readings
<1>1. [D -> Nat] \in {[E -> Nat] : E \in SUBSET AllWords} /\ DOMAIN r = D
  OBVIOUS
<1> QED
  BY <1>1 DEF Readings

LEMMA WordsOfReading ==
  ASSUME NEW r \in Readings
  PROVE  /\ DOMAIN r \subseteq AllWords
         /\ \A w \in DOMAIN r : r[w] \in Nat
         /\ \A w \in DOMAIN r \cap DirectionWords : r[w] = 0
BY DEF Readings

\* A word is of a member or of m_direction, and what is asked for at once
\* is of one kind.
LEMMA Kinds ==
  /\ \A w \in AllWords : w \in Words \/ w \in DirectionWords
  /\ \A w \in DirectionWords : w \notin Words
  /\ \A ws \in Requests : ws \subseteq AllWords
BY LocationAssumption, DirectionAssumption DEF AllWords, Words, Requests

LEMMA WordTypes ==
  ASSUME TypeOK
  PROVE  \A w \in Words : /\ Newest(w) \in Nat /\ Complete(w) \in Nat
                          /\ member[w] \in Nat /\ repdata[w] \in Nat
BY DEF TypeOK, Newest, Complete

LEMMA FloorType ==
  ASSUME NEW al \in Nat \X Nat
  PROVE  \A w : Floor(al, w) \in Nat
BY DEF Floor

LEMMA InitIInv == WireInit => IInv
<1> SUFFICES ASSUME WireInit PROVE IInv
  OBVIOUS
<1> USE DEF WireInit, Init
<1>1. TypeOK
  <2>1. member \in [Words -> Nat] /\ repdata \in [Words -> Nat]
    OBVIOUS
  <2>2. atLeast \in Nat \X Nat
    OBVIOUS
  <2> QED
    BY <2>1, <2>2 DEF TypeOK
<1>2. Types
  <2>1. replymsg \in Readings /\ DOMAIN replymsg = {}
    <3>1. replymsg \in [{} -> Nat]
      OBVIOUS
    <3>2. {} \in SUBSET AllWords /\ \A w \in {} \cap DirectionWords : replymsg[w] = 0
      OBVIOUS
    <3>3. replymsg \in Readings
      BY <3>1, <3>2, ReadingOf, Zenon
    <3>4. DOMAIN replymsg = {}
      BY <3>1
    <3> QED
      BY <3>3, <3>4
  <2>2. wire \in Seq(Message) /\ Len(wire) = 0
    OBVIOUS
  <2>3. begun \in [packet : 0 .. Len(wire), reply : 0 .. Len(wire)]
    <3>1. 0 \in 0 .. Len(wire)
      BY <2>2
    <3> QED
      BY <3>1
  <2>4. replyAtLeast \in Nat \X Nat
    OBVIOUS
  <2>5. /\ main \in {"start", "loop", "copy"} /\ replyOverlap \in BOOLEAN
        /\ asked \in Requests \cup {{}} /\ mainTodo \subseteq asked
        /\ asked \ mainTodo \subseteq DOMAIN replymsg
    OBVIOUS
  <2>6. \A i \in 1 .. Len(wire) :
          wire[i].begun < i /\ wire[i].asked \subseteq DOMAIN wire[i].words
    BY <2>2
  <2> HIDE DEF WireInit, Init
  <2> QED
    BY <1>1, <2>1, <2>2, <2>3, <2>4, <2>5, <2>6 DEF Types
<1>3. SensorInv
  BY DEF SensorInv, Complete, Newest, Todo
<1>4. PacketInv /\ ReplyInv
  BY DEF PacketInv, ReplyInv
<1>5. BehindInv /\ WireInOrder /\ StartInv
  <2>1. Len(wire) = 0
    OBVIOUS
  <2> QED
    BY <2>1 DEF BehindInv, WireInOrder, StartInv
<1> QED
  BY <1>2, <1>3, <1>4, <1>5 DEF IInv
-----------------------------------------------------------------------------
(* The sensor threads.                                                     *)

Sensors == GpsFinish \/ GpsStore \/ HidRead \/ HidExit \/ HidStore

\* Every step of the threads of Telemetry keeps the types.
LEMMA TelemetryTypes ==
  ASSUME TypeOK,
         Sensors \/ MainInit \/ BoardBegin \/ BoardCopy \/ BoardSend \/ UNCHANGED vars
  PROVE  TypeOK'
<1> USE DEF TypeOK, gpsVars, tempVars, boardVars
<1>1. CASE GpsFinish
  <2>1. fix' \in Nat /\ gpsTodo' \subseteq GpsWords /\ lastFix' = lastFix
    BY <1>1 DEF GpsFinish
  <2>2. overlap' \in BOOLEAN /\ alive' \in BOOLEAN
    BY <1>1, Zenon DEF GpsFinish
  <2> QED
    BY <1>1, <2>1, <2>2 DEF GpsFinish
<1>2. CASE GpsStore
  <2>1. PICK w \in gpsTodo :
          /\ member' = [member EXCEPT ![w] = fix] /\ gpsTodo' = gpsTodo \ {w}
          /\ lastFix' = IF gpsTodo = {w} THEN fix ELSE lastFix
          /\ UNCHANGED <<m_board, fix, tempVars, boardVars, overlap, alive>>
    BY <1>2 DEF GpsStore
  <2>2. member' \in [Words -> Nat]
    BY <2>1
  <2> QED
    BY <2>1, <2>2
<1>3. CASE HidRead
  <2>1. sample' \in Nat /\ submit_temperatue' \in Nat
    BY <1>3 DEF HidRead
  <2> QED
    BY <1>3, <2>1 DEF HidRead
<1>4. CASE HidExit
  BY <1>4 DEF HidExit
<1>5. CASE HidStore
  <2>1. PICK w \in tempTodo :
          /\ member' = [member EXCEPT ![w] = submit_temperatue]
          /\ tempTodo' = tempTodo \ {w}
          /\ lastTemp' = IF tempTodo = {w} THEN submit_temperatue ELSE lastTemp
          /\ hid' = IF tempTodo = {w} THEN "read" ELSE "store"
          /\ UNCHANGED <<sample, submit_temperatue, gpsVars, boardVars, overlap, alive>>
    BY <1>5 DEF HidStore
  <2>2. member' \in [Words -> Nat]
    BY <2>1
  <2> QED
    BY <2>1, <2>2
<1>6. CASE MainInit
  BY <1>6 DEF MainInit
<1>7. CASE BoardBegin
  <2>1. atLeast' \in Nat \X Nat
    BY <1>7 DEF BoardBegin
  <2> QED
    BY <1>7, <2>1 DEF BoardBegin
<1>8. CASE BoardCopy
  <2>1. PICK w \in boardTodo :
          /\ repdata' = [repdata EXCEPT ![w] = member[w]]
          /\ boardTodo' = boardTodo \ {w}
          /\ board' = IF boardTodo = {w} THEN "send" ELSE "copy"
          /\ UNCHANGED <<atLeast, pkts, gpsVars, tempVars, member, overlap, alive>>
    BY <1>8 DEF BoardCopy
  <2>2. repdata' \in [Words -> Nat]
    BY <2>1
  <2> QED
    BY <2>1, <2>2
<1>9. CASE BoardSend
  BY <1>9 DEF BoardSend
<1>10. CASE UNCHANGED vars
  BY <1>10 DEF vars
<1> QED
  BY <1>1, <1>2, <1>3, <1>4, <1>5, <1>6, <1>7, <1>8, <1>9, <1>10 DEF Sensors

\* A step of a sensor thread: members, readings and what is complete only
\* go up, and where nothing is being stored before and after it, no word
\* has a newer reading.
SensorMoves ==
  /\ \A w \in Words : /\ member[w] <= member'[w]
                       /\ Newest(w) <= Newest(w)'
                       /\ Complete(w) <= Complete(w)'
  /\ Todo = {} /\ Todo' = {} => \A w \in Words : Newest(w)' = Newest(w)
  /\ Todo = {} /\ ~overlap' => Todo' = {}
  /\ ~overlap' => ~overlap

LEMMA GpsMoves ==
  ASSUME TypeOK, SensorInv, GpsFinish \/ GpsStore
  PROVE  SensorInv' /\ SensorMoves
<1>0. /\ fix \in Nat /\ lastFix \in Nat /\ lastTemp \in Nat
      /\ submit_temperatue \in Nat /\ sample \in Nat
      /\ \A w \in Words : member[w] \in Nat
      /\ gpsTodo \subseteq GpsWords /\ tempTodo \subseteq TempWords
  BY DEF TypeOK
<1>1. CASE GpsFinish /\ m_board = "boardctl"
  <2>1. /\ gpsTodo = {} /\ fix' = fix + 1 /\ gpsTodo' = GpsWords /\ overlap' = TRUE
        /\ UNCHANGED <<lastFix, tempVars, member>>
    BY <1>1 DEF GpsFinish
  <2>2. UNCHANGED <<sample, submit_temperatue, tempTodo, lastTemp, hid>>
    BY <2>1 DEF tempVars
  <2>3. Todo' # {} /\ lastFix = fix
    BY <2>1, WordAssumption DEF Todo, SensorInv
  <2>4. \A w \in Words : /\ member'[w] = member[w] /\ Complete(w)' = Complete(w)
                        /\ Newest(w) <= Newest(w)'
    BY <1>0, <2>1, <2>2 DEF Complete, Newest
  <2>5. \A w \in Words : Complete(w)' <= member'[w] /\ member'[w] <= Newest(w)'
    BY <1>0, <2>1, <2>2 DEF SensorInv, Complete, Newest
  <2>6. \A w \in Words \ Todo' : member'[w] = Newest(w)'
    BY <2>1, <2>2 DEF SensorInv, Todo, Newest
  <2>7. /\ gpsTodo' = {} => lastFix' = fix'
        /\ hid' # "store" => tempTodo' = {}
        /\ submit_temperatue' <= sample'
    BY <2>1, <2>2, WordAssumption DEF SensorInv
  <2>8. SensorInv'
    BY <2>5, <2>6, <2>7, Zenon DEF SensorInv
  <2>9. \A w \in Words : member[w] <= member'[w] /\ Complete(w) <= Complete(w)'
    BY <1>0, <2>4, WordTypes
  <2> QED
    BY <2>1, <2>3, <2>4, <2>8, <2>9, Zenon DEF SensorMoves
<1>2. CASE GpsFinish /\ m_board # "boardctl"
  <2>1. UNCHANGED <<fix, gpsTodo, lastFix, overlap, tempVars, member>>
    BY <1>2 DEF GpsFinish
  <2> QED
    BY <1>0, <2>1 DEF SensorInv, SensorMoves, Complete, Newest, Todo, tempVars
<1>3. CASE GpsStore
  <2>1. PICK x \in gpsTodo :
          /\ member' = [member EXCEPT ![x] = fix] /\ gpsTodo' = gpsTodo \ {x}
          /\ lastFix' = IF gpsTodo = {x} THEN fix ELSE lastFix
          /\ UNCHANGED <<m_board, fix, tempVars, boardVars, overlap, alive>>
    BY <1>3 DEF GpsStore
  <2>2. UNCHANGED <<sample, submit_temperatue, tempTodo, lastTemp, hid>>
    BY <2>1 DEF tempVars
  <2>3. x \in GpsWords /\ x \in Words
    BY <1>0, <2>1 DEF Words
  <2>4. \A w \in Words : member'[w] = IF w = x THEN fix ELSE member[w]
    BY <2>1 DEF TypeOK
  <2>5. \A w \in Words : Newest(w)' = Newest(w)
    BY <2>1, <2>2 DEF Newest
  <2>6. \A w \in Words : member[w] <= member'[w] /\ member'[w] <= Newest(w)'
    BY <1>0, <2>3, <2>4, <2>5 DEF SensorInv, Newest
  <2>7. \A w \in Words \ Todo' : member'[w] = Newest(w)'
    BY <2>1, <2>2, <2>3, <2>4, <2>5 DEF SensorInv, Todo, Newest
  <2>8. lastFix <= fix
    BY <1>0, <2>3 DEF SensorInv, Complete, Newest
  <2>9. \A w \in Words : Complete(w) <= Complete(w)'
    BY <1>0, <2>1, <2>2, <2>8 DEF Complete
  <2>10. \A w \in Words : Complete(w)' <= member'[w]
    <3>1. CASE gpsTodo = {x}
      <4>1. \A w \in GpsWords : w = x \/ w \notin Todo
        BY <1>0, <3>1, WordAssumption DEF Todo
      <4>2. \A w \in GpsWords : member'[w] = fix
        BY <2>4, <4>1 DEF SensorInv, Newest, Words
      <4> QED
        BY <1>0, <2>1, <2>2, <2>4, <2>3, <3>1, <4>2, WordAssumption
           DEF SensorInv, Complete
    <3>2. CASE gpsTodo # {x}
      <4>1. \A w \in Words : Complete(w)' = Complete(w)
        BY <2>1, <2>2, <3>2 DEF Complete
      <4> QED
        BY <1>0, <2>4, <2>3, <2>8, <4>1 DEF SensorInv, Complete
    <3> QED
      BY <3>1, <3>2
  <2>11. /\ gpsTodo' = {} => lastFix' = fix'
         /\ hid' # "store" => tempTodo' = {}
         /\ submit_temperatue' <= sample'
    BY <2>1, <2>2 DEF SensorInv
  <2>12. Todo # {}
    BY <2>1 DEF Todo
  <2>13. SensorInv'
    BY <2>6, <2>7, <2>10, <2>11, Zenon DEF SensorInv
  <2>14. \A w \in Words : Newest(w) <= Newest(w)'
    BY <2>5, WordTypes
  <2>15. overlap' = overlap
    BY <2>1
  <2> QED
    BY <2>5, <2>6, <2>9, <2>12, <2>13, <2>14, <2>15, Zenon DEF SensorMoves
<1> QED
  BY <1>1, <1>2, <1>3

LEMMA HidMoves ==
  ASSUME TypeOK, SensorInv, HidRead \/ HidExit \/ HidStore
  PROVE  SensorInv' /\ SensorMoves
<1>0. /\ fix \in Nat /\ lastFix \in Nat /\ lastTemp \in Nat
      /\ submit_temperatue \in Nat /\ sample \in Nat
      /\ \A w \in Words : member[w] \in Nat
      /\ gpsTodo \subseteq GpsWords /\ tempTodo \subseteq TempWords
  BY DEF TypeOK
<1>1. CASE HidRead
  <2>1. /\ hid = "read" /\ tempTodo' = TempWords /\ hid' = "store" /\ overlap' = TRUE
        /\ UNCHANGED <<lastTemp, fix, gpsTodo, lastFix, member>>
    BY <1>1 DEF HidRead, gpsVars
  <2>2. \/ sample' = sample + 1 /\ submit_temperatue' = sample'
        \/ UNCHANGED <<sample, submit_temperatue>>
    BY <1>1 DEF HidRead
  <2>3. submit_temperatue' <= sample' /\ submit_temperatue <= submit_temperatue'
    BY <1>0, <2>2 DEF SensorInv
  <2>4. submit_temperatue' \in Nat
    BY <1>0, <2>2
  <2>5. \A w \in Words : /\ member'[w] = member[w] /\ Complete(w)' = Complete(w)
                        /\ Newest(w) <= Newest(w)'
    BY <1>0, <2>1, <2>3, <2>4 DEF Complete, Newest
  <2>6. \A w \in Words : Complete(w) <= member[w] /\ member[w] <= Newest(w)
    BY DEF SensorInv
  <2>7. \A w \in Words : Newest(w) \in Nat /\ Newest(w)' \in Nat /\ Complete(w) \in Nat
    BY <1>0, <2>1, <2>4 DEF Newest, Complete
  <2>8. \A w \in Words : Complete(w)' <= member'[w] /\ member'[w] <= Newest(w)'
    BY <1>0, <2>5, <2>6, <2>7
  <2>9. \A w \in Words \ Todo' : member'[w] = Newest(w)'
    BY <2>1 DEF SensorInv, Todo, Newest, Words
  <2>10. (gpsTodo' = {} => lastFix' = fix') /\ (hid' # "store" => tempTodo' = {})
    BY <2>1 DEF SensorInv
  <2>11. SensorInv'
    BY <2>3, <2>8, <2>9, <2>10, Zenon DEF SensorInv
  <2>12. \A w \in Words : member[w] <= member'[w] /\ Complete(w) <= Complete(w)'
    BY <1>0, <2>5, <2>7
  <2>13. Todo' = {} => \A w \in Words : Newest(w)' = Newest(w)
    BY <2>1 DEF Todo, Newest, Words
  <2> QED
    BY <2>1, <2>5, <2>11, <2>12, <2>13, Zenon DEF SensorMoves
<1>2. CASE HidExit
  <2>1. /\ UNCHANGED <<sample, submit_temperatue, tempTodo, lastTemp, fix, gpsTodo,
                       lastFix, member, overlap>>
        /\ hid = "read"
    BY <1>2 DEF HidExit, gpsVars
  <2>2. SensorInv'
    BY <2>1 DEF SensorInv, Complete, Newest, Todo
  <2>3. \A w \in Words : /\ member[w] <= member'[w] /\ Complete(w) <= Complete(w)'
                        /\ Newest(w) <= Newest(w)' /\ Newest(w)' = Newest(w)
    BY <1>0, <2>1 DEF Complete, Newest
  <2>4. Todo' = Todo /\ overlap' = overlap
    BY <2>1 DEF Todo
  <2> QED
    BY <2>2, <2>3, <2>4, Zenon DEF SensorMoves
<1>3. CASE HidStore
  <2>1. PICK x \in tempTodo :
          /\ member' = [member EXCEPT ![x] = submit_temperatue]
          /\ tempTodo' = tempTodo \ {x}
          /\ lastTemp' = IF tempTodo = {x} THEN submit_temperatue ELSE lastTemp
          /\ hid' = IF tempTodo = {x} THEN "read" ELSE "store"
          /\ UNCHANGED <<sample, submit_temperatue, gpsVars, boardVars, overlap, alive>>
    BY <1>3 DEF HidStore
  <2>2. UNCHANGED <<fix, gpsTodo, lastFix>>
    BY <2>1 DEF gpsVars
  <2>3. x \in TempWords /\ x \in Words /\ x \notin GpsWords
    BY <1>0, <2>1, WordAssumption DEF Words
  <2>4. \A w \in Words : member'[w] = IF w = x THEN submit_temperatue ELSE member[w]
    BY <2>1 DEF TypeOK
  <2>5. \A w \in Words : Newest(w)' = Newest(w)
    BY <2>1, <2>2 DEF Newest
  <2>6. \A w \in Words : member[w] <= member'[w] /\ member'[w] <= Newest(w)'
    BY <1>0, <2>3, <2>4, <2>5 DEF SensorInv, Newest
  <2>7. \A w \in Words \ Todo' : member'[w] = Newest(w)'
    BY <2>1, <2>2, <2>3, <2>4, <2>5 DEF SensorInv, Todo, Newest
  <2>8. lastTemp <= submit_temperatue
    BY <1>0, <2>3 DEF SensorInv, Complete, Newest
  <2>9. \A w \in Words : Complete(w) <= Complete(w)'
    BY <1>0, <2>1, <2>2, <2>8 DEF Complete
  <2>10. \A w \in Words : Complete(w)' <= member'[w]
    <3>1. CASE tempTodo = {x}
      <4>1. \A w \in TempWords : w = x \/ w \notin Todo
        BY <1>0, <3>1, WordAssumption DEF Todo
      <4>2. \A w \in TempWords : member'[w] = submit_temperatue
        BY <2>4, <4>1, WordAssumption DEF SensorInv, Newest, Words
      <4>3. \A w \in GpsWords : member'[w] = member[w] /\ Complete(w)' <= member[w]
        BY <2>2, <2>3, <2>4 DEF SensorInv, Complete, Words
      <4>4. \A w \in TempWords : Complete(w)' = submit_temperatue
        BY <2>1, <3>1, WordAssumption DEF Complete
      <4> QED
        BY <1>0, <4>2, <4>3, <4>4 DEF Words
    <3>2. CASE tempTodo # {x}
      <4>1. \A w \in Words : Complete(w)' = Complete(w)
        BY <2>1, <2>2, <3>2 DEF Complete
      <4> QED
        BY <1>0, <2>4, <2>3, <2>8, <4>1 DEF SensorInv, Complete
    <3> QED
      BY <3>1, <3>2
  <2>11. /\ gpsTodo' = {} => lastFix' = fix'
         /\ hid' # "store" => tempTodo' = {}
         /\ submit_temperatue' <= sample'
    BY <2>1, <2>2 DEF SensorInv
  <2>12. Todo # {}
    BY <2>1 DEF Todo
  <2>13. SensorInv'
    BY <2>6, <2>7, <2>10, <2>11, Zenon DEF SensorInv
  <2>14. \A w \in Words : Newest(w) <= Newest(w)'
    BY <2>5, WordTypes
  <2>15. overlap' = overlap
    BY <2>1
  <2> QED
    BY <2>5, <2>6, <2>9, <2>12, <2>13, <2>14, <2>15, Zenon DEF SensorMoves
<1> QED
  BY <1>1, <1>2, <1>3

\* What was copied so far stays as good while a sensor thread moves.
LEMMA CopySurvives ==
  ASSUME TypeOK, TypeOK', SensorMoves,
         NEW words, NEW D \in SUBSET Words, \A w \in D : words[w] \in Nat,
         NEW al \in Nat \X Nat,
         \A w \in Words : Floor(al, w) <= Complete(w),
         \A w \in D : Floor(al, w) <= words[w] /\ words[w] <= Newest(w)
  PROVE  /\ \A w \in Words : Floor(al, w) <= Complete(w)'
         /\ \A w \in D : Floor(al, w) <= words[w] /\ words[w] <= Newest(w)'
<1>1. \A w \in Words : /\ Newest(w) \in Nat /\ Complete(w) \in Nat
                      /\ Newest(w)' \in Nat /\ Complete(w)' \in Nat
                      /\ Floor(al, w) \in Nat
  BY FloorType DEF TypeOK, Newest, Complete
<1>2. \A w \in Words : Complete(w) <= Complete(w)' /\ Newest(w) <= Newest(w)'
  BY DEF SensorMoves
<1> QED
  BY <1>1, <1>2

LEMMA TypeFacts ==
  ASSUME Types
  PROVE  /\ TypeOK
         /\ Len(wire) \in Nat
         /\ begun.packet \in 0 .. Len(wire) /\ begun.reply \in 0 .. Len(wire)
         /\ \A i \in 1 .. Len(wire) : wire[i].words \in Readings
         /\ \A w \in DOMAIN replymsg : replymsg[w] \in Nat
         /\ Copied \in SUBSET Words
         /\ \A w \in Copied : replymsg[w] \in Nat
         /\ \A w \in Words : repdata[w] \in Nat
<1>1. wire \in Seq(Message)
  BY DEF Types
<1>2. \A i \in 1 .. Len(wire) : wire[i] \in Message
  BY <1>1
<1>3. \A i \in 1 .. Len(wire) : wire[i].words \in Readings
  BY <1>2 DEF Message
<1>4. Len(wire) \in Nat
  BY <1>1
<1>5. replymsg \in Readings
  BY DEF Types
<1>6. \A w \in DOMAIN replymsg : replymsg[w] \in Nat
  BY <1>5, WordsOfReading
<1>7. Copied \in SUBSET Words /\ Copied \subseteq DOMAIN replymsg
  BY DEF Types, Copied
<1> QED
  BY <1>3, <1>4, <1>6, <1>7 DEF Types, TypeOK

\* The copies are behind the members, which only go up.
LEMMA BehindSurvives ==
  ASSUME Types, TypeOK', BehindInv, UNCHANGED <<repdata, replymsg, wire>>,
         \A w \in Words : member[w] <= member'[w]
  PROVE  BehindInv'
<1>1. \A w \in Words : member[w] \in Nat /\ member'[w] \in Nat
  BY DEF Types, TypeOK
<1>2. \A w \in Words : repdata[w] \in Nat
  BY TypeFacts
<1>3. \A w \in Words : repdata[w] <= member'[w]
  BY <1>1, <1>2 DEF BehindInv
<1>4. \A w \in DOMAIN replymsg \cap Words : replymsg[w] <= member'[w]
  <2>1. \A w \in DOMAIN replymsg : replymsg[w] \in Nat
    BY TypeFacts
  <2> QED
    BY <1>1, <2>1 DEF BehindInv
<1>5. \A i \in 1 .. Len(wire) : \A w \in DOMAIN wire[i].words \cap Words :
         wire[i].words[w] <= member'[w]
  <2> SUFFICES ASSUME NEW i \in 1 .. Len(wire),
                      NEW w \in DOMAIN wire[i].words \cap Words
               PROVE  wire[i].words[w] <= member'[w]
    OBVIOUS
  <2>1. wire[i].words[w] \in Nat
    BY TypeFacts, WordsOfReading
  <2>2. wire[i].words[w] <= member[w]
    BY DEF BehindInv
  <2> QED
    BY <1>1, <2>1, <2>2
<1> QED
  BY <1>3, <1>4, <1>5 DEF BehindInv

LEMMA SensorKeeps == IInv /\ SensorStep => IInv'
<1> SUFFICES ASSUME IInv, SensorStep PROVE IInv'
  OBVIOUS
<1>0. Types /\ TypeOK /\ SensorInv /\ Sensors
  BY DEF IInv, Types, SensorStep, Sensors
<1>1. UNCHANGED <<m_board, board, boardTodo, repdata, atLeast, main, mainTodo, replymsg,
                  asked, replyAtLeast, begun, wire>>
  BY DEF SensorStep, replyVars, boardVars, gpsVars, GpsFinish, GpsStore, HidRead,
     HidExit, HidStore
<1>2. TypeOK'
  BY <1>0, TelemetryTypes
<1>3. SensorInv' /\ SensorMoves
  BY <1>0, GpsMoves, HidMoves DEF Sensors
<1>4. Types'
  <2>1. replyOverlap' \in BOOLEAN
    BY DEF SensorStep, NoteOverlap
  <2> QED
    BY <1>0, <1>1, <1>2, <2>1 DEF Types
<1>5. PacketInv'
  <2>1. ASSUME board \in {"copy", "send"}
        PROVE  CopyInv(repdata, Words \ boardTodo, atLeast, begun.packet, overlap)'
    <3>1. CopyInv(repdata, Words \ boardTodo, atLeast, begun.packet, overlap)
      BY <2>1 DEF IInv, PacketInv
    <3>2. ~overlap' => ~overlap /\ Todo' = {}
      BY <1>3, <3>1 DEF SensorMoves, CopyInv
    <3>3. atLeast \in Nat \X Nat /\ \A w \in Words \ boardTodo : repdata[w] \in Nat
      BY <1>0 DEF TypeOK
    <3>4. /\ \A w \in Words : Floor(atLeast, w) <= Complete(w)'
          /\ \A w \in Words \ boardTodo :
               Floor(atLeast, w) <= repdata[w] /\ repdata[w] <= Newest(w)'
      <4>1. /\ \A w \in Words : Floor(atLeast, w) <= Complete(w)
            /\ \A w \in Words \ boardTodo :
                 Floor(atLeast, w) <= repdata[w] /\ repdata[w] <= Newest(w)
        BY <3>1 DEF CopyInv
      <4>2. Words \ boardTodo \in SUBSET Words
        OBVIOUS
      <4> QED
        BY <1>0, <1>2, <1>3, <3>3, <4>1, <4>2, CopySurvives
    <3>6. ~overlap' =>
            Todo' = {} /\ \A w \in Words \ boardTodo : repdata[w] = Newest(w)'
      BY <1>3, <3>1, <3>2 DEF CopyInv, SensorMoves
    <3>5. \A w \in Words : Floor(atLeast, w)' = Floor(atLeast, w)
      BY <1>1 DEF Floor
    <3> QED
      BY <1>1, <3>1, <3>4, <3>5, <3>6 DEF CopyInv
  <2> QED
    BY <1>1, <2>1 DEF IInv, PacketInv
<1>6. ReplyInv'
  <2>0. Copied' = Copied
    BY <1>1 DEF Copied
  <2>1. ASSUME main = "copy"
        PROVE  CopyInv(replymsg, Copied, replyAtLeast, begun.reply, replyOverlap)'
    <3>1. CopyInv(replymsg, Copied, replyAtLeast, begun.reply, replyOverlap)
      BY <2>1 DEF IInv, ReplyInv
    <3>2. ~replyOverlap' => ~replyOverlap /\ Todo' = {}
      BY DEF SensorStep, NoteOverlap, Todo
    <3>3. /\ replyAtLeast \in Nat \X Nat /\ Copied \in SUBSET Words
          /\ \A w \in Copied : replymsg[w] \in Nat
      BY <1>0, TypeFacts DEF Types
    <3>4. /\ \A w \in Words : Floor(replyAtLeast, w) <= Complete(w)'
          /\ \A w \in Copied :
               Floor(replyAtLeast, w) <= replymsg[w] /\ replymsg[w] <= Newest(w)'
      <4>1. /\ \A w \in Words : Floor(replyAtLeast, w) <= Complete(w)
            /\ \A w \in Copied :
                 Floor(replyAtLeast, w) <= replymsg[w] /\ replymsg[w] <= Newest(w)
        BY <3>1 DEF CopyInv
      <4> QED
        BY <1>0, <1>2, <1>3, <3>3, <4>1, CopySurvives
    <3>6. ~replyOverlap' =>
            Todo' = {} /\ \A w \in Copied : replymsg[w] = Newest(w)'
      BY <1>3, <3>1, <3>2, <3>3 DEF CopyInv, SensorMoves
    <3>5. \A w \in Words : Floor(replyAtLeast, w)' = Floor(replyAtLeast, w)
      BY <1>1 DEF Floor
    <3> QED
      BY <1>1, <2>0, <3>1, <3>4, <3>5, <3>6 DEF CopyInv
  <2> QED
    BY <1>1, <2>1 DEF IInv, ReplyInv
<1>7. BehindInv'
  BY <1>0, <1>1, <1>2, <1>3, BehindSurvives DEF IInv, SensorMoves
<1>8. WireInOrder' /\ StartInv'
  BY <1>1 DEF IInv, WireInOrder, StartInv
<1> QED
  BY <1>3, <1>4, <1>5, <1>6, <1>7, <1>8 DEF IInv
-----------------------------------------------------------------------------
(* The messages submitted.                                                 *)

\* A message whose words are behind the members, and which follows those it
\* was begun after, may go to the end of the wire.
LEMMA WireGrows ==
  ASSUME Types, BehindInv, WireInOrder, member' = member,
         NEW m \in Message, wire' = Append(wire, m), m.begun <= Len(wire),
         m.asked \subseteq DOMAIN m.words,
         \A w \in DOMAIN m.words \cap Words : m.words[w] <= member[w],
         \A i \in 1 .. m.begun :
           \A w \in DOMAIN wire[i].words \cap m.asked \cap Words :
             wire[i].words[w] <= m.words[w]
  PROVE  /\ wire' \in Seq(Message) /\ Len(wire') = Len(wire) + 1
         /\ \A i \in 1 .. Len(wire) : wire'[i] = wire[i]
         /\ \A i \in 1 .. Len(wire') :
              wire'[i].begun < i /\ wire'[i].asked \subseteq DOMAIN wire'[i].words
         /\ \A i \in 1 .. Len(wire') : \A w \in DOMAIN wire'[i].words \cap Words :
              wire'[i].words[w] <= member'[w]
         /\ WireInOrder'
<1>0. wire \in Seq(Message) /\ Len(wire) \in Nat /\ m.begun \in Nat
  BY DEF Types, Message
<1>1. /\ wire' \in Seq(Message) /\ Len(wire') = Len(wire) + 1
      /\ \A i \in 1 .. Len(wire) : wire'[i] = wire[i]
      /\ wire'[Len(wire) + 1] = m
  BY <1>0
<1>2. \A i \in 1 .. Len(wire') : i \in 1 .. Len(wire) \/ i = Len(wire) + 1
  BY <1>0, <1>1
<1>3. \A i \in 1 .. Len(wire') :
        wire'[i].begun < i /\ wire'[i].asked \subseteq DOMAIN wire'[i].words
  <2>1. \A i \in 1 .. Len(wire) :
          wire[i].begun < i /\ wire[i].asked \subseteq DOMAIN wire[i].words
    BY DEF Types
  <2>2. m.begun < Len(wire) + 1
    BY <1>0
  <2> QED
    BY <1>1, <1>2, <2>1, <2>2
<1>4. \A i \in 1 .. Len(wire') : \A w \in DOMAIN wire'[i].words \cap Words :
         wire'[i].words[w] <= member[w]
  BY <1>1, <1>2 DEF BehindInv
<1>5. WireInOrder'
  <2> SUFFICES ASSUME NEW j \in 1 .. Len(wire'), NEW i \in 1 .. wire'[j].begun,
                      NEW w \in DOMAIN wire'[i].words \cap wire'[j].asked
               PROVE  wire'[i].words[w] <= wire'[j].words[w]
    BY DEF WireInOrder
  <2>1. j \in Nat /\ wire'[j].begun < j /\ wire'[j].begun \in Nat
    <3>1. \A k \in 1 .. Len(wire) : wire[k] \in Message
      BY <1>0
    <3>2. wire'[j] \in Message
      BY <1>1, <1>2, <3>1
    <3> QED
      BY <1>1, <1>3, <3>2 DEF Message
  <2>2. i \in 1 .. Len(wire) /\ wire'[i] = wire[i]
    BY <1>0, <1>1, <1>2, <2>1
  <2>3. CASE j \in 1 .. Len(wire)
    <3>1. wire'[j] = wire[j]
      BY <1>1, <2>3
    <3> QED
      BY <2>2, <2>3, <3>1 DEF WireInOrder
  <2>4. CASE j = Len(wire) + 1
    <3>1. wire'[j] = m /\ wire[i].words \in Readings /\ m.words \in Readings
      BY <1>1, <2>2, <2>4, TypeFacts DEF Message
    <3>2. w \in DOMAIN wire[i].words /\ w \in m.asked /\ w \in DOMAIN m.words
      BY <2>2, <3>1
    <3>3. CASE w \in Words
      BY <2>2, <3>1, <3>2, <3>3
    <3>4. CASE w \in DirectionWords
      <4>1. wire[i].words[w] = 0 /\ m.words[w] = 0
        BY <3>1, <3>2, <3>4, WordsOfReading
      <4> QED
        BY <2>2, <3>1, <4>1
    <3> QED
      BY <3>1, <3>2, <3>3, <3>4, WordsOfReading, Kinds
  <2> QED
    BY <1>2, <2>3, <2>4
<1> QED
  BY <1>1, <1>3, <1>4, <1>5

\* Where neither the sensors nor the main thread move.
sensorVars == <<m_board, fix, gpsTodo, lastFix, sample, submit_temperatue, tempTodo,
                lastTemp, hid, member>>

LEMMA SensorsRest ==
  ASSUME SensorInv, UNCHANGED sensorVars
  PROVE  /\ SensorInv'
         /\ \A w : Newest(w)' = Newest(w) /\ Complete(w)' = Complete(w)
         /\ Todo' = Todo /\ member' = member
BY DEF SensorInv, sensorVars, Newest, Complete, Todo

LEMMA ReplyRests ==
  ASSUME Types, ReplyInv, UNCHANGED <<sensorVars, replyVars, replyOverlap>>,
         begun'.reply = begun.reply,
         \A i \in 1 .. Len(wire) : wire'[i] = wire[i]
  PROVE  ReplyInv'
<1>0. /\ UNCHANGED <<main, mainTodo, replymsg, replyAtLeast, replyOverlap>>
      /\ Todo' = Todo /\ Copied' = Copied
      /\ \A w : Newest(w)' = Newest(w) /\ Complete(w)' = Complete(w)
      /\ \A w : Floor(replyAtLeast, w)' = Floor(replyAtLeast, w)
  BY DEF replyVars, sensorVars, Newest, Complete, Todo, Floor, Copied
<1>1. ASSUME main = "copy"
      PROVE  CopyInv(replymsg, Copied, replyAtLeast, begun.reply, replyOverlap)'
  <2>1. CopyInv(replymsg, Copied, replyAtLeast, begun.reply, replyOverlap)
    BY <1>1 DEF ReplyInv
  <2>2. \A w \in Copied : \A i \in 1 .. begun.reply :
          w \in DOMAIN wire'[i].words => wire'[i].words[w] <= replymsg[w]
    <3>1. begun.reply \in 0 .. Len(wire) /\ Len(wire) \in Nat
      BY TypeFacts
    <3>2. \A i \in 1 .. begun.reply : i \in 1 .. Len(wire)
      BY <3>1
    <3> QED
      BY <2>1, <3>2 DEF CopyInv
  <2> QED
    BY <1>0, <2>1, <2>2 DEF CopyInv
<1> QED
  BY <1>0, <1>1 DEF ReplyInv

LEMMA PacketRests ==
  ASSUME Types, PacketInv, UNCHANGED <<sensorVars, board, boardTodo, repdata,
                                       atLeast, overlap>>,
         begun'.packet = begun.packet,
         \A i \in 1 .. Len(wire) : wire'[i] = wire[i]
  PROVE  PacketInv'
<1> DEFINE D == Words \ boardTodo
<1>0. /\ Todo' = Todo
      /\ \A w : Newest(w)' = Newest(w) /\ Complete(w)' = Complete(w)
      /\ \A w : Floor(atLeast, w)' = Floor(atLeast, w)
  BY DEF sensorVars, Newest, Complete, Todo, Floor
<1>1. ASSUME board \in {"copy", "send"}
      PROVE  CopyInv(repdata, D, atLeast, begun.packet, overlap)'
  <2>1. CopyInv(repdata, D, atLeast, begun.packet, overlap)
    BY <1>1 DEF PacketInv
  <2>2. \A w \in D : \A i \in 1 .. begun.packet :
          w \in DOMAIN wire'[i].words => wire'[i].words[w] <= repdata[w]
    <3>1. begun.packet \in 0 .. Len(wire) /\ Len(wire) \in Nat
      BY TypeFacts
    <3>2. \A i \in 1 .. begun.packet : i \in 1 .. Len(wire)
      BY <3>1
    <3> QED
      BY <2>1, <3>2 DEF CopyInv
  <2> QED
    BY <1>0, <2>1, <2>2 DEF CopyInv
<1> QED
  BY <1>0, <1>1 DEF PacketInv

\* One more word is copied: what D held and the member's value.
LEMMA CopyOne ==
  ASSUME TypeOK, SensorInv, BehindInv,
         NEW x \in Words, NEW n \in 0 .. Len(wire), Len(wire) \in Nat,
         NEW al \in Nat \X Nat, \A w \in Words : Floor(al, w) <= Complete(w)
  PROVE  /\ Floor(al, x) <= member[x] /\ member[x] <= Newest(x)
         /\ \A i \in 1 .. n :
              x \in DOMAIN wire[i].words => wire[i].words[x] <= member[x]
         /\ Todo = {} => member[x] = Newest(x)
<1>1. /\ Floor(al, x) \in Nat /\ Complete(x) \in Nat /\ member[x] \in Nat
      /\ Complete(x) <= member[x] /\ Floor(al, x) <= Complete(x)
  BY FloorType, WordTypes DEF SensorInv
<1>2. Floor(al, x) <= member[x]
  BY <1>1
<1>3. \A i \in 1 .. n : i \in 1 .. Len(wire)
  OBVIOUS
<1> QED
  BY <1>2, <1>3 DEF SensorInv, BehindInv
-----------------------------------------------------------------------------
(* The boardctl thread.                                                    *)

LEMMA PacketBegins == IInv /\ PacketBegin => IInv'
<1> SUFFICES ASSUME IInv, PacketBegin PROVE IInv'
  OBVIOUS
<1>0. Types /\ TypeOK /\ SensorInv /\ ReplyInv /\ BehindInv /\ BoardBegin
  BY DEF IInv, Types, PacketBegin
<1>1. /\ UNCHANGED <<sensorVars, repdata, replyVars, replyOverlap, wire>>
      /\ board' = "copy" /\ boardTodo' = Words /\ atLeast' = <<lastFix, lastTemp>>
      /\ overlap' = (gpsTodo # {} \/ tempTodo # {})
      /\ begun' = [begun EXCEPT !.packet = Len(wire)]
  BY DEF PacketBegin, BoardBegin, gpsVars, tempVars, sensorVars
<1>2. SensorInv' /\ Todo' = Todo /\ member' = member
      /\ \A w : Newest(w)' = Newest(w) /\ Complete(w)' = Complete(w)
  BY <1>0, <1>1, SensorsRest
<1>3. TypeOK'
  BY <1>0, TelemetryTypes
<1>4. /\ begun' \in [packet : 0 .. Len(wire), reply : 0 .. Len(wire)]
      /\ begun'.packet = Len(wire) /\ begun'.reply = begun.reply
  <2>1. begun \in [packet : 0 .. Len(wire), reply : 0 .. Len(wire)]
    BY <1>0 DEF Types
  <2>2. Len(wire) \in 0 .. Len(wire)
    BY <1>0, TypeFacts
  <2> QED
    BY <1>1, <2>1, <2>2
<1>5. Types'
  BY <1>0, <1>1, <1>3, <1>4 DEF Types, replyVars
<1>6. PacketInv'
  <2>1. \A w \in Words : Floor(atLeast', w) <= Complete(w)
    <3>1. \A w : Floor(atLeast', w) = Complete(w)
      BY <1>1 DEF Floor, Complete
    <3> QED
      BY <1>0, <3>1, WordTypes
  <2>2. ~overlap' => Todo = {}
    BY <1>1 DEF Todo
  <2>3. \A w \in Words : Floor(atLeast, w)' = Floor(atLeast', w)
    BY DEF Floor
  <2>4. Words \ boardTodo' = {}
    BY <1>1
  <2>5. CopyInv(repdata, Words \ boardTodo, atLeast, begun.packet, overlap)'
    BY <1>2, <2>1, <2>2, <2>3, <2>4 DEF CopyInv
  <2> QED
    BY <1>1, <2>5 DEF PacketInv
<1>7. ReplyInv'
  BY <1>0, <1>1, <1>4, ReplyRests
<1>8. BehindInv' /\ WireInOrder'
  BY <1>0, <1>1, <1>2 DEF IInv, BehindInv, WireInOrder, replyVars
<1>9. StartInv'
  BY <1>0, <1>1 DEF IInv, StartInv, sensorVars, BoardBegin
<1> QED
  BY <1>2, <1>5, <1>6, <1>7, <1>8, <1>9 DEF IInv

LEMMA PacketCopies == IInv /\ PacketCopy => IInv'
<1> SUFFICES ASSUME IInv, PacketCopy PROVE IInv'
  OBVIOUS
<1>0. Types /\ TypeOK /\ SensorInv /\ PacketInv /\ ReplyInv /\ BehindInv /\ BoardCopy
  BY DEF IInv, Types, PacketCopy
<1>1. PICK x \in boardTodo :
        /\ repdata' = [repdata EXCEPT ![x] = member[x]]
        /\ boardTodo' = boardTodo \ {x}
        /\ board' = IF boardTodo = {x} THEN "send" ELSE "copy"
        /\ UNCHANGED <<atLeast, pkts, gpsVars, tempVars, member, overlap, alive>>
  BY DEF PacketCopy, BoardCopy
<1>2. UNCHANGED <<sensorVars, atLeast, overlap, replyVars, replyOverlap, begun, wire>>
  BY <1>1 DEF PacketCopy, gpsVars, tempVars, sensorVars
<1>3. SensorInv' /\ Todo' = Todo /\ member' = member
      /\ \A w : Newest(w)' = Newest(w) /\ Complete(w)' = Complete(w)
  BY <1>0, <1>2, SensorsRest
<1>4. TypeOK'
  BY <1>0, TelemetryTypes
<1>5. Types'
  BY <1>0, <1>2, <1>4 DEF Types, replyVars
<1>6. x \in Words /\ board = "copy"
  BY <1>0, <1>1 DEF PacketInv, TypeOK
<1>7. \A w \in Words : repdata'[w] = IF w = x THEN member[x] ELSE repdata[w]
  BY <1>0, <1>1, <1>6 DEF TypeOK
<1>8. PacketInv'
  <2>1. CopyInv(repdata, Words \ boardTodo, atLeast, begun.packet, overlap)
    BY <1>0, <1>6 DEF PacketInv
  <2>2. /\ Floor(atLeast, x) <= member[x] /\ member[x] <= Newest(x)
        /\ \A i \in 1 .. begun.packet :
             x \in DOMAIN wire[i].words => wire[i].words[x] <= member[x]
        /\ Todo = {} => member[x] = Newest(x)
    <3>1. begun.packet \in 0 .. Len(wire) /\ Len(wire) \in Nat
      BY <1>0, TypeFacts
    <3>2. atLeast \in Nat \X Nat
      BY <1>0 DEF TypeOK
    <3>3. \A w \in Words : Floor(atLeast, w) <= Complete(w)
      BY <2>1 DEF CopyInv
    <3> QED
      BY <1>0, <1>6, <3>1, <3>2, <3>3, CopyOne
  <2>3. \A w \in Words \ boardTodo' : w = x \/ w \in Words \ boardTodo
    BY <1>1
  <2>4. \A w \in Words : Floor(atLeast, w)' = Floor(atLeast, w)
    BY <1>2 DEF Floor
  <2>5. CopyInv(repdata, Words \ boardTodo, atLeast, begun.packet, overlap)'
    BY <1>2, <1>3, <1>7, <2>1, <2>2, <2>3, <2>4 DEF CopyInv
  <2>6. board' # "copy" => boardTodo' = {}
    BY <1>1
  <2> QED
    BY <2>5, <2>6 DEF PacketInv
<1>9. ReplyInv'
  BY <1>0, <1>2, ReplyRests
<1>10. BehindInv' /\ WireInOrder'
  <2>1. \A w \in Words : repdata'[w] <= member[w]
    BY <1>0, <1>6, <1>7, WordTypes DEF BehindInv
  <2> QED
    BY <1>0, <1>2, <1>3, <2>1 DEF IInv, BehindInv, WireInOrder, replyVars
<1>11. StartInv'
  BY <1>2, <1>6 DEF IInv, StartInv, sensorVars
<1> QED
  BY <1>3, <1>5, <1>8, <1>9, <1>10, <1>11 DEF IInv

LEMMA PacketSends == IInv /\ PacketSend => IInv'
<1> SUFFICES ASSUME IInv, PacketSend PROVE IInv'
  OBVIOUS
<1> DEFINE m == [words |-> repdata, asked |-> Words, begun |-> begun.packet,
              answer |-> FALSE]
<1>0. /\ Types /\ TypeOK /\ SensorInv /\ PacketInv /\ ReplyInv /\ BehindInv
      /\ WireInOrder /\ BoardSend
  BY DEF IInv, Types, PacketSend
<1>1. /\ board = "send" /\ board' = "poll" /\ wire' = Append(wire, m)
      /\ UNCHANGED <<sensorVars, boardTodo, repdata, atLeast, overlap, replyVars,
                    replyOverlap, begun>>
  BY DEF PacketSend, BoardSend, gpsVars, tempVars, sensorVars
<1>2. SensorInv' /\ Todo' = Todo /\ member' = member
      /\ \A w : Newest(w)' = Newest(w) /\ Complete(w)' = Complete(w)
  BY <1>0, <1>1, SensorsRest
<1>3. TypeOK'
  BY <1>0, TelemetryTypes
<1>4. CopyInv(repdata, Words, atLeast, begun.packet, overlap) /\ boardTodo = {}
  <2>1. boardTodo = {} /\ Words \ boardTodo = Words
    BY <1>0, <1>1 DEF PacketInv
  <2> QED
    BY <1>0, <1>1, <2>1 DEF PacketInv
<1>5. /\ m \in Message /\ m.begun = begun.packet /\ m.words = repdata
      /\ m.asked = Words /\ m.begun <= Len(wire)
  <2>1. repdata \in Readings
    <3>1. repdata \in [Words -> Nat]
      BY <1>0 DEF TypeOK
    <3>2. /\ Words \in SUBSET AllWords
          /\ \A w \in Words \cap DirectionWords : repdata[w] = 0
      BY Kinds DEF AllWords
    <3> QED
      BY <3>1, <3>2, ReadingOf, Zenon
  <2>2. begun.packet \in Nat /\ begun.packet <= Len(wire)
    BY <1>0, TypeFacts
  <2>3. Words \in SUBSET AllWords
    BY DEF AllWords
  <2> QED
    BY <2>1, <2>2, <2>3 DEF Message
<1> HIDE DEF m
<1>6. DOMAIN m.words = Words
  BY <1>0, <1>5 DEF TypeOK
<1>7. /\ m.asked \subseteq DOMAIN m.words
      /\ \A i \in 1 .. m.begun :
           \A w \in DOMAIN wire[i].words \cap m.asked \cap Words :
             wire[i].words[w] <= m.words[w]
  BY <1>4, <1>5, <1>6 DEF CopyInv
<1>8. \A w \in DOMAIN m.words \cap Words : m.words[w] <= member[w]
  BY <1>0, <1>5, <1>6 DEF BehindInv
<1>9. /\ wire' \in Seq(Message) /\ Len(wire') = Len(wire) + 1
      /\ \A i \in 1 .. Len(wire) : wire'[i] = wire[i]
      /\ \A i \in 1 .. Len(wire') :
           wire'[i].begun < i /\ wire'[i].asked \subseteq DOMAIN wire'[i].words
      /\ \A i \in 1 .. Len(wire') : \A w \in DOMAIN wire'[i].words \cap Words :
           wire'[i].words[w] <= member'[w]
      /\ WireInOrder'
  BY <1>0, <1>1, <1>2, <1>5, <1>7, <1>8, WireGrows
<1>10. Types'
  <2>1. begun' \in [packet : 0 .. Len(wire'), reply : 0 .. Len(wire')]
    <3>1. begun \in [packet : 0 .. Len(wire), reply : 0 .. Len(wire)]
      BY <1>0 DEF Types
    <3>2. \A k \in 0 .. Len(wire) : k \in 0 .. Len(wire')
      BY <1>0, <1>9, TypeFacts
    <3> QED
      BY <1>1, <3>1, <3>2
  <2>2. /\ UNCHANGED <<main, replymsg, asked, mainTodo, replyAtLeast, replyOverlap>>
    BY <1>1 DEF replyVars
  <2> QED
    BY <1>0, <1>3, <1>9, <2>1, <2>2 DEF Types
<1>11. PacketInv' /\ ReplyInv'
  BY <1>0, <1>1, <1>4, <1>9, ReplyRests DEF PacketInv
<1>12. BehindInv'
  BY <1>0, <1>1, <1>2, <1>9 DEF BehindInv, replyVars
<1>13. StartInv'
  BY <1>1 DEF IInv, StartInv, sensorVars
<1> QED
  BY <1>2, <1>9, <1>10, <1>11, <1>12, <1>13 DEF IInv
-----------------------------------------------------------------------------
(* The main thread.                                                        *)

LEMMA LoopBegins == IInv /\ LoopBegin => IInv'
<1> SUFFICES ASSUME IInv, LoopBegin PROVE IInv'
  OBVIOUS
<1>0. Types /\ TypeOK /\ SensorInv /\ PacketInv /\ ReplyInv /\ MainInit
  BY DEF IInv, Types, LoopBegin
<1>1. /\ board' = "poll" /\ main' = "loop" /\ m_board' = "boardctl"
      /\ board = "off" /\ main = "start"
      /\ UNCHANGED <<fix, gpsTodo, lastFix, sample, submit_temperatue, tempTodo,
                    lastTemp, hid, member, boardTodo, repdata, mainTodo, replymsg,
                    asked, replyAtLeast, replyOverlap, begun, wire>>
  BY DEF IInv, StartInv, LoopBegin, MainInit, tempVars
<1>2. SensorInv' /\ TypeOK' /\ StartInv'
  BY <1>0, <1>1, TelemetryTypes DEF SensorInv, Newest, Complete, Todo, StartInv
<1>3. Types'
  BY <1>0, <1>1, <1>2 DEF Types
<1>4. PacketInv' /\ ReplyInv'
  BY <1>0, <1>1 DEF PacketInv, ReplyInv
<1>5. BehindInv' /\ WireInOrder'
  BY <1>0, <1>1 DEF IInv, BehindInv, WireInOrder
<1> QED
  BY <1>2, <1>3, <1>4, <1>5 DEF IInv

LEMMA RequestsKnown ==
  ASSUME IInv, NEW ws \in Requests, RequestKnown(ws)
  PROVE  IInv'
<1>0. Types /\ TypeOK /\ SensorInv /\ PacketInv /\ BehindInv
  BY DEF IInv, Types
<1>1. /\ main = "loop" /\ main' = "copy" /\ mainTodo' = ws /\ asked' = ws
      /\ replyAtLeast' = <<lastFix, lastTemp>>
      /\ replyOverlap' = (gpsTodo # {} \/ tempTodo # {})
      /\ begun' = [begun EXCEPT !.reply = Len(wire)]
      /\ UNCHANGED <<vars, replymsg, wire>>
  BY DEF RequestKnown, ReplyAllowed
<1>2. UNCHANGED <<sensorVars, board, boardTodo, repdata, atLeast, overlap>>
  BY <1>1 DEF vars, gpsVars, tempVars, boardVars, sensorVars
<1>3. SensorInv' /\ Todo' = Todo /\ member' = member
      /\ \A w : Newest(w)' = Newest(w) /\ Complete(w)' = Complete(w)
  BY <1>0, <1>2, SensorsRest
<1>4. TypeOK'
  BY <1>0, <1>1, TelemetryTypes
<1>5. /\ begun' \in [packet : 0 .. Len(wire), reply : 0 .. Len(wire)]
      /\ begun'.reply = Len(wire) /\ begun'.packet = begun.packet
  <2>1. begun \in [packet : 0 .. Len(wire), reply : 0 .. Len(wire)]
    BY <1>0 DEF Types
  <2>2. Len(wire) \in 0 .. Len(wire)
    BY <1>0, TypeFacts
  <2> QED
    BY <1>1, <2>1, <2>2
<1>7. Types'
  <2>1. replyAtLeast' \in Nat \X Nat /\ replyOverlap' \in BOOLEAN
    BY <1>0, <1>1 DEF TypeOK
  <2>2. /\ asked' \in Requests \cup {{}} /\ mainTodo' \subseteq asked'
        /\ asked' \ mainTodo' \subseteq DOMAIN replymsg'
    BY <1>1
  <2> QED
    BY <1>0, <1>1, <1>4, <1>5, <2>1, <2>2 DEF Types
<1>8. PacketInv'
  BY <1>0, <1>1, <1>2, <1>5, PacketRests
<1>9. ReplyInv'
  <2>1. \A w \in Words : Floor(replyAtLeast', w) <= Complete(w)
    <3>1. \A w : Floor(replyAtLeast', w) = Complete(w)
      BY <1>1 DEF Floor, Complete
    <3> QED
      BY <1>0, <3>1, WordTypes
  <2>2. ~replyOverlap' => Todo = {}
    BY <1>1 DEF Todo
  <2>3. \A w \in Words : Floor(replyAtLeast, w)' = Floor(replyAtLeast', w)
    BY DEF Floor
  <2>4. Copied' = {}
    BY <1>1 DEF Copied
  <2>5. CopyInv(replymsg, Copied, replyAtLeast, begun.reply, replyOverlap)'
    BY <1>3, <2>1, <2>2, <2>3, <2>4 DEF CopyInv
  <2> QED
    BY <1>1, <2>5 DEF ReplyInv
<1>10. BehindInv'
  BY <1>0, <1>1, <1>2, <1>3 DEF BehindInv
<1>11. WireInOrder' /\ StartInv'
  BY <1>1, <1>2 DEF IInv, WireInOrder, StartInv, sensorVars
<1> QED
  BY <1>3, <1>7, <1>8, <1>9, <1>10, <1>11 DEF IInv

\* One word of the body is copied, over what has stood in its place: the
\* other words of the request are elsewhere.
LEMMA WordCopied ==
  ASSUME Types, NEW x \in mainTodo, Source(x) \in Nat,
         replymsg' = [v \in Left(x) \cup {x} |->
                       IF v = x THEN Source(x) ELSE replymsg[v]]
  PROVE  /\ replymsg' \in Readings
         /\ DOMAIN replymsg' \subseteq DOMAIN replymsg \cup {x}
         /\ replymsg'[x] = Source(x)
         /\ \A w \in DOMAIN replymsg' : w # x => replymsg'[w] = replymsg[w]
         /\ \A w \in asked \ (mainTodo \ {x}) : w \in DOMAIN replymsg'
<1> DEFINE D == Left(x) \cup {x}
<1>1. x \in asked /\ asked \in Requests /\ x \in AllWords
  <2>1. x \in asked /\ asked \in Requests
    BY DEF Types
  <2> QED
    BY <2>1, Kinds
<1>2. replymsg \in Readings /\ Left(x) \subseteq DOMAIN replymsg
  BY DEF Types, Left
<1>3. /\ DOMAIN replymsg \subseteq AllWords
      /\ \A w \in DOMAIN replymsg : replymsg[w] \in Nat
      /\ \A w \in DOMAIN replymsg \cap DirectionWords : replymsg[w] = 0
  BY <1>2, WordsOfReading
<1>4. /\ DOMAIN replymsg' = D /\ D \subseteq DOMAIN replymsg \cup {x}
      /\ \A w \in D : replymsg'[w] = IF w = x THEN Source(x) ELSE replymsg[w]
  BY <1>2
<1>5. replymsg' \in Readings
  <2>1. D \in SUBSET AllWords
    BY <1>1, <1>3, <1>4
  <2>2. replymsg' \in [D -> Nat]
    BY <1>2, <1>3
  <2>3. \A w \in D \cap DirectionWords : replymsg'[w] = 0
    BY <1>3, <1>4, Kinds DEF Source
  <2> HIDE DEF D
  <2> QED
    BY <2>1, <2>2, <2>3, ReadingOf, Zenon
<1>6. \A w \in asked \ (mainTodo \ {x}) : w \in D
  <2> SUFFICES ASSUME NEW w \in asked, w \notin mainTodo, w # x
               PROVE  w \in Left(x)
    OBVIOUS
  <2>1. w \in DOMAIN replymsg
    BY DEF Types
  <2>2. Place[w] # Place[x]
    BY <1>1, PlaceAssumption DEF Requests
  <2> QED
    BY <2>1, <2>2 DEF Left
<1> QED
  BY <1>4, <1>5, <1>6

LEMMA RepliesCopied == IInv /\ ReplyCopy => IInv'
<1> SUFFICES ASSUME IInv, ReplyCopy PROVE IInv'
  OBVIOUS
<1>0. Types /\ TypeOK /\ SensorInv /\ PacketInv /\ ReplyInv /\ BehindInv
  BY DEF IInv, Types
<1>1. PICK x \in mainTodo :
        /\ replymsg' = [v \in Left(x) \cup {x} |->
                         IF v = x THEN Source(x) ELSE replymsg[v]]
        /\ mainTodo' = mainTodo \ {x}
        /\ UNCHANGED <<vars, main, asked, replyAtLeast, replyOverlap, begun, wire>>
  BY DEF ReplyCopy
<1>2. UNCHANGED <<sensorVars, board, boardTodo, repdata, atLeast, overlap>>
  BY <1>1 DEF vars, gpsVars, tempVars, boardVars, sensorVars
<1>3. SensorInv' /\ Todo' = Todo /\ member' = member
      /\ \A w : Newest(w)' = Newest(w) /\ Complete(w)' = Complete(w)
  BY <1>0, <1>2, SensorsRest
<1>4. TypeOK'
  BY <1>0, <1>1, TelemetryTypes
<1>5. /\ x \in asked /\ main = "copy" /\ Source(x) \in Nat
      /\ x \in Words => Source(x) = member[x]
  <2>1. x \in asked /\ main = "copy"
    BY <1>0, <1>1 DEF Types, ReplyInv
  <2>2. x \in Words => Source(x) = member[x] /\ member[x] \in Nat
    BY <1>0, WordTypes DEF Source
  <2>3. x \notin Words => Source(x) = 0
    BY DEF Source
  <2> QED
    BY <2>1, <2>2, <2>3
<1>6. /\ replymsg' \in Readings
      /\ DOMAIN replymsg' \subseteq DOMAIN replymsg \cup {x}
      /\ replymsg'[x] = Source(x)
      /\ \A w \in DOMAIN replymsg' : w # x => replymsg'[w] = replymsg[w]
      /\ \A w \in asked \ (mainTodo \ {x}) : w \in DOMAIN replymsg'
  BY <1>0, <1>1, <1>5, WordCopied
<1>7. Types'
  <2>1. /\ asked' \in Requests \cup {{}} /\ mainTodo' \subseteq asked'
        /\ asked' \ mainTodo' \subseteq DOMAIN replymsg'
    BY <1>0, <1>1, <1>6 DEF Types
  <2> QED
    BY <1>0, <1>1, <1>4, <1>6, <2>1 DEF Types
<1>8. PacketInv'
  BY <1>0, <1>1, <1>2, PacketRests
<1>9. ReplyInv'
  <2>1. CopyInv(replymsg, Copied, replyAtLeast, begun.reply, replyOverlap)
    BY <1>0, <1>5 DEF ReplyInv
  <2>2. ASSUME x \in Words
        PROVE  /\ Floor(replyAtLeast, x) <= member[x] /\ member[x] <= Newest(x)
               /\ \A i \in 1 .. begun.reply :
                    x \in DOMAIN wire[i].words => wire[i].words[x] <= member[x]
               /\ Todo = {} => member[x] = Newest(x)
    <3>1. begun.reply \in 0 .. Len(wire) /\ Len(wire) \in Nat
      BY <1>0, TypeFacts
    <3>2. replyAtLeast \in Nat \X Nat
      BY <1>0 DEF Types
    <3>3. \A w \in Words : Floor(replyAtLeast, w) <= Complete(w)
      BY <2>1 DEF CopyInv
    <3> QED
      BY <1>0, <2>2, <3>1, <3>2, <3>3, CopyOne
  <2>3. \A w \in Copied' :
          /\ w \in Words
          /\ \/ w = x /\ replymsg'[w] = member[x]
             \/ w \in Copied /\ replymsg'[w] = replymsg[w]
    <3> SUFFICES ASSUME NEW w \in Copied'
                 PROVE  /\ w \in Words
                        /\ \/ w = x /\ replymsg'[w] = member[x]
                           \/ w \in Copied /\ replymsg'[w] = replymsg[w]
      OBVIOUS
    <3>1. w \in asked /\ w \in Words /\ w \notin mainTodo \ {x}
      BY <1>1 DEF Copied, Words
    <3>2. w # x => w \in Copied
      BY <3>1 DEF Copied
    <3> QED
      BY <1>5, <1>6, <3>1, <3>2
  <2>4. \A w \in Words : Floor(replyAtLeast, w)' = Floor(replyAtLeast, w)
    BY <1>1 DEF Floor
  <2>6. \A w \in Words : Floor(replyAtLeast, w)' <= Complete(w)'
    BY <1>3, <2>1, <2>4 DEF CopyInv
  <2>7. \A w \in Copied' :
          /\ Floor(replyAtLeast, w)' <= replymsg'[w] /\ replymsg'[w] <= Newest(w)'
          /\ Todo = {} /\ ~replyOverlap => replymsg'[w] = Newest(w)'
    BY <1>3, <2>1, <2>2, <2>3, <2>4 DEF CopyInv
  <2>8. \A w \in Copied' : \A i \in 1 .. begun.reply :
          w \in DOMAIN wire[i].words => wire[i].words[w] <= replymsg'[w]
    BY <2>1, <2>2, <2>3 DEF CopyInv
  <2>9. ~replyOverlap => Todo = {}
    BY <2>1 DEF CopyInv
  <2>10. CopyInv(replymsg, Copied, replyAtLeast, begun.reply, replyOverlap)'
    BY <1>1, <1>3, <2>6, <2>7, <2>8, <2>9 DEF CopyInv
  <2> QED
    BY <1>1, <1>5, <2>10 DEF ReplyInv
<1>10. BehindInv'
  <2>1. \A w \in DOMAIN replymsg' \cap Words : replymsg'[w] <= member[w]
    <3> SUFFICES ASSUME NEW w \in DOMAIN replymsg', w \in Words
                 PROVE  replymsg'[w] <= member[w]
      OBVIOUS
    <3>1. CASE w = x
      <4>1. replymsg'[w] = member[w] /\ member[w] \in Nat
        BY <1>0, <1>5, <1>6, <3>1, WordTypes
      <4> QED
        BY <4>1
    <3>2. CASE w # x
      BY <1>0, <1>6, <3>2 DEF BehindInv
    <3> QED
      BY <3>1, <3>2
  <2> QED
    BY <1>0, <1>1, <1>2, <1>3, <2>1 DEF BehindInv
<1>11. WireInOrder' /\ StartInv'
  BY <1>1, <1>2 DEF IInv, WireInOrder, StartInv, sensorVars
<1> QED
  BY <1>3, <1>7, <1>8, <1>9, <1>10, <1>11 DEF IInv

\* An answer is submitted: m is the message, of the bytes the static reply
\* holds at that moment.
LEMMA ReplySubmitted ==
  ASSUME IInv, UNCHANGED <<vars, mainTodo, replymsg, replyAtLeast, replyOverlap, begun>>,
         NEW m \in Message, wire' = Append(wire, m), m.words = replymsg,
         m.begun <= Len(wire), m.asked \subseteq DOMAIN m.words,
         \A i \in 1 .. m.begun :
           \A w \in DOMAIN wire[i].words \cap m.asked \cap Words :
             wire[i].words[w] <= m.words[w],
         main \in {"loop", "copy"}, main' \in {"start", "loop", "copy"},
         \/ UNCHANGED <<main, asked>>
         \/ main' = "loop" /\ mainTodo = {} /\ asked' = {}
  PROVE  IInv'
<1>0. /\ Types /\ TypeOK /\ SensorInv /\ PacketInv /\ ReplyInv /\ BehindInv
      /\ WireInOrder
  BY DEF IInv, Types
<1>1. UNCHANGED <<sensorVars, board, boardTodo, repdata, atLeast, overlap>>
  BY DEF vars, gpsVars, tempVars, boardVars, sensorVars
<1>2. SensorInv' /\ Todo' = Todo /\ member' = member
      /\ \A w : Newest(w)' = Newest(w) /\ Complete(w)' = Complete(w)
  BY <1>0, <1>1, SensorsRest
<1>3. TypeOK'
  BY <1>0, TelemetryTypes
<1>4. \A w \in DOMAIN m.words \cap Words : m.words[w] <= member[w]
  BY <1>0 DEF BehindInv
<1>5. /\ wire' \in Seq(Message) /\ Len(wire') = Len(wire) + 1
      /\ \A i \in 1 .. Len(wire) : wire'[i] = wire[i]
      /\ \A i \in 1 .. Len(wire') :
           wire'[i].begun < i /\ wire'[i].asked \subseteq DOMAIN wire'[i].words
      /\ \A i \in 1 .. Len(wire') : \A w \in DOMAIN wire'[i].words \cap Words :
           wire'[i].words[w] <= member'[w]
      /\ WireInOrder'
  BY <1>0, <1>2, <1>4, WireGrows
<1>6. Types'
  <2>1. begun' \in [packet : 0 .. Len(wire'), reply : 0 .. Len(wire')]
    <3>1. begun \in [packet : 0 .. Len(wire), reply : 0 .. Len(wire)]
      BY <1>0 DEF Types
    <3>2. \A k \in 0 .. Len(wire) : k \in 0 .. Len(wire')
      BY <1>0, <1>5, TypeFacts
    <3> QED
      BY <3>1, <3>2
  <2>2. /\ asked' \in Requests \cup {{}} /\ mainTodo' \subseteq asked'
        /\ asked' \ mainTodo' \subseteq DOMAIN replymsg'
    BY <1>0 DEF Types
  <2> QED
    BY <1>0, <1>3, <1>5, <2>1, <2>2 DEF Types
<1>7. PacketInv'
  BY <1>0, <1>1, <1>5, PacketRests
<1>8. ReplyInv'
  <2>1. CASE UNCHANGED <<main, asked>>
    BY <1>0, <1>1, <1>5, <2>1, ReplyRests DEF replyVars
  <2>2. CASE main' = "loop" /\ mainTodo = {}
    BY <2>2 DEF ReplyInv
  <2> QED
    BY <2>1, <2>2
<1>9. BehindInv'
  BY <1>0, <1>1, <1>2, <1>5 DEF BehindInv
<1>10. StartInv'
  BY <1>1 DEF IInv, StartInv, sensorVars
<1> QED
  BY <1>2, <1>5, <1>6, <1>7, <1>8, <1>9, <1>10 DEF IInv

LEMMA RequestsOther == IInv /\ RequestOther => IInv'
<1> SUFFICES ASSUME IInv, RequestOther PROVE IInv'
  OBVIOUS
<1> DEFINE m == [words |-> replymsg, asked |-> {}, begun |-> Len(wire), answer |-> TRUE]
<1>1. /\ main = "loop" /\ wire' = Append(wire, m)
      /\ UNCHANGED <<vars, main, mainTodo, replymsg, asked, replyAtLeast, replyOverlap, begun>>
  BY DEF RequestOther, ReplyAllowed, replyVars
<1>2. /\ m \in Message /\ m.words = replymsg /\ m.begun <= Len(wire) /\ m.asked = {}
  <2>1. replymsg \in Readings /\ Len(wire) \in Nat
    BY TypeFacts DEF IInv, Types
  <2> QED
    BY <2>1 DEF Message
<1> HIDE DEF m
<1> QED
  BY <1>1, <1>2, ReplySubmitted

LEMMA RepliesSent == IInv /\ ReplySend => IInv'
<1> SUFFICES ASSUME IInv, ReplySend PROVE IInv'
  OBVIOUS
<1> DEFINE m == [words |-> replymsg, asked |-> asked, begun |-> begun.reply,
              answer |-> TRUE]
<1>1. /\ main = "copy" /\ mainTodo = {} /\ main' = "loop" /\ wire' = Append(wire, m)
      /\ asked' = {}
      /\ UNCHANGED <<vars, mainTodo, replymsg, replyAtLeast, replyOverlap, begun>>
  BY DEF ReplySend
<1>2. /\ m \in Message /\ m.words = replymsg /\ m.begun = begun.reply
      /\ m.begun <= Len(wire) /\ m.asked = asked /\ asked \subseteq DOMAIN replymsg
  <2>1. /\ replymsg \in Readings /\ Len(wire) \in Nat
        /\ begun.reply \in 0 .. Len(wire)
    BY TypeFacts DEF IInv, Types
  <2>2. asked \in SUBSET AllWords /\ asked \subseteq DOMAIN replymsg
    BY <1>1, Kinds DEF IInv, Types
  <2> QED
    BY <2>1, <2>2 DEF Message
<1> HIDE DEF m
<1>3. CopyInv(replymsg, asked \cap Words, replyAtLeast, begun.reply, replyOverlap)
  <2>1. Copied = asked \cap Words
    BY <1>1 DEF Copied
  <2> QED
    BY <1>1, <2>1 DEF IInv, ReplyInv
<1>4. \A i \in 1 .. m.begun :
        \A w \in DOMAIN wire[i].words \cap m.asked \cap Words :
          wire[i].words[w] <= m.words[w]
  BY <1>2, <1>3 DEF CopyInv
<1> QED
  BY <1>1, <1>2, <1>4, ReplySubmitted
-----------------------------------------------------------------------------
LEMMA NextIInv == IInv /\ [WireNext]_wireVars => IInv'
<1>1. ASSUME IInv, NEW ws \in Requests, RequestKnown(ws) PROVE IInv'
  BY <1>1, RequestsKnown
<1>2. ASSUME IInv, UNCHANGED wireVars PROVE IInv'
  <2>1. UNCHANGED <<sensorVars, board, boardTodo, repdata, atLeast, overlap, vars, main,
                    mainTodo, replymsg, asked, replyAtLeast, replyOverlap, begun, wire>>
    BY <1>2 DEF wireVars, vars, gpsVars, tempVars, boardVars, replyVars, sensorVars
  <2>2. Types /\ TypeOK /\ SensorInv /\ PacketInv /\ ReplyInv
    BY <1>2 DEF IInv, Types
  <2>3. TypeOK' /\ SensorInv' /\ member' = member
    BY <2>1, <2>2, TelemetryTypes, SensorsRest
  <2>4. PacketInv' /\ ReplyInv'
    BY <2>1, <2>2, PacketRests, ReplyRests DEF replyVars
  <2>5. Types' /\ StartInv' /\ BehindInv' /\ WireInOrder'
    BY <1>2, <2>1, <2>2, <2>3 DEF IInv, Types, StartInv, BehindInv, WireInOrder, sensorVars
  <2> QED
    BY <2>3, <2>4, <2>5 DEF IInv
<1> QED
  BY <1>1, <1>2, LoopBegins, SensorKeeps, PacketBegins, PacketCopies, PacketSends,
     RequestsOther, RepliesCopied, RepliesSent DEF WireNext, Requests

LEMMA Invariant == WireSpec => []IInv
BY InitIInv, NextIInv, PTL DEF WireSpec

\* A reading of the invariant is one of the run's.
LEMMA TypesImply == Types => WireTypeOK
<1> SUFFICES ASSUME Types PROVE WireTypeOK
  OBVIOUS
<1>1. \A r \in Readings : IsReading(r)
  BY WordsOfReading DEF IsReading
<1>2. \A i \in 1 .. Len(wire) : wire[i] \in Message
  BY DEF Types
<1>3. \A i \in 1 .. Len(wire) : IsMessage(wire[i]) /\ wire[i].begun < i
  BY <1>1, <1>2 DEF Types, Message, IsMessage
<1>4. asked \in {{}, LocationWords, TempWords, DirectionWords}
  BY DEF Types, Requests
<1> QED
  BY <1>1, <1>3, <1>4 DEF Types, WireTypeOK

\* No packet, and no word of an answer to a request for it, carries
\* telemetry older than what was complete when its assembly began, without
\* a lock between the five threads (boardctl.cpp boardctl::sub_routine and
\* host_request_proc).
THEOREM TelemetryNeverStale == WireSpec => []NeverStale
<1>1. ASSUME IInv PROVE Fresh
  <2> SUFFICES ASSUME board = "send" PROVE Fresh
    BY DEF Fresh
  <2>1. CopyInv(repdata, Words, atLeast, begun.packet, overlap) /\ TypeOK
    <3>1. boardTodo = {} /\ Words \ boardTodo = Words
      BY <1>1 DEF IInv, PacketInv
    <3> QED
      BY <1>1, <3>1 DEF IInv, PacketInv, Types
  <2>2. \A w \in GpsWords : repdata[w] \in atLeast[1] .. fix
    BY <2>1 DEF CopyInv, Floor, Newest, TypeOK, Words
  <2>3. \A w \in TempWords : repdata[w] \in atLeast[2] .. submit_temperatue
    BY <2>1, WordAssumption DEF CopyInv, Floor, Newest, TypeOK, Words
  <2> QED
    BY <2>2, <2>3 DEF Fresh
<1>2. ASSUME IInv PROVE ReplyFresh
  <2> SUFFICES ASSUME Answered PROVE ReplyFresh
    BY DEF ReplyFresh
  <2>1. CopyInv(replymsg, asked \cap Words, replyAtLeast, begun.reply, replyOverlap)
    <3>1. Copied = asked \cap Words
      BY DEF Answered, Copied
    <3> QED
      BY <1>2, <3>1 DEF IInv, ReplyInv, Answered
  <2>2. /\ replyAtLeast \in Nat \X Nat /\ fix \in Nat /\ submit_temperatue \in Nat
        /\ \A w \in asked : replymsg[w] \in Nat
    BY <1>2, TypeFacts DEF IInv, Types, TypeOK, Answered
  <2>3. \A w \in asked \cap GpsWords : replymsg[w] \in replyAtLeast[1] .. fix
    BY <2>1, <2>2 DEF CopyInv, Floor, Newest, Words
  <2>4. \A w \in asked \cap TempWords :
          replymsg[w] \in replyAtLeast[2] .. submit_temperatue
    BY <2>1, <2>2, WordAssumption DEF CopyInv, Floor, Newest, Words
  <2> QED
    BY <2>3, <2>4 DEF ReplyFresh
<1>3. IInv => NeverStale
  BY <1>1, <1>2, TypesImply DEF IInv, NeverStale
<1> QED
  BY <1>3, Invariant, PTL

\* A packet mixes two fixes, or two samples, only if one was being stored
\* while it was assembled, and so do the words an answer was asked for.
THEOREM MixNeedsOverlap == WireSpec => []MixedOnlyIfOverlap
<1>1. ASSUME IInv PROVE TornOnlyIfOverlap
  <2> SUFFICES ASSUME board = "send", ~overlap PROVE TornOnlyIfOverlap
    BY DEF TornOnlyIfOverlap
  <2>1. CopyInv(repdata, Words, atLeast, begun.packet, overlap)
    <3>1. boardTodo = {} /\ Words \ boardTodo = Words
      BY <1>1 DEF IInv, PacketInv
    <3> QED
      BY <1>1, <3>1 DEF IInv, PacketInv
  <2>2. \A w \in Words : repdata[w] = Newest(w)
    BY <2>1 DEF CopyInv
  <2> QED
    BY <2>2, WordAssumption DEF TornOnlyIfOverlap, Newest, Words
<1>2. ASSUME IInv PROVE ReplyTornOnlyIfOverlap
  <2> SUFFICES ASSUME Answered, ~replyOverlap PROVE ReplyTornOnlyIfOverlap
    BY DEF ReplyTornOnlyIfOverlap
  <2>1. CopyInv(replymsg, asked \cap Words, replyAtLeast, begun.reply, replyOverlap)
    <3>1. Copied = asked \cap Words
      BY DEF Answered, Copied
    <3> QED
      BY <1>2, <3>1 DEF IInv, ReplyInv, Answered
  <2>2. \A w \in asked \cap Words : replymsg[w] = Newest(w)
    BY <2>1 DEF CopyInv
  <2> QED
    BY <2>2, WordAssumption DEF ReplyTornOnlyIfOverlap, Newest, Words
<1>3. IInv => MixedOnlyIfOverlap
  BY <1>1, <1>2 DEF MixedOnlyIfOverlap
<1> QED
  BY <1>3, Invariant, PTL

\* In the words it was asked for, or in all of them if it is a packet, a
\* message is never older than one submitted before it was begun.
THEOREM WireStaysInOrder == WireSpec => []WireInOrder
<1>1. IInv => WireInOrder
  BY DEF IInv
<1> QED
  BY <1>1, Invariant, PTL
-----------------------------------------------------------------------------
(* What an answer carries besides what it was asked for.                   *)

\* The host has a word of value r from the latest answer asked for it.
Known(w, r, n) == \E i \in 1 .. n : LastAsked(w, i, n) /\ wire[i].words[w] = r

RestInv ==
  /\ main # "copy" => asked = {}
  /\ \A w \in DOMAIN replymsg \ asked : Known(w, replymsg[w], Len(wire))
  /\ RestIsRepeated

\* Nothing is sent, and the body gains only words it is asked for.
LEMMA RestKept ==
  ASSUME RestInv, wire' = wire, main' # "copy" => asked' = {},
         \A w \in DOMAIN replymsg' \ asked' :
           w \in DOMAIN replymsg \ asked /\ replymsg'[w] = replymsg[w]
  PROVE  RestInv'
<1>1. \A w \in DOMAIN replymsg' \ asked' : Known(w, replymsg'[w], Len(wire))
  BY DEF RestInv
<1>2. \A w, r, n : Known(w, r, n)' = Known(w, r, n)
  BY DEF Known, LastAsked
<1> QED
  BY <1>1, <1>2 DEF RestInv, RestIsRepeated, LastAsked

\* What is known up to n stays known there when the wire grows, and beyond n
\* as long as no answer is asked for it.
LEMMA KnownGrows ==
  ASSUME Types, NEW m \in Message, wire' = Append(wire, m), NEW w, NEW r,
         NEW n \in 0 .. Len(wire), Known(w, r, n)
  PROVE  /\ \E i \in 1 .. n : LastAsked(w, i, n)' /\ wire'[i].words[w] = r
         /\ n = Len(wire) /\ (m.answer => w \notin m.asked) =>
              \E i \in 1 .. Len(wire') :
                LastAsked(w, i, Len(wire))' /\ wire'[i].words[w] = r
<1>1. /\ Len(wire) \in Nat /\ Len(wire') = Len(wire) + 1
      /\ \A k \in 1 .. Len(wire) : wire'[k] = wire[k]
      /\ wire'[Len(wire) + 1] = m
  BY DEF Types
<1>2. PICK i \in 1 .. n : LastAsked(w, i, n) /\ wire[i].words[w] = r
  BY DEF Known
<1>3. /\ i \in 1 .. Len(wire) /\ wire'[i] = wire[i]
      /\ \A k \in i + 1 .. n : k \in 1 .. Len(wire) /\ wire'[k] = wire[k]
  BY <1>1
<1>4. LastAsked(w, i, n)' /\ wire'[i].words[w] = r
  BY <1>2, <1>3 DEF LastAsked
<1>5. ASSUME n = Len(wire), m.answer => w \notin m.asked
      PROVE  LastAsked(w, i, Len(wire))'
  <2>1. \A k \in i + 1 .. Len(wire') : k \in i + 1 .. n \/ k = Len(wire) + 1
    BY <1>1, <1>5
  <2>2. \A k \in i + 1 .. Len(wire') : wire'[k].answer => w \notin wire'[k].asked
    BY <1>1, <1>4, <1>5, <2>1 DEF LastAsked
  <2> QED
    BY <1>4, <2>2 DEF LastAsked
<1>6. i \in 1 .. Len(wire')
  BY <1>1, <1>3
<1> QED
  BY <1>4, <1>5, <1>6

\* A message is sent: a packet, or an answer with the body as it is.
LEMMA RestSent ==
  ASSUME Types, RestInv, replymsg' = replymsg, main' # "copy" => asked' = {},
         NEW m \in Message, wire' = Append(wire, m),
         \/ ~m.answer /\ asked' = asked
         \/ m.answer /\ m.words = replymsg /\ m.asked = asked /\ asked' = {}
  PROVE  RestInv'
<1>1. /\ Len(wire) \in Nat /\ Len(wire') = Len(wire) + 1
      /\ \A k \in 1 .. Len(wire) : wire'[k] = wire[k]
      /\ wire'[Len(wire) + 1] = m
  BY DEF Types
<1>2. \A w \in DOMAIN replymsg \ asked :
        /\ Known(w, replymsg[w], Len(wire))
        /\ m.answer => w \notin m.asked
  BY DEF RestInv
<1>3. \A w \in DOMAIN replymsg' \ asked' : Known(w, replymsg[w], Len(wire))'
  <2> SUFFICES ASSUME NEW w \in DOMAIN replymsg, w \notin asked'
               PROVE  \E i \in 1 .. Len(wire') :
                        /\ LastAsked(w, i, Len(wire))'
                        /\ wire'[i].words[w] = replymsg[w]
    BY DEF Known
  <2>1. CASE w \notin asked
    <3>1. Known(w, replymsg[w], Len(wire)) /\ (m.answer => w \notin m.asked)
      BY <1>2, <2>1
    <3>2. Len(wire) \in 0 .. Len(wire)
      BY <1>1
    <3> QED
      BY <3>1, <3>2, KnownGrows
  <2>2. CASE w \in asked
    <3>1. m.answer /\ m.words = replymsg /\ w \in m.asked
      BY <2>2
    <3>2. Len(wire') \in 1 .. Len(wire') /\ wire'[Len(wire')] = m
      BY <1>1
    <3>3. \A k \in Len(wire') + 1 .. Len(wire') : FALSE
      BY <1>1
    <3> QED
      BY <3>1, <3>2, <3>3 DEF LastAsked
  <2> QED
    BY <2>1, <2>2
<1>4. RestIsRepeated'
  <2> SUFFICES ASSUME NEW j \in 1 .. Len(wire'), wire'[j].answer,
                      NEW w \in DOMAIN wire'[j].words \ wire'[j].asked
               PROVE  \E i \in 1 .. j - 1 :
                        /\ LastAsked(w, i, j - 1)'
                        /\ wire'[i].words[w] = wire'[j].words[w]
    BY DEF RestIsRepeated
  <2>1. j - 1 \in 0 .. Len(wire)
    BY <1>1
  <2>2. Known(w, wire'[j].words[w], j - 1)
    <3>1. CASE j \in 1 .. Len(wire)
      <4>1. wire'[j] = wire[j]
        BY <1>1, <3>1
      <4> QED
        BY <3>1, <4>1 DEF RestInv, RestIsRepeated, Known
    <3>2. CASE j = Len(wire) + 1
      <4>1. wire'[j] = m /\ j - 1 = Len(wire)
        BY <1>1, <3>2
      <4>2. m.words = replymsg /\ m.asked = asked
        BY <4>1
      <4> QED
        BY <1>2, <4>1, <4>2
    <3> QED
      BY <1>1, <3>1, <3>2
  <2> QED
    BY <2>1, <2>2, KnownGrows
<1> QED
  BY <1>3, <1>4 DEF RestInv

LEMMA NextRestInv == IInv /\ RestInv /\ [WireNext]_wireVars => RestInv'
<1> SUFFICES ASSUME IInv, RestInv, [WireNext]_wireVars PROVE RestInv'
  OBVIOUS
<1>0. Types /\ Len(wire) \in Nat /\ replymsg \in Readings
  BY TypeFacts DEF IInv, Types
<1>1. CASE LoopBegin \/ SensorStep \/ PacketBegin \/ PacketCopy \/ UNCHANGED wireVars
  <2>1. UNCHANGED <<replymsg, asked, wire>> /\ (main' # "copy" => asked' = {})
    BY <1>1 DEF LoopBegin, MainInit, SensorStep, PacketBegin, PacketCopy, wireVars,
       replyVars, RestInv, IInv, StartInv
  <2> QED
    BY <2>1, RestKept
<1>2. CASE PacketSend
  <2> DEFINE m == [words |-> repdata, asked |-> Words, begun |-> begun.packet,
                  answer |-> FALSE]
  <2>1. repdata \in Readings /\ Words \in SUBSET AllWords
    <3>1. repdata \in [Words -> Nat]
      BY <1>0 DEF Types, TypeOK
    <3>2. /\ Words \in SUBSET AllWords
          /\ \A w \in Words \cap DirectionWords : repdata[w] = 0
      BY Kinds DEF AllWords
    <3> QED
      BY <3>1, <3>2, ReadingOf, Zenon
  <2>2. m \in Message /\ ~m.answer
    BY <1>0, <2>1, TypeFacts DEF Message
  <2>3. /\ wire' = Append(wire, m) /\ UNCHANGED <<replymsg, asked>>
        /\ main' # "copy" => asked' = {}
    BY <1>2 DEF PacketSend, replyVars, RestInv
  <2> HIDE DEF m
  <2> QED
    BY <1>0, <2>2, <2>3, RestSent
<1>3. CASE \E ws \in Requests : RequestKnown(ws)
  <2>1. PICK ws \in Requests : RequestKnown(ws)
    BY <1>3
  <2>2. /\ main = "loop" /\ main' = "copy" /\ UNCHANGED <<replymsg, wire>>
    BY <2>1 DEF RequestKnown, ReplyAllowed
  <2>3. asked = {}
    BY <2>2 DEF RestInv
  <2> QED
    BY <2>2, <2>3, RestKept
<1>4. CASE RequestOther
  <2> DEFINE m == [words |-> replymsg, asked |-> {}, begun |-> Len(wire),
                  answer |-> TRUE]
  <2>1. m \in Message /\ m.answer /\ m.words = replymsg /\ m.asked = {}
    BY <1>0 DEF Message
  <2>2. /\ wire' = Append(wire, m) /\ main = "loop"
        /\ UNCHANGED <<main, replymsg, asked>>
    BY <1>4 DEF RequestOther, ReplyAllowed, replyVars
  <2>3. asked = {}
    BY <2>2 DEF RestInv
  <2> HIDE DEF m
  <2> QED
    BY <1>0, <2>1, <2>2, <2>3, RestSent
<1>5. CASE ReplyCopy
  <2>1. PICK x \in mainTodo :
          /\ replymsg' = [v \in Left(x) \cup {x} |->
                           IF v = x THEN Source(x) ELSE replymsg[v]]
          /\ UNCHANGED <<main, asked, wire>>
    BY <1>5 DEF ReplyCopy
  <2>2. x \in asked /\ Left(x) \subseteq DOMAIN replymsg
    BY <1>0 DEF Types, Left
  <2>3. \A w \in DOMAIN replymsg' \ asked' :
          w \in DOMAIN replymsg \ asked /\ replymsg'[w] = replymsg[w]
    BY <2>1, <2>2
  <2> QED
    BY <2>1, <2>3, RestKept DEF RestInv
<1>6. CASE ReplySend
  <2> DEFINE m == [words |-> replymsg, asked |-> asked, begun |-> begun.reply,
                  answer |-> TRUE]
  <2>1. asked \in SUBSET AllWords /\ begun.reply \in Nat
    BY <1>0, TypeFacts, Kinds DEF Types
  <2>2. m \in Message /\ m.answer /\ m.words = replymsg /\ m.asked = asked
    BY <1>0, <2>1 DEF Message
  <2>3. wire' = Append(wire, m) /\ replymsg' = replymsg /\ asked' = {}
    BY <1>6 DEF ReplySend
  <2> HIDE DEF m
  <2> QED
    BY <1>0, <2>2, <2>3, RestSent
<1> QED
  BY <1>1, <1>2, <1>3, <1>4, <1>5, <1>6 DEF WireNext, Requests

\* What an answer carries besides what it was asked for, the whole of it when
\* the type is unknown, repeats the latest answer that was asked for it
\* (boardctl.cpp host_request_proc: the reply is static and sent whole).
THEOREM AnswersRepeat == WireSpec => []RestIsRepeated
<1>1. WireInit => RestInv
  <2> SUFFICES ASSUME WireInit PROVE RestInv
    OBVIOUS
  <2>1. asked = {} /\ Len(wire) = 0 /\ DOMAIN replymsg = {}
    BY DEF WireInit
  <2>2. RestIsRepeated
    BY <2>1 DEF RestIsRepeated
  <2> QED
    BY <2>1, <2>2 DEF RestInv
<1>2. RestInv => RestIsRepeated
  BY DEF RestInv
<1> QED
  BY <1>1, <1>2, Invariant, NextRestInv, PTL DEF WireSpec
-----------------------------------------------------------------------------
(* The text of the readings.                                              *)

\* Quotients and remainders.
LEMMA Tens ==
  ASSUME NEW x \in Nat
  PROVE  /\ x \div 10 \in Nat /\ x % 10 \in 0 .. 9
         /\ x = 10 * (x \div 10) + (x % 10)
  BY SMT

LEMMA Day ==
  ASSUME NEW x \in Nat
  PROVE  /\ x \div 24 \in Nat /\ x % 24 \in 0 .. 23
         /\ x = 24 * (x \div 24) + (x % 24)
  BY SMT

\* The digits of a number, by how many there are.
LEMMA DigitsOne == ASSUME NEW w \in 0 .. 9 PROVE Digits(w) = <<w>>
<1>1. w < 10
  OBVIOUS
<1> QED
  BY <1>1, Zenon DEF Digits

LEMMA DigitsTwo ==
  ASSUME NEW w \in 10 .. 99
  PROVE  Digits(w) = <<w \div 10, w % 10>>
<1>1. ~(w < 10) /\ w < 100
  OBVIOUS
<1> QED
  BY <1>1, Zenon DEF Digits

LEMMA DigitsThree ==
  ASSUME NEW w \in 100 .. 999
  PROVE  Digits(w) = <<w \div 100, (w \div 10) % 10, w % 10>>
<1>1. ~(w < 10) /\ ~(w < 100) /\ w < 1000
  OBVIOUS
<1> QED
  BY <1>1, SMT DEF Digits

LEMMA DigitsFour ==
  ASSUME NEW w \in Nat, w >= 1000
  PROVE  Digits(w) = <<w \div 1000, (w \div 100) % 10, (w \div 10) % 10, w % 10>>
<1>1. ~(w < 10) /\ ~(w < 100) /\ ~(w < 1000)
  OBVIOUS
<1> QED
  BY <1>1, SMT DEF Digits

LEMMA Hundreds ==
  ASSUME NEW w \in Nat
  PROVE  /\ w = 100 * (w \div 100) + 10 * ((w \div 10) % 10) + (w % 10)
         /\ w = 1000 * (w \div 1000) + 100 * ((w \div 100) % 10) + 10 * ((w \div 10) % 10) + (w % 10)
         /\ w \div 100 \in Nat /\ w \div 1000 \in Nat
         /\ w < 1000 => w \div 100 \in 0 .. 9
         /\ w < 10000 => w \div 1000 \in 0 .. 9
  BY SMT

\* atoi of the two characters of an hour, and of any two.
LEMMA SignsApart == Minus \notin Digit /\ Plus \notin Digit /\ Blank \notin Digit
  BY DEF Minus, Plus, Blank, Digit

LEMMA HourRead ==
  ASSUME NEW k \in 0 .. 23
  PROVE  Atoi(k \div 10, k % 10) = k
<1>1. k \div 10 \in Digit /\ k % 10 \in Digit
  BY DEF Digit
<1>2. Atoi(k \div 10, k % 10) = 10 * (k \div 10) + (k % 10)
  <2> DEFINE a == k \div 10 b == k % 10
  <2>1. a \in Digit /\ b \in Digit
    BY <1>1
  <2> HIDE DEF a, b
  <2>2. Atoi(a, b) = 10 * a + b
    BY <2>1, SignsApart, Zenon DEF Atoi
  <2> QED
    BY <2>2 DEF a, b
<1> QED
  BY <1>2, Tens

LEMMA AtoiRange ==
  ASSUME NEW a \in Char, NEW b \in Char
  PROVE  Atoi(a, b) \in -9 .. 99
<1>1. CASE a \in Digit /\ b \in Digit
  <2>1. Atoi(a, b) = 10 * a + b
    BY <1>1, SignsApart, Zenon DEF Atoi
  <2> QED
    BY <1>1, <2>1 DEF Digit
<1>2. CASE a \in Digit /\ b \notin Digit
  <2>1. Atoi(a, b) = a
    BY <1>2, SignsApart, Zenon DEF Atoi
  <2> QED
    BY <1>2, <2>1 DEF Digit
<1>3. CASE a \notin Digit
  BY <1>3 DEF Atoi, Digit, Char, Minus, Plus, Blank
<1> QED
  BY <1>1, <1>2, <1>3

\* The remainder of C is negative for one hour only.
LEMMA LocalHourRange ==
  ASSUME NEW h \in -9 .. 99
  PROVE  /\ LocalHour(h) \in -1 .. 23
         /\ h \in 0 .. 23 => LocalHour(h) = IF h < 16 THEN h + 8 ELSE h - 16
<1>1. CASE h + 8 >= 0
  <2>1. LocalHour(h) = (h + 8) % 24
    BY <1>1 DEF LocalHour, CRem
  <2> QED
    BY <1>1, <2>1
<1>2. CASE ~(h + 8 >= 0)
  <2>1. h = -9
    BY <1>2
  <2>2. LocalHour(h) = -1
    BY <2>1 DEF LocalHour, CRem
  <2> QED
    BY <2>1, <2>2
<1> QED
  BY <1>1, <1>2

\* "%02d" of what comes out: two characters, those of the hour if it is one.
LEMMA ConcatTwo ==
  ASSUME NEW a \in Char, NEW b \in Char
  PROVE  <<a>> \o <<b>> = <<a, b>>
<1> HIDE DEF Char
<1> DEFINE s == <<a>> t == <<b>> u == <<a, b>>
<1>1. s \in Seq(Char) /\ t \in Seq(Char) /\ u \in Seq(Char)
  OBVIOUS
<1>2. Len(s) = 1 /\ Len(t) = 1 /\ Len(u) = 2
  OBVIOUS
<1>3. s[1] = a /\ t[1] = b /\ u[1] = a /\ u[2] = b
  OBVIOUS
<1> HIDE DEF s, t, u
<1>4. Len(s \o t) = 2 /\ (s \o t) \in Seq(Char)
  BY <1>1, <1>2, ConcatProperties
<1>5. (s \o t)[1] = a /\ (s \o t)[2] = b
  BY <1>1, <1>2, <1>3, ConcatProperties
<1>6. ASSUME NEW i \in 1 .. 2 PROVE (s \o t)[i] = u[i]
  <2>1. i = 1 \/ i = 2
    OBVIOUS
  <2> QED
    BY <2>1, <1>3, <1>5
<1>7. s \o t = u
  BY <1>1, <1>2, <1>4, <1>6, SeqEqual
<1> QED
  BY <1>7 DEF s, t, u

LEMMA TwoDigitsAre ==
  ASSUME NEW l \in -1 .. 23
  PROVE  \E x, y \in Char :
           /\ TwoDigits(l) = <<x, y>>
           /\ l >= 0 => 10 * x + y = l
<1>1. CASE l = -1
  <2>1. Digits(-l) = <<1>>
    <3>1. -l = 1
      <4>1. \A x \in Int : -x + x = 0
        OBVIOUS
      <4>2. 1 \in Int
        OBVIOUS
      <4>3. l + 1 = 0
        BY <1>1, <4>1, <4>2, Zenon
      <4> QED
        BY <4>3
    <3>2. 1 \in 0 .. 9
      OBVIOUS
    <3> QED
      BY <3>1, DigitsOne
  <2>2. TwoDigits(l) = <<Minus>> \o <<1>>
    <3>1. l < 0
      BY <1>1
    <3> QED
      BY <2>1, <3>1, Zenon DEF TwoDigits
  <2>3. <<Minus>> \o <<1>> = <<Minus, 1>>
    BY ConcatTwo DEF Char, Minus
  <2>4. Minus \in Char /\ 1 \in Char
    BY DEF Minus, Char
  <2> QED
    BY <1>1, <2>2, <2>3, <2>4
<1>2. CASE l \in 0 .. 9
  <2>1. TwoDigits(l) = <<0, l>>
    <3>1. ~(l < 0) /\ l < 10
      BY <1>2
    <3> QED
      BY <3>1, Zenon DEF TwoDigits
  <2>2. 0 \in Char /\ l \in Char /\ 10 * 0 + l = l
    BY <1>2 DEF Char
  <2> QED
    BY <2>1, <2>2
<1>3. CASE l \in 10 .. 23
  <2>1. TwoDigits(l) = <<l \div 10, l % 10>>
    <3>1. ~(l < 0) /\ ~(l < 10) /\ l \in 10 .. 99
      BY <1>3
    <3>2. Digits(l) = <<l \div 10, l % 10>>
      BY <3>1, DigitsTwo
    <3> QED
      BY <3>1, <3>2, Zenon DEF TwoDigits
  <2>2. l \div 10 \in Char /\ l % 10 \in Char /\ 10 * (l \div 10) + (l % 10) = l
    BY <1>3 DEF Char
  <2> QED
    BY <2>1, <2>2
<1> QED
  BY <1>1, <1>2, <1>3

\* The text of a sample, put together and cut after four.
LEMMA FourOf ==
  ASSUME NEW s \in Seq(Char), Len(s) >= 4
  PROVE  SubSeq(s, 1, 4) = <<s[1], s[2], s[3], s[4]>>
<1> DEFINE t == <<s[1], s[2], s[3], s[4]>>
           u == SubSeq(s, 1, 4)
<1>1. s[1] \in Char /\ s[2] \in Char /\ s[3] \in Char /\ s[4] \in Char
  OBVIOUS
<1>2. u \in Seq(Char) /\ Len(u) = 4 /\ \A i \in 1 .. 4 : u[i] = s[i]
  OBVIOUS
<1>3. t \in Seq(Char) /\ Len(t) = 4
  BY <1>1
<1>4. t[1] = s[1] /\ t[2] = s[2] /\ t[3] = s[3] /\ t[4] = s[4]
  OBVIOUS
<1> HIDE DEF t, u
<1>5. ASSUME NEW i \in 1 .. 4 PROVE u[i] = t[i]
  <2>1. i = 1 \/ i = 2 \/ i = 3 \/ i = 4
    OBVIOUS
  <2> QED
    BY <2>1, <1>2, <1>4
<1>6. u = t
  BY <1>2, <1>3, <1>5, SeqEqual
<1> QED
  BY <1>6 DEF t, u

LEMMA FirstFour ==
  ASSUME NEW s \in Seq(Char), Len(s) \in 1 .. 4, NEW d \in Digit
  PROVE  \E p \in Seq(Char) :
           /\ Submitted(s \o <<Dot, d, 0>>) = <<p[1], p[2], p[3], p[4]>>
           /\ \A i \in 1 .. Len(s) : p[i] = s[i]
           /\ p[Len(s) + 1] = Dot /\ p[Len(s) + 2] = d /\ p[Len(s) + 3] = 0
<1> DEFINE t == <<Dot, d, 0>> p == s \o t
<1>1. Dot \in Char /\ d \in Char /\ 0 \in Char
  BY DEF Dot, Digit, Char
<1>2. t \in Seq(Char) /\ Len(t) = 3 /\ t[1] = Dot /\ t[2] = d /\ t[3] = 0
  <2> HIDE DEF Char
  <2> QED
    BY <1>1
<1>2a. Len(s) \in Nat /\ Len(s) >= 1
  OBVIOUS
<1> HIDE DEF t
<1>2b. t \in Seq(Char) /\ s \in Seq(Char)
  BY <1>2
<1>2c. /\ p \in Seq(Char) /\ Len(p) = Len(s) + Len(t)
       /\ \A i \in 1 .. Len(s) + Len(t) : p[i] = IF i <= Len(s) THEN s[i] ELSE t[i - Len(s)]
  BY <1>2b, ConcatProperties, Zenon
<1>3. p \in Seq(Char) /\ Len(p) = Len(s) + 3
  BY <1>2, <1>2c, Zenon
<1>4. \A i \in 1 .. Len(s) + 3 : p[i] = IF i <= Len(s) THEN s[i] ELSE t[i - Len(s)]
  BY <1>2, <1>2c, Zenon
<1>5. Submitted(p) = <<p[1], p[2], p[3], p[4]>>
  <2> HIDE DEF p
  <2>1. Len(p) >= 4
    BY <1>3, <1>2a, SMT
  <2> QED
    BY <1>3, <2>1, FourOf DEF Submitted
<1>6. \A i \in 1 .. Len(s) : p[i] = s[i]
  <2> HIDE DEF p
  <2> QED
    BY <1>4, <1>2a
<1>7. p[Len(s) + 1] = Dot /\ p[Len(s) + 2] = d /\ p[Len(s) + 3] = 0
  <2> HIDE DEF p
  <2>1. \A j \in 1 .. 3 : p[Len(s) + j] = t[j]
    <3> SUFFICES ASSUME NEW j \in 1 .. 3 PROVE p[Len(s) + j] = t[j]
      OBVIOUS
    <3>1. Len(s) + j \in 1 .. Len(s) + 3 /\ ~(Len(s) + j <= Len(s)) /\ Len(s) + j - Len(s) = j
      BY <1>2a
    <3>2. p[Len(s) + j] = t[Len(s) + j - Len(s)]
      BY <3>1, <1>4
    <3> QED
      BY <3>1, <3>2
  <2> QED
    BY <2>1, <1>2
<1>8. /\ Submitted(s \o <<Dot, d, 0>>) = <<p[1], p[2], p[3], p[4]>>
      /\ p \in Seq(Char)
  BY <1>3, <1>5, Zenon DEF p, t
<1> HIDE DEF p
<1> QED
  BY <1>6, <1>7, <1>8

\* The four characters submitted, by the number of digits before the point.
LEMMA CutOne ==
  ASSUME NEW a \in Char, NEW d \in Digit
  PROVE  Submitted(<<a>> \o <<Dot, d, 0>>) = <<a, Dot, d, 0>>
<1> DEFINE s == <<a>>
<1>1. s \in Seq(Char) /\ Len(s) = 1 /\ s[1] = a
  <2> HIDE DEF Char
  <2> QED
    OBVIOUS
<1> HIDE DEF s
<1>2. PICK p \in Seq(Char) :
        /\ Submitted(s \o <<Dot, d, 0>>) = <<p[1], p[2], p[3], p[4]>>
        /\ \A i \in 1 .. Len(s) : p[i] = s[i]
        /\ p[Len(s) + 1] = Dot /\ p[Len(s) + 2] = d /\ p[Len(s) + 3] = 0
  <2>1. Len(s) \in 1 .. 4
    BY <1>1
  <2> QED
    BY <1>1, <2>1, FirstFour
<1>3. p[1] = a /\ p[2] = Dot /\ p[3] = d /\ p[4] = 0
  BY <1>1, <1>2
<1> QED
  BY <1>2, <1>3, Zenon DEF s

LEMMA CutTwo ==
  ASSUME NEW a \in Char, NEW b \in Char, NEW d \in Digit
  PROVE  Submitted(<<a, b>> \o <<Dot, d, 0>>) = <<a, b, Dot, d>>
<1> DEFINE s == <<a, b>>
<1>1. s \in Seq(Char) /\ Len(s) = 2 /\ s[1] = a /\ s[2] = b
  <2> HIDE DEF Char
  <2> QED
    OBVIOUS
<1> HIDE DEF s
<1>2. PICK p \in Seq(Char) :
        /\ Submitted(s \o <<Dot, d, 0>>) = <<p[1], p[2], p[3], p[4]>>
        /\ \A i \in 1 .. Len(s) : p[i] = s[i]
        /\ p[Len(s) + 1] = Dot /\ p[Len(s) + 2] = d /\ p[Len(s) + 3] = 0
  <2>1. Len(s) \in 1 .. 4
    BY <1>1
  <2> QED
    BY <1>1, <2>1, FirstFour
<1>3. p[1] = a /\ p[2] = b /\ p[3] = Dot /\ p[4] = d
  BY <1>1, <1>2
<1> QED
  BY <1>2, <1>3, Zenon DEF s

LEMMA CutThree ==
  ASSUME NEW a \in Char, NEW b \in Char, NEW c \in Char, NEW d \in Digit
  PROVE  Submitted(<<a, b, c>> \o <<Dot, d, 0>>) = <<a, b, c, Dot>>
<1> DEFINE s == <<a, b, c>>
<1>1. s \in Seq(Char) /\ Len(s) = 3 /\ s[1] = a /\ s[2] = b /\ s[3] = c
  <2> HIDE DEF Char
  <2> QED
    OBVIOUS
<1> HIDE DEF s
<1>2. PICK p \in Seq(Char) :
        /\ Submitted(s \o <<Dot, d, 0>>) = <<p[1], p[2], p[3], p[4]>>
        /\ \A i \in 1 .. Len(s) : p[i] = s[i]
        /\ p[Len(s) + 1] = Dot /\ p[Len(s) + 2] = d /\ p[Len(s) + 3] = 0
  <2>1. Len(s) \in 1 .. 4
    BY <1>1
  <2> QED
    BY <1>1, <2>1, FirstFour
<1>3. p[1] = a /\ p[2] = b /\ p[3] = c /\ p[4] = Dot
  BY <1>1, <1>2
<1> QED
  BY <1>2, <1>3, Zenon DEF s

LEMMA CutFour ==
  ASSUME NEW a \in Char, NEW b \in Char, NEW c \in Char, NEW e \in Char, NEW d \in Digit
  PROVE  Submitted(<<a, b, c, e>> \o <<Dot, d, 0>>) = <<a, b, c, e>>
<1> DEFINE s == <<a, b, c, e>>
<1>1. s \in Seq(Char) /\ Len(s) = 4 /\ s[1] = a /\ s[2] = b /\ s[3] = c /\ s[4] = e
  <2> HIDE DEF Char
  <2> QED
    OBVIOUS
<1> HIDE DEF s
<1>2. PICK p \in Seq(Char) :
        /\ Submitted(s \o <<Dot, d, 0>>) = <<p[1], p[2], p[3], p[4]>>
        /\ \A i \in 1 .. Len(s) : p[i] = s[i]
        /\ p[Len(s) + 1] = Dot /\ p[Len(s) + 2] = d /\ p[Len(s) + 3] = 0
  <2>1. Len(s) \in 1 .. 4
    BY <1>1
  <2> QED
    BY <1>1, <2>1, FirstFour
<1>3. p[1] = a /\ p[2] = b /\ p[3] = c /\ p[4] = e
  BY <1>1, <1>2
<1> QED
  BY <1>2, <1>3, Zenon DEF s

\* What the host reads, by the place of the point.
LEMMA DigitsApart == 0 # Dot /\ \A d \in Digit : d # Dot
  BY DEF Digit, Dot

LEMMA ReadOne ==
  ASSUME NEW a \in Digit, NEW d \in Digit
  PROVE  Hundredths(<<a, Dot, d, 0>>) = 100 * a + 10 * d + 0
<1> DEFINE t == <<a, Dot, d, 0>>
<1>1. t[1] = a /\ t[2] = Dot /\ t[3] = d /\ t[4] = 0
  OBVIOUS
<1> HIDE DEF t
<1>2. t[2] = Dot /\ t[3] # Dot /\ t[4] # Dot
  BY <1>1, DigitsApart, Zenon
<1>3. Hundredths(t) = 100 * t[1] + 10 * t[3] + t[4]
  BY <1>2, SMT DEF Hundredths
<1>4. Hundredths(t) = 100 * a + 10 * d + 0
  BY <1>1, <1>3, SMT
<1> QED
  BY <1>4, SMT DEF t

LEMMA ReadTwo ==
  ASSUME NEW a \in Digit, NEW b \in Digit, NEW d \in Digit
  PROVE  Hundredths(<<a, b, Dot, d>>) = 1000 * a + 100 * b + 10 * d
<1> DEFINE t == <<a, b, Dot, d>>
<1>1. t[1] = a /\ t[2] = b /\ t[3] = Dot /\ t[4] = d
  OBVIOUS
<1> HIDE DEF t
<1>2. t[2] # Dot /\ t[3] = Dot /\ t[4] # Dot
  BY <1>1, DigitsApart, Zenon
<1>3. Hundredths(t) = 1000 * t[1] + 100 * t[2] + 10 * t[4]
  BY <1>2, SMT DEF Hundredths
<1>4. Hundredths(t) = 1000 * a + 100 * b + 10 * d
  BY <1>1, <1>3, SMT
<1> QED
  BY <1>4, SMT DEF t

LEMMA ReadThree ==
  ASSUME NEW a \in Digit, NEW b \in Digit, NEW c \in Digit
  PROVE  Hundredths(<<a, b, c, Dot>>) = 10000 * a + 1000 * b + 100 * c
<1> DEFINE t == <<a, b, c, Dot>>
<1>1. t[1] = a /\ t[2] = b /\ t[3] = c /\ t[4] = Dot
  OBVIOUS
<1> HIDE DEF t
<1>2. t[2] # Dot /\ t[3] # Dot /\ t[4] = Dot
  BY <1>1, DigitsApart, Zenon
<1>3. Hundredths(t) = 10000 * t[1] + 1000 * t[2] + 100 * t[3]
  BY <1>2, SMT DEF Hundredths
<1>4. Hundredths(t) = 10000 * a + 1000 * b + 100 * c
  BY <1>1, <1>3, SMT
<1> QED
  BY <1>4, SMT DEF t

LEMMA ReadFour ==
  ASSUME NEW a \in Digit, NEW b \in Digit, NEW c \in Digit, NEW e \in Digit
  PROVE  Hundredths(<<a, b, c, e>>) = 100000 * a + 10000 * b + 1000 * c + 100 * e
<1> DEFINE t == <<a, b, c, e>>
<1>1. t[1] = a /\ t[2] = b /\ t[3] = c /\ t[4] = e
  OBVIOUS
<1> HIDE DEF t
<1>2. t[2] # Dot /\ t[3] # Dot /\ t[4] # Dot
  BY <1>1, DigitsApart, Zenon
<1>3. Hundredths(t) = 100000 * t[1] + 10000 * t[2] + 1000 * t[3] + 100 * t[4]
  BY <1>2, SMT DEF Hundredths
<1>4. Hundredths(t) = 100000 * a + 10000 * b + 1000 * c + 100 * e
  BY <1>1, <1>3, SMT
<1> QED
  BY <1>4, SMT DEF t

\* What the host makes of the four characters of a sample.
LEMMA SampleText ==
  ASSUME NEW v \in Sample
  PROVE  /\ Submitted(Printed(v)) \in Char \X Char \X Char \X Char
         /\ Hundredths(Submitted(Printed(v))) \in 10 * v - 99 .. 10 * v
         /\ v < 1000 => Hundredths(Submitted(Printed(v))) = 10 * v
<1> DEFINE w == v \div 10
           d == v % 10
           x == Submitted(Printed(v))
           h == Hundredths(x)
<1>1. w \in 0 .. 6553 /\ d \in 0 .. 9 /\ v = 10 * w + d
  <2>1. v \in Nat /\ v <= 65535
    BY SMTT(30) DEF Sample
  <2>2. w \in Nat /\ d \in 0 .. 9 /\ v = 10 * w + d
    <3>1. v \in Nat
      BY <2>1, SMT
    <3> QED
      BY <3>1, Tens, Zenon
  <2> HIDE DEF w, d
  <2> QED
    BY <2>1, <2>2, SMT
<1>2. d \in Digit /\ Digit \subseteq Char /\ 0 \in Char /\ Dot \in Char
  BY <1>1 DEF Digit, Char, Dot
<1>3. x = Submitted(Digits(w) \o <<Dot, d, 0>>)
  BY Zenon DEF Printed
<1> HIDE DEF w, d
<1> SUFFICES /\ x \in Char \X Char \X Char \X Char
             /\ h \in 10 * v - 99 .. 10 * v
             /\ v < 1000 => h = 10 * v
  BY SMT DEF x, h
<1> HIDE DEF x, h
<1>4. w \in Nat /\ w \div 10 \in Nat /\ w \div 100 \in Nat
  BY <1>1, SMT
<1>5. CASE w < 10
  <2> DEFINE a == w
  <2>1. Digits(w) = <<a>>
    BY <1>5, <1>4, DigitsOne
  <2>2. /\ a \in 0 .. 9
        /\ w = a
    BY <1>1, <1>5
  <2> HIDE DEF a
  <2>3. a \in Digit
    BY <2>2 DEF Digit
  <2>4. a \in Char
    BY <2>3, <1>2
  <2>5. x = <<a, Dot, d, 0>>
    <3>1. Submitted(<<a>> \o <<Dot, d, 0>>) = <<a, Dot, d, 0>>
      BY <2>4, <1>2, CutOne
    <3> QED
      BY <1>3, <2>1, <3>1, Zenon
  <2>6. h = 100 * a + 10 * d + 0
    <3>1. Hundredths(<<a, Dot, d, 0>>) = 100 * a + 10 * d + 0
      BY <2>3, <1>2, ReadOne
    <3> QED
      BY <2>5, <3>1, SMT DEF h
  <2>7. x \in Char \X Char \X Char \X Char
    <3> HIDE DEF Char
    <3> QED
      BY <2>4, <2>5, <1>2
  <2>8. h \in 10 * v - 99 .. 10 * v /\ (v < 1000 => h = 10 * v)
    BY <2>2, <2>6, <1>1, <1>5, SMTT(30)
  <2> QED
    BY <2>7, <2>8, SMT
<1>6. CASE w \in 10 .. 99
  <2> DEFINE a == w \div 10 b == w % 10
  <2>1. Digits(w) = <<a, b>>
    BY <1>6, <1>4, DigitsTwo
  <2>2. /\ a \in 0 .. 9 /\ b \in 0 .. 9
        /\ w = 10 * a + b
    <3>1. b \in 0 .. 9
      BY <1>4, Tens, Zenon
    <3>2. w = 10 * a + b
      BY <1>4, Tens, Zenon
    <3>3. a \in Nat
      BY <1>4
    <3> HIDE DEF a, b
    <3>4. a \in 0 .. 9
      BY <1>6, <3>1, <3>2, <3>3
    <3> QED
      BY <3>1, <3>2, <3>4
  <2> HIDE DEF a, b
  <2>3. a \in Digit /\ b \in Digit
    BY <2>2 DEF Digit
  <2>4. a \in Char /\ b \in Char
    BY <2>3, <1>2
  <2>5. x = <<a, b, Dot, d>>
    <3>1. Submitted(<<a, b>> \o <<Dot, d, 0>>) = <<a, b, Dot, d>>
      BY <2>4, <1>2, CutTwo
    <3> QED
      BY <1>3, <2>1, <3>1, Zenon
  <2>6. h = 1000 * a + 100 * b + 10 * d
    <3>1. Hundredths(<<a, b, Dot, d>>) = 1000 * a + 100 * b + 10 * d
      BY <2>3, <1>2, ReadTwo
    <3> QED
      BY <2>5, <3>1, SMT DEF h
  <2>7. x \in Char \X Char \X Char \X Char
    <3> HIDE DEF Char
    <3> QED
      BY <2>4, <2>5, <1>2
  <2>8. h \in 10 * v - 99 .. 10 * v /\ (v < 1000 => h = 10 * v)
    BY <2>2, <2>6, <1>1, <1>6, SMTT(30)
  <2> QED
    BY <2>7, <2>8, SMT
<1>7. CASE w \in 100 .. 999
  <2> DEFINE a == w \div 100 b == (w \div 10) % 10 c == w % 10
  <2>1. Digits(w) = <<a, b, c>>
    BY <1>7, <1>4, DigitsThree
  <2>2. /\ a \in 0 .. 9 /\ b \in 0 .. 9 /\ c \in 0 .. 9
        /\ w = 100 * a + 10 * b + c
    <3>1. b \in 0 .. 9 /\ c \in 0 .. 9
      BY <1>4, Tens, Zenon
    <3>2. w = 100 * a + 10 * b + c
      BY <1>4, Hundreds, SMT
    <3>3. a \in Nat
      BY <1>4, Hundreds, SMT
    <3> HIDE DEF a, b, c
    <3>4. a \in 0 .. 9
      BY <1>7, <1>4, <3>1, <3>2, <3>3
    <3> QED
      BY <3>1, <3>2, <3>4
  <2> HIDE DEF a, b, c
  <2>3. a \in Digit /\ b \in Digit /\ c \in Digit
    BY <2>2 DEF Digit
  <2>4. a \in Char /\ b \in Char /\ c \in Char
    BY <2>3, <1>2
  <2>5. x = <<a, b, c, Dot>>
    <3>1. Submitted(<<a, b, c>> \o <<Dot, d, 0>>) = <<a, b, c, Dot>>
      BY <2>4, <1>2, CutThree
    <3> QED
      BY <1>3, <2>1, <3>1, Zenon
  <2>6. h = 10000 * a + 1000 * b + 100 * c
    <3>1. Hundredths(<<a, b, c, Dot>>) = 10000 * a + 1000 * b + 100 * c
      BY <2>3, <1>2, ReadThree
    <3> QED
      BY <2>5, <3>1, SMT DEF h
  <2>7. x \in Char \X Char \X Char \X Char
    <3> HIDE DEF Char
    <3> QED
      BY <2>4, <2>5, <1>2
  <2>8. h \in 10 * v - 99 .. 10 * v /\ (v < 1000 => h = 10 * v)
    BY <2>2, <2>6, <1>1, <1>7, SMTT(30)
  <2> QED
    BY <2>7, <2>8, SMT
<1>8. CASE w >= 1000
  <2> DEFINE a == w \div 1000 b == (w \div 100) % 10 c == (w \div 10) % 10 e == w % 10
  <2>1. Digits(w) = <<a, b, c, e>>
    BY <1>8, <1>4, DigitsFour
  <2>2. /\ a \in 0 .. 9 /\ b \in 0 .. 9 /\ c \in 0 .. 9 /\ e \in 0 .. 9
        /\ w = 1000 * a + 100 * b + 10 * c + e
    <3>1. b \in 0 .. 9 /\ c \in 0 .. 9 /\ e \in 0 .. 9
      BY <1>4, Tens, Zenon
    <3>2. w = 1000 * a + 100 * b + 10 * c + e
      BY <1>4, Hundreds, SMT
    <3>3. a \in Nat
      BY <1>4, Hundreds, SMT
    <3> HIDE DEF a, b, c, e
    <3> DEFINE r == 100 * b + 10 * c + e
    <3>4. r \in Nat /\ w = 1000 * a + r /\ w < 10000
      BY <1>1, <3>1, <3>2, <3>3, SMTT(30)
    <3> HIDE DEF r
    <3>5. a \in 0 .. 9
      BY <3>3, <3>4, SMT
    <3> QED
      BY <3>1, <3>2, <3>5
  <2> HIDE DEF a, b, c, e
  <2>3. a \in Digit /\ b \in Digit /\ c \in Digit /\ e \in Digit
    BY <2>2 DEF Digit
  <2>4. a \in Char /\ b \in Char /\ c \in Char /\ e \in Char
    BY <2>3, <1>2
  <2>5. x = <<a, b, c, e>>
    <3>1. Submitted(<<a, b, c, e>> \o <<Dot, d, 0>>) = <<a, b, c, e>>
      BY <2>4, <1>2, CutFour
    <3> QED
      BY <1>3, <2>1, <3>1, Zenon
  <2>6. h = 100000 * a + 10000 * b + 1000 * c + 100 * e
    <3>1. Hundredths(<<a, b, c, e>>) = 100000 * a + 10000 * b + 1000 * c + 100 * e
      BY <2>3, <1>2, ReadFour
    <3> QED
      BY <2>5, <3>1, SMT DEF h
  <2>7. x \in Char \X Char \X Char \X Char
    <3> HIDE DEF Char
    <3> QED
      BY <2>4, <2>5, <1>2
  <2>8. h \in 10 * v - 99 .. 10 * v /\ (v < 1000 => h = 10 * v)
    BY <2>2, <2>6, <1>1, <1>8, SMTT(30)
  <2> QED
    BY <2>7, <2>8, SMT
<1>9. w < 10 \/ w \in 10 .. 99 \/ w \in 100 .. 999 \/ w >= 1000
  BY <1>1
<1> QED
  BY <1>5, <1>6, <1>7, <1>8, <1>9, SMT

\* An hour converted: two characters, and the local hour if it is one.
LEMMA ConvertedHour ==
  ASSUME NEW a \in Char, NEW b \in Char, NEW day \in Nat
  PROVE  /\ Converted(day, a, b).day = day
         /\ \E x, y \in Char :
              /\ Converted(day, a, b).hour = <<x, y>>
              /\ LocalHour(Atoi(a, b)) >= 0 => 10 * x + y = LocalHour(Atoi(a, b))
<1> DEFINE l == LocalHour(Atoi(a, b))
<1>1. l \in -1 .. 23
  <2>1. Atoi(a, b) \in -9 .. 99
    BY AtoiRange
  <2> QED
    BY <2>1, LocalHourRange
<1>2. Converted(day, a, b) = [day |-> day, hour |-> TwoDigits(l)]
  BY Zenon DEF Converted
<1> HIDE DEF l
<1>3. PICK x \in Char, y \in Char :
        TwoDigits(l) = <<x, y>> /\ (l >= 0 => 10 * x + y = l)
  BY <1>1, TwoDigitsAre, Zenon
<1>4. Converted(day, a, b).day = day /\ Converted(day, a, b).hour = <<x, y>>
  BY <1>2, <1>3
<1> QED
  BY <1>3, <1>4, Zenon DEF l

\* A date and the width of an hour.
TimeInv(t) ==
  /\ t.day \in Nat
  /\ t.hour \in Char \X Char
  /\ Len(t.hour) = 2

\* Any two characters leave a date and two characters.
LEMMA ConvertedType ==
  ASSUME NEW a \in Char, NEW b \in Char, NEW day \in Nat
  PROVE  TimeInv(Converted(day, a, b))
<1> DEFINE t == Converted(day, a, b)
<1>0. /\ t.day = day
      /\ \E x, y \in Char :
           /\ t.hour = <<x, y>>
           /\ LocalHour(Atoi(a, b)) >= 0 => 10 * x + y = LocalHour(Atoi(a, b))
  BY ConvertedHour, Zenon
<1> HIDE DEF t
<1>1. PICK x \in Char, y \in Char : t.hour = <<x, y>>
  BY <1>0, Zenon
<1>2. t.day = day
  BY <1>0, Zenon
<1>3. t.hour \in Char \X Char
  <2> HIDE DEF Char
  <2> QED
    BY <1>1
<1>4. Len(t.hour) = 2
  BY <1>1
<1> QED
  BY <1>2, <1>3, <1>4, Zenon DEF t, TimeInv

\* The conversion of an hour, as the host reads it with the date.
LEMMA ConvertedTime ==
  ASSUME NEW h \in Nat
  PROVE  Hours(Converted(h \div 24, (h % 24) \div 10, (h % 24) % 10))
           = h + 8 - (IF h % 24 >= 16 THEN 24 ELSE 0)
<1> DEFINE k == h % 24 q == h \div 24 a == k \div 10 b == k % 10
           t == Converted(q, a, b) l == LocalHour(k)
<1>1. q \in Nat /\ k \in 0 .. 23 /\ h = 24 * q + k
  BY Day
<1> HIDE DEF k, q
<1>2. Atoi(a, b) = k
  BY <1>1, HourRead
<1>3. a \in Char /\ b \in Char
  BY <1>1 DEF Char
<1> HIDE DEF a, b
<1>4. l = IF k < 16 THEN k + 8 ELSE k - 16
  <2>1. k \in -9 .. 99
    BY <1>1
  <2> QED
    BY <1>1, <2>1, LocalHourRange
<1> HIDE DEF l
<1>5. l >= 0 /\ l \in Nat
  BY <1>1, <1>4
<1>6. /\ t.day = q
      /\ \E x, y \in Char : t.hour = <<x, y>> /\ (l >= 0 => 10 * x + y = l)
  <2>1. /\ t.day = q
        /\ \E x, y \in Char :
             /\ t.hour = <<x, y>>
             /\ LocalHour(Atoi(a, b)) >= 0 => 10 * x + y = LocalHour(Atoi(a, b))
    BY <1>1, <1>3, ConvertedHour, Zenon
  <2>2. LocalHour(Atoi(a, b)) = l
    BY <1>2, Zenon DEF l
  <2> HIDE DEF t
  <2> QED
    BY <2>1, <2>2, Zenon
<1>7. PICK x \in Char, y \in Char : t.hour = <<x, y>> /\ (l >= 0 => 10 * x + y = l)
  BY <1>6, Zenon
<1> HIDE DEF t
<1>8. t.hour[1] = x /\ t.hour[2] = y
  BY <1>7
<1>9. Hours(t) = 24 * q + 10 * x + y
  BY <1>6, <1>8, Zenon DEF Hours
<1>10. x \in Nat /\ y \in Nat /\ 10 * x + y = l
  BY <1>5, <1>7 DEF Char
<1>11. Hours(t) = h + 8 - (IF k >= 16 THEN 24 ELSE 0)
  BY <1>1, <1>4, <1>9, <1>10
<1> QED
  BY <1>11, Zenon DEF t, k, q, a, b

\* The inductive invariant.
TextInv ==
  /\ TextTypeOK /\ HourKeepsWidth
  /\ ~garbled => Hours(gps_time) = utc + 8 - (IF utc % 24 >= 16 THEN 24 ELSE 0)
  /\ TruncatedAtMost

\* The same for the values of the model.
LEMMA SampleInv ==
  ASSUME NEW v \in Values \cup {0}
  PROVE  /\ Submitted(Printed(v)) \in Char \X Char \X Char \X Char
         /\ Hundredths(Submitted(Printed(v))) \in 10 * v - 99 .. 10 * v
         /\ v < 1000 => Hundredths(Submitted(Printed(v))) = 10 * v
<1>1. v \in Sample
  <2>1. CASE v \in Values
    BY <2>1, ValueAssumption, Zenon
  <2>2. CASE v = 0
    BY <2>2, SMT DEF Sample
  <2> QED
    BY <2>1, <2>2, Zenon
<1> QED
  BY <1>1, SampleText, Zenon

LEMMA TextInvariant == TextSpec => []TextInv
<1>1. ASSUME TextInit PROVE TextInv
  <2>1. /\ utc = 0 /\ garbled = FALSE /\ value = 0
        /\ gps_time = Converted(0, 0, 0) /\ temper = Submitted(Printed(0))
    BY <1>1, Zenon DEF TextInit
  <2>2. 0 \in Char /\ 0 \in Nat /\ utc \in 0 .. MaxHours
    <3>1. 0 \in 0 .. MaxHours
      BY HourAssumption, SMT
    <3>2. 0 \in Char /\ 0 \in Nat
      BY SMT DEF Char
    <3> QED
      BY <2>1, <3>1, <3>2, Zenon
  <2>3. TimeInv(gps_time)
    BY <2>1, <2>2, ConvertedType, Zenon
  <2>4. Hours(gps_time) = utc + 8 - (IF utc % 24 >= 16 THEN 24 ELSE 0)
    <3>1. 0 \div 24 = 0 /\ (0 % 24) \div 10 = 0 /\ (0 % 24) % 10 = 0
      BY SMT
    <3>2. Hours(Converted(0 \div 24, (0 % 24) \div 10, (0 % 24) % 10))
            = 0 + 8 - (IF 0 % 24 >= 16 THEN 24 ELSE 0)
      BY <2>2, ConvertedTime, Zenon
    <3> QED
      BY <2>1, <3>1, <3>2, Zenon
  <2>5. 0 \in Values \cup {0}
    BY Zenon
  <2>6. TruncatedAtMost /\ temper \in Char \X Char \X Char \X Char
    BY <2>1, <2>5, SampleInv, Zenon DEF TruncatedAtMost
  <2> QED
    BY <2>1, <2>2, <2>3, <2>4, <2>5, <2>6, Zenon DEF TextInv, TextTypeOK, HourKeepsWidth, TimeInv
<1>2. ASSUME TextInv, [TextNext]_textVars PROVE TextInv'
  <2>1. CASE GpsFix
    <3>1. PICK h \in utc .. utc + 24 :
            /\ h <= MaxHours /\ utc' = h /\ garbled' = FALSE
            /\ gps_time' = Converted(h \div 24, (h % 24) \div 10, (h % 24) % 10)
            /\ value' = value /\ temper' = temper
      BY <2>1, Zenon DEF GpsFix
    <3>2. utc \in 0 .. MaxHours
      BY <1>2, Zenon DEF TextInv, TextTypeOK
    <3>3. h \in Nat /\ h \in 0 .. MaxHours
      BY <3>1, <3>2, HourAssumption, SMT
    <3>4. h \div 24 \in Nat /\ (h % 24) \div 10 \in Char /\ (h % 24) % 10 \in Char
      BY <3>3, SMT DEF Char
    <3>5. TimeInv(gps_time')
      BY <3>1, <3>4, ConvertedType, Zenon
    <3>6. Hours(gps_time') = h + 8 - (IF h % 24 >= 16 THEN 24 ELSE 0)
      BY <3>1, <3>3, ConvertedTime, Zenon
    <3>7. Hours(gps_time)' = utc' + 8 - (IF utc' % 24 >= 16 THEN 24 ELSE 0)
      BY <3>1, <3>6, Zenon DEF Hours
    <3>8. TruncatedAtMost'
      BY <1>2, <3>1, SMT DEF TextInv, TruncatedAtMost, Hundredths
    <3> QED
      BY <1>2, <3>1, <3>3, <3>5, <3>7, <3>8, Zenon
      DEF TextInv, TextTypeOK, HourKeepsWidth, TimeInv
  <2>2. CASE GarbledFix
    <3>1. PICK a \in Char, b \in Char :
            /\ garbled' = TRUE /\ gps_time' = Converted(utc \div 24, a, b)
            /\ utc' = utc /\ value' = value /\ temper' = temper
      BY <2>2, Zenon DEF GarbledFix
    <3>2. utc \in 0 .. MaxHours
      BY <1>2, Zenon DEF TextInv, TextTypeOK
    <3>3. utc \div 24 \in Nat
      BY <3>2, HourAssumption, SMT
    <3>4. TimeInv(gps_time')
      BY <3>1, <3>3, ConvertedType, Zenon
    <3>5. TruncatedAtMost'
      BY <1>2, <3>1, SMT DEF TextInv, TruncatedAtMost, Hundredths
    <3> QED
      BY <1>2, <3>1, <3>2, <3>4, <3>5, Zenon
      DEF TextInv, TextTypeOK, HourKeepsWidth, TimeInv
  <2>3. CASE HidSample
    <3>1. PICK v \in Values \ {0} :
            /\ value' = v /\ temper' = Submitted(Printed(v))
            /\ utc' = utc /\ garbled' = garbled /\ gps_time' = gps_time
      BY <2>3, Zenon DEF HidSample
    <3>2. v \in Values \cup {0}
      BY Zenon
    <3>3. /\ temper' \in Char \X Char \X Char \X Char
          /\ Hundredths(temper') \in 10 * v - 99 .. 10 * v
          /\ v < 1000 => Hundredths(temper') = 10 * v
      BY <3>1, <3>2, SampleInv, Zenon
    <3>4. TruncatedAtMost'
      BY <3>1, <3>3, SMT DEF TruncatedAtMost, Hundredths
    <3> QED
      BY <1>2, <3>1, <3>2, <3>3, <3>4, Zenon DEF TextInv, TextTypeOK, HourKeepsWidth, Hours
  <2>4. CASE UNCHANGED textVars
    <3>1. /\ utc' = utc /\ garbled' = garbled /\ gps_time' = gps_time
          /\ value' = value /\ temper' = temper
      BY <2>4, Zenon DEF textVars
    <3>2. TruncatedAtMost'
      BY <1>2, <3>1, SMT DEF TextInv, TruncatedAtMost, Hundredths
    <3> QED
      BY <1>2, <3>1, <3>2, Zenon DEF TextInv, TextTypeOK, HourKeepsWidth, Hours
  <2> QED
    BY <1>2, <2>1, <2>2, <2>3, <2>4, Zenon DEF TextNext
<1> QED
  BY <1>1, <1>2, PTL DEF TextSpec

\* For any clock: the time that Serialport::sub_routine publishes is the local
\* one, or a day early from 16 o'clock UTC on, and two characters replace two,
\* whatever stood there.
THEOREM DayIsEarlyOrRight == TextSpec => []DayEarlyOrRight
<1>1. TextInv => DayEarlyOrRight
  BY Zenon DEF TextInv, DayEarlyOrRight
<1> QED
  BY <1>1, TextInvariant, PTL

\* For every value of two bytes: the four characters temperdev::sub_routine
\* submits give the temperature exactly below 100 degrees, and without its
\* tenths above.
THEOREM OnlyTenthsTruncated == TextSpec => []TruncatedAtMost
<1>1. TextInv => TruncatedAtMost
  BY Zenon DEF TextInv
<1> QED
  BY <1>1, TextInvariant, PTL
=============================================================================
