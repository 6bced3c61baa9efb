-------------------------- MODULE MyThunderProofs --------------------------
(***************************************************************************)
(* From the device to the host, for any chunk and payload length, any      *)
(* stream and any number of connections: what the host gets is in order,   *)
(* accounted for, and made of the bytes its place in the stream says.      *)
(*                                                                         *)
(* The capture path keeps its inductive invariant (CapturePathProofs)      *)
(* under every step of the whole; what is added here relates the packets   *)
(* on their way to the number of those the board has finished.             *)
(***************************************************************************)
EXTENDS MyThunder, TLAPS

C == INSTANCE CapturePathProofs

\* The board and the uplink count alike, and a session has a number.
CountInv == n = sent /\ (open => conns >= 1)

\* The output holds the newest packets, one behind the other, of a session
\* that has begun to carry packets.
QueueInv ==
  /\ Len(output) <= n
  /\ output # <<>> => open /\ log # <<>>
  /\ \A i \in 1 .. Len(output) : output[i].number = n - Len(output) + i

\* What the host has is older.  While the connection of the last packet it
\* got lasts, the output begins right behind that packet.
HostInv ==
  /\ \A i \in 1 .. Len(received) : received[i].pkt.number <= n - Len(output)
  /\ received # <<>> =>
       LET last == received[Len(received)] IN
       /\ last.conn <= conns
       /\ open /\ last.conn = conns =>
            log # <<>> /\ last.pkt.number = n - Len(output)

\* The packet is made of the bytes at its place.
Tiles(pkt) ==
  \A j \in 1 .. DATA_PALOAD_LEN :
    pkt.data[j] = Capture!OutPos((pkt.number - 1) * DATA_PALOAD_LEN + j - 1)

OutputTiles == \A i \in 1 .. Len(output) : Tiles(output[i])

\* The inductive invariant.
Inv ==
  /\ C!IInv
  /\ HostInOrder /\ BytesInPlace
  /\ CountInv /\ QueueInv /\ HostInv /\ OutputTiles
-----------------------------------------------------------------------------
(* Sequences of packets.                                                   *)

LEMMA AppendFacts ==
  ASSUME NEW S, NEW s \in Seq(S), NEW x \in S
  PROVE  /\ Append(s, x) \in Seq(S) /\ Append(s, x) # <<>>
         /\ Len(s) \in Nat /\ Len(Append(s, x)) = Len(s) + 1
         /\ \A i \in 1 .. Len(s) : Append(s, x)[i] = s[i]
         /\ Append(s, x)[Len(s) + 1] = x
  OBVIOUS

LEMMA TailFacts ==
  ASSUME NEW S, NEW s \in Seq(S), s # <<>>
  PROVE  /\ Tail(s) \in Seq(S) /\ Len(s) \in Nat \ {0}
         /\ Len(Tail(s)) = Len(s) - 1
         /\ \A i \in 1 .. Len(s) - 1 : Tail(s)[i] = s[i + 1]
         /\ Head(s) = s[1] /\ s[1] \in S
  OBVIOUS
-----------------------------------------------------------------------------
(* The capture path is the one of CapturePathProofs.                       *)

LEMMA SameType == (C!TypeOK => Capture!TypeOK) /\ (C!TypeOK' => Capture!TypeOK')
  BY DEF Capture!TypeOK, C!TypeOK, Capture!Pos, C!Pos, Capture!Cells, C!Cells

LEMMA SameOutPos == \A t : Capture!OutPos(t) = C!OutPos(t)
  BY DEF Capture!OutPos, C!OutPos

LEMMA SameRead ==
  ASSUME NEW k \in 1 .. EIMUNIT_LEN, Capture!EimRead(k) PROVE C!EimRead(k)
  BY DEF Capture!EimRead, C!EimRead, Capture!IndexOf, C!IndexOf, Capture!Found,
     C!Found, Capture!Matches, C!Matches, Capture!Content, C!Content,
     Capture!Zero, C!Zero, Capture!Header, C!Header, Capture!Handed, C!Handed,
     Capture!SubmitHuge, C!SubmitHuge, Capture!Cells, C!Cells,
     Capture!boardVars, C!boardVars

LEMMA SameReadError == Capture!EimReadError => C!EimReadError
  BY DEF Capture!EimReadError, C!EimReadError, Capture!SubmitHuge,
     C!SubmitHuge, Capture!boardVars, C!boardVars

LEMMA SameBoard ==
  /\ Capture!BoardPoll => C!BoardPoll
  /\ Capture!BoardRemove => C!BoardRemove
  /\ Capture!BoardSend => C!BoardSend
  BY DEF Capture!BoardPoll, C!BoardPoll, Capture!BoardRemove, C!BoardRemove,
     Capture!BoardSend, C!BoardSend, Capture!eimVars, C!eimVars

\* Its invariant survives every step of the whole, also the death of the
\* process in submit.
LEMMA CaptureStep == C!IInv /\ [Next]_vars => C!IInv'
<1> SUFFICES ASSUME C!IInv, [Next]_vars PROVE C!IInv'
  OBVIOUS
<1>0. [C!Next]_(C!vars) => C!IInv'
  BY C!NextIInv, CaptureAssumption DEF C!SizeAssumption, C!StreamAssumption
<1>1. CASE alive /\ EimStep
  BY <1>0, <1>1, SameRead, SameReadError DEF EimStep, C!Next
<1>2. CASE alive /\ (BoardAssemble \/ SubmitPut \/ SubmitDrop)
  BY <1>0, <1>2, SameBoard DEF BoardAssemble, SubmitPut, SubmitDrop, C!Next,
     C!BoardStep
<1>3. CASE SubmitDies
  <2>1. /\ alive' = FALSE
        /\ UNCHANGED <<stream, devpos, readdata, first_frame, base, skip,
                       firstLen, m_rxevbuf, taken, board, capdata, sent>>
    BY <1>3 DEF SubmitDies, Uplink!Die
  <2>2. C!HandedOn /\ C!SyncIsHeader /\ C!ChunkInv /\ C!BoardInv
    BY DEF C!IInv
  <2>3. C!TypeOK /\ C!StreamInOrder /\ C!PayloadsTile
    BY <2>2 DEF C!HandedOn
  <2>4. C!TypeOK'
    BY <2>1, <2>3 DEF C!TypeOK, C!Pos, C!Cells
  <2>5. C!StreamInOrder' /\ C!PayloadsTile'
    BY <2>1, <2>3 DEF C!StreamInOrder, C!PayloadsTile, C!OutPos
  <2>6. C!AsManyHanded'
    BY <2>1 DEF C!AsManyHanded
  <2>7. C!SyncIsHeader' /\ C!BoardInv'
    BY <2>1, <2>2 DEF C!SyncIsHeader, C!BoardInv, C!Header
  <2>8. C!ChunkInv'
    BY <2>1, <2>2 DEF C!ChunkInv
  <2> QED
    BY <2>4, <2>5, <2>6, <2>7, <2>8 DEF C!IInv, C!HandedOn
<1>4. CASE Connect \/ Release \/ Deliver \/ UNCHANGED vars
  <2>1. UNCHANGED captureVars
    BY <1>4 DEF Connect, Release, Deliver, vars
  <2> QED
    BY <1>0, <2>1 DEF captureVars, C!vars, C!eimVars, C!boardVars
<1> QED
  BY <1>1, <1>2, <1>3, <1>4 DEF Next
-----------------------------------------------------------------------------
(* The packets.                                                            *)

\* The types of the variables these proofs calculate with.
LEMMA Scalars ==
  ASSUME Inv
  PROVE  /\ n \in Nat /\ sent = n /\ conns \in 0 .. MaxConns /\ MaxConns \in Nat
         /\ output \in Seq(Packet) /\ Len(output) \in Nat
         /\ received \in Seq([conn : 1 .. MaxConns, pkt : Packet])
         /\ Len(received) \in Nat
         /\ log \in Seq(Nat) /\ open \in BOOLEAN /\ lost \subseteq 1 .. n
         /\ Len(output) <= n
  BY ConnAssumption DEF Inv, HostInOrder, TypeOK, CountInv, QueueInv

\* Where a packet that exists is in the count.
LEMMA OutputFacts ==
  ASSUME Inv, NEW i \in 1 .. Len(output)
  PROVE  output[i].number \in 1 .. n /\ output[i].number = n - Len(output) + i
<1>1. output[i].number = n - Len(output) + i
  BY DEF Inv, QueueInv
<1>2. n \in Nat /\ Len(output) \in Nat /\ Len(output) <= n
  BY Scalars
<1> QED
  BY <1>1, <1>2

LEMMA ReceivedFacts ==
  ASSUME Inv, NEW i \in 1 .. Len(received)
  PROVE  /\ received[i].conn \in 1 .. MaxConns
         /\ received[i].pkt.number \in 1 .. n
         /\ received[i].pkt.number <= n - Len(output)
<1>1. received[i] \in [conn : 1 .. MaxConns, pkt : Packet]
  <2> DEFINE S == [conn : 1 .. MaxConns, pkt : Packet]
  <2>1. received \in Seq(S)
    BY Scalars
  <2> HIDE DEF S
  <2>2. received[i] \in S
    BY <2>1
  <2> QED
    BY <2>2 DEF S
<1>2. received[i].pkt.number \in 1 .. n
  BY Scalars DEF Inv, HostInOrder, Accounted
<1>3. received[i].pkt.number <= n - Len(output)
  BY DEF Inv, HostInv
<1> QED
  BY <1>1, <1>2, <1>3

LEMMA PositiveProduct ==
  ASSUME NEW a \in Nat \ {0}, NEW b \in Nat \ {0} PROVE a * b # 0
  OBVIOUS

\* Once a packet is finished, the place of a byte is settled: the first
\* header has been seen.
LEMMA PlacesStay ==
  ASSUME Inv, n # 0, [Next]_vars
  PROVE  UNCHANGED <<base, skip, firstLen>>
<1>1. CASE EimStep
  <2>1. alive \/ UNCHANGED vars
    BY DEF Next
  <2>2. CASE ~first_frame /\ alive
    <3>1. taken = 0 /\ board \in {"poll", "remove", "send"} /\ sent \in Nat \ {0}
      BY <2>2, Scalars DEF Inv, C!IInv, C!ChunkInv, C!HandedOn, C!TypeOK
    <3>2. CASE board \in {"poll", "remove"}
      <4>1. taken = sent * DATA_PALOAD_LEN
        BY <3>2 DEF Inv, C!IInv, C!BoardInv
      <4> QED
        BY <3>1, <4>1, PositiveProduct, CaptureAssumption
    <3>3. CASE board = "send"
      <4>1. taken = (sent + 1) * DATA_PALOAD_LEN
        BY <3>3 DEF Inv, C!IInv, C!HandedOn, C!PayloadsTile
      <4>2. sent + 1 \in Nat \ {0}
        BY <3>1
      <4> QED
        BY <3>1, <4>1, <4>2, PositiveProduct, CaptureAssumption
    <3> QED
      BY <3>1, <3>2, <3>3
  <2>3. CASE first_frame
    BY <1>1, <2>3 DEF EimStep, Capture!EimRead, Capture!EimReadError
  <2>4. CASE UNCHANGED vars
    BY <2>4 DEF vars, captureVars
  <2> QED
    BY <2>1, <2>2, <2>3, <2>4
<1>2. CASE BoardAssemble \/ SubmitPut \/ SubmitDrop \/ SubmitDies
  BY <1>2 DEF BoardAssemble, SubmitPut, SubmitDrop, SubmitDies,
     Uplink!Die, Capture!BoardPoll, Capture!BoardRemove, Capture!BoardSend,
     Capture!eimVars
<1>3. CASE Connect \/ Release \/ Deliver \/ UNCHANGED vars
  <2>1. UNCHANGED captureVars
    BY <1>3 DEF Connect, Release, Deliver, vars
  <2> QED
    BY <2>1 DEF captureVars
<1> QED
  BY <1>1, <1>2, <1>3 DEF Next

\* So a packet that is made of the bytes at its place stays so.
LEMMA TilesStay ==
  ASSUME Inv, [Next]_vars, NEW pkt, Tiles(pkt),
         \/ \E i \in 1 .. Len(output) : pkt = output[i]
         \/ \E i \in 1 .. Len(received) : pkt = received[i].pkt
  PROVE  Tiles(pkt)'
<1>1. n # 0
  <2>1. ASSUME n = 0 PROVE Len(output) = 0 /\ Len(received) = 0
    <3>1. Len(output) = 0
      BY <2>1, Scalars
    <3>2. ASSUME NEW i \in 1 .. Len(received) PROVE FALSE
      <4>1. received[i].pkt.number \in 1 .. n
        BY ReceivedFacts
      <4> QED
        BY <2>1, <4>1
    <3>3. Len(received) \in Nat
      BY Scalars
    <3>4. Len(received) # 0 => 1 \in 1 .. Len(received)
      BY <3>3
    <3> QED
      BY <3>1, <3>2, <3>4
  <2> QED
    BY <2>1
<1>2. UNCHANGED <<base, skip, firstLen>>
  BY <1>1, PlacesStay
<1> QED
  BY <1>2 DEF Tiles, Capture!OutPos

\* The packets of the output and those the host has, after a step that
\* changes neither.
LEMMA OldTiles ==
  ASSUME Inv, [Next]_vars
  PROVE  /\ UNCHANGED output => OutputTiles'
         /\ UNCHANGED received => BytesInPlace'
<1>1. ASSUME UNCHANGED output, NEW i \in 1 .. Len(output)
      PROVE  Tiles(output[i])'
  <2>1. PICK pkt : pkt = output[i]
    OBVIOUS
  <2>2. Tiles(pkt)
    BY <2>1 DEF Inv, OutputTiles
  <2>3. Tiles(pkt)'
    BY <2>1, <2>2, TilesStay
  <2> QED
    BY <1>1, <2>1, <2>3 DEF Tiles, Capture!OutPos
<1>2. ASSUME UNCHANGED received, NEW i \in 1 .. Len(received)
      PROVE  Tiles(received[i].pkt)'
  <2>1. PICK pkt : pkt = received[i].pkt
    OBVIOUS
  <2>2. Tiles(pkt)
    BY <2>1 DEF Inv, BytesInPlace, Tiles
  <2>3. Tiles(pkt)'
    BY <2>1, <2>2, TilesStay
  <2> QED
    BY <1>2, <2>1, <2>3 DEF Tiles, Capture!OutPos
<1>3. UNCHANGED output => OutputTiles'
  BY <1>1 DEF OutputTiles
<1>4. UNCHANGED received => BytesInPlace'
  BY <1>2 DEF BytesInPlace, Tiles
<1> QED
  BY <1>3, <1>4

\* A step of the threads before a packet is finished.
LEMMA QuietStep ==
  ASSUME Inv, [Next]_vars,
         UNCHANGED <<uplinkVars, output, conns, received, lost, sent>>
  PROVE  Inv'
<1>1. C!IInv'
  BY CaptureStep DEF Inv
<1>2. OutputTiles' /\ BytesInPlace'
  BY OldTiles
<1>3. HostInOrder'
  <2>1. TypeOK'
    <3>1. Capture!TypeOK'
      BY <1>1, SameType DEF C!IInv, C!HandedOn
    <3>2. TypeOK
      BY DEF Inv, HostInOrder
    <3> QED
      BY <3>1, <3>2, Zenon DEF TypeOK, uplinkVars
  <2> QED
    BY <2>1 DEF Inv, HostInOrder, Accounted
<1>4. CountInv' /\ QueueInv' /\ HostInv'
  BY DEF Inv, CountInv, QueueInv, HostInv, uplinkVars
<1> QED
  BY <1>1, <1>2, <1>3, <1>4 DEF Inv

\* A packet joins the output.
LEMMA PutStep ==
  ASSUME Inv, alive, SubmitPut
  PROVE  Inv'
<1>0. [Next]_vars
  BY DEF Next
<1>1. C!IInv'
  BY <1>0, CaptureStep DEF Inv
<1>2. PICK pkt : pkt = Written
  OBVIOUS
<1>3. /\ output' = Append(output, pkt) /\ sent' = sent + 1 /\ n' = n + 1
      /\ open /\ open' = open /\ log' = Append(log, n + 1) /\ late' = late
      /\ UNCHANGED <<conns, received, lost, base, skip, firstLen>>
  BY <1>2 DEF SubmitPut, Uplink!Put, Capture!BoardSend, Capture!eimVars
<1>4. pkt.number = n + 1 /\ pkt.data = capdata
  BY <1>2, Scalars DEF Written
<1>5. pkt \in Packet
  <2>1. capdata \in [1 .. DATA_PALOAD_LEN -> 0 .. StreamLen] /\ sent + 1 \in Nat
    BY Scalars DEF Inv, HostInOrder, TypeOK, Capture!TypeOK, Capture!Pos
  <2> QED
    BY <1>2, <2>1 DEF Written, Packet
<1>6. /\ output' \in Seq(Packet) /\ output' # <<>>
      /\ Len(output') = Len(output) + 1
      /\ \A i \in 1 .. Len(output) : output'[i] = output[i]
      /\ output'[Len(output) + 1] = pkt
  <2>1. output \in Seq(Packet)
    BY Scalars
  <2> QED
    BY <1>3, <1>5, <2>1, AppendFacts
<1>7. log' \in Seq(Nat) /\ log' # <<>>
  <2>1. n + 1 \in Nat /\ log \in Seq(Nat)
    BY Scalars
  <2> QED
    BY <1>3, <2>1, AppendFacts
<1>8. \A i \in 1 .. Len(output') : i \in 1 .. Len(output) \/ i = Len(output) + 1
  BY <1>6, Scalars
<1>9. n' - Len(output') = n - Len(output)
  BY <1>3, <1>6, Scalars
<1>10. CountInv'
  BY <1>3 DEF Inv, CountInv
<1>11. QueueInv'
  <2>1. ASSUME NEW i \in 1 .. Len(output')
        PROVE  output'[i].number = n' - Len(output') + i
    <3>1. CASE i \in 1 .. Len(output)
      BY <1>6, <1>9, <3>1 DEF Inv, QueueInv
    <3>2. CASE i = Len(output) + 1
      BY <1>4, <1>6, <1>9, <3>2, Scalars
    <3> QED
      BY <1>8, <3>1, <3>2
  <2>2. Len(output') <= n'
    BY <1>3, <1>6, Scalars
  <2> QED
    BY <1>3, <1>7, <2>1, <2>2 DEF QueueInv
<1>12. HostInv'
  <2> DEFINE last == received[Len(received)]
  <2>1. HostInv
    BY DEF Inv
  <2>2. \A i \in 1 .. Len(received') : received'[i].pkt.number <= n' - Len(output')
    BY <1>3, <1>9, <2>1 DEF HostInv
  <2>3. received # <<>> => last.conn <= conns
    BY <2>1 DEF HostInv
  <2>4. received # <<>> /\ last.conn = conns => last.pkt.number = n - Len(output)
    BY <1>3, <2>1 DEF HostInv
  <2> QED
    BY <1>3, <1>7, <1>9, <2>2, <2>3, <2>4 DEF HostInv
<1>13. TypeOK'
  <2>1. Capture!TypeOK'
    BY <1>1, SameType DEF C!IInv, C!HandedOn
  <2>2. lost' \subseteq 1 .. n' /\ n' \in Nat
    BY <1>3, Scalars
  <2> QED
    BY <1>3, <1>6, <1>7, <2>1, <2>2 DEF Inv, HostInOrder, TypeOK
<1>14. Accounted'
  <2> DEFINE waiting == {output[i].number : i \in 1 .. Len(output)}
             got     == {received[i].pkt.number : i \in 1 .. Len(received)}
  <2>1. waiting \cup got \cup lost = 1 .. n /\ lost \cap (waiting \cup got) = {}
    BY Scalars DEF Inv, HostInOrder, Accounted
  <2>2. {output'[i].number : i \in 1 .. Len(output')} = waiting \cup {n + 1}
    <3>1. \A i \in 1 .. Len(output) : i \in 1 .. Len(output')
      BY <1>6, Scalars
    <3>2. Len(output) + 1 \in 1 .. Len(output')
      BY <1>6, Scalars
    <3>3. \A i \in 1 .. Len(output) : output'[i].number = output[i].number
      BY <1>6
    <3>4. output'[Len(output) + 1].number = n + 1
      BY <1>4, <1>6
    <3>5. ASSUME NEW x \in waiting
          PROVE  x \in {output'[i].number : i \in 1 .. Len(output')}
      BY <3>1, <3>3
    <3>6. ASSUME NEW x \in {output'[i].number : i \in 1 .. Len(output')}
          PROVE  x \in waiting \cup {n + 1}
      BY <1>8, <3>3, <3>4
    <3> QED
      BY <3>2, <3>4, <3>5, <3>6
  <2>3. n + 1 \notin lost
    BY Scalars
  <2>4. 1 .. sent' = (1 .. n) \cup {n + 1}
    BY <1>3, Scalars
  <2> HIDE DEF waiting, got
  <2>5. waiting \cup {n + 1} \cup got \cup lost = 1 .. sent'
    BY <2>1, <2>4
  <2>6. lost \cap (waiting \cup {n + 1} \cup got) = {}
    BY <2>1, <2>3
  <2>7. /\ got = {received'[i].pkt.number : i \in 1 .. Len(received')}
        /\ lost' = lost
    BY <1>3 DEF got
  <2> QED
    BY <2>2, <2>5, <2>6, <2>7 DEF Accounted
<1>15. HostInOrder'
  BY <1>3, <1>13, <1>14 DEF Inv, HostInOrder
<1>16. BytesInPlace'
  BY <1>0, <1>3, OldTiles
<1>17. Tiles(pkt)'
  <2>1. board = "send"
    BY DEF SubmitPut, Capture!BoardSend
  <2>2. ASSUME NEW j \in 1 .. DATA_PALOAD_LEN
        PROVE  pkt.data[j] = Capture!OutPos((pkt.number - 1) * DATA_PALOAD_LEN + j - 1)
    <3>1. capdata[j] = C!OutPos(sent * DATA_PALOAD_LEN + j - 1)
      BY <2>1 DEF Inv, C!IInv, C!HandedOn, C!PayloadsTile
    <3>2. pkt.number - 1 = sent
      BY <1>4, Scalars
    <3> QED
      BY <1>4, <3>1, <3>2, SameOutPos
  <2> QED
    BY <1>3, <2>2 DEF Tiles, Capture!OutPos
<1>18. OutputTiles'
  <2>1. ASSUME NEW i \in 1 .. Len(output')
        PROVE  Tiles(output[i])'
    <3>1. PICK p : p = output'[i]
      OBVIOUS
    <3>2. Tiles(p)'
      <4>1. CASE i \in 1 .. Len(output)
        <5>1. p = output[i] /\ Tiles(p)
          BY <1>6, <3>1, <4>1 DEF Inv, OutputTiles
        <5> QED
          BY <1>0, <4>1, <5>1, TilesStay
      <4>2. CASE i = Len(output) + 1
        BY <1>6, <1>17, <3>1, <4>2
      <4> QED
        BY <1>8, <4>1, <4>2
    <3> QED
      BY <3>1, <3>2 DEF Tiles, Capture!OutPos
  <2> QED
    BY <2>1 DEF OutputTiles
<1> QED
  BY <1>1, <1>10, <1>11, <1>12, <1>15, <1>16, <1>18 DEF Inv

\* A packet is lost for want of a session; the output is empty then.
LEMMA DropStep ==
  ASSUME Inv, alive, SubmitDrop
  PROVE  Inv'
<1>0. [Next]_vars
  BY DEF Next
<1>1. C!IInv'
  BY <1>0, CaptureStep DEF Inv
<1>2. /\ open => log = <<>>
      /\ sent' = sent + 1 /\ n' = n + 1 /\ lost' = lost \cup {sent + 1}
      /\ late' \in BOOLEAN
      /\ UNCHANGED <<open, log, output, conns, received>>
  BY DEF SubmitDrop, Uplink!Drop, Capture!BoardSend
<1>3. output = <<>> /\ Len(output) = 0
  BY <1>2 DEF Inv, QueueInv
<1>4. OutputTiles' /\ BytesInPlace'
  BY <1>0, <1>2, OldTiles
<1>5. CountInv'
  BY <1>2 DEF Inv, CountInv
<1>6. QueueInv'
  BY <1>2, <1>3, Scalars DEF QueueInv
<1>7. HostInv'
  <2> DEFINE last == received[Len(received)]
  <2>1. HostInv
    BY DEF Inv
  <2>2. \A i \in 1 .. Len(received) : received[i].pkt.number \in Nat
    BY ReceivedFacts
  <2>3. \A i \in 1 .. Len(received') : received'[i].pkt.number <= n' - Len(output')
    BY <1>2, <1>3, <2>1, <2>2, Scalars DEF HostInv
  <2>4. received # <<>> => last.conn <= conns /\ ~ (open /\ last.conn = conns)
    BY <1>2, <2>1 DEF HostInv
  <2> QED
    BY <1>2, <2>3, <2>4 DEF HostInv
<1>8. TypeOK'
  <2>1. Capture!TypeOK'
    BY <1>1, SameType DEF C!IInv, C!HandedOn
  <2>2. lost' \subseteq 1 .. n' /\ n' \in Nat
    BY <1>2, Scalars
  <2>3. TypeOK
    BY DEF Inv, HostInOrder
  <2> QED
    BY <1>2, <2>1, <2>2, <2>3, Zenon DEF TypeOK
<1>9. Accounted'
  <2> DEFINE waiting == {output[i].number : i \in 1 .. Len(output)}
             got     == {received[i].pkt.number : i \in 1 .. Len(received)}
  <2>1. waiting \cup got \cup lost = 1 .. n /\ lost \cap (waiting \cup got) = {}
    BY Scalars DEF Inv, HostInOrder, Accounted
  <2>2. n + 1 \notin 1 .. n /\ 1 .. sent' = (1 .. n) \cup {n + 1}
    BY <1>2, Scalars
  <2>3. lost' = lost \cup {n + 1}
    BY <1>2, Scalars
  <2>4. /\ waiting = {output'[i].number : i \in 1 .. Len(output')}
        /\ got = {received'[i].pkt.number : i \in 1 .. Len(received')}
    BY <1>2
  <2> HIDE DEF waiting, got
  <2>5. waiting \cup got \cup lost' = 1 .. sent'
    BY <2>1, <2>2, <2>3
  <2>6. lost' \cap (waiting \cup got) = {}
    BY <2>1, <2>2, <2>3
  <2> QED
    BY <2>4, <2>5, <2>6 DEF Accounted
<1>10. HostInOrder'
  BY <1>2, <1>8, <1>9 DEF Inv, HostInOrder
<1> QED
  BY <1>1, <1>4, <1>5, <1>6, <1>7, <1>10 DEF Inv

\* A session begins, with a number of its own and an empty log.
LEMMA ConnectStep ==
  ASSUME Inv, alive, Connect
  PROVE  Inv'
<1>0. [Next]_vars
  BY DEF Next
<1>1. C!IInv'
  BY <1>0, CaptureStep DEF Inv
<1>2. /\ ~open /\ open' = TRUE /\ log' = <<>> /\ conns < MaxConns
      /\ conns' = conns + 1 /\ late' \in BOOLEAN
      /\ UNCHANGED <<n, sent, output, received, lost>>
  BY DEF Connect, Uplink!Open, captureVars
<1>3. output = <<>> /\ Len(output) = 0
  BY <1>2 DEF Inv, QueueInv
<1>4. OutputTiles' /\ BytesInPlace'
  BY <1>0, <1>2, OldTiles
<1>5. CountInv' /\ QueueInv'
  BY <1>2, <1>3, Scalars DEF Inv, CountInv, QueueInv
<1>6. HostInv'
  <2> DEFINE last == received[Len(received)]
  <2>1. HostInv
    BY DEF Inv
  <2>2. received # <<>> => last.conn <= conns /\ last.conn \in Nat
    <3>1. received # <<>> => Len(received) \in 1 .. Len(received)
      BY Scalars
    <3>2. \A i \in 1 .. Len(received) : received[i].conn \in 1 .. MaxConns
      BY ReceivedFacts
    <3>3. received # <<>> => last.conn \in Nat
      BY <3>1, <3>2, ConnAssumption
    <3> QED
      BY <2>1, <3>3 DEF HostInv
  <2>3. received # <<>> => last.conn <= conns' /\ last.conn # conns'
    BY <1>2, <2>2, Scalars
  <2>4. \A i \in 1 .. Len(received') : received'[i].pkt.number <= n' - Len(output')
    BY <1>2, <2>1 DEF HostInv
  <2> QED
    BY <1>2, <2>3, <2>4 DEF HostInv
<1>7. TypeOK'
  <2>1. Capture!TypeOK'
    BY <1>1, SameType DEF C!IInv, C!HandedOn
  <2>2. conns' \in 0 .. MaxConns /\ log' \in Seq(Nat) /\ open' \in BOOLEAN
    BY <1>2, Scalars
  <2>3. TypeOK
    BY DEF Inv, HostInOrder
  <2> QED
    BY <1>2, <2>1, <2>2, <2>3, Zenon DEF TypeOK
<1>8. HostInOrder'
  BY <1>2, <1>7 DEF Inv, HostInOrder, Accounted
<1> QED
  BY <1>1, <1>4, <1>5, <1>6, <1>8 DEF Inv

\* A session ends, and the output with it.
LEMMA ReleaseStep ==
  ASSUME Inv, alive, Release
  PROVE  Inv'
<1>0. [Next]_vars
  BY DEF Next
<1>1. C!IInv'
  BY <1>0, CaptureStep DEF Inv
<1>2. /\ open' = FALSE /\ log' = <<>> /\ late' = FALSE /\ output' = <<>>
      /\ lost' = lost \cup {output[i].number : i \in 1 .. Len(output)}
      /\ UNCHANGED <<n, sent, conns, received>>
  BY DEF Release, Uplink!Close, captureVars
<1>3. Len(output') = 0
  BY <1>2
<1>4. OutputTiles' /\ BytesInPlace'
  BY <1>0, <1>2, <1>3, OldTiles DEF OutputTiles
<1>5. CountInv' /\ QueueInv'
  BY <1>2, <1>3, Scalars DEF Inv, CountInv, QueueInv
<1>6. ASSUME NEW i \in 1 .. Len(received)
      PROVE  /\ received[i].pkt.number \in Nat
             /\ received[i].pkt.number <= n - Len(output)
  BY ReceivedFacts
<1>7. HostInv'
  <2>1. \A i \in 1 .. Len(received') : received'[i].pkt.number <= n' - Len(output')
    BY <1>2, <1>3, <1>6, Scalars
  <2> QED
    BY <1>2, <2>1 DEF Inv, HostInv
<1>8. \A i \in 1 .. Len(output) : output[i].number \in 1 .. n
  BY OutputFacts
<1>9. TypeOK'
  <2>1. Capture!TypeOK'
    BY <1>1, SameType DEF C!IInv, C!HandedOn
  <2>2. lost' \subseteq 1 .. n'
    <3>1. lost \subseteq 1 .. n
      BY Scalars
    <3> QED
      BY <1>2, <1>8, <3>1
  <2>a. log' \in Seq(Nat) /\ open' \in BOOLEAN
    <3>1. log' = <<>>
      BY <1>2
    <3>2. open' = FALSE
      BY <1>2
    <3>3. log' \in Seq(Nat)
      BY <3>1
    <3> QED
      BY <3>2, <3>3, Zenon
  <2>3. output' \in Seq(Packet)
    BY <1>2
  <2>4. TypeOK
    BY DEF Inv, HostInOrder
  <2> QED
    BY <1>2, <2>1, <2>2, <2>a, <2>3, <2>4, Zenon DEF TypeOK
<1>10. Accounted'
  <2> DEFINE waiting == {output[i].number : i \in 1 .. Len(output)}
             got     == {received[i].pkt.number : i \in 1 .. Len(received)}
  <2>1. waiting \cup got \cup lost = 1 .. sent /\ lost \cap (waiting \cup got) = {}
    BY DEF Inv, HostInOrder, Accounted
  <2>2. waiting \cap got = {}
    <3> SUFFICES ASSUME NEW i \in 1 .. Len(output), NEW k \in 1 .. Len(received),
                        output[i].number = received[k].pkt.number
                 PROVE  FALSE
      OBVIOUS
    <3>1. output[i].number = n - Len(output) + i
      BY OutputFacts
    <3>2. received[k].pkt.number <= n - Len(output)
      BY <1>6
    <3>3. n \in Nat /\ Len(output) \in Nat
      BY Scalars
    <3> QED
      BY <3>1, <3>2, <3>3
  <2>3. lost' = lost \cup waiting
    BY <1>2
  <2>4. /\ {} = {output'[i].number : i \in 1 .. Len(output')}
        /\ got = {received'[i].pkt.number : i \in 1 .. Len(received')}
    BY <1>2, <1>3
  <2> HIDE DEF waiting, got
  <2>5. {} \cup got \cup lost' = 1 .. sent'
    BY <1>2, <2>1, <2>3
  <2>6. lost' \cap ({} \cup got) = {}
    BY <2>1, <2>2, <2>3
  <2> QED
    BY <2>4, <2>5, <2>6 DEF Accounted
<1>11. HostInOrder'
  BY <1>2, <1>9, <1>10 DEF Inv, HostInOrder
<1> QED
  BY <1>1, <1>4, <1>5, <1>7, <1>11 DEF Inv

\* The host has got the packet at the front of the output.
LEMMA DeliverStep ==
  ASSUME Inv, alive, Deliver
  PROVE  Inv'
<1>0. [Next]_vars
  BY DEF Next
<1>1. C!IInv'
  BY <1>0, CaptureStep DEF Inv
<1>2. PICK pkt : pkt = output[1]
  OBVIOUS
<1>3. PICK got : got = [conn |-> conns, pkt |-> pkt]
  OBVIOUS
<1>4. /\ output # <<>> /\ output \in Seq(Packet)
      /\ Len(output) \in Nat \ {0} /\ Head(output) = pkt /\ pkt \in Packet
      /\ output' = Tail(output)
      /\ Len(output') = Len(output) - 1
      /\ \A i \in 1 .. Len(output) - 1 : output'[i] = output[i + 1]
      /\ output' \in Seq(Packet)
  <2>1. output \in Seq(Packet)
    BY Scalars
  <2>2. output # <<>> /\ output' = Tail(output)
    BY DEF Deliver
  <2> QED
    BY <1>2, <2>1, <2>2, TailFacts
<1>5. /\ open /\ log # <<>>
      /\ UNCHANGED <<open, log, n, late, sent, conns, lost, base, skip, firstLen>>
  BY <1>4 DEF Deliver, uplinkVars, captureVars, Inv, QueueInv
<1>6. conns \in 1 .. MaxConns /\ got \in [conn : 1 .. MaxConns, pkt : Packet]
      /\ got.conn = conns /\ got.pkt = pkt
  <2>1. conns \in 1 .. MaxConns
    BY <1>5, Scalars DEF Inv, CountInv
  <2> QED
    BY <1>3, <1>4, <2>1
<1>7. /\ received' = Append(received, got)
      /\ received' \in Seq([conn : 1 .. MaxConns, pkt : Packet])
      /\ received' # <<>> /\ Len(received) \in Nat
      /\ Len(received') = Len(received) + 1
      /\ \A i \in 1 .. Len(received) : received'[i] = received[i]
      /\ received'[Len(received) + 1] = got
  <2> DEFINE S == [conn : 1 .. MaxConns, pkt : Packet]
  <2>1. received' = Append(received, got)
    BY <1>3, <1>4 DEF Deliver
  <2>2. received \in Seq(S)
    BY Scalars
  <2>3. got \in S
    BY <1>6
  <2> HIDE DEF S
  <2>4. /\ Append(received, got) \in Seq(S) /\ Append(received, got) # <<>>
        /\ Len(received) \in Nat /\ Len(Append(received, got)) = Len(received) + 1
        /\ \A i \in 1 .. Len(received) : Append(received, got)[i] = received[i]
        /\ Append(received, got)[Len(received) + 1] = got
    BY <2>2, <2>3, AppendFacts
  <2> QED
    BY <2>1, <2>4 DEF S
<1>8. \A i \in 1 .. Len(received') : i \in 1 .. Len(received) \/ i = Len(received) + 1
  BY <1>7
<1>9. n' - Len(output') = n - Len(output) + 1
  BY <1>4, <1>5, Scalars
<1>10. pkt.number = n - Len(output) + 1 /\ pkt.number \in 1 .. n
  <2>1. 1 \in 1 .. Len(output)
    BY <1>4
  <2> QED
    BY <1>2, <2>1, OutputFacts
<1>11. CountInv'
  BY <1>5 DEF Inv, CountInv
<1>12. QueueInv'
  <2>1. ASSUME NEW i \in 1 .. Len(output')
        PROVE  output'[i].number = n' - Len(output') + i
    <3>1. i \in 1 .. Len(output) - 1 /\ i + 1 \in 1 .. Len(output)
      BY <1>4
    <3>2. output'[i].number = n - Len(output) + (i + 1)
      BY <1>4, <3>1, OutputFacts
    <3> QED
      BY <1>4, <1>9, <3>1, <3>2, Scalars
  <2>2. Len(output') <= n'
    BY <1>4, <1>5, Scalars
  <2> QED
    BY <1>5, <2>1, <2>2 DEF QueueInv
<1>13. HostInv'
  <2>1. ASSUME NEW i \in 1 .. Len(received')
        PROVE  received'[i].pkt.number <= n' - Len(output')
    <3>1. CASE i \in 1 .. Len(received)
      <4>1. /\ received'[i].pkt.number \in 1 .. n
            /\ received'[i].pkt.number <= n - Len(output)
        BY <1>7, <3>1, ReceivedFacts
      <4> QED
        BY <1>4, <1>9, <4>1, Scalars
    <3>2. CASE i = Len(received) + 1
      <4>1. received'[i].pkt.number = n - Len(output) + 1
        BY <1>6, <1>7, <1>10, <3>2
      <4> QED
        BY <1>4, <1>9, <4>1, Scalars
    <3> QED
      BY <1>8, <3>1, <3>2
  <2>2. received'[Len(received')] = got
    BY <1>7
  <2>3. got.conn <= conns' /\ got.pkt.number = n' - Len(output')
    BY <1>5, <1>6, <1>9, <1>10, Scalars
  <2> QED
    BY <1>5, <2>1, <2>2, <2>3 DEF HostInv
<1>14. TypeOK'
  <2>1. Capture!TypeOK'
    BY <1>1, SameType DEF C!IInv, C!HandedOn
  <2>2. TypeOK
    BY DEF Inv, HostInOrder
  <2> QED
    BY <1>4, <1>5, <1>7, <2>1, <2>2, Zenon DEF TypeOK
<1>15. Accounted'
  <2> DEFINE waiting == {output[i].number : i \in 1 .. Len(output)}
             reached == {received[i].pkt.number : i \in 1 .. Len(received)}
             waits2  == {output'[i].number : i \in 1 .. Len(output')}
             reach2  == {received'[i].pkt.number : i \in 1 .. Len(received')}
  <2>1. waiting \cup reached \cup lost = 1 .. sent /\ lost \cap (waiting \cup reached) = {}
    BY DEF Inv, HostInOrder, Accounted
  <2>2. waiting = waits2 \cup {pkt.number}
    <3>1. ASSUME NEW i \in 1 .. Len(output')
          PROVE  output'[i].number \in waiting
      <4>1. i \in 1 .. Len(output) - 1 /\ i + 1 \in 1 .. Len(output)
        BY <1>4
      <4>2. output'[i] = output[i + 1]
        BY <1>4, <4>1
      <4> QED
        BY <4>1, <4>2
    <3>2. ASSUME NEW i \in 1 .. Len(output)
          PROVE  output[i].number \in waits2 \cup {pkt.number}
      <4>1. CASE i = 1
        BY <1>2, <4>1
      <4>2. CASE i # 1
        <5>1. i - 1 \in 1 .. Len(output) - 1 /\ i - 1 \in 1 .. Len(output')
              /\ (i - 1) + 1 = i
          BY <1>4, <4>2
        <5>2. output'[i - 1] = output[i]
          BY <1>4, <5>1
        <5> QED
          BY <5>1, <5>2
      <4> QED
        BY <4>1, <4>2
    <3>3. pkt.number \in waiting
      <4>1. 1 \in 1 .. Len(output)
        BY <1>4
      <4> QED
        BY <1>2, <4>1
    <3> QED
      BY <3>1, <3>2, <3>3
  <2>3. reach2 = reached \cup {pkt.number}
    <3>1. ASSUME NEW i \in 1 .. Len(received')
          PROVE  received'[i].pkt.number \in reached \cup {pkt.number}
      <4>1. CASE i \in 1 .. Len(received)
        BY <1>7, <4>1
      <4>2. CASE i = Len(received) + 1
        BY <1>6, <1>7, <4>2
      <4> QED
        BY <1>8, <4>1, <4>2
    <3>2. ASSUME NEW i \in 1 .. Len(received)
          PROVE  received[i].pkt.number \in reach2
      <4>1. i \in 1 .. Len(received') /\ received'[i] = received[i]
        BY <1>7
      <4> QED
        BY <4>1
    <3>3. pkt.number \in reach2
      <4>1. Len(received) + 1 \in 1 .. Len(received')
        BY <1>7
      <4> QED
        BY <1>6, <1>7, <4>1
    <3> QED
      BY <3>1, <3>2, <3>3
  <2> HIDE DEF waiting, reached, waits2, reach2
  <2>4. waits2 \cup reach2 \cup lost' = 1 .. sent'
    BY <1>5, <2>1, <2>2, <2>3
  <2>5. lost' \cap (waits2 \cup reach2) = {}
    BY <1>5, <2>1, <2>2, <2>3
  <2> QED
    BY <2>4, <2>5 DEF Accounted, waits2, reach2
<1>16. ASSUME NEW i \in 2 .. Len(received')
       PROVE  /\ received'[i - 1].pkt.number < received'[i].pkt.number
              /\ received'[i].pkt.number # received'[i - 1].pkt.number + 1 =>
                   received'[i - 1].conn < received'[i].conn
  <2>1. CASE i \in 2 .. Len(received)
    <3>1. received'[i - 1] = received[i - 1] /\ received'[i] = received[i]
      BY <1>7, <2>1
    <3> QED
      BY <2>1, <3>1 DEF Inv, HostInOrder
  <2>2. CASE i = Len(received) + 1
    <3> DEFINE k == Len(received)
    <3>1. k \in 1 .. Len(received) /\ i - 1 = k /\ received # <<>>
      BY <1>7, <2>2
    <3>2. received'[i - 1] = received[k] /\ received'[i] = got
      BY <1>7, <2>2, <3>1
    <3>3. /\ received[k].conn \in 1 .. MaxConns
          /\ received[k].pkt.number \in 1 .. n
          /\ received[k].pkt.number <= n - Len(output)
      BY <3>1, ReceivedFacts
    <3>4. /\ received[k].conn <= conns
          /\ received[k].conn = conns => received[k].pkt.number = n - Len(output)
      BY <1>5, <3>1 DEF Inv, HostInv
    <3> HIDE DEF k
    <3>5. /\ received[k].pkt.number < pkt.number
          /\ pkt.number # received[k].pkt.number + 1 => received[k].conn < conns
      <4>1. n \in Nat /\ Len(output) \in Nat /\ conns \in Nat /\ MaxConns \in Nat
        BY Scalars, ConnAssumption
      <4>2. received[k].conn \in Nat /\ received[k].pkt.number \in Nat
        BY <3>3, <4>1
      <4> DEFINE c == received[k].conn
                 a == received[k].pkt.number
                 l == Len(output)
      <4>3. /\ c \in Nat /\ a \in Nat /\ l \in Nat /\ a <= n - l
            /\ c <= conns /\ (c = conns => a = n - l)
        BY <3>3, <3>4, <4>1, <4>2
      <4>4. pkt.number = n - l + 1
        BY <1>10
      <4> HIDE DEF a, c, l
      <4>5. a < pkt.number /\ (pkt.number # a + 1 => c < conns)
        BY <4>1, <4>3, <4>4
      <4> QED
        BY <4>5 DEF a, c
    <3> QED
      BY <1>6, <3>2, <3>5
  <2> QED
    BY <1>7, <2>1, <2>2
<1>17. HostInOrder'
  BY <1>14, <1>15, <1>16 DEF HostInOrder
<1>18. Tiles(pkt) /\ Tiles(pkt)'
  <2>1. 1 \in 1 .. Len(output)
    BY <1>4
  <2>2. Tiles(pkt)
    BY <1>2, <2>1 DEF Inv, OutputTiles
  <2> QED
    BY <1>0, <1>2, <2>1, <2>2, TilesStay
<1>19. BytesInPlace'
  <2>1. ASSUME NEW i \in 1 .. Len(received')
        PROVE  Tiles(received[i].pkt)'
    <3>1. PICK p : p = received'[i].pkt
      OBVIOUS
    <3>2. Tiles(p)'
      <4>1. CASE i \in 1 .. Len(received)
        <5>1. p = received[i].pkt
          BY <1>7, <3>1, <4>1
        <5>2. Tiles(p)
          BY <4>1, <5>1 DEF Inv, BytesInPlace, Tiles
        <5> QED
          BY <1>0, <4>1, <5>1, <5>2, TilesStay
      <4>2. CASE i = Len(received) + 1
        BY <1>6, <1>7, <1>18, <3>1, <4>2
      <4> QED
        BY <1>8, <4>1, <4>2
    <3> QED
      BY <3>1, <3>2 DEF Tiles, Capture!OutPos
  <2> QED
    BY <2>1 DEF BytesInPlace, Tiles
<1>20. OutputTiles'
  <2>1. ASSUME NEW i \in 1 .. Len(output')
        PROVE  Tiles(output[i])'
    <3>1. PICK p : p = output'[i]
      OBVIOUS
    <3>2. i \in 1 .. Len(output) - 1 /\ i + 1 \in 1 .. Len(output)
      BY <1>4
    <3>3. p = output[i + 1]
      BY <1>4, <3>1, <3>2
    <3>4. Tiles(p)
      BY <3>2, <3>3 DEF Inv, OutputTiles
    <3>5. Tiles(p)'
      BY <1>0, <3>2, <3>3, <3>4, TilesStay
    <3> QED
      BY <3>1, <3>5 DEF Tiles, Capture!OutPos
  <2> QED
    BY <2>1 DEF OutputTiles
<1> QED
  BY <1>1, <1>11, <1>12, <1>13, <1>17, <1>19, <1>20 DEF Inv
-----------------------------------------------------------------------------
LEMMA InitInv == Init => Inv
<1> SUFFICES ASSUME Init PROVE Inv
  OBVIOUS
<1>1. C!IInv
  <2>1. C!Init
    BY DEF Init, Capture!Init, C!Init, Capture!Cells, C!Cells, Capture!Zero, C!Zero
  <2> QED
    BY <2>1, C!InitIInv, CaptureAssumption DEF C!SizeAssumption, C!StreamAssumption
<1>2. /\ open = FALSE /\ log = <<>> /\ n = 0 /\ late = FALSE
      /\ sent = 0 /\ output = <<>>
      /\ conns = 0 /\ received = <<>> /\ lost = {}
  BY DEF Init, Uplink!Init, Capture!Init
<1>3. Len(output) = 0 /\ Len(received) = 0
  BY <1>2
<1>4. TypeOK
  <2>1. Capture!TypeOK
    BY <1>1, SameType DEF C!IInv, C!HandedOn
  <2>2. /\ log \in Seq(Nat) /\ output \in Seq(Packet)
        /\ received \in Seq([conn : 1 .. MaxConns, pkt : Packet])
    BY <1>2
  <2>3. n \in Nat /\ conns \in 0 .. MaxConns /\ lost \subseteq 1 .. n
    BY <1>2, ConnAssumption
  <2>4. open \in BOOLEAN /\ late \in BOOLEAN
    BY <1>2, Zenon
  <2> QED
    BY <2>1, <2>2, <2>3, <2>4, Zenon DEF TypeOK
<1>5. Accounted
  BY <1>2, <1>3 DEF Accounted
<1>6. HostInOrder /\ BytesInPlace
  BY <1>3, <1>4, <1>5 DEF HostInOrder, BytesInPlace
<1>7. CountInv /\ QueueInv /\ HostInv /\ OutputTiles
  BY <1>2, <1>3 DEF CountInv, QueueInv, HostInv, OutputTiles
<1> QED
  BY <1>1, <1>6, <1>7 DEF Inv

LEMMA NextInv == Inv /\ [Next]_vars => Inv'
<1> SUFFICES ASSUME Inv, [Next]_vars PROVE Inv'
  OBVIOUS
<1>1. CASE EimStep \/ BoardAssemble \/ SubmitDies \/ UNCHANGED vars
  <2>1. UNCHANGED <<uplinkVars, output, conns, received, lost, sent>>
    BY <1>1 DEF EimStep, BoardAssemble, SubmitDies, Uplink!Die, uplinkVars, vars, captureVars,
       Capture!EimRead, Capture!EimReadError, Capture!BoardPoll,
       Capture!BoardRemove, Capture!boardVars
  <2> QED
    BY <2>1, QuietStep
<1>2. CASE alive /\ (SubmitPut \/ SubmitDrop \/ Connect \/ Release \/ Deliver)
  BY <1>2, PutStep, DropStep, ConnectStep, ReleaseStep, DeliverStep
<1> QED
  BY <1>1, <1>2 DEF Next

LEMMA Invariant == Spec => []Inv
  BY InitInv, NextInv, PTL DEF Spec

\* Whatever the board, the event loop, the host and the network do, over any
\* number of connections: no packet is forgotten, the host gets them in the
\* order of capture and none twice, and one is missing between two others
\* only where the connection was lost in between.
THEOREM HostAlwaysInOrder == Spec => []HostInOrder
<1>1. Inv => HostInOrder
  BY DEF Inv
<1> QED
  BY <1>1, Invariant, PTL

LEMMA OneMore ==
  ASSUME NEW m \in Nat, NEW p \in Nat
  PROVE  (m + 1) * p = m * p + p /\ m * p \in Nat
  OBVIOUS

\* Bytes whose places in the stream handed on are neighbours.
LEMMA Neighbours ==
  ASSUME Inv, NEW t \in Nat
  PROVE  Follows(Capture!OutPos(t), Capture!OutPos(t + 1))
<1>1. base \in Nat /\ skip \in Nat /\ firstLen \in Nat
  BY DEF Inv, C!IInv, C!HandedOn, C!TypeOK
<1>2. CASE t + 1 < firstLen
  BY <1>1, <1>2 DEF Follows, Capture!OutPos
<1>3. CASE t + 1 = firstLen
  BY <1>1, <1>3 DEF Follows, Capture!OutPos
<1>4. CASE t + 1 > firstLen
  BY <1>1, <1>4 DEF Follows, Capture!OutPos
<1> QED
  BY <1>1, <1>2, <1>3, <1>4

\* The payloads of one connection, put together, are a piece of the device's
\* stream with nothing doubled, moved or left out, but for the place in the
\* first chunk where skip bytes are missing; although the boardctl thread has
\* reused its packet since and submit has dropped others.
THEOREM HostBytesInPlace == Spec => []HostBytesTile
<1>1. ASSUME Inv PROVE HostBytesTile
  <2> DEFINE P == DATA_PALOAD_LEN
  <2>1. P \in Nat \ {0} /\ n \in Nat
    BY <1>1, CaptureAssumption, Scalars
  <2> HIDE DEF P
  <2>2. ASSUME NEW i \in 1 .. Len(received)
        PROVE  /\ received[i].pkt.number \in Nat \ {0}
               /\ received[i].conn \in Nat
               /\ \A j \in 1 .. P : received[i].pkt.data[j] =
                    Capture!OutPos((received[i].pkt.number - 1) * P + j - 1)
    <3>1. received[i].pkt.number \in 1 .. n /\ received[i].conn \in 1 .. MaxConns
      BY <1>1, ReceivedFacts
    <3>2. MaxConns \in Nat
      BY <1>1, Scalars
    <3> QED
      BY <1>1, <2>1, <3>1, <3>2 DEF Inv, BytesInPlace, P
  <2>3. ASSUME NEW i \in 1 .. Len(received), NEW j \in 1 .. P - 1
        PROVE  Follows(received[i].pkt.data[j], received[i].pkt.data[j + 1])
    <3> DEFINE q == received[i].pkt.number
               t == (q - 1) * P + j - 1
    <3>1. q - 1 \in Nat
      BY <2>2
    <3> HIDE DEF q
    <3>2. (q - 1) * P \in Nat
      BY <2>1, <3>1
    <3>3. t \in Nat /\ t + 1 = (q - 1) * P + (j + 1) - 1
      BY <2>1, <3>2
    <3>4. j \in 1 .. P /\ j + 1 \in 1 .. P
      BY <2>1
    <3>5. /\ received[i].pkt.data[j] = Capture!OutPos(t)
          /\ received[i].pkt.data[j + 1] = Capture!OutPos(t + 1)
      BY <2>2, <3>3, <3>4 DEF q
    <3> HIDE DEF t
    <3> QED
      BY <1>1, <3>3, <3>5, Neighbours
  <2>4. ASSUME NEW i \in 1 .. Len(received), i > 1,
               received[i].conn = received[i - 1].conn
        PROVE  Follows(received[i - 1].pkt.data[P], received[i].pkt.data[1])
    <3> DEFINE q == received[i - 1].pkt.number
               t == (q - 1) * P + P - 1
    <3>1. i \in 2 .. Len(received) /\ i - 1 \in 1 .. Len(received)
      BY <1>1, <2>4, Scalars
    <3>2. received[i].pkt.number = q + 1
      <4>1. received[i].conn \in Nat
        BY <2>2
      <4> QED
        BY <1>1, <2>4, <3>1, <4>1 DEF Inv, HostInOrder
    <3>3. q \in Nat \ {0} /\ q - 1 \in Nat
      BY <2>2, <3>1
    <3>4. /\ 1 \in 1 .. P /\ P \in 1 .. P
      BY <2>1
    <3>5. PICK r : r = received[i].pkt.number
      OBVIOUS
    <3>6. /\ received[i].pkt.data[1] = Capture!OutPos((r - 1) * P + 1 - 1)
          /\ received[i - 1].pkt.data[P] = Capture!OutPos(t)
      BY <2>2, <3>1, <3>4, <3>5
    <3>7. (r - 1) * P + 1 - 1 = t + 1 /\ t \in Nat
      <4>1. r - 1 = (q - 1) + 1
        BY <3>2, <3>3, <3>5
      <4> DEFINE m == q - 1
      <4>2. m \in Nat /\ r - 1 = m + 1
        BY <3>3, <4>1
      <4> HIDE DEF q, m
      <4>3. (m + 1) * P = m * P + P /\ m * P \in Nat
        BY <2>1, <4>2, OneMore
      <4>4. (m + 1) * P + 1 - 1 = (m * P + P - 1) + 1 /\ m * P + P - 1 \in Nat
        BY <2>1, <4>3
      <4> QED
        BY <4>2, <4>4 DEF m
    <3> HIDE DEF t
    <3> QED
      BY <1>1, <3>6, <3>7, Neighbours
  <2> QED
    BY <1>1, <2>3, <2>4 DEF Inv, HostBytesTile, P
<1> QED
  BY <1>1, Invariant, PTL
=============================================================================
