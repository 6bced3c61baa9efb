-------------------------- MODULE GpsParserProofs --------------------------
(***************************************************************************)
(* The two devices that are read in a loop.  The receive loop of the       *)
(* serial port, for any two lengths and any stream: the packets it         *)
(* publishes are whole, none is missed but those the three masks explain,  *)
(* and they are those that the recursive definition Frames finds.  And the *)
(* loop of the temperature device, for any length of a report and any      *)
(* number of cells: what Temperdev.tla states.                             *)
(***************************************************************************)
EXTENDS GpsParser, Temperdev, SequenceTheorems, WellFoundedInduction, TLAPS

\* Where the frame being received began: what is before it is done with.
Begin == Len(stream) - pdata + 1

\* The four variables that advance apart, at each place of the loop.
PlaceInv ==
  /\ gps_state = "gps_wait" => pdata = 0 /\ head_index = 0
  /\ gps_state = "gps_header" =>
       /\ head_index \in 1 .. TagLen - 1 /\ pdata = head_index /\ cnt = 1
       /\ stream[Begin] = Dollar
       /\ \A i \in 0 .. head_index - 1 : buf[i] = stream[Begin + i]
  /\ gps_state = "gps_data" =>
       head_index = 0 /\ pdata = cnt /\ cnt \in TagLen .. PktLen - 1 /\ TagAt(Begin)
  /\ pdata <= Len(stream)

\* Every published packet ends before the frame being received.
PublishedBefore ==
  \A k \in 1 .. Len(published) :
    /\ published[k] \in Nat \ {0}
    /\ published[k] + PktLen <= Begin

Masked(p) ==
  \/ \E d \in 1 .. TagLen - 1 : p > d /\ stream[p - d] = Dollar
  \/ \E d \in 1 .. PktLen - 1 : p > d /\ Published(p - d)

\* A '$' that is done with was published, is masked, or begins no tag.
NoTag(p) == \E j \in 1 .. TagLen : p + j - 1 <= Len(stream) /\ stream[p + j - 1] # j
DoneInv ==
  \A p \in 1 .. Begin - 1 :
    stream[p] = Dollar => Published(p) \/ Masked(p) \/ NoTag(p)

\* Whatever is still to be received, Frames will continue where the loop is.
Continues(s) ==
  /\ Len(stream) <= Len(s)
  /\ \A i \in 1 .. Len(stream) : s[i] = stream[i]
CutInv ==
  \A s \in Seq(Byte) :
    Continues(s) => Frames(s) = published \o FramesFrom(s)[Begin]

IInv == PacketIntact /\ PlaceInv /\ PublishedBefore /\ DoneInv /\ CutInv
-----------------------------------------------------------------------------
(* The recursive definition.                                               *)

LEMMA LeastNatural ==
  ASSUME NEW S, S \subseteq Nat, S # {}
  PROVE  \E m \in S : \A l \in S : m <= l
<1> DEFINE R == OpToRel(<, Nat)
<1>1. IsWellFoundedOn(R, Nat)
  BY NatLessThanWellFounded
<1>2. \A l, k \in Nat : <<l, k>> \in R <=> l < k
  BY DEF OpToRel
<1> HIDE DEF R
<1>3. PICK m \in S : \A l \in S : ~ (<<l, m>> \in R)
  BY <1>1, WFMin
<1>4. \A l \in S : ~ (l < m)
  BY <1>2, <1>3, Zenon
<1>5. \A l \in S : l \in Nat
  OBVIOUS
<1> QED
  BY <1>4, <1>5

LEMMA AppendConcat ==
  ASSUME NEW s \in Seq(Nat), NEW e \in Nat, NEW one, one = <<e>>, NEW t \in Seq(Nat)
  PROVE  s \o (one \o t) = Append(s, e) \o t
<1>1. one \in Seq(Nat)
  OBVIOUS
<1>2. Append(s, e) = s \o one
  BY AppendIsConcat
<1>3. (s \o one) \o t = s \o (one \o t)
  BY <1>1, ConcatAssociative
<1> QED
  BY <1>2, <1>3, Zenon

\* Induction downwards, over a set instead of a predicate.
LEMMA DownToOne ==
  ASSUME NEW n \in Nat \ {0}, NEW T \in SUBSET (1 .. n), n \in T,
         \A m \in T : m > 1 => m - 1 \in T
  PROVE  1 \in T
<1>1. T \subseteq Nat /\ T # {}
  OBVIOUS
<1>2. PICK m \in T : \A l \in T : m <= l
  BY <1>1, LeastNatural
<1>3. CASE m > 1
  <2>1. m - 1 \in T /\ m \in Nat
    BY <1>1, <1>2, <1>3
  <2>2. m <= m - 1
    BY <1>2, <2>1
  <2> QED
    BY <2>1, <2>2
<1>4. m \in Nat /\ m >= 1
  BY <1>2
<1> QED
  BY <1>2, <1>3, <1>4

\* One unrolling of Frames: what it says of position p given what it says
\* further on.
FrameStep(s, g, p) ==
  IF p > Len(s) THEN <<>>
  ELSE IF s[p] # Dollar THEN g[p + 1]
  ELSE IF p + TagLen - 1 > Len(s) THEN <<>>
  ELSE IF \E j \in 1 .. TagLen : s[p + j - 1] # j THEN g[p + TagLen]
  ELSE IF p + PktLen - 1 > Len(s) THEN <<>>
  ELSE <<p>> \o g[p + PktLen]

Last(s) == Len(s) + PktLen

\* It looks at g further on only.
LEMMA StepLooksAhead ==
  ASSUME NEW s \in Seq(Byte), NEW p \in 1 .. Last(s), NEW g, NEW h,
         \A q \in p + 1 .. Last(s) : g[q] = h[q]
  PROVE  FrameStep(s, g, p) = FrameStep(s, h, p)
<1>1. TagLen \in Nat /\ PktLen \in Nat /\ TagLen >= 2 /\ PktLen >= TagLen /\ Len(s) \in Nat
  BY LengthAssumption
<1>2. p \in Nat
  BY <1>1 DEF Last
<1>3. CASE p > Len(s)
  BY <1>3 DEF FrameStep
<1>4. CASE p <= Len(s)
  <2>1. p + 1 \in p + 1 .. Last(s)
    BY <1>1, <1>2, <1>4 DEF Last
  <2>2. p + TagLen - 1 <= Len(s) => p + TagLen \in p + 1 .. Last(s)
    BY <1>1, <1>2 DEF Last
  <2>3. p + PktLen - 1 <= Len(s) => p + PktLen \in p + 1 .. Last(s)
    BY <1>1, <1>2 DEF Last
  <2> QED
    BY <1>1, <1>2, <2>1, <2>2, <2>3 DEF FrameStep
<1> QED
  BY <1>1, <1>2, <1>3, <1>4

LEMMA FramesExist ==
  ASSUME NEW s \in Seq(Byte)
  PROVE  \E f : f = [p \in 1 .. Last(s) |-> FrameStep(s, f, p)]
<1> DEFINE N == Last(s)
           Good(m) == \E g : /\ g = [p \in 1 .. N |-> g[p]]
                             /\ \A p \in m .. N : g[p] = FrameStep(s, g, p)
           T == {m \in 1 .. N + 1 : Good(m)}
<1>0. N \in Nat /\ N + 1 \in Nat \ {0}
  BY LengthAssumption DEF Last
<1> HIDE DEF N
<1>1. N + 1 \in T
  <2> DEFINE g == [p \in 1 .. N |-> <<>>]
  <2>1. g = [p \in 1 .. N |-> g[p]]
    OBVIOUS
  <2>2. \A p \in N + 1 .. N : g[p] = FrameStep(s, g, p)
    BY <1>0
  <2> HIDE DEF g
  <2>3. Good(N + 1)
    BY <2>1, <2>2
  <2>4. N + 1 \in 1 .. N + 1
    BY <1>0
  <2> QED
    BY <2>3, <2>4
<1>2. ASSUME NEW m \in T, m > 1 PROVE m - 1 \in T
  <2>1. PICK g : /\ g = [p \in 1 .. N |-> g[p]]
                 /\ \A p \in m .. N : g[p] = FrameStep(s, g, p)
    OBVIOUS
  <2> DEFINE l == m - 1
             h == [p \in 1 .. N |-> IF p = l THEN FrameStep(s, g, l) ELSE g[p]]
  <2>2. m \in Nat /\ l \in 1 .. N /\ l \in 1 .. N + 1 /\ l + 1 = m
    BY <1>0, <1>2
  <2> HIDE DEF l
  <2>3. h = [p \in 1 .. N |-> h[p]]
    OBVIOUS
  <2>4. ASSUME NEW p \in l .. N PROVE h[p] = FrameStep(s, h, p)
    <3>1. p \in 1 .. N /\ p \in Nat /\ l \in Nat
      BY <1>0, <2>2, <2>4
    <3>2. \A q \in p + 1 .. N : g[q] = h[q]
      BY <1>0, <2>2, <3>1
    <3>3. FrameStep(s, g, p) = FrameStep(s, h, p)
      BY <3>1, <3>2, StepLooksAhead DEF N
    <3>4. p = l \/ p \in m .. N
      BY <1>0, <2>2, <3>1
    <3>5. h[p] = FrameStep(s, g, p)
      BY <2>1, <3>1, <3>4
    <3> QED
      BY <3>3, <3>5
  <2> HIDE DEF h
  <2>5. Good(l)
    BY <2>3, <2>4
  <2> QED
    BY <2>2, <2>5 DEF l
<1>3. T \in SUBSET (1 .. N + 1)
  OBVIOUS
<1> HIDE DEF T
<1>4. 1 \in T
  BY <1>0, <1>1, <1>2, <1>3, DownToOne
<1>5. PICK g : /\ g = [p \in 1 .. N |-> g[p]]
               /\ \A p \in 1 .. N : g[p] = FrameStep(s, g, p)
  BY <1>4 DEF T
<1>6. g = [p \in 1 .. N |-> FrameStep(s, g, p)]
  BY <1>5
<1> QED
  BY <1>6 DEF N

\* Frames is what its recursive definition says.
LEMMA FramesUnroll ==
  ASSUME NEW s \in Seq(Byte), NEW p \in 1 .. Last(s)
  PROVE  FramesFrom(s)[p] = FrameStep(s, FramesFrom(s), p)
<1> DEFINE F == CHOOSE f : f = [q \in 1 .. Last(s) |-> FrameStep(s, f, q)]
<1>1. F = [q \in 1 .. Last(s) |-> FrameStep(s, F, q)]
  BY FramesExist, Zenon
<1>2. FramesFrom(s) = F
  BY Zenon DEF FramesFrom, FrameStep, Last
<1> HIDE DEF F
<1>3. F[p] = FrameStep(s, F, p)
  BY <1>1, Zenon
<1> QED
  BY <1>2, <1>3

LEMMA FramesType ==
  ASSUME NEW s \in Seq(Byte), NEW p \in 1 .. Last(s)
  PROVE  FramesFrom(s)[p] \in Seq(Nat)
<1> DEFINE N == Last(s)
           G == FramesFrom(s)
           T == {m \in 1 .. N : \A q \in m .. N : G[q] \in Seq(Nat)}
<1>0. /\ TagLen \in Nat /\ PktLen \in Nat /\ TagLen >= 2 /\ PktLen >= TagLen
      /\ Len(s) \in Nat /\ N \in Nat \ {0} /\ N = Len(s) + PktLen
  BY LengthAssumption DEF Last
<1>1. \A q \in 1 .. N : G[q] = FrameStep(s, G, q)
  BY FramesUnroll
<1> HIDE DEF N, G
<1>2. N \in T
  <2>1. \A q \in N .. N : q = N
    BY <1>0
  <2>2. N \in 1 .. N /\ N > Len(s)
    BY <1>0
  <2>3. G[N] = FrameStep(s, G, N)
    BY <1>1, <2>2
  <2>4. G[N] = <<>>
    BY <2>2, <2>3, Zenon DEF FrameStep
  <2>5. <<>> \in Seq(Nat)
    OBVIOUS
  <2>6. \A q \in N .. N : G[q] \in Seq(Nat)
    BY <2>1, <2>4, <2>5, Zenon
  <2> QED
    BY <2>2, <2>6, Zenon
<1>3. ASSUME NEW m \in T, m > 1 PROVE m - 1 \in T
  <2> DEFINE l == m - 1
  <2>1. l \in 1 .. N /\ l + 1 = m /\ l \in Nat
    BY <1>0, <1>3
  <2>2. \A q \in m .. N : G[q] \in Seq(Nat)
    OBVIOUS
  <2> HIDE DEF l
  <2>3. G[l] = FrameStep(s, G, l)
    BY <1>1, <2>1
  <2>4. ASSUME l > Len(s) PROVE G[l] \in Seq(Nat)
    <3>1. <<>> \in Seq(Nat)
      OBVIOUS
    <3> QED
      BY <2>3, <2>4, <3>1, Zenon DEF FrameStep
  <2>5. ASSUME l <= Len(s), ~ (l > Len(s)) PROVE G[l] \in Seq(Nat)
    <3>1. G[l + 1] \in Seq(Nat)
      BY <1>0, <2>1, <2>2, <2>5
    <3>2. l + TagLen - 1 <= Len(s) => G[l + TagLen] \in Seq(Nat)
      <4>1. l + TagLen - 1 <= Len(s) => l + TagLen \in m .. N
        BY <1>0, <2>1
      <4> QED
        BY <2>2, <4>1
    <3>3. l + PktLen - 1 <= Len(s) => G[l + PktLen] \in Seq(Nat)
      <4>1. l + PktLen - 1 <= Len(s) => l + PktLen \in m .. N
        BY <1>0, <2>1
      <4> QED
        BY <2>2, <4>1
    <3>4. l + PktLen - 1 <= Len(s) => <<l>> \o G[l + PktLen] \in Seq(Nat)
      <4>1. <<l>> \in Seq(Nat)
        BY <2>1
      <4> QED
        BY <3>3, <4>1
    <3>5. ~ (l + TagLen - 1 > Len(s)) => l + TagLen - 1 <= Len(s)
      BY <1>0, <2>1
    <3>6. ~ (l + PktLen - 1 > Len(s)) => l + PktLen - 1 <= Len(s)
      BY <1>0, <2>1
    <3>7. <<>> \in Seq(Nat)
      OBVIOUS
    <3> QED
      BY <2>3, <2>5, <3>1, <3>2, <3>4, <3>5, <3>6, <3>7, Zenon DEF FrameStep
  <2>6. G[l] \in Seq(Nat)
    BY <1>0, <2>1, <2>4, <2>5
  <2>7. \A q \in l .. N : q = l \/ q \in m .. N
    BY <1>0, <2>1
  <2>8. l \in T
    BY <2>1, <2>2, <2>6, <2>7
  <2> QED
    BY <2>8 DEF l
<1>4. T \in SUBSET (1 .. N)
  OBVIOUS
<1> HIDE DEF T
<1>5. 1 \in T
  BY <1>0, <1>2, <1>3, <1>4, DownToOne
<1>6. \A q \in 1 .. N : G[q] \in Seq(Nat)
  BY <1>5 DEF T
<1> QED
  BY <1>6 DEF N, G
-----------------------------------------------------------------------------
(* What one received byte leaves as it was.                                *)

LEMMA ReadFacts ==
  ASSUME TypeOK, NEW b \in Byte, Read(b)
  PROVE  /\ stream' \in Seq(Byte)
         /\ Len(stream') = Len(stream) + 1
         /\ \A i \in 1 .. Len(stream) : stream'[i] = stream[i]
         /\ stream'[Len(stream) + 1] = b
         /\ buf' \in [0 .. TagLen - 1 -> Byte]
         /\ \A i \in 0 .. TagLen - 1 :
              buf'[i] = IF i = head_index THEN b ELSE buf[i]
  BY DEF TypeOK, Read

LEMMA TagStays ==
  ASSUME TypeOK, NEW b \in Byte, Read(b), NEW p \in Nat \ {0}, TagAt(p)
  PROVE  TagAt(p)'
<1>1. TagLen \in Nat /\ Len(stream) \in Nat
  BY LengthAssumption DEF TypeOK
<1>2. p + TagLen - 1 <= Len(stream')
  BY <1>1, ReadFacts DEF TagAt
<1>3. ASSUME NEW j \in 1 .. TagLen PROVE stream'[p + j - 1] = j
  <2>1. p + j - 1 \in 1 .. Len(stream)
    BY <1>1 DEF TagAt
  <2>2. stream[p + j - 1] = j
    BY DEF TagAt
  <2> QED
    BY <2>1, <2>2, ReadFacts
<1> QED
  BY <1>2, <1>3 DEF TagAt

\* Whatever the step publishes, what was published stays, and what was done
\* with stays done with.
LEMMA DoneStays ==
  ASSUME IInv, NEW b \in Byte, Read(b),
         \A q : Published(q) => Published(q)',
         NEW p \in 1 .. Begin - 1, stream'[p] = Dollar
  PROVE  (Published(p) \/ Masked(p) \/ NoTag(p))'
<1>1. /\ TagLen \in Nat /\ Len(stream) \in Nat /\ pdata \in Nat /\ p \in Nat
      /\ pdata <= Len(stream) /\ TypeOK
  BY LengthAssumption DEF TypeOK, IInv, PacketIntact, PlaceInv, Begin
<1>2. p \in 1 .. Len(stream)
  BY <1>1 DEF Begin
<1>3. /\ \A i \in 1 .. Len(stream) : stream'[i] = stream[i]
      /\ Len(stream') = Len(stream) + 1
  BY <1>1, ReadFacts
<1>4. Published(p) \/ Masked(p) \/ NoTag(p)
  BY <1>2, <1>3 DEF IInv, DoneInv
<1>5. CASE Published(p)
  BY <1>5
<1>6. CASE \E d \in 1 .. TagLen - 1 : p > d /\ stream[p - d] = Dollar
  <2>1. PICK d \in 1 .. TagLen - 1 : p > d /\ stream[p - d] = Dollar
    BY <1>6
  <2>2. p - d \in 1 .. Len(stream)
    BY <1>1, <1>2, <2>1
  <2>3. stream'[p - d] = Dollar
    BY <1>3, <2>1, <2>2
  <2> QED
    BY <2>1, <2>3 DEF Masked, Dollar
<1>7. CASE \E d \in 1 .. PktLen - 1 : p > d /\ Published(p - d)
  <2>1. PICK d \in 1 .. PktLen - 1 : p > d /\ Published(p - d)
    BY <1>7
  <2>2. Published(p - d)'
    BY <2>1
  <2> QED
    BY <2>1, <2>2, Zenon DEF Masked
<1>8. CASE NoTag(p)
  <2>1. PICK j \in 1 .. TagLen : p + j - 1 <= Len(stream) /\ stream[p + j - 1] # j
    BY <1>8 DEF NoTag
  <2>2. p + j - 1 \in 1 .. Len(stream)
    BY <1>1, <2>1
  <2>3. stream'[p + j - 1] # j /\ p + j - 1 <= Len(stream')
    BY <1>1, <1>3, <2>1, <2>2
  <2> QED
    BY <2>3 DEF NoTag
<1> QED
  BY <1>4, <1>5, <1>6, <1>7, <1>8, Zenon DEF Masked

\* What continues the longer stream continued the shorter one.
LEMMA ContinuesBack ==
  ASSUME TypeOK, NEW b \in Byte, Read(b), NEW s \in Seq(Byte), Continues(s)'
  PROVE  /\ Continues(s)
         /\ Len(stream) + 1 <= Len(s)
         /\ \A i \in 1 .. Len(stream) + 1 : s[i] = stream'[i]
<1>1. Len(stream) \in Nat /\ Len(s) \in Nat
  BY DEF TypeOK
<1>2. Len(stream') = Len(stream) + 1 /\ \A i \in 1 .. Len(stream) : stream'[i] = stream[i]
  BY ReadFacts
<1>3. Len(stream) + 1 <= Len(s) /\ \A i \in 1 .. Len(stream) + 1 : s[i] = stream'[i]
  BY <1>2 DEF Continues
<1>4. Len(stream) <= Len(s)
  BY <1>1, <1>3
<1>5. \A i \in 1 .. Len(stream) : s[i] = stream[i]
  BY <1>1, <1>2, <1>3
<1> QED
  BY <1>3, <1>4, <1>5 DEF Continues

\* What is published is a packet when another byte was received.
LEMMA PacketStays ==
  ASSUME IInv, NEW b \in Byte, Read(b), NEW p \in Nat \ {0}, TagAt(p),
         p + PktLen - 1 <= Len(stream)
  PROVE  TagAt(p)' /\ p + PktLen - 1 <= Len(stream')
<1>1. TypeOK /\ PktLen \in Nat /\ Len(stream) \in Nat
  BY LengthAssumption DEF TypeOK, IInv, PacketIntact
<1>2. Len(stream') = Len(stream) + 1
  BY <1>1, ReadFacts
<1>3. TagAt(p)'
  BY <1>1, TagStays
<1>4. p + PktLen - 1 <= Len(stream')
  BY <1>1, <1>2
<1> QED
  BY <1>3, <1>4

\* A step that publishes nothing leaves whole what was published.
LEMMA PublishedKept ==
  ASSUME IInv, NEW b \in Byte, Read(b), UNCHANGED published
  PROVE  PublishedTagged'
<1>1. \A k \in 1 .. Len(published) : published[k] \in Nat \ {0}
  BY DEF IInv, PublishedBefore
<1>2. \A k \in 1 .. Len(published) :
        /\ TagAt(published[k])
        /\ published[k] + PktLen - 1 <= Len(stream)
        /\ k > 1 => published[k - 1] + PktLen <= published[k]
  BY DEF IInv, PacketIntact, PublishedTagged
<1>3. ASSUME NEW k \in 1 .. Len(published')
      PROVE  (/\ TagAt(published[k])
              /\ published[k] + PktLen - 1 <= Len(stream)
              /\ k > 1 => published[k - 1] + PktLen <= published[k])'
  <2>1. k \in 1 .. Len(published)
    OBVIOUS
  <2>2. TagAt(published[k])' /\ published[k] + PktLen - 1 <= Len(stream')
    BY <1>1, <1>2, <2>1, PacketStays
  <2>3. k > 1 => published[k - 1] + PktLen <= published[k]
    BY <1>2, <2>1
  <2> QED
    BY <2>2, <2>3
<1> QED
  BY <1>3 DEF PublishedTagged

\* A step that publishes nothing and does not move Begin.
LEMMA FrameGrows ==
  ASSUME IInv, NEW b \in Byte, Read(b), UNCHANGED published, Begin' = Begin
  PROVE  PublishedTagged' /\ PublishedBefore' /\ DoneInv' /\ CutInv'
<1>0. /\ TypeOK /\ TagLen \in Nat /\ PktLen \in Nat /\ Len(stream) \in Nat
      /\ pdata \in Nat /\ pdata <= Len(stream) /\ published \in Seq(Nat)
  BY LengthAssumption DEF TypeOK, IInv, PacketIntact, PlaceInv
<1>1. Len(stream') = Len(stream) + 1 /\ \A i \in 1 .. Len(stream) : stream'[i] = stream[i]
  BY <1>0, ReadFacts
<1>2. PublishedBefore'
  BY DEF IInv, PublishedBefore
<1>3. DoneInv'
  <2>1. \A q : Published(q) => Published(q)'
    BY DEF Published
  <2> QED
    BY <2>1, DoneStays DEF DoneInv
<1>4. CutInv'
  <2> SUFFICES ASSUME NEW s \in Seq(Byte), Continues(s)'
               PROVE  Frames(s) = published \o FramesFrom(s)[Begin']
    BY DEF CutInv, Byte
  <2>1. Continues(s)
    BY <1>0, ContinuesBack
  <2> QED
    BY <2>1 DEF IInv, CutInv
<1>5. PublishedTagged'
  BY PublishedKept
<1> QED
  BY <1>2, <1>3, <1>4, <1>5
-----------------------------------------------------------------------------
(* One step per place of the loop and outcome.                             *)

LEMMA Numbers ==
  ASSUME IInv
  PROVE  /\ TagLen \in Nat /\ PktLen \in Nat /\ TagLen >= 2 /\ PktLen >= 2 * TagLen
         /\ TypeOK /\ Len(stream) \in Nat /\ pdata \in Nat /\ cnt \in Nat
         /\ head_index \in Nat /\ head_index <= TagLen - 1 /\ cnt <= PktLen - 1
         /\ pdata < PktLen /\ pdata <= Len(stream) /\ Begin \in Nat \ {0}
         /\ Pos = Begin + pdata
<1>1. /\ TagLen \in Nat /\ PktLen \in Nat /\ TagLen >= 2 /\ 2 * TagLen <= PktLen
  BY LengthAssumption
<1>2. /\ TypeOK /\ Len(stream) \in Nat /\ pdata \in Nat /\ pdata < PktLen
      /\ pdata <= Len(stream) /\ head_index \in 0 .. TagLen - 1 /\ cnt \in 0 .. PktLen - 1
  BY DEF IInv, PacketIntact, TypeOK, NoOverrun, PlaceInv
<1> QED
  BY <1>1, <1>2 DEF Begin, Pos

\* The byte read goes behind the filled part of the packet.
LEMMA ContiguousGrows ==
  ASSUME IInv, NEW b \in Byte, Read(b), pdata' = pdata + 1,
         t_rxgpspkt'[pdata] = Pos,
         \A i \in 0 .. pdata - 1 : t_rxgpspkt'[i] = t_rxgpspkt[i]
  PROVE  Contiguous' /\ Begin' = Begin /\ pdata' <= Len(stream')
<1>1. Len(stream') = Len(stream) + 1
  BY Numbers, ReadFacts
<1>2. Begin' = Begin /\ pdata' <= Len(stream')
  <2>1. Len(stream) \in Nat /\ pdata \in Nat /\ pdata <= Len(stream)
    BY Numbers
  <2> QED
    BY <1>1, <2>1 DEF Begin
<1>3. ASSUME NEW i \in 0 .. pdata PROVE t_rxgpspkt'[i] = Len(stream) - pdata + i + 1
  <2>1. CASE i = pdata
    BY <2>1, Numbers DEF Pos
  <2>2. CASE i # pdata
    <3>1. i \in 0 .. pdata - 1
      <4>1. pdata \in Nat
        BY Numbers
      <4> QED
        BY <2>2, <4>1
    <3>2. t_rxgpspkt[i] = Len(stream) - pdata + i + 1
      BY <3>1 DEF IInv, PacketIntact, Contiguous
    <3> QED
      BY <3>1, <3>2
  <2> QED
    BY <2>1, <2>2
<1>4. Len(stream') - pdata' = Len(stream) - pdata /\ pdata' - 1 = pdata
  <2>1. Len(stream) \in Nat /\ pdata \in Nat
    BY Numbers
  <2> QED
    BY <1>1, <2>1
<1>5. Contiguous'
  BY <1>3, <1>4 DEF Contiguous
<1> QED
  BY <1>2, <1>5

\* A step that stores its byte and goes on with the frame.
LEMMA FrameStores ==
  ASSUME IInv, NEW b \in Byte, Read(b), UNCHANGED published, pdata' = pdata + 1,
         t_rxgpspkt'[pdata] = Pos,
         \A i \in 0 .. pdata - 1 : t_rxgpspkt'[i] = t_rxgpspkt[i],
         TypeOK', NoOverrun', PlaceInv'
  PROVE  IInv'
<1>1. Contiguous' /\ Begin' = Begin
  BY ContiguousGrows
<1>2. PublishedTagged' /\ PublishedBefore' /\ DoneInv' /\ CutInv'
  BY <1>1, FrameGrows
<1> QED
  BY <1>1, <1>2 DEF IInv, PacketIntact

\* What Store does to the packet.
LEMMA StoreFacts ==
  ASSUME IInv, Store
  PROVE  /\ pdata' = pdata + 1
         /\ t_rxgpspkt' \in [0 .. PktLen - 1 -> Nat]
         /\ t_rxgpspkt'[pdata] = Pos
         /\ \A i \in 0 .. pdata - 1 : t_rxgpspkt'[i] = t_rxgpspkt[i]
<1>1. t_rxgpspkt \in [0 .. PktLen - 1 -> Nat] /\ Pos \in Nat
  BY Numbers DEF TypeOK, Pos
<1>2. pdata \in 0 .. PktLen - 1 /\ \A i \in 0 .. pdata - 1 : i \in 0 .. PktLen - 1 /\ i # pdata
  BY Numbers
<1> QED
  BY <1>1, <1>2 DEF Store

LEMMA WaitDollar ==
  ASSUME IInv, NEW b \in Byte, GpsWait(b), b = Dollar
  PROVE  IInv'
<1>1. /\ gps_state = "gps_wait" /\ Read(b) /\ Store /\ cnt' = 1 /\ head_index' = 1
      /\ gps_state' = "gps_header" /\ UNCHANGED published /\ pdata = 0 /\ head_index = 0
  BY DEF GpsWait, IInv, PlaceInv
<1>2. pdata' = 1
  BY <1>1, StoreFacts
<1>3. /\ stream' \in Seq(Byte) /\ buf' \in [0 .. TagLen - 1 -> Byte]
      /\ Len(stream') = Len(stream) + 1 /\ stream'[Len(stream) + 1] = b
      /\ buf'[0] = b
  BY <1>1, Numbers, ReadFacts
<1>4. TypeOK'
  <2>1. 1 \in 0 .. TagLen - 1 /\ 1 \in 0 .. PktLen - 1 /\ 1 \in Nat
    BY Numbers
  <2>2. published' \in Seq(Nat)
    BY <1>1, Numbers DEF TypeOK
  <2> QED
    BY <1>1, <1>2, <1>3, <2>1, <2>2, StoreFacts DEF TypeOK, Byte
<1>5. NoOverrun'
  BY <1>1, <1>2, Numbers DEF NoOverrun
<1>6. Begin' = Len(stream) + 1
  BY <1>2, <1>3, Numbers DEF Begin
<1>7. PlaceInv'
  <2>1. stream'[Begin'] = Dollar
    BY <1>3, <1>6
  <2>2. \A i \in 0 .. head_index' - 1 : buf'[i] = stream'[Begin' + i]
    <3>1. \A i \in 0 .. head_index' - 1 : i = 0
      BY <1>1
    <3>2. buf'[0] = stream'[Begin' + 0]
      BY <1>3, <1>6, Numbers
    <3> QED
      BY <3>1, <3>2
  <2>3. head_index' \in 1 .. TagLen - 1 /\ pdata' = head_index'
    BY <1>1, <1>2, Numbers
  <2>4. pdata' <= Len(stream')
    BY <1>2, <1>3, Numbers
  <2> QED
    BY <1>1, <2>1, <2>2, <2>3, <2>4 DEF PlaceInv
<1> QED
  BY <1>1, <1>4, <1>5, <1>7, StoreFacts, FrameStores

\* The letters of the tag compared so far and the one just read.
LEMMA HeaderLetters ==
  ASSUME IInv, gps_state = "gps_header", NEW b \in Byte, Read(b)
  PROVE  /\ head_index \in 1 .. TagLen - 1 /\ pdata = head_index /\ cnt = 1
         /\ stream'[Begin] = Dollar
         /\ \A i \in 0 .. head_index : buf'[i] = stream'[Begin + i]
<1>1. /\ head_index \in 1 .. TagLen - 1 /\ pdata = head_index /\ cnt = 1
      /\ stream[Begin] = Dollar
      /\ \A i \in 0 .. head_index - 1 : buf[i] = stream[Begin + i]
  BY DEF IInv, PlaceInv
<1>2. /\ \A i \in 1 .. Len(stream) : stream'[i] = stream[i]
      /\ stream'[Len(stream) + 1] = b
      /\ \A i \in 0 .. TagLen - 1 : buf'[i] = IF i = head_index THEN b ELSE buf[i]
  BY Numbers, ReadFacts
<1>3. stream'[Begin] = Dollar
  <2>1. Begin \in 1 .. Len(stream)
    BY <1>1, Numbers DEF Begin
  <2> QED
    BY <1>1, <1>2, <2>1
<1>4. ASSUME NEW i \in 0 .. head_index PROVE buf'[i] = stream'[Begin + i]
  <2>1. CASE i = head_index
    <3>1. Begin + i = Len(stream) + 1 /\ i \in 0 .. TagLen - 1
      BY <1>1, <2>1, Numbers DEF Begin
    <3> QED
      BY <1>2, <2>1, <3>1
  <2>2. CASE i # head_index
    <3>1. i \in 0 .. head_index - 1 /\ i \in 0 .. TagLen - 1 /\ Begin + i \in 1 .. Len(stream)
      BY <1>1, <2>2, Numbers DEF Begin
    <3>2. buf[i] = stream[Begin + i]
      BY <1>1, <3>1
    <3> QED
      BY <1>2, <2>2, <3>1, <3>2
  <2> QED
    BY <2>1, <2>2
<1> QED
  BY <1>1, <1>3, <1>4

LEMMA HeaderStore ==
  ASSUME IInv, gps_state = "gps_header", NEW b \in Byte, Read(b), Store,
         head_index + 1 < TagLen, head_index' = head_index + 1,
         UNCHANGED <<gps_state, cnt, published>>
  PROVE  IInv'
<1>1. /\ head_index \in 1 .. TagLen - 1 /\ pdata = head_index /\ cnt = 1
      /\ stream'[Begin] = Dollar
      /\ \A i \in 0 .. head_index : buf'[i] = stream'[Begin + i]
  BY HeaderLetters
<1>2. /\ stream' \in Seq(Byte) /\ buf' \in [0 .. TagLen - 1 -> Byte]
      /\ pdata' = pdata + 1
  BY Numbers, ReadFacts, StoreFacts
<1>3. Begin' = Begin /\ pdata' <= Len(stream')
  BY StoreFacts, ContiguousGrows
<1>4. TypeOK'
  <2>1. head_index' \in 0 .. TagLen - 1 /\ pdata' \in Nat
    <3>1. TagLen \in Nat /\ head_index \in Nat /\ pdata \in Nat
      BY Numbers
    <3> QED
      BY <1>2, <3>1
  <2>2. cnt' \in 0 .. PktLen - 1 /\ published' \in Seq(Nat) /\ gps_state' \in {"gps_wait", "gps_header", "gps_data"}
    BY Numbers DEF TypeOK
  <2> QED
    BY <1>2, <2>1, <2>2, StoreFacts DEF TypeOK, Byte
<1>5. NoOverrun'
  <2>1. /\ TagLen \in Nat /\ PktLen \in Nat /\ TagLen >= 2 /\ PktLen >= 2 * TagLen
        /\ head_index \in Nat /\ pdata = head_index /\ pdata' = pdata + 1
    BY <1>1, <1>2, Numbers
  <2> QED
    BY <2>1 DEF NoOverrun
<1>6. PlaceInv'
  <2>1. head_index' \in 1 .. TagLen - 1 /\ pdata' = head_index' /\ cnt' = 1
    BY <1>1, <1>2, Numbers
  <2>2. head_index' - 1 = head_index
    BY <1>1
  <2>3. \A i \in 0 .. head_index' - 1 : buf'[i] = stream'[Begin' + i]
    BY <1>1, <1>3, <2>2
  <2> QED
    BY <1>1, <1>3, <2>1, <2>3 DEF PlaceInv
<1> QED
  BY <1>4, <1>5, <1>6, StoreFacts, FrameStores

LEMMA HeaderAccept ==
  ASSUME IInv, gps_state = "gps_header", NEW b \in Byte, Read(b),
         head_index + 1 = TagLen, IsTag(buf'), GpsAccept, UNCHANGED published
  PROVE  IInv'
<1>1. /\ pdata = head_index
      /\ \A i \in 0 .. head_index : buf'[i] = stream'[Begin + i]
  BY HeaderLetters
<1>2. /\ stream' \in Seq(Byte) /\ buf' \in [0 .. TagLen - 1 -> Byte]
      /\ Len(stream') = Len(stream) + 1
  BY Numbers, ReadFacts
<1>3. pdata' = pdata + 1 /\ cnt' = head_index + 1 /\ head_index' = 0 /\ gps_state' = "gps_data"
  BY DEF GpsAccept
<1>4. /\ t_rxgpspkt' \in [0 .. PktLen - 1 -> Nat]
      /\ t_rxgpspkt'[pdata] = Pos
      /\ \A i \in 0 .. pdata - 1 : t_rxgpspkt'[i] = t_rxgpspkt[i]
  <2>0. Len(stream) \in Nat /\ TypeOK
    BY Numbers
  <2>1. t_rxgpspkt \in [0 .. PktLen - 1 -> Nat] /\ Pos \in Nat /\ 0 \in Nat
    BY <2>0 DEF TypeOK, Pos
  <2>2. pdata \in 0 .. PktLen - 1
    BY Numbers
  <2>3. \A i \in 0 .. pdata - 1 :
          i \in 0 .. PktLen - 1 /\ i # pdata /\ ~ (i \in pdata + 1 .. pdata + TagLen)
    <3>1. pdata \in Nat /\ TagLen \in Nat /\ PktLen \in Nat /\ pdata < PktLen
      BY Numbers
    <3> QED
      BY <3>1
  <2>4. t_rxgpspkt' = [i \in 0 .. PktLen - 1 |->
                         IF i = pdata THEN Pos
                         ELSE IF i \in pdata + 1 .. pdata + TagLen THEN 0
                         ELSE t_rxgpspkt[i]]
    BY DEF GpsAccept
  <2> QED
    BY <2>1, <2>2, <2>3, <2>4
<1>5. Begin' = Begin /\ pdata' <= Len(stream')
  BY <1>3, <1>4, ContiguousGrows
<1>6. TypeOK'
  <2>1. pdata' \in Nat /\ cnt' \in 0 .. PktLen - 1 /\ head_index' \in 0 .. TagLen - 1
    <3>1. /\ TagLen \in Nat /\ PktLen \in Nat /\ TagLen >= 2 /\ PktLen >= 2 * TagLen
          /\ head_index \in Nat /\ head_index <= TagLen - 1 /\ pdata \in Nat
      BY Numbers
    <3> QED
      BY <1>3, <3>1
  <2>2. published' \in Seq(Nat)
    BY Numbers DEF TypeOK
  <2> QED
    BY <1>2, <1>3, <1>4, <2>1, <2>2 DEF TypeOK, Byte
<1>7. /\ TagLen \in Nat /\ PktLen \in Nat /\ TagLen >= 2 /\ PktLen >= 2 * TagLen
      /\ head_index = TagLen - 1 /\ pdata = TagLen - 1 /\ pdata' = TagLen /\ cnt' = TagLen
      /\ Len(stream) \in Nat /\ Begin \in Nat \ {0}
  BY <1>1, <1>3, Numbers
<1>8. NoOverrun'
  BY <1>3, <1>7 DEF NoOverrun
<1>9. PlaceInv'
  <2>1. TagAt(Begin)'
    <3>1. Begin + TagLen - 1 <= Len(stream')
      BY <1>2, <1>7 DEF Begin
    <3>2. ASSUME NEW j \in 1 .. TagLen PROVE stream'[Begin + j - 1] = j
      <4>1. j - 1 \in 0 .. TagLen - 1 /\ j - 1 \in 0 .. head_index
            /\ Begin + (j - 1) = Begin + j - 1 /\ (j - 1) + 1 = j
        BY <1>7
      <4>2. buf'[j - 1] = (j - 1) + 1
        BY <4>1 DEF IsTag
      <4> QED
        BY <1>1, <4>1, <4>2
    <3> QED
      BY <1>5, <3>1, <3>2 DEF TagAt
  <2>2. pdata' = cnt' /\ cnt' \in TagLen .. PktLen - 1
    BY <1>7
  <2> QED
    BY <1>3, <1>5, <2>1, <2>2 DEF PlaceInv
<1> QED
  BY <1>3, <1>4, <1>6, <1>8, <1>9, FrameStores

LEMMA DataStore ==
  ASSUME IInv, gps_state = "gps_data", NEW b \in Byte, Read(b), Store,
         cnt + 1 # PktLen, cnt' = cnt + 1,
         UNCHANGED <<gps_state, head_index, published>>
  PROVE  IInv'
<1>1. /\ head_index = 0 /\ pdata = cnt /\ cnt \in TagLen .. PktLen - 1 /\ TagAt(Begin)
  BY DEF IInv, PlaceInv
<1>2. /\ stream' \in Seq(Byte) /\ buf' \in [0 .. TagLen - 1 -> Byte]
      /\ pdata' = pdata + 1
  BY Numbers, ReadFacts, StoreFacts
<1>3. Begin' = Begin /\ pdata' <= Len(stream')
  BY StoreFacts, ContiguousGrows
<1>4. cnt' \in TagLen .. PktLen - 1 /\ cnt' \in 0 .. PktLen - 1 /\ pdata' \in Nat /\ pdata' < PktLen
  BY <1>1, <1>2, Numbers
<1>5. TypeOK'
  <2>1. head_index' \in 0 .. TagLen - 1 /\ published' \in Seq(Nat)
        /\ gps_state' \in {"gps_wait", "gps_header", "gps_data"}
    BY Numbers DEF TypeOK
  <2> QED
    BY <1>2, <1>4, <2>1, StoreFacts DEF TypeOK, Byte
<1>6. NoOverrun'
  BY <1>4 DEF NoOverrun
<1>7. TagAt(Begin)'
  <2>1. \A p \in Nat \ {0} : p = Begin /\ TagAt(p) => TagAt(p)'
    BY Numbers, TagStays
  <2>2. \E p : p = Begin
    OBVIOUS
  <2>3. PICK p : p = Begin
    BY <2>2
  <2>4. p \in Nat \ {0} /\ TagAt(p)
    BY <1>1, <2>3, Numbers
  <2>5. TagAt(p)' /\ Begin' = p
    BY <1>3, <2>1, <2>3, <2>4
  <2> QED
    BY <2>5 DEF TagAt
<1>8. PlaceInv'
  BY <1>1, <1>2, <1>3, <1>4, <1>7 DEF PlaceInv
<1> QED
  BY <1>5, <1>6, <1>8, StoreFacts, FrameStores

\* A step after which the loop waits for the next '$', with an empty packet.
LEMMA BackToWait ==
  ASSUME IInv, NEW b \in Byte, Read(b), pdata' = 0, head_index' = 0,
         gps_state' = "gps_wait", cnt' \in 0 .. PktLen - 1,
         t_rxgpspkt' \in [0 .. PktLen - 1 -> Nat], published' \in Seq(Nat)
  PROVE  TypeOK' /\ NoOverrun' /\ Contiguous' /\ PlaceInv' /\ Begin' = Len(stream) + 2
<1>1. /\ stream' \in Seq(Byte) /\ buf' \in [0 .. TagLen - 1 -> Byte]
      /\ Len(stream') = Len(stream) + 1
  BY Numbers, ReadFacts
<1>2. 0 \in 0 .. TagLen - 1 /\ 0 < PktLen /\ 0 \in Nat
  BY Numbers
<1>3. TypeOK'
  BY <1>1, <1>2 DEF TypeOK, Byte
<1>4. NoOverrun'
  BY <1>2 DEF NoOverrun
<1>5. Contiguous'
  BY DEF Contiguous
<1>6. pdata' <= Len(stream') /\ Begin' = Len(stream) + 2
  BY <1>1, Numbers DEF Begin
<1>7. PlaceInv'
  BY <1>6 DEF PlaceInv
<1> QED
  BY <1>3, <1>4, <1>5, <1>6, <1>7

\* A step that drops the frame it was in, publishing nothing.
LEMMA FrameDropped ==
  ASSUME IInv, NEW b \in Byte, Read(b), pdata' = 0, head_index' = 0,
         gps_state' = "gps_wait", cnt' \in 0 .. PktLen - 1,
         t_rxgpspkt' \in [0 .. PktLen - 1 -> Nat], UNCHANGED published,
         \A p \in Begin .. Len(stream) + 1 :
           stream'[p] = Dollar => (Masked(p) \/ NoTag(p))',
         \A s \in Seq(Byte) :
           Continues(s)' => FramesFrom(s)[Begin] = FramesFrom(s)[Len(stream) + 2]
  PROVE  IInv'
<1>1. published' \in Seq(Nat)
  BY Numbers DEF TypeOK
<1>2. TypeOK' /\ NoOverrun' /\ Contiguous' /\ PlaceInv' /\ Begin' = Len(stream) + 2
  BY <1>1, BackToWait
<1>3. PublishedTagged'
  BY PublishedKept
<1>4. PublishedBefore'
  <2>1. ASSUME NEW k \in 1 .. Len(published)
        PROVE  published[k] \in Nat \ {0} /\ published[k] + PktLen <= Begin'
    <3>1. published[k] \in Nat \ {0} /\ published[k] + PktLen <= Begin
      BY DEF IInv, PublishedBefore
    <3>2. Begin \in Nat /\ Len(stream) \in Nat /\ PktLen \in Nat /\ pdata \in Nat
      BY Numbers
    <3>3. Begin <= Len(stream) + 2
      BY <3>2 DEF Begin
    <3>4. published[k] + PktLen <= Len(stream) + 2
      BY <3>1, <3>2, <3>3
    <3> QED
      BY <1>2, <3>1, <3>4
  <2> QED
    BY <2>1 DEF PublishedBefore
<1>5. DoneInv'
  <2>1. ASSUME NEW p \in 1 .. Len(stream) + 1, stream'[p] = Dollar
        PROVE  (Published(p) \/ Masked(p) \/ NoTag(p))'
    <3>1. CASE p \in 1 .. Begin - 1
      <4>1. \A q : Published(q) => Published(q)'
        BY DEF Published
      <4> QED
        BY <2>1, <3>1, <4>1, DoneStays
    <3>2. CASE p \in Begin .. Len(stream) + 1
      <4>1. stream'[p] = Dollar => (Masked(p) \/ NoTag(p))'
        BY <3>2, Zenon
      <4> QED
        BY <2>1, <4>1, Zenon
    <3>3. p \in 1 .. Begin - 1 \/ p \in Begin .. Len(stream) + 1
      BY Numbers
    <3> QED
      BY <3>1, <3>2, <3>3
  <2>2. Begin' - 1 = Len(stream) + 1
    BY <1>2, Numbers
  <2> QED
    BY <2>1, <2>2 DEF DoneInv
<1>6. CutInv'
  <2> SUFFICES ASSUME NEW s \in Seq(Byte), Continues(s)'
               PROVE  Frames(s) = published \o FramesFrom(s)[Begin']
    BY DEF CutInv, Byte
  <2>1. Continues(s)
    BY Numbers, ContinuesBack
  <2>2. Frames(s) = published \o FramesFrom(s)[Begin]
    BY <2>1 DEF IInv, CutInv
  <2> QED
    BY <1>2, <2>2
<1> QED
  BY <1>2, <1>3, <1>4, <1>5, <1>6 DEF IInv, PacketIntact

\* The byte was no '$'.
LEMMA WaitOther ==
  ASSUME IInv, NEW b \in Byte, GpsWait(b), b # Dollar
  PROVE  IInv'
<1>1. /\ gps_state = "gps_wait" /\ Read(b) /\ UNCHANGED <<head_index, gps_state, cnt, pdata, t_rxgpspkt>>
      /\ UNCHANGED published /\ pdata = 0 /\ head_index = 0
  BY DEF GpsWait, IInv, PlaceInv
<1>2. /\ Len(stream') = Len(stream) + 1 /\ stream'[Len(stream) + 1] = b
  BY <1>1, Numbers, ReadFacts
<1>3. Begin = Len(stream) + 1 /\ Begin + 1 = Len(stream) + 2
  BY <1>1, Numbers DEF Begin
<1>4. ASSUME NEW p \in Begin .. Len(stream) + 1, stream'[p] = Dollar
      PROVE  (Masked(p) \/ NoTag(p))'
  <2>1. p = Len(stream) + 1
    BY <1>3, Numbers
  <2> QED
    BY <1>2, <1>4, <2>1
<1>5. ASSUME NEW s \in Seq(Byte), Continues(s)'
      PROVE  FramesFrom(s)[Begin] = FramesFrom(s)[Len(stream) + 2]
  <2>1. /\ Len(stream) + 1 <= Len(s)
        /\ \A i \in 1 .. Len(stream) + 1 : s[i] = stream'[i]
    BY <1>1, <1>5, Numbers, ContinuesBack
  <2>2. Len(s) \in Nat /\ Begin \in 1 .. Last(s) /\ ~ (Begin > Len(s)) /\ Begin \in 1 .. Len(stream) + 1
    <3>1. Len(s) \in Nat /\ Len(stream) \in Nat /\ PktLen \in Nat /\ Begin \in Nat \ {0}
      BY Numbers
    <3>2. Begin <= Len(stream) + 1
      BY <1>3
    <3> HIDE DEF Begin
    <3> QED
      BY <2>1, <3>1, <3>2 DEF Last
  <2>3. s[Begin] # Dollar
    BY <1>1, <1>2, <1>3, <2>1, <2>2
  <2>4. FramesFrom(s)[Begin] = FrameStep(s, FramesFrom(s), Begin)
    BY <2>2, FramesUnroll
  <2> QED
    BY <1>3, <2>2, <2>3, <2>4, Zenon DEF FrameStep
<1>6. cnt' \in 0 .. PktLen - 1 /\ t_rxgpspkt' \in [0 .. PktLen - 1 -> Nat]
  BY <1>1, Numbers DEF TypeOK
<1> QED
  BY <1>1, <1>4, <1>5, <1>6, FrameDropped

\* TagLen letters from a '$' on are not the tag.
LEMMA HeaderReject ==
  ASSUME IInv, gps_state = "gps_header", NEW b \in Byte, Read(b),
         head_index + 1 = TagLen, ~ IsTag(buf'), GpsReject, UNCHANGED published
  PROVE  IInv'
<1>1. /\ pdata = head_index
      /\ stream'[Begin] = Dollar
      /\ \A i \in 0 .. head_index : buf'[i] = stream'[Begin + i]
  BY HeaderLetters
<1>2. Len(stream') = Len(stream) + 1
  BY Numbers, ReadFacts
<1>3. /\ Len(stream) \in Nat /\ Begin \in Nat \ {0} /\ TagLen \in Nat /\ PktLen \in Nat
      /\ TagLen >= 2 /\ PktLen >= TagLen
      /\ Begin + TagLen - 1 = Len(stream) + 1 /\ head_index = TagLen - 1
  <2>1. /\ Len(stream) \in Nat /\ Begin \in Nat \ {0} /\ TagLen \in Nat /\ PktLen \in Nat
        /\ TagLen >= 2 /\ PktLen >= 2 * TagLen /\ head_index \in Nat /\ pdata = head_index
    BY <1>1, Numbers
  <2> QED
    BY <2>1 DEF Begin
<1>4. PICK j \in 1 .. TagLen : stream'[Begin + j - 1] # j
  <2>1. PICK i \in 0 .. TagLen - 1 : buf'[i] # i + 1
    BY DEF IsTag
  <2>2. i + 1 \in 1 .. TagLen /\ i \in 0 .. head_index /\ Begin + (i + 1) - 1 = Begin + i
    BY <1>3
  <2>3. stream'[Begin + i] # i + 1
    BY <1>1, <2>1, <2>2
  <2> QED
    BY <2>2, <2>3
<1>5. ASSUME NEW p \in Begin .. Len(stream) + 1, stream'[p] = Dollar
      PROVE  (Masked(p) \/ NoTag(p))'
  <2>1. CASE p = Begin
    <3>1. Begin + j - 1 <= Len(stream')
      BY <1>2, <1>3
    <3> QED
      BY <1>4, <2>1, <3>1 DEF NoTag
  <2>2. CASE p # Begin
    <3>1. p - Begin \in 1 .. TagLen - 1 /\ p > p - Begin /\ p - (p - Begin) = Begin
      BY <1>3, <2>2
    <3>2. \E d \in 1 .. TagLen - 1 : p > d /\ stream'[p - d] = Dollar
      BY <1>1, <3>1
    <3> QED
      BY <3>2 DEF Masked, Dollar
  <2> QED
    BY <2>1, <2>2
<1>6. ASSUME NEW s \in Seq(Byte), Continues(s)'
      PROVE  FramesFrom(s)[Begin] = FramesFrom(s)[Len(stream) + 2]
  <2>1. /\ Len(stream) + 1 <= Len(s)
        /\ \A i \in 1 .. Len(stream) + 1 : s[i] = stream'[i]
    BY <1>6, Numbers, ContinuesBack
  <2>2. /\ Len(s) \in Nat /\ Begin \in 1 .. Last(s) /\ ~ (Begin > Len(s))
        /\ Begin \in 1 .. Len(stream) + 1 /\ Begin + j - 1 \in 1 .. Len(stream) + 1
        /\ ~ (Begin + TagLen - 1 > Len(s)) /\ Begin + TagLen = Len(stream) + 2
    BY <1>3, <2>1 DEF Last
  <2>3. s[Begin] = Dollar /\ s[Begin + j - 1] # j
    BY <1>1, <1>4, <2>1, <2>2
  <2>4. FramesFrom(s)[Begin] = FrameStep(s, FramesFrom(s), Begin)
    BY <2>2, FramesUnroll
  <2>5. FramesFrom(s)[Begin] = FramesFrom(s)[Begin + TagLen]
    BY <2>2, <2>3, <2>4, Zenon DEF FrameStep
  <2> QED
    BY <2>2, <2>5
<1>7. cnt' \in 0 .. PktLen - 1 /\ t_rxgpspkt' \in [0 .. PktLen - 1 -> Nat]
  <2>0. Len(stream) \in Nat /\ TypeOK
    BY Numbers
  <2>1. t_rxgpspkt \in [0 .. PktLen - 1 -> Nat] /\ Pos \in Nat /\ cnt \in 0 .. PktLen - 1
    BY <2>0 DEF TypeOK, Pos
  <2> QED
    BY <2>1 DEF GpsReject
<1> QED
  BY <1>5, <1>6, <1>7, FrameDropped DEF GpsReject

\* The last byte of a packet.
LEMMA DataFinish ==
  ASSUME IInv, gps_state = "gps_data", NEW b \in Byte, Read(b),
         cnt + 1 = PktLen, GpsFinish
  PROVE  IInv'
<1>1. /\ pdata = cnt /\ TagAt(Begin)
  BY DEF IInv, PlaceInv
<1>2. Len(stream') = Len(stream) + 1
  BY Numbers, ReadFacts
<1>3. /\ Len(stream) \in Nat /\ Begin \in Nat \ {0} /\ TagLen \in Nat /\ PktLen \in Nat
      /\ TagLen >= 2 /\ PktLen >= 2 * TagLen /\ Begin + PktLen - 1 = Len(stream) + 1
      /\ pdata \in 1 .. PktLen - 1
  <2>1. /\ Len(stream) \in Nat /\ Begin \in Nat \ {0} /\ TagLen \in Nat /\ PktLen \in Nat
        /\ TagLen >= 2 /\ PktLen >= 2 * TagLen /\ pdata = cnt /\ cnt \in Nat
    BY <1>1, Numbers
  <2> QED
    BY <2>1 DEF Begin
<1>4. /\ t_rxgpspkt' \in [0 .. PktLen - 1 -> Nat]
      /\ t_rxgpspkt'[0] = Begin
  <2>1. /\ t_rxgpspkt \in [0 .. PktLen - 1 -> Nat] /\ Pos \in Nat
        /\ 0 \in 0 .. PktLen - 1 /\ 0 # pdata
    <3>1. t_rxgpspkt \in [0 .. PktLen - 1 -> Nat]
      BY Numbers DEF TypeOK
    <3> QED
      BY <1>3, <3>1 DEF Pos
  <2>2. t_rxgpspkt[0] = Len(stream) - pdata + 0 + 1
    BY <1>3 DEF IInv, PacketIntact, Contiguous
  <2>3. t_rxgpspkt[0] = Begin
    BY <1>3, <2>2 DEF Begin
  <2> QED
    BY <2>1, <2>3 DEF GpsFinish
<1>5. /\ pdata' = 0 /\ head_index' = 0 /\ cnt' = 0 /\ gps_state' = "gps_wait"
      /\ published' = Append(published, Begin)
  BY <1>4 DEF GpsFinish
<1>6. published \in Seq(Nat) /\ published' \in Seq(Nat) /\ cnt' \in 0 .. PktLen - 1
  BY <1>3, <1>5, Numbers DEF TypeOK
<1>7. TypeOK' /\ NoOverrun' /\ Contiguous' /\ PlaceInv' /\ Begin' = Len(stream) + 2
  BY <1>4, <1>5, <1>6, BackToWait
<1>8. /\ Len(published) \in Nat /\ Len(published') = Len(published) + 1
      /\ \A k \in 1 .. Len(published) : published'[k] = published[k]
      /\ published'[Len(published) + 1] = Begin
  BY <1>3, <1>5, <1>6
<1>9. \A k \in 1 .. Len(published) : published[k] \in Nat \ {0} /\ published[k] + PktLen <= Begin
  BY DEF IInv, PublishedBefore
<1>10. PublishedTagged'
  <2>1. ASSUME NEW k \in 1 .. Len(published) + 1
        PROVE  (/\ TagAt(published[k])
                /\ published[k] + PktLen - 1 <= Len(stream)
                /\ k > 1 => published[k - 1] + PktLen <= published[k])'
    <3>1. CASE k \in 1 .. Len(published)
      <4>1. PICK p \in Nat \ {0} : p = published[k]
        BY <1>9, <3>1
      <4>2. /\ TagAt(p) /\ p + PktLen - 1 <= Len(stream)
            /\ k > 1 => published[k - 1] + PktLen <= p
        BY <3>1, <4>1 DEF IInv, PacketIntact, PublishedTagged
      <4>3. TagAt(p)' /\ p + PktLen - 1 <= Len(stream')
        BY <4>2, PacketStays
      <4>4. published'[k] = p /\ (k > 1 => published'[k - 1] = published[k - 1])
        BY <1>8, <3>1, <4>1
      <4>5. TagAt(published[k])'
        BY <4>3, <4>4 DEF TagAt
      <4> QED
        BY <4>2, <4>3, <4>4, <4>5
    <3>2. CASE k = Len(published) + 1
      <4>1. TagAt(published[k])'
        <5>1. PICK p \in Nat \ {0} : p = Begin
          BY <1>3
        <5>2. TagAt(p)'
          BY <1>1, <5>1, Numbers, TagStays
        <5>3. published'[k] = p
          BY <1>8, <3>2, <5>1
        <5> QED
          BY <5>2, <5>3 DEF TagAt
      <4>2. published'[k] + PktLen - 1 <= Len(stream')
        BY <1>2, <1>3, <1>8, <3>2
      <4>3. k > 1 => published'[k - 1] + PktLen <= published'[k]
        <5>1. k > 1 => k - 1 \in 1 .. Len(published)
          BY <1>8, <3>2
        <5> QED
          BY <1>8, <1>9, <3>2, <5>1
      <4> QED
        BY <4>1, <4>2, <4>3
    <3> QED
      BY <1>8, <3>1, <3>2
  <2> QED
    BY <1>8, <2>1 DEF PublishedTagged
<1>11. PublishedBefore'
  <2>1. ASSUME NEW k \in 1 .. Len(published) + 1
        PROVE  published'[k] \in Nat \ {0} /\ published'[k] + PktLen <= Len(stream) + 2
    <3>1. CASE k \in 1 .. Len(published)
      <4>1. published'[k] \in Nat \ {0} /\ published'[k] + PktLen <= Begin
        BY <1>8, <1>9, <3>1
      <4> QED
        BY <1>3, <4>1
    <3>2. CASE k = Len(published) + 1
      BY <1>3, <1>8, <3>2
    <3> QED
      BY <1>8, <3>1, <3>2
  <2> QED
    BY <1>7, <1>8, <2>1 DEF PublishedBefore
<1>12. DoneInv'
  <2>1. \A q : Published(q) => Published(q)'
    <3>1. \A q : \A k \in 1 .. Len(published) :
             published[k] = q => k \in 1 .. Len(published') /\ published'[k] = q
      BY <1>8
    <3> QED
      BY <3>1 DEF Published
  <2>2. ASSUME NEW p \in 1 .. Len(stream) + 1, stream'[p] = Dollar
        PROVE  (Published(p) \/ Masked(p) \/ NoTag(p))'
    <3>1. CASE p \in 1 .. Begin - 1
      BY <2>1, <2>2, <3>1, DoneStays
    <3>2. CASE p \in Begin .. Len(stream) + 1
      <4>1. Len(published) + 1 \in 1 .. Len(published')
        BY <1>8
      <4>2. \A q : q = Begin => Published(q)'
        BY <1>8, <4>1 DEF Published
      <4>3. CASE p = Begin
        BY <4>2, <4>3
      <4>4. CASE p # Begin
        <5>1. p - Begin \in 1 .. PktLen - 1 /\ p > p - Begin /\ p - (p - Begin) = Begin
          BY <1>3, <3>2, <4>4
        <5>2. PICK d : d = p - Begin
          OBVIOUS
        <5>3. d \in 1 .. PktLen - 1 /\ p > d /\ Published(p - d)'
          BY <4>2, <5>1, <5>2
        <5> QED
          BY <5>3, Zenon DEF Masked
      <4> QED
        BY <4>3, <4>4
    <3>3. p \in 1 .. Begin - 1 \/ p \in Begin .. Len(stream) + 1
      BY <1>3
    <3> QED
      BY <3>1, <3>2, <3>3
  <2>3. Begin' - 1 = Len(stream) + 1
    BY <1>3, <1>7
  <2> QED
    BY <2>2, <2>3 DEF DoneInv
<1>13. CutInv'
  <2> SUFFICES ASSUME NEW s \in Seq(Byte), Continues(s)'
               PROVE  Frames(s) = published' \o FramesFrom(s)[Begin']
    BY DEF CutInv, Byte
  <2>1. /\ Continues(s)
        /\ Len(stream) + 1 <= Len(s)
        /\ \A i \in 1 .. Len(stream) + 1 : s[i] = stream'[i]
    BY Numbers, ContinuesBack
  <2>2. Frames(s) = published \o FramesFrom(s)[Begin]
    BY <2>1 DEF IInv, CutInv
  <2>3. /\ Len(s) \in Nat /\ Begin \in 1 .. Last(s) /\ ~ (Begin > Len(s))
        /\ ~ (Begin + TagLen - 1 > Len(s)) /\ ~ (Begin + PktLen - 1 > Len(s))
        /\ Begin + PktLen = Begin' /\ Begin + PktLen \in 1 .. Last(s)
    BY <1>3, <1>7, <2>1 DEF Last
  <2>4. \A j \in 1 .. TagLen : s[Begin + j - 1] = j
    <3>1. \A j \in 1 .. TagLen : stream[Begin + j - 1] = j /\ Begin + j - 1 \in 1 .. Len(stream)
      BY <1>1, <1>3 DEF TagAt
    <3> QED
      BY <2>1, <3>1 DEF Continues
  <2>5. s[Begin] = Dollar
    <3>1. 1 \in 1 .. TagLen /\ Begin + 1 - 1 = Begin
      BY <1>3
    <3>2. s[Begin + 1 - 1] = 1
      BY <2>4, <3>1
    <3> QED
      BY <3>1, <3>2 DEF Dollar
  <2>6. FramesFrom(s)[Begin] = FrameStep(s, FramesFrom(s), Begin)
    BY <2>3, FramesUnroll
  <2>7. FramesFrom(s)[Begin] = <<Begin>> \o FramesFrom(s)[Begin + PktLen]
    BY <2>3, <2>4, <2>5, <2>6, Zenon DEF FrameStep
  <2> DEFINE rest == FramesFrom(s)[Begin + PktLen]
  <2>8. rest \in Seq(Nat)
    BY <2>3, FramesType
  <2> HIDE DEF rest
  <2>9. PICK p, one : p = Begin /\ one = <<p>>
    OBVIOUS
  <2>10. published \o (one \o rest) = Append(published, p) \o rest
    <3>1. p \in Nat
      BY <1>3, <2>9
    <3>2. published \in Seq(Nat)
      BY <1>6
    <3>3. one = <<p>>
      BY <2>9
    <3> QED
      BY <2>8, <3>1, <3>2, <3>3, AppendConcat
  <2>11. published' \o FramesFrom(s)[Begin'] = Append(published, p) \o rest
    BY <1>5, <2>3, <2>9, Zenon DEF rest
  <2>12. Frames(s) = published \o (one \o rest)
    BY <2>2, <2>7, <2>9, Zenon DEF rest
  <2> QED
    BY <2>10, <2>11, <2>12, Zenon
<1> QED
  BY <1>7, <1>10, <1>11, <1>12, <1>13 DEF IInv, PacketIntact
-----------------------------------------------------------------------------
(* The theorems.                                                           *)

LEMMA InitIInv == Init => IInv
<1> SUFFICES ASSUME Init PROVE IInv
  OBVIOUS
<1>1. /\ TagLen \in Nat /\ PktLen \in Nat /\ TagLen >= 2 /\ 2 * TagLen <= PktLen
  BY LengthAssumption
<1>2. /\ stream = <<>> /\ head_index = 0 /\ gps_state = "gps_wait" /\ cnt = 0
      /\ pdata = 0 /\ published = <<>>
      /\ buf = [i \in 0 .. TagLen - 1 |-> 0]
      /\ t_rxgpspkt = [i \in 0 .. PktLen - 1 |-> 0]
  BY DEF Init
<1>3. Len(stream) = 0 /\ Len(published) = 0 /\ Begin = 1
  BY <1>2 DEF Begin
<1>4. TypeOK
  <2>1. 0 \in 0 .. TagLen - 1 /\ 0 \in 0 .. PktLen - 1 /\ 0 \in Byte
    BY <1>1 DEF Byte
  <2>2. stream \in Seq(Byte) /\ published \in Seq(Nat)
    BY <1>2
  <2> QED
    BY <1>2, <2>1, <2>2 DEF TypeOK
<1>5. NoOverrun
  BY <1>1, <1>2 DEF NoOverrun
<1>6. Contiguous
  BY <1>2 DEF Contiguous
<1>7. PublishedTagged /\ PublishedBefore
  BY <1>3 DEF PublishedTagged, PublishedBefore
<1>8. PlaceInv
  BY <1>2, <1>3 DEF PlaceInv
<1>9. DoneInv
  BY <1>3 DEF DoneInv
<1>10. CutInv
  <2> SUFFICES ASSUME NEW s \in Seq(Byte)
               PROVE  Frames(s) = published \o FramesFrom(s)[Begin]
    BY DEF CutInv
  <2>1. 1 \in 1 .. Last(s)
    BY <1>1 DEF Last
  <2>2. FramesFrom(s)[1] \in Seq(Nat)
    BY <2>1, FramesType
  <2>3. <<>> \o FramesFrom(s)[1] = FramesFrom(s)[1]
    BY <2>2
  <2> QED
    BY <1>2, <1>3, <2>3 DEF Frames
<1> QED
  BY <1>4, <1>5, <1>6, <1>7, <1>8, <1>9, <1>10 DEF IInv, PacketIntact

LEMMA NextIInv == IInv /\ [Next]_vars => IInv'
<1> SUFFICES ASSUME IInv, [Next]_vars PROVE IInv'
  OBVIOUS
<1>1. CASE UNCHANGED vars
  <2>1. /\ TypeOK' /\ NoOverrun' /\ Contiguous' /\ PublishedTagged'
    BY <1>1 DEF vars, IInv, PacketIntact, TypeOK, Byte, NoOverrun, Contiguous,
                PublishedTagged, TagAt
  <2>2. PlaceInv' /\ PublishedBefore' /\ CutInv'
    BY <1>1 DEF vars, IInv, PlaceInv, PublishedBefore, CutInv, Continues, Begin, TagAt
  <2>3. DoneInv'
    BY <1>1 DEF vars, IInv, DoneInv, Published, Masked, NoTag, Begin
  <2> QED
    BY <2>1, <2>2, <2>3 DEF IInv, PacketIntact
<1>2. ASSUME NEW b \in Byte, GpsWait(b) PROVE IInv'
  BY <1>2, WaitDollar, WaitOther
<1>3. ASSUME NEW b \in Byte, GpsHeader(b) PROVE IInv'
  <2>1. gps_state = "gps_header" /\ Read(b) /\ UNCHANGED published
    BY <1>3 DEF GpsHeader
  <2>2. CASE /\ head_index + 1 < TagLen
             /\ Store
             /\ head_index' = head_index + 1
             /\ UNCHANGED <<gps_state, cnt>>
    BY <2>1, <2>2, HeaderStore
  <2>3. CASE head_index + 1 = TagLen /\ IF IsTag(buf') THEN GpsAccept ELSE GpsReject
    BY <2>1, <2>3, HeaderAccept, HeaderReject
  <2> QED
    BY <1>3, <2>2, <2>3 DEF GpsHeader
<1>4. ASSUME NEW b \in Byte, GpsData(b) PROVE IInv'
  <2>1. gps_state = "gps_data" /\ Read(b)
    BY <1>4 DEF GpsData
  <2>2. CASE cnt + 1 = PktLen
    <3>1. GpsFinish
      BY <1>4, <2>2 DEF GpsData
    <3> QED
      BY <2>1, <2>2, <3>1, DataFinish
  <2>3. CASE cnt + 1 # PktLen
    <3>1. Store /\ cnt' = cnt + 1 /\ UNCHANGED <<gps_state, head_index, published>>
      BY <1>4, <2>3 DEF GpsData
    <3> QED
      BY <2>1, <2>3, <3>1, DataStore
  <2> QED
    BY <2>2, <2>3
<1> QED
  BY <1>1, <1>2, <1>3, <1>4 DEF Next

THEOREM InvariantHolds == Spec => []IInv
<1>1. Init => IInv
  BY InitIInv
<1>2. IInv /\ [Next]_vars => IInv'
  BY NextIInv
<1> QED
  BY <1>1, <1>2, PTL DEF Spec

\* Whatever bytes arrive, the receive loop stores none outside the packet,
\* keeps what it stores without a gap, and publishes whole packets that do
\* not overlap.
THEOREM PacketStaysIntact == Spec => []PacketIntact
<1>1. IInv => PacketIntact
  BY DEF IInv
<1> QED
  BY <1>1, InvariantHolds, PTL

\* A packet that arrived whole and was not published had its tag swallowed
\* behind a '$', or stands inside a packet that was published.
THEOREM MissedIsMasked == Spec => []MissedOnlyIfMasked
<1>1. IInv => MissedOnlyIfMasked
  <2> SUFFICES ASSUME IInv, NEW p \in 1 .. Len(stream),
                      TagAt(p), p + PktLen - 1 <= Len(stream)
               PROVE  Published(p) \/ Masked(p)
    BY DEF MissedOnlyIfMasked, Masked
  <2>1. p \in 1 .. Begin - 1
    <3>1. /\ Len(stream) \in Nat /\ pdata \in Nat /\ PktLen \in Nat
          /\ pdata < PktLen
      BY Numbers
    <3> QED
      BY <3>1 DEF Begin
  <2>2. stream[p] = Dollar
    <3>1. 1 \in 1 .. TagLen /\ p + 1 - 1 = p
      BY Numbers
    <3>2. stream[p + 1 - 1] = 1
      BY <3>1 DEF TagAt
    <3> QED
      BY <3>1, <3>2 DEF Dollar
  <2>3. ~ NoTag(p)
    BY DEF NoTag, TagAt
  <2> QED
    BY <2>1, <2>2, <2>3 DEF IInv, DoneInv
<1> QED
  BY <1>1, InvariantHolds, PTL

\* What the loop publishes, a byte at a time and with four variables, is what
\* the recursive definition finds in the whole stream.
THEOREM LoopFindsFrames == Spec => []FindsFrames
<1>1. IInv => FindsFrames
  <2> SUFFICES ASSUME IInv PROVE published = Frames(stream)
    BY DEF FindsFrames
  <2>1. stream \in Seq(Byte) /\ published \in Seq(Nat) /\ Continues(stream)
        /\ gps_state \in {"gps_wait", "gps_header", "gps_data"}
    BY Numbers DEF TypeOK, Continues
  <2>2. Frames(stream) = published \o FramesFrom(stream)[Begin]
    BY <2>1 DEF IInv, CutInv
  <2>3. Begin \in 1 .. Last(stream)
    <3>1. /\ Len(stream) \in Nat /\ pdata \in Nat /\ PktLen \in Nat
          /\ PktLen >= 2 * TagLen /\ TagLen \in Nat /\ TagLen >= 2
          /\ pdata <= Len(stream)
      BY Numbers
    <3> QED
      BY <3>1 DEF Begin, Last
  <2>4. FramesFrom(stream)[Begin] = FrameStep(stream, FramesFrom(stream), Begin)
    BY <2>1, <2>3, FramesUnroll
  <2>5. FramesFrom(stream)[Begin] = <<>>
    <3>1. CASE gps_state = "gps_wait"
      <4>1. pdata = 0
        BY <3>1 DEF IInv, PlaceInv
      <4>2. Begin > Len(stream)
        BY <4>1, Numbers DEF Begin
      <4> QED
        BY <2>4, <4>2, Zenon DEF FrameStep
    <3>2. CASE gps_state = "gps_header"
      <4>1. /\ head_index \in 1 .. TagLen - 1 /\ pdata = head_index
            /\ stream[Begin] = Dollar
        BY <3>2 DEF IInv, PlaceInv
      <4>2. Begin + TagLen - 1 > Len(stream)
        BY <4>1, Numbers DEF Begin
      <4> QED
        BY <2>4, <4>1, <4>2, Zenon DEF FrameStep
    <3>3. CASE gps_state = "gps_data"
      <4>1. TagAt(Begin)
        BY <3>3 DEF IInv, PlaceInv
      <4>2. Begin + PktLen - 1 > Len(stream)
        <5>1. /\ Len(stream) \in Nat /\ pdata \in Nat /\ PktLen \in Nat
              /\ pdata < PktLen
          BY Numbers
        <5> QED
          BY <5>1 DEF Begin
      <4>3. 1 \in 1 .. TagLen /\ Begin + 1 - 1 = Begin
        BY Numbers
      <4>4. \A j \in 1 .. TagLen : stream[Begin + j - 1] = j
        BY <4>1 DEF TagAt
      <4>5. stream[Begin + 1 - 1] = 1
        BY <4>3, <4>4
      <4>6. stream[Begin] = Dollar
        BY <4>3, <4>5 DEF Dollar
      <4> QED
        BY <2>4, <4>2, <4>4, <4>6, Zenon DEF FrameStep
    <3> QED
      BY <2>1, <3>1, <3>2, <3>3
  <2>6. published \o <<>> = published
    BY <2>1
  <2> QED
    BY <2>2, <2>5, <2>6
<1> QED
  BY <1>1, InvariantHolds, PTL
-----------------------------------------------------------------------------
(* The temperature device.                                                 *)

\* Quotient and remainder by the length of a report.
LEMMA ReportParts ==
  ASSUME NEW x \in Nat
  PROVE  /\ x \div ReportLen \in Nat /\ x % ReportLen \in 0 .. ReportLen - 1
         /\ x = ReportLen * (x \div ReportLen) + (x % ReportLen)
<1>1. ReportLen \in Nat /\ ReportLen > 0
  BY ReportAssumption
<1> QED
  BY <1>1, SMTT(30)

\* Products with the length of a report grow by it at least.
LEMMA TimesGrows ==
  ASSUME NEW a \in Nat, NEW b \in Nat, a < b
  PROVE  ReportLen * a + ReportLen <= ReportLen * b
<1>1. ReportLen \in Nat
  BY ReportAssumption
<1> DEFINE d == b - a - 1
<1>2. d \in Nat /\ b = a + 1 + d
  OBVIOUS
<1> HIDE DEF d
<1>3. ReportLen * (a + 1 + d) = ReportLen * a + ReportLen + ReportLen * d
  BY <1>1, <1>2
<1>4. ReportLen * d \in Nat /\ ReportLen * a \in Nat
  BY <1>1, <1>2
<1> QED
  BY <1>1, <1>2, <1>3, <1>4

\* An event's report and its place in it determine it.
LEMMA PartsUnique ==
  ASSUME NEW q \in Nat, NEW c \in 0 .. ReportLen - 1
  PROVE  /\ (ReportLen * q + c) \div ReportLen = q
         /\ (ReportLen * q + c) % ReportLen = c
<1>1. ReportLen \in Nat /\ ReportLen > 0
  BY ReportAssumption
<1> DEFINE x == ReportLen * q + c p == x \div ReportLen d == x % ReportLen
<1>2. ReportLen * q \in Nat
  BY <1>1
<1>3. x \in Nat /\ c \in Nat /\ c < ReportLen
  BY <1>1, <1>2
<1>4. p \in Nat /\ d \in 0 .. ReportLen - 1 /\ x = ReportLen * p + d
  BY <1>3, ReportParts
<1>5. ReportLen * p \in Nat
  BY <1>1, <1>4
<1>6. ReportLen * p + d = ReportLen * q + c
  BY <1>4
<1> HIDE DEF x, p, d
<1>7. ~(p < q)
  <2>1. ASSUME p < q PROVE FALSE
    <3>1. ReportLen * p + ReportLen <= ReportLen * q
      BY <1>4, <2>1, TimesGrows
    <3> QED
      BY <1>1, <1>2, <1>3, <1>4, <1>5, <1>6, <3>1
  <2> QED
    BY <2>1
<1>8. ~(q < p)
  <2>1. ASSUME q < p PROVE FALSE
    <3>1. ReportLen * q + ReportLen <= ReportLen * p
      BY <1>4, <2>1, TimesGrows
    <3> QED
      BY <1>1, <1>2, <1>3, <1>4, <1>5, <1>6, <3>1
  <2> QED
    BY <2>1
<1>9. p = q
  BY <1>4, <1>7, <1>8
<1>10. d = c
  BY <1>1, <1>2, <1>3, <1>4, <1>6, <1>9
<1> QED
  BY <1>9, <1>10 DEF x, p, d

\* Whole reports.
Whole(x) == \E q \in Nat : x = ReportLen * q

\* What the model says of them, with a remainder.
LEMMA WholeIs ==
  ASSUME NEW x \in Nat
  PROVE  x % ReportLen = 0 <=> Whole(x)
<1>1. ASSUME x % ReportLen = 0 PROVE Whole(x)
  <2>1. x \div ReportLen \in Nat /\ x = ReportLen * (x \div ReportLen) + (x % ReportLen)
    BY ReportParts
  <2>2. ReportLen * (x \div ReportLen) \in Nat
    BY <2>1, ReportAssumption
  <2>3. x = ReportLen * (x \div ReportLen)
    BY <1>1, <2>1, <2>2
  <2> QED
    BY <2>1, <2>3 DEF Whole
<1>2. ASSUME Whole(x) PROVE x % ReportLen = 0
  <2>1. PICK q \in Nat : x = ReportLen * q
    BY <1>2 DEF Whole
  <2>2. 0 \in 0 .. ReportLen - 1 /\ ReportLen * q \in Nat
    BY ReportAssumption
  <2>3. (ReportLen * q + 0) % ReportLen = 0
    BY <2>2, PartsUnique
  <2> QED
    BY <2>1, <2>2, <2>3
<1> QED
  BY <1>1, <1>2

\* Whole reports behind whole reports.
LEMMA WholeSums ==
  ASSUME NEW x \in Nat, NEW y \in Nat, Whole(x), Whole(y)
  PROVE  /\ Whole(x + y)
         /\ x <= y => Whole(y - x)
         /\ x > 0 => x >= ReportLen
<1>1. PICK p \in Nat : x = ReportLen * p
  BY DEF Whole
<1>2. PICK q \in Nat : y = ReportLen * q
  BY DEF Whole
<1>3. ReportLen \in Nat /\ ReportLen > 0
  BY ReportAssumption
<1>4. Whole(x + y)
  <2>1. x + y = ReportLen * (p + q)
    BY <1>1, <1>2, <1>3
  <2> QED
    BY <2>1 DEF Whole
<1>5. ASSUME x <= y PROVE Whole(y - x)
  <2>1. ~(q < p)
    <3>1. ASSUME q < p PROVE FALSE
      <4>1. ReportLen * q + ReportLen <= ReportLen * p
        BY <3>1, TimesGrows
      <4> QED
        BY <1>1, <1>2, <1>3, <1>5, <4>1
    <3> QED
      BY <3>1
  <2>2. q - p \in Nat
    BY <2>1
  <2>3. y - x = ReportLen * (q - p)
    BY <1>1, <1>2, <1>3
  <2> QED
    BY <2>2, <2>3 DEF Whole
<1>6. ASSUME x > 0 PROVE x >= ReportLen
  <2>1. p > 0
    <3>1. ReportLen * 0 = 0
      BY <1>3
    <3> QED
      BY <1>1, <1>6, <3>1
  <2>2. ReportLen * 0 + ReportLen <= ReportLen * p
    BY <2>1, TimesGrows
  <2> QED
    BY <1>1, <1>3, <2>2
<1> QED
  BY <1>4, <1>5, <1>6

\* The first four events of a read that begins with a report.
LEMMA InReport ==
  ASSUME NEW x \in Nat, Whole(x), NEW c \in 0 .. 3
  PROVE  /\ Report(x + c + 1) = Report(x + 1)
         /\ Place(x + c + 1) = c
         /\ Report(x + 1) \in Nat \ {0}
         /\ x = (Report(x + 1) - 1) * ReportLen
<1>1. PICK q \in Nat : x = ReportLen * q
  BY DEF Whole
<1>2. ReportLen \in Nat /\ c \in 0 .. ReportLen - 1 /\ 0 \in 0 .. ReportLen - 1
  BY ReportAssumption
<1>3. ReportLen * q \in Nat /\ ReportLen * q = q * ReportLen
  BY <1>2
<1>4. /\ (x + c) \div ReportLen = q /\ (x + c) % ReportLen = c
      /\ (x + 0) \div ReportLen = q
  BY <1>1, <1>2, PartsUnique
<1>5. (x + c + 1) - 1 = x + c /\ (x + 1) - 1 = x + 0
  OBVIOUS
<1>6. Report(x + c + 1) = q + 1 /\ Place(x + c + 1) = c /\ Report(x + 1) = q + 1
  BY <1>4, <1>5 DEF Report, Place
<1> QED
  BY <1>1, <1>3, <1>6

\* The text is that of a report with a temperature.
IsReading(text) ==
  text # None => \E r \in (1 .. MaxReports) \ zeros : IsTemperature(text, r)

\* The text is older than the cells it is taken from, and what boardctl has is
\* older still.
AgeInv ==
  m_devfd = "hiddev" =>
    /\ m_temparture[1] <= submit_temperatue[1] /\ submit_temperatue[1] <= ev[2]
    /\ m_temparture[2] <= submit_temperatue[2] /\ submit_temperatue[2] <= ev[3]

\* Without a cut every read has begun with a report.
UncutInv ==
  m_devfd = "hiddev" /\ ~cut =>
    /\ Whole(taken)
    /\ IsReading(submit_temperatue)
    /\ IsReading(m_temparture)

\* Before temperdev::init.
OffInv ==
  temper = "off" =>
    /\ taken = 0 /\ submit_temperatue = None /\ m_temparture = None

TemperInv ==
  /\ TemperdevTypeOK
  /\ arrived <= MaxReports * ReportLen
  /\ AgeInv /\ UncutInv /\ OffInv /\ Recovers

LEMMA TemperInitInv == ASSUME TemperdevInit PROVE TemperInv
<1>1. /\ arrived = 0 /\ taken = 0 /\ got = 0 /\ at = 0 /\ cut = FALSE
      /\ submit_temperatue = <<0, 0>> /\ m_temparture = <<0, 0>>
      /\ temper = "off" /\ m_devfd = "unset" /\ ev = [c \in Cells |-> 0]
      /\ zeros \subseteq 1 .. MaxReports
  BY DEF TemperdevInit, None
<1>2. 0 \in 0 .. EvCells /\ MaxReports * ReportLen \in Nat
  BY CellAssumption, ReportAssumption, BoundAssumption
<1>3. ev \in [Cells -> 0 .. taken]
  BY <1>1
<1>4. TemperdevTypeOK
  <2>1. <<0, 0>> \in (0 .. taken) \X (0 .. taken)
    BY <1>1
  <2>2. arrived \in Nat /\ taken \in 0 .. arrived /\ at \in 0 .. taken
    BY <1>1
  <2> QED
    BY <1>1, <1>2, <1>3, <2>1, <2>2 DEF TemperdevTypeOK
<1>5. AgeInv /\ UncutInv /\ OffInv /\ Recovers
  BY <1>1 DEF AgeInv, UncutInv, OffInv, Recovers, None
<1> QED
  BY <1>1, <1>2, <1>4, <1>5 DEF TemperInv

LEMMA CellsLarge == 1 \in Cells /\ 2 \in Cells /\ 3 \in Cells
  BY CellAssumption DEF Cells

\* Steps that leave the text and the cells alone.
LEMMA TemperInitStep == ASSUME TemperInv, TemperInit PROVE TemperInv'
<1>1. /\ temper = "off" /\ temper' = "read" /\ m_devfd' \in {"hiddev", "bad", "other"}
      /\ zeros' = zeros /\ arrived' = arrived /\ taken' = taken /\ ev' = ev
      /\ got' = got /\ at' = at /\ cut' = cut
      /\ submit_temperatue' = submit_temperatue /\ m_temparture' = m_temparture
  BY DEF TemperInit, readVars
<1>2. taken = 0 /\ submit_temperatue = None /\ m_temparture = None
  BY <1>1 DEF TemperInv, OffInv
<1>3. TemperdevTypeOK'
  BY <1>1 DEF TemperInv, TemperdevTypeOK, Cells
<1>4. AgeInv'
  <2>1. ev[2] \in Nat /\ ev[3] \in Nat
    BY CellsLarge DEF TemperInv, TemperdevTypeOK
  <2> QED
    BY <1>1, <1>2, <2>1 DEF AgeInv, None
<1>5. UncutInv'
  <2>1. ReportLen * 0 = 0
    BY ReportAssumption
  <2>2. Whole(0)
    BY <2>1 DEF Whole
  <2> QED
    BY <1>1, <1>2, <2>2 DEF UncutInv, IsReading
<1>6. OffInv' /\ Recovers'
  BY <1>1 DEF OffInv, Recovers
<1> QED
  BY <1>1, <1>3, <1>4, <1>5, <1>6 DEF TemperInv

LEMMA EventStep == ASSUME TemperInv, Event PROVE TemperInv'
<1>1. /\ arrived' = arrived + 1 /\ arrived < MaxReports * ReportLen
      /\ temper' = temper /\ m_devfd' = m_devfd
      /\ zeros' = zeros /\ taken' = taken /\ ev' = ev
      /\ got' = got /\ at' = at /\ cut' = cut
      /\ submit_temperatue' = submit_temperatue /\ m_temparture' = m_temparture
  BY DEF Event, readVars
<1>2. TemperdevTypeOK'
  BY <1>1 DEF TemperInv, TemperdevTypeOK, Cells
<1>3. arrived' <= MaxReports * ReportLen
  <2>1. MaxReports * ReportLen \in Nat /\ arrived \in Nat
    BY ReportAssumption, BoundAssumption DEF TemperInv, TemperdevTypeOK
  <2> QED
    BY <1>1, <2>1
<1>4. AgeInv' /\ UncutInv' /\ OffInv'
  BY <1>1 DEF TemperInv, AgeInv, UncutInv, OffInv, IsReading, IsTemperature
<1>5. Recovers'
  BY <1>1 DEF TemperInv, Recovers, Report, Place, IsTemperature
<1> QED
  BY <1>1, <1>2, <1>3, <1>4, <1>5 DEF TemperInv

LEMMA OtherStep ==
  ASSUME TemperInv, ReadOther \/ ReadFails
  PROVE  TemperInv'
<1>1. /\ temper' \in {"submit", "exit"}
      /\ temper' = "submit" => m_devfd = "other"
      /\ m_devfd' = m_devfd
      /\ zeros' = zeros /\ arrived' = arrived /\ taken' = taken /\ ev' = ev
      /\ got' = got /\ at' = at /\ cut' = cut
      /\ submit_temperatue' = submit_temperatue
           \/ (submit_temperatue' = None /\ m_devfd = "other")
      /\ m_temparture' = m_temparture
  BY DEF ReadOther, ReadFails, readVars
<1>2. TemperdevTypeOK'
  <2>1. submit_temperatue' \in (0 .. taken) \X (0 .. taken)
    <3>1. taken \in Nat /\ submit_temperatue \in (0 .. taken) \X (0 .. taken)
      BY DEF TemperInv, TemperdevTypeOK
    <3>2. None \in (0 .. taken) \X (0 .. taken)
      BY <3>1 DEF None
    <3> QED
      BY <1>1, <3>1, <3>2
  <2> QED
    BY <1>1, <2>1 DEF TemperInv, TemperdevTypeOK, Cells
<1>3. AgeInv' /\ UncutInv'
  BY <1>1 DEF TemperInv, AgeInv, UncutInv, IsReading, IsTemperature
<1>4. OffInv' /\ Recovers'
  BY <1>1 DEF OffInv, Recovers
<1> QED
  BY <1>1, <1>2, <1>3, <1>4 DEF TemperInv

\* The text goes to boardctl.
LEMMA SubmitStep == ASSUME TemperInv, SubmitTempature PROVE TemperInv'
<1>1. /\ temper' = "read"
      /\ m_devfd' = m_devfd
      /\ zeros' = zeros /\ arrived' = arrived /\ taken' = taken /\ ev' = ev
      /\ got' = got /\ at' = at /\ cut' = cut
      /\ submit_temperatue' = submit_temperatue
      /\ m_temparture' = submit_temperatue
  BY DEF SubmitTempature, readVars
<1>2. TemperdevTypeOK'
  BY <1>1 DEF TemperInv, TemperdevTypeOK, Cells
<1>3. AgeInv'
  <2>1. submit_temperatue[1] \in Nat /\ submit_temperatue[2] \in Nat
    BY DEF TemperInv, TemperdevTypeOK
  <2>2. m_devfd = "hiddev" =>
          submit_temperatue[1] <= ev[2] /\ submit_temperatue[2] <= ev[3]
    BY DEF TemperInv, AgeInv
  <2> QED
    BY <1>1, <2>1, <2>2 DEF AgeInv
<1>4. UncutInv'
  BY <1>1 DEF TemperInv, UncutInv, IsReading, IsTemperature
<1>5. OffInv' /\ Recovers'
  BY <1>1 DEF OffInv, Recovers
<1> QED
  BY <1>1, <1>2, <1>3, <1>4, <1>5 DEF TemperInv

\* A read: the text changes to cells younger than it, and without a cut to
\* those of one report.
LEMMA HidReadStep == ASSUME TemperInv, HidRead PROVE TemperInv'
<1> DEFINE queued == arrived - taken
           n == Returned(queued)
<1>1. /\ temper' = "submit" /\ m_devfd = "hiddev" /\ m_devfd' = m_devfd
      /\ n > 0 /\ taken' = taken + n /\ ev' = Filled(n)
      /\ got' = n /\ at' = taken
      /\ cut' = (cut \/ arrived % ReportLen # 0
                     \/ (queued > EvCells /\ EvCells % ReportLen # 0))
      /\ Show(n)
      /\ zeros' = zeros /\ arrived' = arrived /\ m_temparture' = m_temparture
  BY DEF HidRead
<1>2. /\ arrived \in Nat /\ taken \in Nat /\ taken <= arrived
      /\ ev \in [Cells -> 0 .. taken]
      /\ zeros \subseteq 1 .. MaxReports /\ cut \in BOOLEAN
      /\ submit_temperatue \in (0 .. taken) \X (0 .. taken)
      /\ m_temparture \in (0 .. taken) \X (0 .. taken)
      /\ arrived <= MaxReports * ReportLen
  BY DEF TemperInv, TemperdevTypeOK
<1>3. /\ queued \in Nat /\ n \in 1 .. EvCells /\ n <= queued
      /\ queued <= EvCells => n = queued
      /\ queued > EvCells => n = EvCells
  BY <1>1, <1>2, CellAssumption DEF Returned
<1>4. n \in Nat /\ taken' \in Nat /\ taken' <= arrived /\ taken < taken' /\ taken + n = taken'
  BY <1>1, <1>2, <1>3
<1>6. ASSUME ~cut'
      PROVE  /\ ~cut /\ arrived % ReportLen = 0
             /\ ~(queued > EvCells /\ EvCells % ReportLen # 0)
  BY <1>1, <1>6, Zenon
<1> HIDE DEF queued, n
<1>7. \A c \in Cells : ev'[c] = IF c < n THEN taken + c + 1 ELSE ev[c]
  BY <1>1 DEF Filled
<1>8. ASSUME NEW c \in Cells
      PROVE  ev'[c] \in 0 .. taken' /\ ev[c] \in Nat /\ ev[c] <= ev'[c]
  <2>1. c \in Nat /\ ev[c] \in 0 .. taken
    BY <1>2 DEF Cells
  <2>2. ev'[c] = IF c < n THEN taken + c + 1 ELSE ev[c]
    BY <1>7
  <2> QED
    BY <2>1, <2>2, <1>2, <1>4
<1>9. ev' \in [Cells -> 0 .. taken']
  <2>1. ev' = [c \in Cells |-> IF c < n THEN taken + c + 1 ELSE ev[c]]
    BY <1>1 DEF Filled
  <2>2. \A c \in Cells : ev'[c] \in 0 .. taken'
    BY <1>8
  <2> QED
    BY <2>1, <2>2
<1>10. submit_temperatue' = submit_temperatue \/ submit_temperatue' = <<ev'[2], ev'[3]>>
  BY <1>1 DEF Show, Text
<1>11. /\ ev'[2] \in 0 .. taken' /\ ev[2] \in Nat /\ ev[2] <= ev'[2]
       /\ ev'[3] \in 0 .. taken' /\ ev[3] \in Nat /\ ev[3] <= ev'[3]
  BY <1>8, CellsLarge
<1>12. TemperdevTypeOK'
  <2>1. submit_temperatue' \in (0 .. taken') \X (0 .. taken')
    <3>1. submit_temperatue \in (0 .. taken') \X (0 .. taken')
      BY <1>2, <1>4
    <3> QED
      BY <3>1, <1>10, <1>11
  <2>2. m_temparture' \in (0 .. taken') \X (0 .. taken')
    BY <1>1, <1>2, <1>4
  <2>3. cut' \in BOOLEAN
    BY <1>1
  <2>4. got' \in 0 .. EvCells /\ at' \in 0 .. taken' /\ taken' \in 0 .. arrived'
    BY <1>1, <1>2, <1>3, <1>4
  <2> QED
    BY <1>1, <1>2, <1>9, <2>1, <2>2, <2>3, <2>4 DEF TemperdevTypeOK
<1>13. AgeInv'
  <2>1. /\ m_temparture[1] <= submit_temperatue[1] /\ submit_temperatue[1] <= ev[2]
        /\ m_temparture[2] <= submit_temperatue[2] /\ submit_temperatue[2] <= ev[3]
    BY <1>1 DEF TemperInv, AgeInv
  <2>2. /\ submit_temperatue[1] \in Nat /\ submit_temperatue[2] \in Nat
        /\ m_temparture[1] \in Nat /\ m_temparture[2] \in Nat
    BY <1>2
  <2>3. /\ submit_temperatue'[1] \in {submit_temperatue[1], ev'[2]}
        /\ submit_temperatue'[2] \in {submit_temperatue[2], ev'[3]}
    BY <1>10
  <2>4. /\ m_temparture[1] <= submit_temperatue'[1] /\ submit_temperatue'[1] <= ev'[2]
        /\ m_temparture[2] <= submit_temperatue'[2] /\ submit_temperatue'[2] <= ev'[3]
    BY <1>11, <2>1, <2>2, <2>3
  <2> QED
    BY <1>1, <2>4 DEF AgeInv
\* A read that begins with a report and gets at least its temperature.
<1>14. ASSUME Whole(taken), n > 3
       PROVE  LET r == Report(taken + 1) IN
              /\ r \in 1 .. MaxReports
              /\ r \in zeros => submit_temperatue' = submit_temperatue
              /\ r \notin zeros => IsTemperature(submit_temperatue', r)
  <2> DEFINE r == Report(taken + 1)
  <2>1. ASSUME NEW c \in 0 .. 3
        PROVE  /\ Report(taken + c + 1) = r /\ Place(taken + c + 1) = c
               /\ r \in Nat \ {0} /\ taken = (r - 1) * ReportLen
    BY <1>2, <1>14, InReport
  <2>2. r \in Nat \ {0} /\ taken = (r - 1) * ReportLen
    BY <2>1
  <2>3. ASSUME NEW c \in 1 .. 3
        PROVE  ev'[c] = taken + c + 1 /\ ev'[c] # 0 /\ (IsZero(ev'[c]) <=> r \in zeros)
    <3>1. c \in Cells /\ c < n
      BY <1>14, <1>3, CellsLarge
    <3>2. ev'[c] = taken + c + 1
      BY <3>1, <1>7
    <3>3. Report(taken + c + 1) = r /\ Place(taken + c + 1) = c
      BY <2>1
    <3>4. ev'[c] # 0
      BY <3>2, <1>2
    <3> QED
      BY <3>2, <3>3, <3>4 DEF IsZero
  <2>4. r \in 1 .. MaxReports
    <3>1. (r - 1) * ReportLen < MaxReports * ReportLen
      <4>1. MaxReports * ReportLen \in Nat
        BY ReportAssumption, BoundAssumption
      <4> HIDE DEF r
      <4> QED
        BY <4>1, <1>2, <1>4, <2>2
    <3> HIDE DEF r
    <3>2. ~(MaxReports < r - 1)
      <4>1. ASSUME MaxReports < r - 1 PROVE FALSE
        <5>1. ReportLen * MaxReports + ReportLen <= ReportLen * (r - 1)
          BY <4>1, <2>2, BoundAssumption, TimesGrows
        <5> DEFINE a == ReportLen * MaxReports b == ReportLen * (r - 1)
        <5>2. a \in Nat /\ b \in Nat /\ a = MaxReports * ReportLen /\ b = (r - 1) * ReportLen
          BY <2>2, BoundAssumption, ReportAssumption
        <5> HIDE DEF a, b
        <5>3. b < a /\ a + ReportLen <= b
          BY <5>1, <5>2, <3>1 DEF a, b
        <5> QED
          BY <5>2, <5>3, ReportAssumption
      <4> QED
        BY <4>1
    <3>3. MaxReports # r - 1
      BY <3>1, <2>2, BoundAssumption, ReportAssumption
    <3> QED
      BY <2>2, <3>2, <3>3, BoundAssumption
  <2>5. /\ ev'[2] = (r - 1) * ReportLen + 3 /\ ev'[3] = (r - 1) * ReportLen + 4
    <3>1. ev'[2] = taken + 3 /\ ev'[3] = taken + 4
      <4>1. ev'[2] = taken + 2 + 1 /\ ev'[3] = taken + 3 + 1
        BY <2>3
      <4> QED
        BY <4>1, <1>2
    <3> QED
      BY <3>1, <2>2
  <2> HIDE DEF r
  <2>6. ASSUME r \in zeros PROVE submit_temperatue' = submit_temperatue
    <3>1. \A c \in 1 .. 3 : ~MayBeOther(c)
      BY <2>3, <2>6 DEF MayBeOther
    <3> QED
      BY <3>1, <1>1 DEF Show
  <2>7. ASSUME r \notin zeros PROVE IsTemperature(submit_temperatue', r)
    <3>1. ~MayBeZero(1)
      BY <2>3, <2>7 DEF MayBeZero
    <3>2. submit_temperatue' = <<ev'[2], ev'[3]>>
      BY <3>1, <1>1 DEF Show, Text
    <3> QED
      BY <3>2, <2>5 DEF IsTemperature
  <2> QED
    BY <2>4, <2>6, <2>7 DEF r
<1>15. UncutInv'
  <2> SUFFICES ASSUME ~cut'
               PROVE  /\ Whole(taken') /\ IsReading(submit_temperatue)'
                      /\ IsReading(m_temparture)'
    BY DEF UncutInv
  <2>1. /\ ~cut /\ arrived % ReportLen = 0
        /\ ~(queued > EvCells /\ EvCells % ReportLen # 0)
    BY <1>6
  <2>2. Whole(taken) /\ IsReading(submit_temperatue) /\ IsReading(m_temparture)
    BY <1>1, <2>1 DEF TemperInv, UncutInv
  <2>3. Whole(arrived)
    BY <1>2, <2>1, WholeIs
  <2>4. Whole(queued)
    <3>1. Whole(arrived - taken)
      BY <1>2, <2>2, <2>3, WholeSums
    <3> QED
      BY <3>1 DEF queued
  <2>5. Whole(n)
    <3>1. CASE queued <= EvCells
      BY <1>3, <2>4, <3>1
    <3>2. CASE queued > EvCells
      <4>1. EvCells % ReportLen = 0
        BY <2>1, <3>2
      <4>2. Whole(EvCells)
        BY <4>1, CellAssumption, WholeIs
      <4> QED
        BY <1>3, <4>2, <3>2
    <3> QED
      BY <3>1, <3>2, <1>3, CellAssumption
  <2>6. n > 3
    <3>1. n >= ReportLen
      BY <2>5, <1>4, <1>1, WholeSums
    <3> QED
      BY <3>1, <1>4, ReportAssumption
  <2>7. Whole(taken')
    BY <1>1, <1>2, <1>4, <2>2, <2>5, WholeSums
  <2>8. IsReading(submit_temperatue)'
    <3> DEFINE r == Report(taken + 1)
    <3>1. /\ r \in 1 .. MaxReports
          /\ r \in zeros => submit_temperatue' = submit_temperatue
          /\ r \notin zeros => IsTemperature(submit_temperatue', r)
      BY <1>14, <2>2, <2>6
    <3> HIDE DEF r
    <3> QED
      BY <1>1, <2>2, <3>1 DEF IsReading, IsTemperature
  <2>9. IsReading(m_temparture)'
    BY <1>1, <2>2 DEF IsReading, IsTemperature
  <2> QED
    BY <2>7, <2>8, <2>9
<1>16. Recovers'
  <2> DEFINE r == Report(taken + 1)
  <2> SUFFICES ASSUME got' > 3, Place(taken + 1) = 0, r \notin zeros
               PROVE  IsTemperature(submit_temperatue', r)
    BY <1>1 DEF Recovers, Report, Place, IsTemperature
  <2>1. taken % ReportLen = 0
    <3>1. (taken + 1) - 1 = taken
      BY <1>2
    <3> QED
      BY <3>1 DEF Place
  <2>2. Whole(taken) /\ n > 3
    BY <2>1, <1>1, <1>2, WholeIs
  <2> QED
    BY <1>14, <2>2
<1>17. OffInv'
  BY <1>1 DEF OffInv
<1> QED
  BY <1>1, <1>2, <1>12, <1>13, <1>15, <1>16, <1>17 DEF TemperInv

LEMMA TemperInvariant == TemperdevSpec => []TemperInv
<1>1. ASSUME TemperInv, [TemperdevNext]_temperVars PROVE TemperInv'
  <2>1. CASE UNCHANGED temperVars
    <3>1. /\ arrived' = arrived
          /\ temper' = temper /\ m_devfd' = m_devfd
          /\ zeros' = zeros /\ taken' = taken /\ ev' = ev
          /\ got' = got /\ at' = at /\ cut' = cut
          /\ submit_temperatue' = submit_temperatue /\ m_temparture' = m_temparture
      BY <2>1 DEF temperVars, readVars
    <3>2. TemperdevTypeOK' /\ AgeInv' /\ OffInv' /\ arrived' <= MaxReports * ReportLen
      BY <1>1, <3>1 DEF TemperInv, TemperdevTypeOK, AgeInv, OffInv, Cells
    <3>3. UncutInv' /\ Recovers'
      BY <1>1, <3>1 DEF TemperInv, UncutInv, IsReading, IsTemperature, Recovers, Report, Place
    <3> QED
      BY <3>2, <3>3 DEF TemperInv
  <2> QED
    BY <1>1, <2>1, TemperInitStep, EventStep, HidReadStep, OtherStep, SubmitStep
    DEF TemperdevNext
<1> QED
  BY <1>1, TemperInitInv, PTL DEF TemperdevSpec

\* For any length of a report and any number of cells from four up: without a
\* cut what temperdev::sub_routine gives boardctl is the temperature of one
\* report that has one, and after a cut the next read that begins with a
\* report shows it.
THEOREM TemperatureStaysRight == TemperdevSpec => []TemperatureRight
<1>1. ASSUME TemperInv PROVE TemperatureRight
  <2>1. WholeUnlessCut
    BY <1>1 DEF TemperInv, UncutInv, IsReading, WholeUnlessCut
  <2> QED
    BY <1>1, <2>1 DEF TemperInv, TemperatureRight
<1> QED
  BY <1>1, TemperInvariant, PTL

\* Cut or not, neither byte of boardctl's temperature is ever replaced by one
\* of an older event.
THEOREM ReadingNeverGoesBack == TemperdevSpec => NeverGoesBack
<1>1. ASSUME TemperInv, [TemperdevNext]_temperVars, m_devfd = "hiddev"
      PROVE  \A i \in 1 .. 2 : m_temparture'[i] >= m_temparture[i]
  <2>1. m_temparture' = m_temparture \/ m_temparture' = submit_temperatue
    BY <1>1 DEF TemperdevNext, TemperInit, Event, HidRead, ReadOther, ReadFails,
                SubmitTempature, temperVars
  <2>2. /\ m_temparture[1] <= submit_temperatue[1]
        /\ m_temparture[2] <= submit_temperatue[2]
    BY <1>1 DEF TemperInv, AgeInv
  <2>3. /\ m_temparture[1] \in Nat /\ m_temparture[2] \in Nat
        /\ submit_temperatue[1] \in Nat /\ submit_temperatue[2] \in Nat
    BY <1>1 DEF TemperInv, TemperdevTypeOK
  <2>4. m_temparture'[1] >= m_temparture[1] /\ m_temparture'[2] >= m_temparture[2]
    BY <2>1, <2>2, <2>3
  <2> QED
    BY <2>4
<1> QED
  BY <1>1, TemperInvariant, PTL DEF TemperdevSpec, NeverGoesBack
=============================================================================
