------------------------- MODULE CapturePathProofs -------------------------
(***************************************************************************)
(* The capture path for any chunk size, any payload length and any stream  *)
(* the device may deliver: what CapturePath.tla states as invariants and   *)
(* as an action property.                                                  *)
(***************************************************************************)
EXTENDS CapturePath, WellFoundedInduction, TLAPS

\* The chunk with the first header lies behind the reader, and before that
\* header nothing was handed on.
ChunkInv ==
  /\ first_frame => base + skip + firstLen <= devpos
  /\ ~first_frame /\ alive => taken = 0 /\ m_rxevbuf = <<>>

\* How the place of the boardctl thread relates what was taken to what was
\* sent; between its two calls the buffer can only grow.
BoardInv ==
  /\ board \in {"poll", "remove"} => taken = sent * DATA_PALOAD_LEN
  /\ board = "remove" => Len(m_rxevbuf) >= DATA_PALOAD_LEN

\* The parts of StreamAccounted from which TailMissing follows.
HandedOn == TypeOK /\ StreamInOrder /\ AsManyHanded /\ PayloadsTile

\* The inductive invariant: the named parts of the run's invariants with
\* what relates them to the place of each thread.
IInv == HandedOn /\ SyncIsHeader /\ ChunkInv /\ BoardInv
-----------------------------------------------------------------------------
(* Which bytes have been handed on follows from how many, and from where   *)
(* the first chunk lies.                                                   *)

\* The places of a stream of d bytes whose first chunk begins at b, has f
\* bytes handed on and the next s left out.
Place(t, b, s, f) == IF t < f THEN b + t ELSE b + s + t
Kept(d, b, s, f) == (b .. d - 1) \ (b + f .. b + f + s - 1)

LEMMA PlacesKept ==
  ASSUME NEW d \in Nat, NEW b \in Nat, NEW s \in Nat, NEW f \in Nat, NEW l,
         l = d - (b + s), b + s + f <= d
  PROVE  /\ \A t \in 0 .. l - 1 : Place(t, b, s, f) \in Kept(d, b, s, f)
         /\ \A p \in Kept(d, b, s, f) :
              \E t \in 0 .. l - 1 : p = Place(t, b, s, f)
<1>0. l \in Nat /\ f <= l
  OBVIOUS
<1>1. ASSUME NEW t \in 0 .. l - 1
      PROVE  Place(t, b, s, f) \in Kept(d, b, s, f)
  <2>1. t \in Nat /\ t < l
    BY <1>0
  <2>2. CASE t < f
    BY <1>0, <2>1, <2>2 DEF Place, Kept
  <2>3. CASE ~ (t < f)
    <3>1. f <= t /\ b + s + t < d
      BY <1>0, <2>1, <2>3
    <3> QED
      BY <1>0, <2>1, <2>3, <3>1 DEF Place, Kept
  <2> QED
    BY <2>2, <2>3
<1>2. ASSUME NEW p \in Kept(d, b, s, f)
      PROVE  \E t \in 0 .. l - 1 : p = Place(t, b, s, f)
  <2>1. CASE p < b + f
    <3>1. p - b \in 0 .. l - 1 /\ p - b < f /\ b + (p - b) = p
      BY <1>0, <2>1 DEF Kept
    <3> QED
      BY <3>1 DEF Place
  <2>2. CASE ~ (p < b + f)
    <3>1. p >= b + f + s
      BY <2>2 DEF Kept
    <3>2. /\ p - (b + s) \in 0 .. l - 1 /\ ~ (p - (b + s) < f)
          /\ b + s + (p - (b + s)) = p
      BY <1>0, <3>1 DEF Kept
    <3> QED
      BY <3>2 DEF Place
  <2> QED
    BY <2>1, <2>2
<1> QED
  BY <1>1, <1>2

LEMMA MissingFollows ==
  ASSUME TypeOK, ChunkInv, AsManyHanded PROVE TailMissing
<1> SUFFICES ASSUME alive, first_frame
             PROVE  {OutPos(t) : t \in 0 .. taken + Len(m_rxevbuf) - 1}
                      = (base .. devpos - 1)
                          \ (base + firstLen .. base + firstLen + skip - 1)
  BY DEF TailMissing
<1>1. /\ devpos \in Nat /\ base \in Nat /\ skip \in Nat /\ firstLen \in Nat
      /\ taken \in Nat /\ Len(m_rxevbuf) \in Nat
      /\ taken + Len(m_rxevbuf) = devpos - (base + skip)
      /\ base + skip + firstLen <= devpos
  BY SizeAssumption DEF TypeOK, Pos, ChunkInv, AsManyHanded
<1>2. PICK d, b, s, f, l : /\ d = devpos /\ b = base /\ s = skip /\ f = firstLen
                           /\ l = taken + Len(m_rxevbuf)
  OBVIOUS
<1>3. /\ d \in Nat /\ b \in Nat /\ s \in Nat /\ f \in Nat
      /\ l = d - (b + s) /\ b + s + f <= d
  BY <1>1, <1>2
<1>4. /\ \A t \in 0 .. l - 1 : Place(t, b, s, f) \in Kept(d, b, s, f)
      /\ \A p \in Kept(d, b, s, f) :
           \E t \in 0 .. l - 1 : p = Place(t, b, s, f)
  BY <1>3, PlacesKept
<1>5. \A t : OutPos(t) = Place(t, b, s, f)
  BY <1>2 DEF OutPos, Place
<1>6. {OutPos(t) : t \in 0 .. l - 1} = Kept(d, b, s, f)
  BY <1>4, <1>5, Zenon
<1>7. 0 .. l - 1 = 0 .. taken + Len(m_rxevbuf) - 1
  BY <1>1, <1>2
<1>8. {OutPos(t) : t \in 0 .. taken + Len(m_rxevbuf) - 1} = Kept(d, b, s, f)
  BY <1>6, <1>7, Zenon
<1> QED
  BY <1>2, <1>8 DEF Kept
-----------------------------------------------------------------------------
(* The scan.                                                               *)

\* The cells of the read buffer after a read of n bytes.
ReadInto(n) == [i \in Cells |-> IF i < n THEN devpos + i ELSE readdata[i]]

LEMMA LeastNatural ==
  ASSUME NEW S, S \subseteq Nat, S # {}
  PROVE  \E m \in S : \A l \in S : m <= l
<1> DEFINE R == OpToRel(<, Nat)
<1>1. IsWellFoundedOn(R, Nat)
  BY NatLessThanWellFounded
<1>2. \A l, k \in Nat : <<l, k>> \in R <=> l < k
  BY DEF OpToRel
<1> HIDE DEF R
<1>3. PICK m \in S : \A l \in S : ~ (<<l, m>> \in R)
  BY <1>1, WFMin
<1>4. \A l \in S : ~ (l < m)
  BY <1>2, <1>3, Zenon
<1>5. \A l \in S : l \in Nat
  OBVIOUS
<1> QED
  BY <1>4, <1>5

\* When some even place of the chunk matches, the scan returns one.
LEMMA IndexFound ==
  ASSUME NEW rd, NEW n \in Nat, Found(rd, n) # {}
  PROVE  IndexOf(rd, n) \in Found(rd, n)
<1>1. Found(rd, n) \subseteq Nat
  BY DEF Found
<1>2. \E m \in Found(rd, n) : \A l \in Found(rd, n) : m <= l
  BY <1>1, LeastNatural
<1> QED
  BY <1>2, Zenon DEF IndexOf

\* The buffer after a read of n bytes, and what a place that matches is.
LEMMA ReadIntoFacts ==
  ASSUME TypeOK, NEW n \in 1 .. EIMUNIT_LEN, devpos + n <= StreamLen
  PROVE  /\ ReadInto(n) \in [Cells -> Pos]
         /\ \A i \in 0 .. n - 1 : ReadInto(n)[i] = devpos + i
         /\ \A i \in 0 .. n - 1 :
              Content(ReadInto(n)[i]) = stream[devpos + i]
<1> USE SizeAssumption DEF TypeOK, Pos, Cells
<1>1. ReadInto(n) \in [Cells -> Pos]
  BY DEF ReadInto
<1>2. \A i \in 0 .. n - 1 : ReadInto(n)[i] = devpos + i
  BY DEF ReadInto
<1>3. \A i \in 0 .. n - 1 : devpos + i # Zero
  BY DEF Zero
<1> QED
  BY <1>1, <1>2, <1>3 DEF Content

\* A scan that found something found it at an even place of the chunk, and
\* those of the four bytes that lie in the chunk are a header's.
LEMMA ScanFinds ==
  ASSUME TypeOK, NEW n \in 1 .. EIMUNIT_LEN, devpos + n <= StreamLen,
         Found(ReadInto(n), n) # {}
  PROVE  LET k == IndexOf(ReadInto(n), n) IN
         /\ k \in Nat /\ 2 * k < n
         /\ \A j \in 1 .. 4 :
              2 * k + j <= n => stream[devpos + 2 * k + j - 1] = Header[j]
<1> DEFINE k == IndexOf(ReadInto(n), n)
<1>1. k \in Found(ReadInto(n), n)
  BY IndexFound, SizeAssumption
<1> HIDE DEF k
<1>2. k \in Nat /\ 2 * k < n /\ Matches(ReadInto(n), k)
  BY <1>1, SizeAssumption DEF Found
<1>3. ASSUME NEW j \in 1 .. 4, 2 * k + j <= n
      PROVE  stream[devpos + 2 * k + j - 1] = Header[j]
  <2> DEFINE i == 2 * k + j - 1
  <2>1. i \in 0 .. n - 1
    BY <1>2, <1>3, SizeAssumption
  <2>2. Content(ReadInto(n)[i]) = Header[j]
    BY <1>2 DEF Matches
  <2>3. Content(ReadInto(n)[i]) = stream[devpos + i]
    BY <2>1, ReadIntoFacts
  <2>4. devpos + i = devpos + 2 * k + j - 1
    BY <1>2, SizeAssumption DEF TypeOK, Pos
  <2> QED
    BY <2>2, <2>3, <2>4
<1> QED
  BY <1>2, <1>3 DEF k
-----------------------------------------------------------------------------
LEMMA InitIInv == Init => IInv
<1> SUFFICES ASSUME Init PROVE IInv
  OBVIOUS
<1>1. TypeOK
  <2>1. readdata \in [Cells -> Pos] /\ capdata \in [1 .. DATA_PALOAD_LEN -> Pos]
    BY SizeAssumption DEF Init, Zero, Pos
  <2>2. m_rxevbuf \in Seq(Pos)
    BY DEF Init
  <2>3. stream \in Streams /\ devpos \in Pos /\ board \in {"poll", "remove", "send"}
    BY SizeAssumption DEF Init, Pos
  <2>4. /\ first_frame \in BOOLEAN /\ alive \in BOOLEAN
        /\ base \in Nat /\ skip \in Nat /\ firstLen \in Nat
        /\ taken \in Nat /\ sent \in Nat
    BY DEF Init
  <2> QED
    BY <2>1, <2>2, <2>3, <2>4, Zenon DEF TypeOK
<1>2. Len(m_rxevbuf) = 0
  BY DEF Init
<1>3. StreamInOrder /\ AsManyHanded /\ PayloadsTile /\ SyncIsHeader
  BY <1>2 DEF Init, StreamInOrder, AsManyHanded, PayloadsTile, SyncIsHeader
<1>4. ChunkInv /\ BoardInv
  BY SizeAssumption DEF Init, ChunkInv, BoardInv
<1> QED
  BY <1>1, <1>3, <1>4 DEF IInv, HandedOn

\* What is handed on of a chunk is its front.
LEMMA HandedFacts ==
  ASSUME TypeOK, NEW n \in 1 .. EIMUNIT_LEN, devpos + n <= StreamLen,
         NEW index \in Nat, 2 * index <= n
  PROVE  LET h == Handed(ReadInto(n), n, index) IN
         /\ h \in Seq(Pos)
         /\ Len(h) = n - 2 * index
         /\ \A i \in 1 .. n - 2 * index : h[i] = devpos + i - 1
<1> DEFINE m == n - 2 * index
           rd == ReadInto(n)
           h == [i \in 1 .. m |-> rd[i - 1]]
<1>1. m \in Nat /\ m <= n
  BY SizeAssumption
<1>2. \A i \in 0 .. n - 1 : rd[i] = devpos + i /\ rd[i] \in Pos
  <2>1. \A i \in 0 .. n - 1 : i \in Cells
    BY SizeAssumption DEF Cells
  <2> QED
    BY <2>1, ReadIntoFacts
<1> HIDE DEF m, rd
<1>3. \A i \in 1 .. m : rd[i - 1] = devpos + i - 1 /\ rd[i - 1] \in Pos
  BY <1>1, <1>2, SizeAssumption DEF TypeOK, Pos
<1>4. h \in [1 .. m -> Pos]
  BY <1>3
<1>5. h \in Seq(Pos) /\ Len(h) = m
  BY <1>1, <1>4
<1> QED
  BY <1>3, <1>5 DEF Handed, m, rd

\* What the arithmetic of a step needs of the types.
LEMMA Scalars ==
  ASSUME TypeOK
  PROVE  /\ devpos \in Nat /\ base \in Nat /\ skip \in Nat /\ firstLen \in Nat
         /\ taken \in Nat /\ sent \in Nat /\ Len(m_rxevbuf) \in Nat
BY SizeAssumption DEF TypeOK, Pos

\* What continues the outgoing stream goes to the end of the buffer, which
\* then still holds a piece of that stream.
LEMMA GrowInOrder ==
  ASSUME TypeOK, StreamInOrder, NEW h \in Seq(Pos),
         \A i \in 1 .. Len(h) : h[i] = OutPos(taken + Len(m_rxevbuf) + i - 1)
  PROVE  LET buf == m_rxevbuf \o h IN
         /\ buf \in Seq(Pos) /\ Len(buf) = Len(m_rxevbuf) + Len(h)
         /\ \A i \in 1 .. Len(buf) : buf[i] = OutPos(taken + i - 1)
<1> DEFINE buf == m_rxevbuf \o h
<1>0. m_rxevbuf \in Seq(Pos) /\ taken \in Nat
  BY DEF TypeOK
<1>1. buf \in Seq(Pos) /\ Len(buf) = Len(m_rxevbuf) + Len(h)
  BY <1>0
<1>2. ASSUME NEW i \in 1 .. Len(buf), i <= Len(m_rxevbuf)
      PROVE  buf[i] = OutPos(taken + i - 1)
  <2>1. buf[i] = m_rxevbuf[i] /\ i \in 1 .. Len(m_rxevbuf)
    BY <1>0, <1>2
  <2> QED
    BY <2>1 DEF StreamInOrder
<1>3. ASSUME NEW i \in 1 .. Len(buf), i > Len(m_rxevbuf)
      PROVE  buf[i] = OutPos(taken + i - 1)
  <2> DEFINE j == i - Len(m_rxevbuf)
  <2>1. j \in 1 .. Len(h) /\ buf[i] = h[j]
    BY <1>0, <1>1, <1>3
  <2>2. taken + Len(m_rxevbuf) + j - 1 = taken + i - 1
    BY <1>0, <1>1
  <2> QED
    BY <2>1, <2>2
<1>4. \A i \in 1 .. Len(buf) : i <= Len(m_rxevbuf) \/ i > Len(m_rxevbuf)
  BY <1>0, <1>1
<1> QED
  BY <1>1, <1>2, <1>3, <1>4
-----------------------------------------------------------------------------
(* The EIM thread's steps.                                                 *)

\* A read after the first header: the whole chunk is handed on.
LEMMA ReadInSync ==
  ASSUME IInv, alive, NEW n \in 1 .. EIMUNIT_LEN, EimRead(n), first_frame
  PROVE  IInv'
<1> DEFINE h == Handed(ReadInto(n), n, 0)
<1>0. TypeOK /\ devpos + n <= StreamLen /\ n \in Nat \ {0}
  BY SizeAssumption DEF IInv, HandedOn, EimRead
<1>1. /\ devpos' = devpos + n /\ readdata' = ReadInto(n)
      /\ m_rxevbuf' = m_rxevbuf \o h
      /\ UNCHANGED <<stream, first_frame, base, skip, firstLen, boardVars, alive>>
  <2>1. 2 * 0 <= n
    BY SizeAssumption
  <2> QED
    BY <2>1, Zenon DEF EimRead, ReadInto
<1>2. h \in Seq(Pos) /\ Len(h) = n /\ \A i \in 1 .. n : h[i] = devpos + i - 1
  <2>1. 0 \in Nat /\ 2 * 0 <= n /\ n - 2 * 0 = n
    BY SizeAssumption
  <2> QED
    BY <1>0, <2>1, HandedFacts
<1> HIDE DEF h
<1>3. /\ taken + Len(m_rxevbuf) = devpos - (base + skip)
      /\ base + skip + firstLen <= devpos
  BY DEF IInv, HandedOn, AsManyHanded, ChunkInv
<1>4. \A i \in 1 .. Len(h) : h[i] = OutPos(taken + Len(m_rxevbuf) + i - 1)
  <2> SUFFICES ASSUME NEW i \in 1 .. n
               PROVE  h[i] = OutPos(taken + Len(m_rxevbuf) + i - 1)
    BY <1>2
  <2>1. h[i] = devpos + i - 1
    BY <1>2
  <2>2. ~ (taken + Len(m_rxevbuf) + i - 1 < firstLen)
    BY <1>0, <1>3, Scalars
  <2>3. base + skip + (taken + Len(m_rxevbuf) + i - 1) = devpos + i - 1
    <3>1. /\ devpos \in Nat /\ base \in Nat /\ skip \in Nat /\ taken \in Nat
          /\ Len(m_rxevbuf) \in Nat
      BY <1>0, Scalars
    <3> DEFINE l == Len(m_rxevbuf)
    <3>2. l \in Nat /\ taken + l = devpos - (base + skip)
      BY <1>3, <3>1
    <3> HIDE DEF l
    <3>3. base + skip + (taken + l + i - 1) = devpos + i - 1
      BY <3>1, <3>2
    <3> QED
      BY <3>3 DEF l
  <2> QED
    BY <2>1, <2>2, <2>3 DEF OutPos
<1>5. /\ m_rxevbuf' \in Seq(Pos) /\ Len(m_rxevbuf') = Len(m_rxevbuf) + n
      /\ \A i \in 1 .. Len(m_rxevbuf') : m_rxevbuf'[i] = OutPos(taken + i - 1)
  <2>1. StreamInOrder
    BY DEF IInv, HandedOn
  <2>2. LET buf == m_rxevbuf \o h IN
        /\ buf \in Seq(Pos) /\ Len(buf) = Len(m_rxevbuf) + Len(h)
        /\ \A i \in 1 .. Len(buf) : buf[i] = OutPos(taken + i - 1)
    BY <1>0, <1>2, <1>4, <2>1, GrowInOrder
  <2> QED
    BY <1>1, <1>2, <2>2, Zenon
<1>6. TypeOK'
  <2>1. devpos' \in Pos /\ readdata' \in [Cells -> Pos]
    BY <1>0, <1>1, ReadIntoFacts, SizeAssumption DEF TypeOK, Pos
  <2> QED
    BY <1>0, <1>1, <1>5, <2>1 DEF TypeOK, boardVars
<1>7. StreamInOrder'
  BY <1>1, <1>5 DEF StreamInOrder, OutPos, boardVars
<1>8. AsManyHanded' /\ ChunkInv'
  <2>0. taken' = taken /\ devpos' = devpos + n
    BY <1>1, Zenon DEF boardVars
  <2>a. Len(m_rxevbuf') = Len(m_rxevbuf) + n
    BY <1>5, Zenon
  <2>1. taken' + Len(m_rxevbuf') = devpos' - (base + skip)
    <3>1. /\ devpos \in Nat /\ base \in Nat /\ skip \in Nat /\ taken \in Nat
          /\ Len(m_rxevbuf) \in Nat /\ n \in Nat
      BY <1>0, Scalars
    <3> QED
      BY <1>3, <2>0, <2>a, <3>1
  <2>2. base + skip + firstLen <= devpos'
    BY <1>0, <1>1, <1>3, Scalars
  <2>3. first_frame' /\ base' = base /\ skip' = skip /\ firstLen' = firstLen
    BY <1>1
  <2>4. AsManyHanded'
    BY <2>1, <2>3 DEF AsManyHanded
  <2>5. ChunkInv'
    BY <2>2, <2>3 DEF ChunkInv
  <2> QED
    BY <2>4, <2>5
<1>9. PayloadsTile' /\ SyncIsHeader'
  <2>1. PayloadsTile /\ SyncIsHeader
    BY DEF IInv, HandedOn
  <2>2. UNCHANGED <<stream, first_frame, base, skip, firstLen, taken, board,
                    capdata, sent>>
    BY <1>1 DEF boardVars
  <2> QED
    BY <2>1, <2>2 DEF PayloadsTile, SyncIsHeader, OutPos
<1>10. BoardInv'
  BY <1>0, <1>1, <1>5, SizeAssumption DEF IInv, BoardInv, TypeOK, boardVars
<1> QED
  BY <1>6, <1>7, <1>8, <1>9, <1>10 DEF IInv, HandedOn

\* The read with the first header: the buffer was empty, and the front of
\* the chunk, as long as what follows the header, is handed on.
LEMMA ReadSyncs ==
  ASSUME IInv, alive, NEW n \in 1 .. EIMUNIT_LEN, EimRead(n), ~first_frame,
         Found(ReadInto(n), n) # {}
  PROVE  IInv'
<1> DEFINE k == IndexOf(ReadInto(n), n)
           h == Handed(ReadInto(n), n, k)
<1>0. TypeOK /\ devpos + n <= StreamLen /\ n \in Nat \ {0}
  BY SizeAssumption DEF IInv, HandedOn, EimRead
<1>1. /\ k \in Nat /\ 2 * k < n
      /\ \A j \in 1 .. 4 :
           2 * k + j <= n => stream[devpos + 2 * k + j - 1] = Header[j]
  BY <1>0, ScanFinds
<1>2. /\ h \in Seq(Pos) /\ Len(h) = n - 2 * k
      /\ \A i \in 1 .. n - 2 * k : h[i] = devpos + i - 1
  <2>1. 2 * k <= n
    BY <1>0, <1>1
  <2> QED
    BY <1>0, <1>1, <2>1, HandedFacts
<1>3. /\ devpos' = devpos + n /\ readdata' = ReadInto(n)
      /\ first_frame' /\ base' = devpos /\ skip' = 2 * k /\ firstLen' = n - 2 * k
      /\ m_rxevbuf' = m_rxevbuf \o h
      /\ UNCHANGED <<stream, boardVars, alive>>
  <2>1. 2 * k <= n
    BY <1>0, <1>1
  <2> QED
    BY <2>1, Zenon DEF EimRead, ReadInto
<1> HIDE DEF h, k
<1>4. taken = 0 /\ m_rxevbuf = <<>>
  BY DEF IInv, ChunkInv
<1>5. m_rxevbuf' = h /\ taken' = 0
  BY <1>2, <1>3, <1>4 DEF boardVars
<1>6. devpos \in Nat /\ n - 2 * k \in Nat /\ n - 2 * k <= n
  <2>1. devpos \in Nat
    BY <1>0, Scalars
  <2>2. n \in Nat /\ k \in Nat /\ 2 * k < n
    BY <1>0, <1>1
  <2> QED
    BY <2>1, <2>2
<1>7. TypeOK'
  <2>1. devpos' \in Pos /\ readdata' \in [Cells -> Pos]
    BY <1>0, <1>3, ReadIntoFacts, SizeAssumption DEF TypeOK, Pos
  <2>2. base' \in Nat /\ skip' \in Nat /\ firstLen' \in Nat
    BY <1>1, <1>3, <1>6
  <2> QED
    BY <1>0, <1>2, <1>3, <1>5, <2>1, <2>2 DEF TypeOK, boardVars
<1>8. StreamInOrder'
  <2> SUFFICES ASSUME NEW i \in 1 .. n - 2 * k
               PROVE  h[i] = (OutPos(taken + i - 1))'
    BY <1>2, <1>5 DEF StreamInOrder
  <2>1. 0 + i - 1 = i - 1 /\ i - 1 < n - 2 * k /\ h[i] = devpos + (i - 1)
    BY <1>2, <1>6
  <2>2. taken' + i - 1 = i - 1
    BY <1>5, <2>1
  <2> QED
    BY <1>3, <2>1, <2>2 DEF OutPos
<1>9. AsManyHanded' /\ ChunkInv'
  <2>1. 0 + (n - 2 * k) = (devpos + n) - (devpos + 2 * k)
    BY <1>0, <1>1, <1>6
  <2>2. devpos + 2 * k + (n - 2 * k) <= devpos + n
    BY <1>0, <1>1, <1>6
  <2>3. AsManyHanded'
    BY <1>2, <1>3, <1>5, <2>1 DEF AsManyHanded
  <2> QED
    BY <1>3, <2>2, <2>3 DEF ChunkInv
<1>10. board # "send" /\ board # "remove" /\ board' = board /\ sent' = sent
  <2>1. Len(m_rxevbuf) = 0
    BY <1>4
  <2>2. board # "remove"
    BY <2>1, SizeAssumption DEF IInv, BoardInv
  <2>3. taken # (sent + 1) * DATA_PALOAD_LEN
    BY <1>0, <1>4, Scalars, SizeAssumption
  <2> QED
    BY <1>3, <2>2, <2>3 DEF IInv, HandedOn, PayloadsTile, boardVars
<1>11. PayloadsTile' /\ BoardInv'
  <2>1. taken' = taken
    BY <1>3 DEF boardVars
  <2> QED
    BY <1>10, <2>1 DEF IInv, BoardInv, PayloadsTile
<1>12. SyncIsHeader'
  <2> SUFFICES ASSUME n - 2 * k >= Len(Header), NEW j \in 1 .. Len(Header)
               PROVE  stream[devpos + 2 * k + j - 1] = Header[j]
    BY <1>3 DEF SyncIsHeader
  <2>1. j \in 1 .. 4 /\ n - 2 * k >= 4
    BY DEF Header
  <2>2. 2 * k + j <= n
    BY <1>0, <1>1, <2>1
  <2> QED
    BY <1>1, <2>1, <2>2
<1> QED
  BY <1>7, <1>8, <1>9, <1>11, <1>12 DEF IInv, HandedOn

\* A read of which nothing is handed on, whether or not the process survives
\* it, leaves the two streams as they are.
LEMMA NothingHanded ==
  ASSUME IInv, alive, alive' \in BOOLEAN,
         devpos' \in Pos, readdata' \in [Cells -> Pos],
         first_frame => devpos' = devpos,
         UNCHANGED <<stream, first_frame, base, skip, firstLen, m_rxevbuf, boardVars>>
  PROVE  IInv'
<1>1. TypeOK'
  BY DEF IInv, HandedOn, TypeOK, boardVars
<1>2. UNCHANGED <<taken, board, capdata, sent>>
  BY DEF boardVars
<1>3. StreamInOrder' /\ PayloadsTile' /\ SyncIsHeader' /\ BoardInv'
  <2>1. StreamInOrder /\ PayloadsTile /\ SyncIsHeader /\ BoardInv
    BY DEF IInv, HandedOn
  <2> QED
    BY <1>2, <2>1 DEF StreamInOrder, PayloadsTile, SyncIsHeader, BoardInv, OutPos
<1>4. AsManyHanded' /\ ChunkInv'
  <2>1. AsManyHanded /\ ChunkInv
    BY DEF IInv, HandedOn
  <2>2. CASE first_frame
    BY <1>2, <2>1, <2>2 DEF AsManyHanded, ChunkInv
  <2>3. CASE ~first_frame
    BY <1>2, <2>1, <2>3 DEF AsManyHanded, ChunkInv
  <2> QED
    BY <2>2, <2>3
<1> QED
  BY <1>1, <1>3, <1>4 DEF IInv, HandedOn

\* A scan that finds nothing: an even chunk is used up to its end, an odd
\* one makes the length wrap around.
LEMMA ReadMisses ==
  ASSUME IInv, alive, NEW n \in 1 .. EIMUNIT_LEN, EimRead(n), ~first_frame,
         Found(ReadInto(n), n) = {}
  PROVE  IInv'
<1> DEFINE index == (n + 1) \div 2
           h == Handed(ReadInto(n), n, index)
<1>0. TypeOK /\ devpos + n <= StreamLen /\ n \in Nat \ {0}
  BY SizeAssumption DEF IInv, HandedOn, EimRead
<1>1. index \in Nat /\ (2 * index <= n => n - 2 * index = 0)
  BY <1>0
<1>2. IndexOf(ReadInto(n), n) = index
  BY DEF IndexOf
<1>3. /\ devpos' = devpos + n /\ readdata' = ReadInto(n)
      /\ UNCHANGED <<stream, first_frame, base, skip, firstLen, boardVars>>
      /\ IF 2 * index <= n THEN m_rxevbuf' = m_rxevbuf \o h /\ UNCHANGED alive
                           ELSE SubmitHuge
  <2> HIDE DEF index
  <2> QED
    BY <1>2, Zenon DEF EimRead, ReadInto
<1>4. m_rxevbuf' = m_rxevbuf /\ alive' \in BOOLEAN
  <2>1. CASE 2 * index <= n
    <3>1. h \in Seq(Pos) /\ Len(h) = 0
      BY <1>0, <1>1, <2>1, HandedFacts
    <3>2. m_rxevbuf \in Seq(Pos) /\ alive \in BOOLEAN
      BY <1>0 DEF TypeOK
    <3> HIDE DEF index, h
    <3>3. h = <<>>
      BY <3>1
    <3> QED
      BY <1>3, <2>1, <3>2, <3>3
  <2>2. CASE ~ (2 * index <= n)
    BY <1>3, <2>2 DEF SubmitHuge
  <2> QED
    BY <2>1, <2>2
<1>5. devpos' \in Pos /\ readdata' \in [Cells -> Pos]
  BY <1>0, <1>3, ReadIntoFacts, SizeAssumption DEF TypeOK, Pos
<1> QED
  BY <1>3, <1>4, <1>5, NothingHanded

\* A read that fails: when the process survives it, the search for a header
\* ends, and the outgoing stream begins at the reader's place.
LEMMA ReadFails ==
  ASSUME IInv, alive, EimReadError
  PROVE  IInv'
<1>0. /\ TypeOK /\ alive' \in BOOLEAN
      /\ UNCHANGED <<stream, devpos, readdata, m_rxevbuf, boardVars>>
  BY DEF IInv, HandedOn, EimReadError, SubmitHuge
<1>1. CASE first_frame \/ ~alive'
  <2>1. UNCHANGED <<first_frame, base, skip, firstLen>>
    BY <1>1 DEF EimReadError
  <2>2. devpos' \in Pos /\ readdata' \in [Cells -> Pos]
    BY <1>0 DEF TypeOK
  <2> QED
    BY <1>0, <2>1, <2>2, NothingHanded
<1>2. CASE ~first_frame /\ alive'
  <2>1. first_frame' /\ base' = devpos /\ skip' = 0 /\ firstLen' = 0
    BY <1>2 DEF EimReadError
  <2>2. taken = 0 /\ m_rxevbuf = <<>>
    BY <1>2 DEF IInv, ChunkInv
  <2>3. UNCHANGED <<taken, board, capdata, sent>>
    BY <1>0 DEF boardVars
  <2>4. devpos \in Nat
    BY <1>0, Scalars
  <2>5. TypeOK'
    BY <1>0, <2>1, <2>3, <2>4 DEF TypeOK
  <2>6. StreamInOrder' /\ AsManyHanded' /\ ChunkInv'
    <3>1. m_rxevbuf' = <<>> /\ taken' = 0 /\ devpos' = devpos
      BY <1>0, <2>2, <2>3
    <3>2. Len(<<>>) = 0 /\ devpos + 0 + 0 <= devpos /\ 0 + 0 = devpos - (devpos + 0)
      BY <2>4
    <3> QED
      BY <2>1, <3>1, <3>2 DEF StreamInOrder, AsManyHanded, ChunkInv
  <2>7. board # "send" /\ BoardInv'
    <3>1. taken # (sent + 1) * DATA_PALOAD_LEN
      BY <1>0, <2>2, Scalars, SizeAssumption
    <3> QED
      BY <1>0, <2>3, <3>1 DEF IInv, HandedOn, PayloadsTile, BoardInv
  <2>8. PayloadsTile' /\ SyncIsHeader'
    BY <2>1, <2>3, <2>7 DEF PayloadsTile, SyncIsHeader, Header
  <2> QED
    BY <2>5, <2>6, <2>7, <2>8 DEF IInv, HandedOn
<1> QED
  BY <1>0, <1>1, <1>2
-----------------------------------------------------------------------------
(* The boardctl thread's steps.                                            *)

\* A step that only moves the boardctl thread.
LEMMA BoardMoves ==
  ASSUME IInv, BoardPoll \/ BoardSend
  PROVE  IInv'
<1>0. TypeOK /\ UNCHANGED <<eimVars, m_rxevbuf, taken, capdata, alive>>
  BY DEF IInv, HandedOn, BoardPoll, BoardSend
<1>1. UNCHANGED <<stream, devpos, readdata, first_frame, base, skip, firstLen>>
  BY <1>0 DEF eimVars
<1>2. StreamInOrder' /\ AsManyHanded' /\ SyncIsHeader' /\ ChunkInv'
  <2>1. StreamInOrder /\ AsManyHanded /\ SyncIsHeader /\ ChunkInv
    BY DEF IInv, HandedOn
  <2> QED
    BY <1>0, <1>1, <2>1
       DEF StreamInOrder, AsManyHanded, SyncIsHeader, ChunkInv, OutPos
<1>3. CASE BoardPoll
  <2>1. TypeOK' /\ PayloadsTile'
    BY <1>0, <1>1, <1>3 DEF TypeOK, BoardPoll, PayloadsTile
  <2>2. BoardInv'
    BY <1>3 DEF IInv, BoardPoll, BoardInv
  <2> QED
    BY <1>2, <2>1, <2>2 DEF IInv, HandedOn
<1>4. CASE BoardSend
  <2>1. sent' = sent + 1 /\ board' = "poll" /\ board = "send"
    BY <1>4 DEF BoardSend
  <2>2. sent' \in Nat
    BY <1>0, <2>1 DEF TypeOK
  <2>3. TypeOK' /\ PayloadsTile'
    BY <1>0, <1>1, <2>1, <2>2 DEF TypeOK, PayloadsTile
  <2>4. BoardInv'
    BY <1>0, <2>1 DEF IInv, HandedOn, PayloadsTile, BoardInv
  <2> QED
    BY <1>2, <2>3, <2>4 DEF IInv, HandedOn
<1> QED
  BY <1>3, <1>4

\* The remove finds at least the payload that the poll saw.
LEMMA BoardRemoves ==
  ASSUME IInv, alive, BoardRemove
  PROVE  IInv'
<1> DEFINE P == DATA_PALOAD_LEN
           rest == SubSeq(m_rxevbuf, P + 1, Len(m_rxevbuf))
<1>0. TypeOK /\ board = "remove" /\ P \in Nat \ {0}
  BY SizeAssumption DEF IInv, HandedOn, BoardRemove
<1>1. /\ Len(m_rxevbuf) \in Nat /\ Len(m_rxevbuf) >= P
      /\ taken = sent * P /\ taken \in Nat /\ sent \in Nat
  BY <1>0, Scalars DEF IInv, BoardInv
<1>2. /\ capdata' = [i \in 1 .. P |-> IF i <= P THEN m_rxevbuf[i] ELSE capdata[i]]
      /\ m_rxevbuf' = rest
      /\ taken' = taken + P
      /\ board' = "send"
      /\ UNCHANGED <<stream, devpos, readdata, first_frame, base, skip,
                    firstLen, sent, alive>>
  <2>1. ~ (Len(m_rxevbuf) < P) \/ Len(m_rxevbuf) = P
    BY <1>0, <1>1
  <2> QED
    BY <2>1, Zenon DEF BoardRemove, eimVars
<1> HIDE DEF P
<1>3. \A i \in 1 .. P : capdata'[i] = m_rxevbuf[i] /\ i \in 1 .. Len(m_rxevbuf)
  BY <1>0, <1>1, <1>2
<1>4. m_rxevbuf \in Seq(Pos)
  BY <1>0 DEF TypeOK
<1>5. /\ rest \in Seq(Pos) /\ Len(rest) = Len(m_rxevbuf) - P
      /\ \A i \in 1 .. Len(rest) :
           rest[i] = m_rxevbuf[P + i] /\ P + i \in 1 .. Len(m_rxevbuf)
  <2>1. \A i \in P + 1 .. Len(m_rxevbuf) : i \in 1 .. Len(m_rxevbuf)
    BY <1>0, <1>1
  <2>2. \A i \in P + 1 .. Len(m_rxevbuf) : m_rxevbuf[i] \in Pos
    BY <1>4, <2>1
  <2>3. Len(m_rxevbuf) - (P + 1) + 1 = Len(m_rxevbuf) - P
    BY <1>0, <1>1
  <2>4. rest \in Seq(Pos) /\ Len(rest) = Len(m_rxevbuf) - P
    BY <1>0, <1>1, <2>2
  <2>5. ASSUME NEW i \in 1 .. Len(rest)
        PROVE  rest[i] = m_rxevbuf[P + i] /\ P + i \in 1 .. Len(m_rxevbuf)
    <3> HIDE DEF rest
    <3>1. i \in Nat /\ 1 <= i /\ P + i <= Len(m_rxevbuf) /\ (P + 1) + i - 1 = P + i
      BY <1>0, <1>1, <2>4
    <3>2. rest[i] = m_rxevbuf[(P + 1) + i - 1]
      BY <1>0, <1>1, <3>1 DEF rest
    <3> QED
      BY <1>0, <1>1, <3>1, <3>2
  <2> QED
    BY <2>4, <2>5
<1> HIDE DEF rest
<1>6. TypeOK'
  <2>1. capdata' \in [1 .. P -> Pos]
    <3>1. \A i \in 1 .. P : m_rxevbuf[i] \in Pos
      BY <1>3, <1>4
    <3> QED
      BY <1>2, <3>1
  <2>2. taken' \in Nat
    BY <1>0, <1>1, <1>2
  <2> QED
    BY <1>0, <1>2, <1>5, <2>1, <2>2 DEF TypeOK, P
<1>7. \A t : OutPos(t)' = OutPos(t)
  BY <1>2 DEF OutPos
<1>8. StreamInOrder'
  <2> SUFFICES ASSUME NEW i \in 1 .. Len(rest)
               PROVE  rest[i] = OutPos(taken + P + i - 1)
    BY <1>2 DEF StreamInOrder, OutPos
  <2>1. rest[i] = OutPos(taken + (P + i) - 1)
    BY <1>5 DEF IInv, HandedOn, StreamInOrder
  <2>2. taken + (P + i) - 1 = taken + P + i - 1
    BY <1>0, <1>1
  <2> QED
    BY <2>1, <2>2
<1>9. AsManyHanded' /\ ChunkInv'
  <2>1. taken' + Len(m_rxevbuf') = taken + Len(m_rxevbuf)
    BY <1>0, <1>1, <1>2, <1>5
  <2>2. AsManyHanded' /\ first_frame
    <3>1. first_frame
      <4>1. Len(m_rxevbuf) # 0
        BY <1>0, <1>1
      <4> QED
        BY <4>1 DEF IInv, ChunkInv
    <3> QED
      BY <1>2, <2>1, <3>1 DEF IInv, HandedOn, AsManyHanded
  <2> QED
    BY <1>2, <2>2 DEF IInv, ChunkInv
<1>10. PayloadsTile' /\ BoardInv'
  <2>1. taken + P = (sent + 1) * P
    BY <1>0, <1>1
  <2>2. ASSUME NEW i \in 1 .. P
        PROVE  capdata'[i] = OutPos(sent * P + i - 1)
    BY <1>1, <1>3 DEF IInv, HandedOn, StreamInOrder
  <2> QED
    BY <1>2, <2>1, <2>2 DEF PayloadsTile, BoardInv, OutPos, P
<1>11. SyncIsHeader'
  BY <1>2 DEF IInv, SyncIsHeader
<1> QED
  BY <1>6, <1>8, <1>9, <1>10, <1>11 DEF IInv, HandedOn
-----------------------------------------------------------------------------
LEMMA NextIInv == IInv /\ [Next]_vars => IInv'
<1>1. ASSUME IInv, alive, NEW n \in 1 .. EIMUNIT_LEN, EimRead(n) PROVE IInv'
  <2>1. first_frame \in BOOLEAN
    BY <1>1 DEF IInv, HandedOn, TypeOK
  <2> QED
    BY <1>1, <2>1, ReadInSync, ReadSyncs, ReadMisses
<1>2. ASSUME IInv, UNCHANGED vars PROVE IInv'
  BY <1>2 DEF IInv, HandedOn, TypeOK, StreamInOrder, AsManyHanded, PayloadsTile,
     SyncIsHeader, ChunkInv, BoardInv, OutPos, vars, eimVars, boardVars
<1> QED
  BY <1>1, <1>2, ReadFails, BoardMoves, BoardRemoves DEF Next, BoardStep

LEMMA Invariant == Spec => []IInv
BY InitIInv, NextIInv, PTL DEF Spec

\* However the device's stream is cut into reads, odd and failed ones
\* included, and however the two threads interleave: from the chunk of the
\* first header on, no byte is doubled or out of order on the way into the
\* payloads, and what is lost is the end of that chunk, as many bytes as the
\* header lies behind its beginning, and nothing else (eimdata.cpp
\* EIMDATA::sub_routine, boardctl.cpp).
THEOREM StreamStaysAccounted == Spec => []StreamAccounted
<1>1. IInv => StreamAccounted
  BY MissingFollows DEF IInv, HandedOn, StreamAccounted
<1> QED
  BY <1>1, Invariant, PTL

\* What the scan takes for a header is one, as far as its chunk reaches.
THEOREM SyncIsAlwaysHeader == Spec => []SyncIsHeader
<1>1. IInv => SyncIsHeader
  BY DEF IInv
<1> QED
  BY <1>1, Invariant, PTL

\* No header at an even place of a chunk is overlooked by its scan.
THEOREM NoHeaderOverlooked == Spec => FirstHeaderTaken
<1> DEFINE Overlooks(h) ==
      /\ ~first_frame /\ ~first_frame'
      /\ h + Len(Header) <= devpos'
      /\ (h - devpos) % 2 = 0
      /\ \A j \in 1 .. Len(Header) : stream[h + j - 1] = Header[j]
<1>1. ASSUME IInv, [Next]_vars, NEW h \in devpos .. devpos', Overlooks(h)
      PROVE  FALSE
  <2>0. TypeOK /\ devpos \in Nat /\ Len(Header) = 4
    BY <1>1, Scalars DEF IInv, HandedOn, Header
  <2>1. CASE UNCHANGED devpos
    BY <1>1, <2>0, <2>1
  <2>2. CASE \E n \in 1 .. EIMUNIT_LEN : EimRead(n)
    <3>1. PICK n \in 1 .. EIMUNIT_LEN : EimRead(n)
      BY <2>2
    <3>2. n \in Nat \ {0} /\ devpos' = devpos + n /\ devpos + n <= StreamLen
      BY <3>1, SizeAssumption DEF EimRead
    <3>3. Found(ReadInto(n), n) = {}
      BY <1>1, <3>1, Zenon DEF EimRead, ReadInto
    <3> DEFINE k == (h - devpos) \div 2
    <3>4. k \in 0 .. n - 1 /\ 2 * k + 4 <= n /\ h = devpos + 2 * k
      <4> DEFINE d == h - devpos
      <4>1. h \in Nat /\ devpos <= h /\ h + 4 <= devpos + n
        BY <1>1, <2>0, <3>2
      <4>2. d \in Nat /\ d + 4 <= n /\ h = devpos + d
        BY <2>0, <3>2, <4>1
      <4>3. d % 2 = 0
        BY <1>1
      <4> HIDE DEF d
      <4>4. d \div 2 \in Nat /\ d = 2 * (d \div 2)
        BY <4>2, <4>3
      <4>5. d \div 2 \in 0 .. n - 1 /\ 2 * (d \div 2) + 4 <= n
        BY <3>2, <4>2, <4>4
      <4> QED
        BY <4>2, <4>4, <4>5 DEF d
    <3> HIDE DEF k
    <3>5. ASSUME NEW j \in 1 .. 4
          PROVE  Content(ReadInto(n)[2 * k + j - 1]) = Header[j]
      <4>1. 2 * k + j - 1 \in 0 .. n - 1 /\ devpos + (2 * k + j - 1) = h + j - 1
        BY <2>0, <3>2, <3>4
      <4>2. stream[h + j - 1] = Header[j]
        BY <1>1, <2>0
      <4> QED
        BY <2>0, <3>2, <4>1, <4>2, ReadIntoFacts
    <3>6. k \in Found(ReadInto(n), n)
      BY <3>2, <3>4, <3>5 DEF Found, Matches
    <3> QED
      BY <3>3, <3>6
  <2> QED
    BY <1>1, <2>1, <2>2 DEF Next, EimReadError, BoardStep, BoardPoll, BoardRemove,
       BoardSend, eimVars, vars
<1>2. IInv /\ [Next]_vars =>
        [\A h \in devpos .. devpos' :
           /\ ~first_frame /\ ~first_frame'
           /\ h + Len(Header) <= devpos'
           /\ (h - devpos) % 2 = 0
           => \E j \in 1 .. Len(Header) : stream[h + j - 1] # Header[j]]_vars
  BY <1>1
<1> QED
  BY <1>2, Invariant, PTL DEF Spec, FirstHeaderTaken
=============================================================================
