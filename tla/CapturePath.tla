---------------------------- MODULE CapturePath ----------------------------
(***************************************************************************)
(* The way of the captured bytes: EIMDATA::sub_routine (eimdata.cpp) reads *)
(* the FPGA device in chunks and looks for the first frame header.  Of the *)
(* chunk it is in, it hands the front on to the buffer of boardctl, as     *)
(* many bytes as follow the header's place; then every chunk whole.  The   *)
(* boardctl thread (boardctl.cpp) cuts that buffer into payloads of        *)
(* DATA_PALOAD_LEN bytes.                                                  *)
(*                                                                         *)
(* A byte is known by its position in the device's stream, so that "which  *)
(* byte went where" can be asked; what the scan compares is its content.   *)
(***************************************************************************)
EXTENDS Naturals, Sequences

CONSTANTS
  EIMUNIT_LEN,      \* the most one read() returns
  DATA_PALOAD_LEN,  \* the bytes of one payload
  StreamLen,        \* bound: how many bytes the device delivers
  Streams           \* the contents it may deliver, each [0..StreamLen-1 -> 0..4]

\* The two 16-bit words of a frame header, EIMUNIT_HEADER and
\* EIMUNIT_HDRLEN, byte by byte; any other content is 0.
Header == <<1, 2, 3, 4>>

ASSUME SizeAssumption ==
  /\ EIMUNIT_LEN \in Nat \ {0}
  /\ DATA_PALOAD_LEN \in Nat \ {0}
  /\ StreamLen \in Nat
ASSUME StreamAssumption == Streams \subseteq [0 .. StreamLen - 1 -> 0 .. 4]

VARIABLES
  stream,       \* the content the device delivers in this run
  devpos,       \* how many bytes have been read from it
  readdata,     \* the static read buffer: the position of the byte in each cell
  first_frame,  \* a frame header has been seen
  base,         \* history: where the chunk with that header begins,
  skip,         \*   how far into the chunk the header is,
  firstLen,     \*   and how many bytes of the chunk were handed on
  m_rxevbuf,    \* boardctl's evbuffer
  taken,        \* history: how many bytes have left it
  board,        \* where the boardctl thread is
  capdata,      \* the payload of its packet
  sent,         \* history: payloads sent
  alive         \* the process runs

eimVars   == <<stream, devpos, readdata, first_frame, base, skip, firstLen>>
boardVars == <<taken, board, capdata, sent>>
vars == <<eimVars, m_rxevbuf, boardVars, alive>>

Cells == 0 .. 2 * EIMUNIT_LEN - 1     \* char readdata[EIMUNIT_LEN*2]
Zero == StreamLen                     \* the position of a byte never read
Content(p) == IF p = Zero THEN 0 ELSE stream[p]

Init ==
  /\ stream \in Streams
  /\ devpos = 0
  /\ readdata = [i \in Cells |-> Zero]
  /\ first_frame = FALSE
  /\ base = 0 /\ skip = 0 /\ firstLen = 0
  /\ m_rxevbuf = <<>>
  /\ taken = 0
  /\ board = "poll"
  /\ capdata = [i \in 1 .. DATA_PALOAD_LEN |-> Zero]
  /\ sent = 0
  /\ alive = TRUE
-----------------------------------------------------------------------------
(* The EIM thread.  Nobody else touches readdata or first_frame, and the   *)
(* evbuffer has a lock, so one turn of the loop is one step.               *)

\* A header is compared as two shorts, at an even cell.
Matches_FirstWordOnly(rd, k) ==
  \A j \in 1 .. 2 : Content(rd[2*k + j - 1]) = Header[j]
Matches(rd, k) ==
  \A j \in 1 .. 4 : Content(rd[2*k + j - 1]) = Header[j]

\* The index is incremented before the comparison.
Found_FromOne(rd, n) == {k \in 1 .. n - 1 : 2*k < n /\ Matches(rd, k)}
\* The do-while scan over a chunk of n bytes.  It compares the short after
\* the last one of the chunk too, whatever the cell still holds.
Found(rd, n) == {k \in 0 .. n - 1 : 2*k < n /\ Matches(rd, k)}
IndexOf(rd, n) ==
  IF Found(rd, n) = {} THEN (n + 1) \div 2
  ELSE CHOOSE k \in Found(rd, n) : \A l \in Found(rd, n) : k <= l

\* From the header on, but as many bytes as were read.
Handed_NoLength(rd, n, index) == [i \in 1 .. n |-> rd[2*index + i - 1]]
\* submit(readdata, nbytes-(index*2)): as many bytes as follow the header,
\* taken from the front of the chunk.
Handed(rd, n, index) == [i \in 1 .. n - 2*index |-> rd[i - 1]]

\* evbuffer_add of nearly 2^32 bytes: refused, which is only printed, or
\* the end of the process.
SubmitHuge == alive' \in BOOLEAN /\ UNCHANGED m_rxevbuf

\* read() returns n bytes.  nbytes-(index*2) is a size_t: an odd chunk
\* without a header makes it wrap around.
EimRead(n) ==
  LET rd == [i \in Cells |-> IF i < n THEN devpos + i ELSE readdata[i]]
      index == IF first_frame THEN 0 ELSE IndexOf(rd, n)
  IN
  /\ devpos + n <= StreamLen
  /\ devpos' = devpos + n
  /\ readdata' = rd
  /\ IF first_frame \/ Found(rd, n) = {}
       THEN UNCHANGED <<first_frame, base, skip, firstLen>>
       ELSE /\ first_frame' = TRUE
            /\ base' = devpos
            /\ skip' = 2 * index
            /\ firstLen' = n - 2 * index
  /\ IF 2 * index <= n
       THEN /\ m_rxevbuf' = m_rxevbuf \o Handed(rd, n, index)
            /\ UNCHANGED alive
       ELSE SubmitHuge
  /\ UNCHANGED <<stream, boardVars>>

\* read() fails: -1 becomes the largest size_t.  A scan of that many bytes
\* goes on through memory until it meets something like a header, or a page
\* that is not there.
EimReadError ==
  /\ SubmitHuge
  /\ IF first_frame \/ ~alive'
       THEN UNCHANGED <<first_frame, base, skip, firstLen>>
       ELSE first_frame' = TRUE /\ base' = devpos /\ skip' = 0 /\ firstLen' = 0
  /\ UNCHANGED <<stream, devpos, readdata, boardVars>>
-----------------------------------------------------------------------------
(* The boardctl thread.                                                    *)

BoardPoll_Any ==
  /\ board = "poll"
  /\ Len(m_rxevbuf) > 0
  /\ board' = "remove"
  /\ UNCHANGED <<eimVars, m_rxevbuf, taken, capdata, sent, alive>>

\* evbuffer_get_length, under the buffer's lock.
BoardPoll ==
  /\ board = "poll"
  /\ Len(m_rxevbuf) >= DATA_PALOAD_LEN
  /\ board' = "remove"
  /\ UNCHANGED <<eimVars, m_rxevbuf, taken, capdata, sent, alive>>

\* evbuffer_remove, under the lock again: at most DATA_PALOAD_LEN bytes;
\* the rest of capdata keeps what it held.
BoardRemove ==
  LET got == IF Len(m_rxevbuf) < DATA_PALOAD_LEN
               THEN Len(m_rxevbuf) ELSE DATA_PALOAD_LEN
  IN
  /\ board = "remove"
  /\ capdata' = [i \in 1 .. DATA_PALOAD_LEN |->
                   IF i <= got THEN m_rxevbuf[i] ELSE capdata[i]]
  /\ m_rxevbuf' = SubSeq(m_rxevbuf, got + 1, Len(m_rxevbuf))
  /\ taken' = taken + got
  /\ board' = "send"
  /\ UNCHANGED <<eimVars, sent, alive>>

BoardSend_Stops ==
  /\ board = "send"
  /\ sent' = sent + 1
  /\ board' = "done"
  /\ UNCHANGED <<eimVars, m_rxevbuf, taken, capdata, alive>>

\* The packet goes to DataSocket::submit, and the loop starts over.
BoardSend ==
  /\ board = "send"
  /\ sent' = sent + 1
  /\ board' = "poll"
  /\ UNCHANGED <<eimVars, m_rxevbuf, taken, capdata, alive>>

BoardStep == BoardPoll \/ BoardRemove \/ BoardSend

Next ==
  /\ alive
  /\ \/ \E n \in 1 .. EIMUNIT_LEN : EimRead(n)
     \/ EimReadError
     \/ BoardStep

Spec == Init /\ [][Next]_vars
-----------------------------------------------------------------------------
(* Properties.                                                             *)

Pos == 0 .. StreamLen

TypeOK ==
  /\ stream \in Streams
  /\ devpos \in Pos
  /\ readdata \in [Cells -> Pos]
  /\ first_frame \in BOOLEAN
  /\ base \in Nat /\ skip \in Nat /\ firstLen \in Nat
  /\ m_rxevbuf \in Seq(Pos)
  /\ taken \in Nat
  /\ board \in {"poll", "remove", "send"}
  /\ capdata \in [1 .. DATA_PALOAD_LEN -> Pos]
  /\ sent \in Nat
  /\ alive \in BOOLEAN

\* What reaches boardctl, byte t of the outgoing stream: the first chunk
\* from its front, not from its header, and everything after the chunk.
OutPos(t) == IF t < firstLen THEN base + t ELSE base + skip + t

\* The outgoing stream is in the device's order, and no byte is in it twice.
StreamInOrder ==
  \A i \in 1 .. Len(m_rxevbuf) : m_rxevbuf[i] = OutPos(taken + i - 1)

\* As many bytes are handed on as the device delivered from the header on.
AsManyHanded ==
  alive => taken + Len(m_rxevbuf) =
             IF first_frame THEN devpos - (base + skip) ELSE 0

\* Which bytes they are: of all that the device delivered from the chunk of
\* the first header on, the last skip bytes of that chunk are missing, and
\* only they: the chunk loses its end, header and payload, and bytes from
\* before the header are handed on in its stead (eimdata.cpp:91).
TailMissing ==
  alive /\ first_frame =>
    {OutPos(t) : t \in 0 .. taken + Len(m_rxevbuf) - 1}
      = (base .. devpos - 1) \ (base + firstLen .. base + firstLen + skip - 1)

\* What the scan takes for the first header is one, unless it compared
\* the short behind the end of the chunk, a leftover of an earlier read.
SyncIsHeader ==
  first_frame /\ firstLen >= Len(Header) =>
    \A j \in 1 .. Len(Header) : stream[base + skip + j - 1] = Header[j]

\* A whole header at an even place of a chunk is not overlooked.
FirstHeaderTaken ==
  [][\A h \in devpos .. devpos' :
       /\ ~first_frame /\ ~first_frame'
       /\ h + Len(Header) <= devpos'
       /\ (h - devpos) % 2 = 0
       => \E j \in 1 .. Len(Header) : stream[h + j - 1] # Header[j]]_vars

\* A packet is sent with a whole payload, the bytes that follow those of
\* the packet before: the length that was tested is still there when the
\* bytes are removed.
PayloadsTile ==
  board = "send" =>
    /\ taken = (sent + 1) * DATA_PALOAD_LEN
    /\ \A i \in 1 .. DATA_PALOAD_LEN :
         capdata[i] = OutPos(sent * DATA_PALOAD_LEN + i - 1)

\* However the device's stream is cut into reads, odd and failed ones
\* included, and whatever the EIM thread adds between the two calls that
\* test and take a payload: from the chunk of the first header on, no byte is
\* doubled or out of order on the way into the payloads, and none is lost but
\* the skip bytes at the end of that chunk.
StreamAccounted ==
  TypeOK /\ StreamInOrder /\ AsManyHanded /\ TailMissing /\ PayloadsTile
=============================================================================
