---------------------------- MODULE HostRequest ----------------------------
(***************************************************************************)
(* Requests of the host: on_datasock_read (main.cpp) takes what has        *)
(* arrived off the bufferevent and host_request_proc (boardctl.cpp)        *)
(* answers it, both on the main thread.  A request is four bytes, but the  *)
(* connection is a stream: what arrives at once need not be one request.   *)
(* Each call takes up to a hundred bytes and looks at the first four.      *)
(*                                                                         *)
(* A byte is known by its position in the stream; the bytes in the input   *)
(* of the bufferevent are those from position front up to next.            *)
(***************************************************************************)
EXTENDS Naturals, Sequences

CONSTANTS
  Requests,   \* the msg_types the host may send, one after the other
  MaxRead     \* the 100 of evbuffer_remove(input, data, 100)

HdrLen == 2   \* HOST_REQ_HDR, two equal bytes
ReqLen == 4   \* sizeof(hostreq_msg)

ASSUME RequestAssumption ==
  Requests \subseteq Seq({"msg_GPS", "msg_temperatue", "msg_direciton", "other"})
ASSUME ReadAssumption == MaxRead \in Nat /\ MaxRead >= ReqLen

VARIABLES
  requests,  \* what the host sends over this connection
  next,      \* how many bytes of it have arrived
  front,     \* how many of them on_datasock_read has taken
  replymsg,  \* the static reply: its type and the source of its two bodies
  replies,   \* history: each answer, with the request at its front
  aligned,   \* history: each arrival so far was whole requests,
  single     \*   and each was one

streamVars == <<requests, next, front>>
requestVars == <<streamVars, replymsg, replies, aligned, single>>

\* What is at a position of the stream: a byte of the header, the first
\* byte of the type, or the second, which is the same in all types.
Content(p) ==
  IF p % ReqLen < HdrLen THEN "hdr"
  ELSE IF p % ReqLen = HdrLen THEN requests[p \div ReqLen + 1] ELSE "hi"
Contents == {"hdr", "msg_GPS", "msg_temperatue", "msg_direciton", "other", "hi"}

RequestInit ==
  /\ requests \in Requests
  /\ next = 0 /\ front = 0
  /\ replymsg = [msg_type |-> "none", body1 |-> "none", body2 |-> "none"]
  /\ replies = <<>>
  /\ aligned = TRUE
  /\ single = TRUE
-----------------------------------------------------------------------------
\* Where the members of boardctl are copied.
Reply_BodyFirst(type) ==
  CASE type = "msg_GPS" ->
         [replymsg EXCEPT !.body1 = "location", !.body2 = "location"]
    [] type = "msg_temperatue" ->
         [replymsg EXCEPT !.msg_type = type, !.body1 = "temparture"]
    [] type = "msg_direciton" ->
         [replymsg EXCEPT !.msg_type = type, !.body1 = "direction"]
    [] OTHER -> replymsg

\* The switch of host_request_proc: eight bytes of m_location, or four of
\* another member, which leaves body2 as it was.  An unknown type changes
\* nothing.
Reply(type) ==
  CASE type = "msg_GPS" ->
         [msg_type |-> type, body1 |-> "location", body2 |-> "location"]
    [] type = "msg_temperatue" ->
         [replymsg EXCEPT !.msg_type = type, !.body1 = "temparture"]
    [] type = "msg_direciton" ->
         [replymsg EXCEPT !.msg_type = type, !.body1 = "direction"]
    [] OTHER -> replymsg

\* host_request_proc(g_myboard, data), on data whose first byte is at the
\* position at.  The answer is sent, known type or not; a packet without
\* the header is not answered.
HostRequestProc(data, at) ==
  IF data[0] = "hdr" /\ data[1] = "hdr"
    THEN /\ replymsg' = Reply(IF data[3] = "hi" THEN data[2] ELSE "other")
         /\ replies' = Append(replies, [request |-> at \div ReqLen + 1,
                                        msg |-> replymsg'])
    ELSE UNCHANGED <<replymsg, replies>>

\* evbuffer_copyout, which leaves the bytes where they are.
Taken_None(n) == 0
\* evbuffer_remove takes what there is, up to MaxRead.
Taken(n) == IF n < MaxRead THEN n ELSE MaxRead

\* k bytes arrive, and on_datasock_read is called.  It takes up to MaxRead
\* bytes of the input; the cells of data that nothing arrived for keep what
\* the stack held there.
OnDatasockRead(k) ==
  LET n == next + k - front IN
  /\ next + k <= ReqLen * Len(requests)
  /\ next' = next + k
  /\ front' = front + Taken(n)
  /\ \E stack \in [{i \in 0 .. ReqLen - 1 : i >= n} -> Contents] :
       HostRequestProc([i \in 0 .. ReqLen - 1 |->
                          IF i < n THEN Content(front + i) ELSE stack[i]], front)
  /\ aligned' = (aligned /\ k % ReqLen = 0)
  /\ single' = (single /\ k = ReqLen)
  /\ UNCHANGED requests

\* The connection is lost and a new one made: what was in the input is gone
\* with the old bufferevent, the static reply stays.
Reconnect ==
  /\ next > 0
  /\ requests' \in Requests
  /\ next' = 0 /\ front' = 0
  /\ replies' = <<>>
  /\ aligned' = TRUE
  /\ single' = TRUE
  /\ UNCHANGED replymsg

RequestNext ==
  \/ \E k \in 1 .. ReqLen * Len(requests) : OnDatasockRead(k)
  \/ Reconnect

RequestSpec == RequestInit /\ [][RequestNext]_requestVars
-----------------------------------------------------------------------------
(* Properties.                                                             *)

Message == [msg_type : {"none", "msg_GPS", "msg_temperatue", "msg_direciton"},
            body1 : {"none", "location", "temparture", "direction"},
            body2 : {"none", "location"}]

RequestTypeOK ==
  /\ requests \in Requests
  /\ next \in 0 .. ReqLen * Len(requests)
  /\ front \in 0 .. next
  /\ replymsg \in Message
  /\ replies \in Seq([request : 1 .. Len(requests), msg : Message])
  /\ aligned \in BOOLEAN /\ single \in BOOLEAN

\* The reply is static and filled in piecemeal, and it survives the
\* connection.  Whatever arrives and however it is cut, the first half of an
\* answer's body is data of the type the answer names.  The second half is
\* only in the answers that name GPS; from the first of them on every other
\* answer carries it too, the location behind a temperature or a direction.
BodyMatchesType ==
  LET source == [none |-> "none", msg_GPS |-> "location",
                 msg_temperatue |-> "temparture", msg_direciton |-> "direction"]
  IN \A i \in 1 .. Len(replies) :
       LET msg == replies[i].msg IN
       /\ msg.body1 = source[msg.msg_type]
       /\ msg.msg_type = "msg_GPS" =>
            \A j \in i .. Len(replies) : replies[j].msg.body2 = "location"

\* A host that waits for the answer before it sends the next request gets
\* one answer for each.
AllAnsweredIfSingle == single => Len(replies) * ReqLen = next

\* However the bytes arrive, there are never more answers than bytes of
\* headers, two for each request: a half-received request can be answered
\* twice, but not more often.
AnswersBounded == Len(replies) <= HdrLen * ((front + ReqLen - 1) \div ReqLen)

\* As long as requests arrive whole, an answer is to a request the host
\* made, in order and never twice, and names its type if it is a known one.
\* Requests that arrive together lose answers, those cut in pieces gain
\* some, both within limits.
AnswersInOrder ==
  /\ RequestTypeOK /\ AllAnsweredIfSingle /\ AnswersBounded
  /\ aligned => \A i \in 1 .. Len(replies) :
      /\ i > 1 => replies[i - 1].request < replies[i].request
      /\ requests[replies[i].request] \in
           {"other", replies[i].msg.msg_type}
=============================================================================
