-------------------------- MODULE DataSocketProofs --------------------------
(***************************************************************************)
(* The safety of the connection to the host.  The uplink, for any number   *)
(* of bufferevent addresses and any number of packets: what DataSocket.tla *)
(* states as invariants, the finality of a failed init, and the refinement *)
(* of UplinkSession.  And the answers to the host, for any requests and    *)
(* any size of a read: what HostRequest.tla states as invariants.          *)
(***************************************************************************)
EXTENDS DataSocket, HostRequest, TLAPS

\* What is true of the member, the status and the thread flags at each
\* place of the main thread.
MainInv ==
  /\ main = "start" =>
       /\ Live = {}
       /\ board = "off"
       /\ pkt = 0
       /\ m_sockstatus = "sock_uninit"
  /\ main = "loop" =>
       /\ m_sockstatus = "sock_init_nodata" <=> m_bufev # NULL
       /\ m_bufev # NULL => m_bufev \in cbs
  /\ main \in {"connect", "failed", "free"} =>
       m_bufev \in Live /\ m_sockstatus = "sock_uninit"
  /\ main = "setcb" => m_bufev \in Live /\ m_sockstatus = "sock_init_nodata"
  /\ main = "null" => Live = {} /\ m_sockstatus = "sock_uninit"

\* What the boardctl thread may rely on while nobody replaces m_bufev.
BoardInv ==
  InSubmit /\ ~raced =>
    /\ main = "loop"
    /\ m_bufev \in Live
    /\ board = "write" => ptr = m_bufev

\* The inductive invariant behind the safety properties.
IInv ==
  /\ TypeOK
  /\ NoLeak
  /\ cbs \subseteq Live
  /\ started_ => detached_
  /\ MainInv
  /\ BoardInv

\* What relates the packets on the wire to the abstract session: the last
\* one written is the last one disposed of, and a bufferevent that replaced
\* the one a submit is holding has carried nothing yet.
LogInv ==
  /\ InSubmit => pkt > 0
  /\ m_bufev \in Live =>
       LET log == wire[m_bufev] IN
       /\ log # <<>> => log[Len(log)] = Disposed
       /\ board = "write" /\ ptr # m_bufev => log = <<>>
  /\ \A b \in Bevs \ Live : wire[b] = <<>>
-----------------------------------------------------------------------------
LEMMA InitIInv == Init => IInv
<1> SUFFICES ASSUME Init PROVE IInv
  OBVIOUS
<1>0. <<>> \in Seq(Nat)
  OBVIOUS
<1>1. TypeOK
  <2>1. wire \in [Bevs -> Seq(Nat)]
    BY <1>0, Zenon DEF Init
  <2> QED
    BY <2>1, NullAssumption DEF Init, TypeOK, Status, BevState, MainPc
<1>2. Live = {} /\ cbs = {}
  BY DEF Init, Live
<1>3. started_ => detached_
  BY DEF Init
<1>4. MainInv /\ BoardInv
  BY <1>2 DEF Init, MainInv, BoardInv, InSubmit
<1> QED
  BY <1>1, <1>2, <1>3, <1>4 DEF IInv, NoLeak

\* Every step keeps the types.
LEMMA TypeStep == IInv /\ [Next]_vars => TypeOK'
<1> SUFFICES ASSUME IInv, [Next]_vars PROVE TypeOK'
  OBVIOUS
<1>0. TypeOK
  BY DEF IInv
<1> USE NullAssumption
    DEF TypeOK, Status, BevState, MainPc, sockVars, thrVars, connVars, boardVars
<1>1. CASE MainInit
  BY <1>0, <1>1 DEF MainInit, DataSocketInit, Start, Detach
<1>2. CASE HandleTimeout
  BY <1>0, <1>2 DEF HandleTimeout, NewBev, InSubmit
<1>3. CASE RestartConnected
  BY <1>0, <1>3 DEF RestartConnected, Start, Detach
<1>4. CASE RestartFailed
  BY <1>0, <1>4 DEF RestartFailed
<1>5. CASE SetCb
  BY <1>0, <1>5 DEF SetCb, IInv, MainInv, Live
<1>6. CASE OnSocketEvent
  BY <1>0, <1>6 DEF OnSocketEvent, Stop, InSubmit
<1>7. CASE FreeBufev
  <2>1. <<>> \in Seq(Nat)
    OBVIOUS
  <2>2. wire' \in [Bevs -> Seq(Nat)] /\ bev' \in [Bevs -> BevState]
    BY <1>0, <1>7, <2>1 DEF FreeBufev, FreeBev
  <2> QED
    BY <1>0, <1>7, <2>2 DEF FreeBufev, FreeBev
<1>8. CASE NullBufev
  BY <1>0, <1>8 DEF NullBufev
<1>9. CASE SubmitTest
  BY <1>0, <1>9 DEF SubmitTest
<1>10. CASE SubmitLoad
  BY <1>0, <1>10 DEF SubmitLoad
<1>11. CASE SubmitWrite
  <2>1. wire' \in [Bevs -> Seq(Nat)]
    <3>1. CASE wire' = wire
      BY <1>0, <3>1
    <3>2. CASE ptr \in Live /\ wire' = [wire EXCEPT ![ptr] = Append(@, pkt)]
      <4>1. wire[ptr] \in Seq(Nat) /\ pkt \in Nat
        BY <1>0, <3>2 DEF Live
      <4>2. Append(wire[ptr], pkt) \in Seq(Nat)
        BY <4>1
      <4> HIDE DEF TypeOK
      <4> QED
        BY <1>0, <3>2, <4>2, Zenon DEF TypeOK
    <3> QED
      BY <1>11, <3>1, <3>2 DEF SubmitWrite
  <2>2. board' \in {"off", "idle", "load", "write"} /\ alive' \in BOOLEAN
    BY <1>0, <1>11, Zenon DEF SubmitWrite
  <2> QED
    BY <1>0, <1>11, <2>1, <2>2 DEF SubmitWrite
<1>12. CASE NetStep
  <2>1. CASE NetChange
    BY <1>0, <2>1 DEF NetChange
  <2>2. CASE ConnUp
    BY <1>0, <2>2 DEF ConnUp, Link
  <2>3. CASE ConnLost
    BY <1>0, <2>3 DEF ConnLost, Link
  <2> QED
    BY <1>12, <2>1, <2>2, <2>3 DEF NetStep
<1>13. CASE UNCHANGED vars
  BY <1>0, <1>13 DEF vars
<1> QED
  BY <1>1, <1>2, <1>3, <1>4, <1>5, <1>6, <1>7, <1>8, <1>9, <1>10, <1>11,
     <1>12, <1>13
  DEF Next, MainStep, BoardStep

LEMMA NextIInv == IInv /\ [Next]_vars => IInv'
<1> SUFFICES ASSUME IInv, [Next]_vars PROVE IInv'
  OBVIOUS
<1>0. TypeOK'
  BY TypeStep
<1> DEFINE Rest == NoLeak /\ cbs \subseteq Live /\ (started_ => detached_)
                     /\ MainInv /\ BoardInv
<1> SUFFICES Rest'
  BY <1>0 DEF IInv
<1> USE NullAssumption
    DEF IInv, TypeOK, NoLeak, MainInv, BoardInv, InSubmit, Live,
        sockVars, thrVars, connVars, boardVars
<1>1. CASE MainInit
  BY <1>1 DEF MainInit, DataSocketInit, Start, Detach
<1>2. CASE HandleTimeout
  BY <1>2 DEF HandleTimeout, NewBev
<1>3. CASE RestartConnected
  BY <1>3 DEF RestartConnected, Start, Detach
<1>4. CASE RestartFailed
  BY <1>4 DEF RestartFailed
<1>5. CASE SetCb
  BY <1>5 DEF SetCb
<1>6. CASE OnSocketEvent
  BY <1>6 DEF OnSocketEvent, Stop
<1>7. CASE FreeBufev
  BY <1>7 DEF FreeBufev, FreeBev
<1>8. CASE NullBufev
  BY <1>8 DEF NullBufev
<1>9. CASE SubmitTest
  BY <1>9 DEF SubmitTest
<1>10. CASE SubmitLoad
  BY <1>10 DEF SubmitLoad
<1>11. CASE SubmitWrite
  BY <1>11 DEF SubmitWrite
<1>12. CASE NetStep
  BY <1>12 DEF NetStep, NetChange, ConnUp, ConnLost, Link
<1>13. CASE UNCHANGED vars
  BY <1>13 DEF vars
<1> QED
  BY <1>1, <1>2, <1>3, <1>4, <1>5, <1>6, <1>7, <1>8, <1>9, <1>10, <1>11,
     <1>12, <1>13
  DEF Next, MainStep, BoardStep

LEMMA IInvIsInvariant == Spec => []IInv
<1>1. Init => IInv
  BY InitIInv
<1>2. IInv /\ [Next]_vars => IInv'
  BY NextIInv
<1> QED
  BY <1>1, <1>2, PTL DEF Spec

\* Every variable keeps its type.
THEOREM TypeCorrect == Spec => []TypeOK
<1>1. IInv => TypeOK
  BY DEF IInv
<1> QED
  BY <1>1, IInvIsInvariant, PTL

\* No reconnection loses a bufferevent: what is allocated is what m_bufev
\* points to (datasocket.cpp, init, restart and release).
THEOREM NothingLeaks == Spec => []NoLeak
<1>1. IInv => NoLeak
  BY DEF IInv
<1> QED
  BY <1>1, IInvIsInvariant, PTL

\* The status handle_timeout looks at and the pointer the callbacks use
\* agree whenever the event loop runs, and no stop() joins a thread there.
THEOREM LoopIsConsistent == Spec => []LoopConsistent
<1>1. IInv => LoopConsistent
  BY DEF IInv, MainInv, LoopConsistent
<1> QED
  BY <1>1, IInvIsInvariant, PTL

\* DataSocket::submit uses a dead bufferevent only if a release() or a
\* restart() overlapped it.
THEOREM DanglingNeedsRace == Spec => []DanglingOnlyIfRaced
<1>1. IInv => DanglingOnlyIfRaced
  BY DEF IInv, BoardInv, InSubmit, DanglingOnlyIfRaced
<1> QED
  BY <1>1, IInvIsInvariant, PTL

\* A failed init() (sock_init_fail) is final: the timer never retries it.
THEOREM FailedInitIsFinal == Spec => InitFailIsFinal
<1> DEFINE A == m_sockstatus = "sock_init_fail"
                  => m_sockstatus' = "sock_init_fail" /\ m_bufev' = NULL
<1>1. IInv /\ [Next]_vars => A \/ UNCHANGED vars
  <2> SUFFICES ASSUME IInv, Next, m_sockstatus = "sock_init_fail"
               PROVE  m_sockstatus' = "sock_init_fail" /\ m_bufev' = NULL
    OBVIOUS
  <2>1. main = "loop" /\ m_bufev = NULL /\ m_bufev \notin cbs
    BY NullAssumption DEF IInv, TypeOK, MainPc, MainInv
  <2>2. CASE MainStep
    BY <2>1, <2>2 DEF MainStep, MainInit, DataSocketInit, HandleTimeout, RestartConnected,
       RestartFailed, SetCb, OnSocketEvent, FreeBufev, NullBufev
  <2>3. CASE BoardStep \/ NetStep
    BY <2>1, <2>3 DEF BoardStep, SubmitTest, SubmitLoad, SubmitWrite, NetStep,
       NetChange, ConnUp, ConnLost, Link, sockVars
  <2> QED
    BY <2>2, <2>3 DEF Next
<1>2. IInv /\ [Next]_vars => [A]_vars
  BY <1>1
<1> QED
  BY <1>2, IInvIsInvariant, PTL DEF Spec, InitFailIsFinal
-----------------------------------------------------------------------------
(* The refinement of UplinkSession.                                        *)

LEMMA InitLogInv == Init => LogInv
  BY NullAssumption DEF Init, LogInv, InSubmit, Live, Disposed

\* The submit that writes: the packet lands behind its predecessor.
LEMMA WriteLands ==
  ASSUME IInv, LogInv, SubmitWrite, ptr \in Live,
         wire' = [wire EXCEPT ![ptr] = Append(@, pkt)], board' = "idle"
  PROVE  /\ ptr = m_bufev
         /\ wire'[m_bufev] = Append(wire[m_bufev], pkt)
         /\ wire'[m_bufev] # <<>>
         /\ wire'[m_bufev][Len(wire'[m_bufev])] = pkt
         /\ \A b \in Bevs \ Live : wire'[b] = wire[b]
<1>1. ptr = m_bufev /\ ptr \in Bevs
  BY DEF IInv, NoLeak, Live
<1>2. wire[ptr] \in Seq(Nat) /\ pkt \in Nat /\ wire \in [Bevs -> Seq(Nat)]
  BY <1>1 DEF IInv, TypeOK
<1>3. wire'[ptr] = Append(wire[ptr], pkt)
  BY <1>1, <1>2, Zenon
<1>4. \A b \in Bevs \ Live : wire'[b] = wire[b]
  BY <1>2
<1> DEFINE s == wire[ptr]
<1>5. ASSUME NEW t \in Seq(Nat), NEW x \in Nat
      PROVE  Append(t, x) # <<>> /\ Append(t, x)[Len(Append(t, x))] = x
  BY <1>5
<1> QED
  BY <1>1, <1>2, <1>3, <1>4, <1>5

LEMMA NextLogInv == IInv /\ IInv' /\ LogInv /\ [Next]_vars => LogInv'
<1> SUFFICES ASSUME IInv, IInv', LogInv, [Next]_vars PROVE LogInv'
  OBVIOUS
<1> USE NullAssumption
    DEF LogInv, Disposed, InSubmit, Live, sockVars, thrVars, connVars, boardVars
<1>0. TypeOK /\ NoLeak /\ MainInv
  BY DEF IInv
<1>1. CASE MainInit
  BY <1>0, <1>1 DEF MainInit, DataSocketInit, Start, Detach, MainInv, TypeOK
<1>2. CASE HandleTimeout
  BY <1>0, <1>2 DEF HandleTimeout, NewBev, TypeOK
<1>3. CASE RestartConnected
  BY <1>0, <1>3 DEF RestartConnected, Start, Detach, TypeOK
<1>4. CASE RestartFailed
  BY <1>4 DEF RestartFailed
<1>5. CASE SetCb
  BY <1>5 DEF SetCb
<1>6. CASE OnSocketEvent
  BY <1>6 DEF OnSocketEvent, Stop
<1>7. CASE FreeBufev
  BY <1>0, <1>7 DEF FreeBufev, FreeBev, TypeOK, NoLeak, MainInv
<1>8. CASE NullBufev
  BY <1>0, <1>8 DEF NullBufev, MainInv, TypeOK
<1>9. CASE SubmitTest
  BY <1>0, <1>9 DEF SubmitTest, TypeOK
<1>10. CASE SubmitLoad
  BY <1>0, <1>10 DEF SubmitLoad, TypeOK
<1>11. CASE SubmitWrite
  <2>1. CASE /\ ptr \in Live
             /\ wire' = [wire EXCEPT ![ptr] = Append(@, pkt)]
             /\ board' = "idle"
    BY <1>0, <1>11, <2>1, WriteLands DEF SubmitWrite, TypeOK
  <2>2. CASE wire' = wire /\ ptr \notin Live
    BY <1>0, <1>11, <2>2 DEF SubmitWrite, TypeOK
  <2> QED
    BY <1>11, <2>1, <2>2 DEF SubmitWrite
<1>12. CASE NetStep
  BY <1>0, <1>12 DEF NetStep, NetChange, ConnUp, ConnLost, Link, TypeOK
<1>13. CASE UNCHANGED vars
  BY <1>13 DEF vars
<1> QED
  BY <1>1, <1>2, <1>3, <1>4, <1>5, <1>6, <1>7, <1>8, <1>9, <1>10, <1>11,
     <1>12, <1>13
  DEF Next, MainStep, BoardStep

LEMMA LogInvIsInvariant == Spec => [](IInv /\ LogInv)
<1>1. Init => LogInv
  BY InitLogInv
<1>2. IInv /\ IInv' /\ LogInv /\ [Next]_vars => LogInv'
  BY NextLogInv
<1> QED
  BY <1>1, <1>2, IInvIsInvariant, PTL DEF Spec

\* A step of the uplink is a step of the session, or none.
LEMMA SessionStep ==
  IInv /\ IInv' /\ LogInv /\ LogInv' /\ [Next]_vars
    => Session!Next \/ UNCHANGED Session!vars
<1> SUFFICES ASSUME IInv, IInv', LogInv, LogInv', [Next]_vars
             PROVE  Session!Next \/ UNCHANGED <<Live # {}, SessionLog, Disposed, Late, alive>>
  BY DEF Session!vars
<1> USE NullAssumption
    DEF SessionLog, Disposed, Late, InSubmit, Live, NoLeak, sockVars, thrVars,
        connVars, boardVars
<1>0. TypeOK /\ NoLeak /\ MainInv
  BY DEF IInv
<1> SUFFICES ASSUME alive
             PROVE  Session!Next \/ UNCHANGED <<Live # {}, SessionLog, Disposed, Late, alive>>
  BY DEF Next, vars
<1>1. CASE MainInit
  <2>1. Session!Open \/ UNCHANGED <<Live # {}, SessionLog, Disposed, Late, alive>>
    BY <1>0, <1>1 DEF MainInit, DataSocketInit, MainInv, TypeOK, LogInv, Session!Open
  <2> QED
    BY <2>1 DEF Session!Next
<1>2. CASE HandleTimeout
  <2>1. Session!Open
    BY <1>0, <1>2 DEF HandleTimeout, NewBev, MainInv, TypeOK, Session!Open
  <2> QED
    BY <2>1 DEF Session!Next
<1>3. CASE RestartConnected
  <2>1. Live' = Live
    BY <1>0, <1>3 DEF RestartConnected, MainInv, TypeOK
  <2>2. UNCHANGED <<m_bufev, wire, board, ptr, pkt, alive>>
    BY <1>3 DEF RestartConnected
  <2> HIDE DEF Live
  <2> QED
    BY <2>1, <2>2
<1>4. CASE RestartFailed
  BY <1>4 DEF RestartFailed
<1>5. CASE SetCb
  BY <1>5 DEF SetCb
<1>6. CASE OnSocketEvent
  BY <1>6 DEF OnSocketEvent
<1>7. CASE FreeBufev
  <2>1. Session!Close
    BY <1>0, <1>7 DEF FreeBufev, FreeBev, MainInv, TypeOK, Session!Close
  <2> QED
    BY <2>1 DEF Session!Next
<1>8. CASE NullBufev
  BY <1>0, <1>8 DEF NullBufev, MainInv
<1>9. CASE SubmitTest
  <2>1. CASE m_bufev = NULL
    <3>1. Session!Drop
      BY <1>0, <1>9, <2>1 DEF SubmitTest, TypeOK, Session!Drop
    <3> QED
      BY <3>1 DEF Session!Next
  <2>2. CASE m_bufev # NULL
    BY <1>0, <1>9, <2>2 DEF SubmitTest, TypeOK
  <2> QED
    BY <2>1, <2>2
<1>10. CASE SubmitLoad
  BY <1>10 DEF SubmitLoad
<1>11. CASE SubmitWrite
  <2>1. CASE /\ ptr \in Live
             /\ wire' = [wire EXCEPT ![ptr] = Append(@, pkt)]
             /\ board' = "idle"
    <3>1. /\ m_bufev \in Live
          /\ wire'[m_bufev] = Append(wire[m_bufev], pkt)
          /\ UNCHANGED <<m_bufev, bev, ptr, pkt, alive>>
          /\ ptr = m_bufev /\ board = "write"
      BY <1>11, <2>1, WriteLands DEF SubmitWrite
    <3>2. Session!Put
      BY <1>0, <2>1, <3>1 DEF LogInv, TypeOK, Session!Put
    <3> QED
      BY <3>2 DEF Session!Next
  <2>2. CASE wire' = wire /\ ptr \notin Live /\ board' = "idle" /\ UNCHANGED alive
    <3>1. UNCHANGED <<m_bufev, bev, ptr, pkt>> /\ board = "write"
      BY <1>11 DEF SubmitWrite
    <3>2. Live # {} => Late /\ SessionLog = <<>>
      BY <1>0, <2>2, <3>1 DEF LogInv
    <3>3. Live' = Live /\ ~Late' /\ Disposed' = Disposed + 1 /\ SessionLog' = SessionLog
      BY <1>0, <2>2, <3>1 DEF TypeOK
    <3>4. Session!Drop
      BY <2>2, <3>2, <3>3 DEF Session!Drop
    <3> QED
      BY <3>4 DEF Session!Next
  <2>3. CASE wire' = wire /\ board' = board /\ ptr \notin Live /\ alive' = FALSE
    <3>1. Session!Die
      BY <1>0, <1>11, <2>3 DEF SubmitWrite, LogInv, TypeOK, Session!Die
    <3> QED
      BY <3>1 DEF Session!Next
  <2> QED
    BY <1>11, <2>1, <2>2, <2>3 DEF SubmitWrite
<1>12. CASE NetStep
  <2>1. Live' = Live
    BY <1>0, <1>12 DEF NetStep, NetChange, ConnUp, ConnLost, Link, TypeOK
  <2>2. UNCHANGED <<m_bufev, wire, board, ptr, pkt, alive>>
    BY <1>12 DEF NetStep, NetChange, ConnUp, ConnLost, Link
  <2> HIDE DEF Live
  <2> QED
    BY <2>1, <2>2
<1>13. CASE UNCHANGED vars
  BY <1>13 DEF vars
<1> QED
  BY <1>1, <1>2, <1>3, <1>4, <1>5, <1>6, <1>7, <1>8, <1>9, <1>10, <1>11,
     <1>12, <1>13
  DEF Next, MainStep, BoardStep

\* The uplink implements the abstract session: packets in order, none twice,
\* none missing in the middle, and while the session is open none but a first
\* one whose submit still holds the pointer of the session before (DataSocket::submit against init, restart and
\* release).
THEOREM UplinkIsSession == Spec => ImplementsSession
<1>1. Init => Session!Init
  BY DEF Init, Session!Init, Live, SessionLog, Disposed, Late, InSubmit
<1>2. /\ IInv /\ LogInv /\ IInv' /\ LogInv' /\ [Next]_vars
      => [Session!Next]_(Session!vars)
  BY SessionStep
<1> QED
  BY <1>1, <1>2, LogInvIsInvariant, PTL DEF Spec, ImplementsSession, Session!Spec
-----------------------------------------------------------------------------
(* Requests of the host.                                                   *)

ReqTypes == {"msg_GPS", "msg_temperatue", "msg_direciton", "other"}

SourceOf == [none |-> "none", msg_GPS |-> "location",
             msg_temperatue |-> "temparture", msg_direciton |-> "direction"]

\* The first half of the body is of the type named, the second of GPS.
Matching(m) ==
  /\ m.body1 = SourceOf[m.msg_type]
  /\ m.msg_type = "msg_GPS" => m.body2 = "location"

\* The most answers the bytes taken so far can have got.
Bound(f) == 2 * (f \div 4) + (IF f % 4 < 2 THEN f % 4 ELSE 2)

\* Quotient and remainder by the length of a request.
LEMMA DivMod ==
  ASSUME NEW f \in Nat
  PROVE  /\ f \div 4 \in Nat /\ f % 4 \in 0 .. 3
         /\ f = 4 * (f \div 4) + (f % 4)
  BY SMT

\* An answer from within a header uses up one of the two it can get.
LEMMA BoundGrows ==
  ASSUME NEW f \in Nat, NEW g \in Nat, f <= g
  PROVE  /\ Bound(f) \in Nat
         /\ Bound(f) <= Bound(g)
         /\ f < g /\ f % 4 < 2 => Bound(f) + 1 <= Bound(g)
<1> DEFINE a == f \div 4 b == f % 4 c == g \div 4 d == g % 4
<1>1. a \in Nat /\ b \in 0 .. 3 /\ f = 4 * a + b
  BY DivMod
<1>2. c \in Nat /\ d \in 0 .. 3 /\ g = 4 * c + d
  BY DivMod
<1>3. /\ Bound(f) = 2 * a + (IF b < 2 THEN b ELSE 2)
      /\ Bound(g) = 2 * c + (IF d < 2 THEN d ELSE 2)
  BY DEF Bound
<1> HIDE DEF a, b, c, d
<1>4. /\ Bound(f) \in Nat
      /\ Bound(f) <= Bound(g)
      /\ f < g /\ b < 2 => Bound(f) + 1 <= Bound(g)
  BY <1>1, <1>2, <1>3
<1> QED
  BY <1>4 DEF b

\* The bound the property states is the weaker one.
LEMMA BoundIsPromised ==
  ASSUME NEW f \in Nat
  PROVE  Bound(f) <= HdrLen * ((f + ReqLen - 1) \div ReqLen)
<1> DEFINE a == f \div 4 b == f % 4 c == (f + 3) \div 4 d == (f + 3) % 4
<1>1. a \in Nat /\ b \in 0 .. 3 /\ f = 4 * a + b
  BY DivMod
<1>2. c \in Nat /\ d \in 0 .. 3 /\ f + 3 = 4 * c + d
  BY DivMod
<1>3. Bound(f) = 2 * a + (IF b < 2 THEN b ELSE 2)
  BY DEF Bound
<1>4. f + ReqLen - 1 = f + 3 /\ HdrLen = 2 /\ ReqLen = 4
  BY DEF ReqLen, HdrLen
<1> HIDE DEF a, b, c, d
<1>5. Bound(f) <= 2 * c
  BY <1>1, <1>2, <1>3
<1> QED
  BY <1>4, <1>5 DEF c

\* The switch of host_request_proc keeps the type and the body together.
LEMMA ReplyIsMessage ==
  ASSUME replymsg \in Message, NEW type \in Contents
  PROVE  /\ Reply(type) \in Message
         /\ type \in ReqTypes => type \in {"other", Reply(type).msg_type}
         /\ Matching(replymsg) => Matching(Reply(type))
         /\ replymsg.body2 = "location" => Reply(type).body2 = "location"
<1> USE DEF Matching
<1>1. CASE type = "msg_GPS"
  <2>1. Reply(type) = [msg_type |-> type, body1 |-> "location", body2 |-> "location"]
    BY <1>1, Zenon DEF Reply
  <2> QED
    BY <1>1, <2>1 DEF Message, SourceOf
<1>2. CASE type = "msg_temperatue"
  <2>1. Reply(type) = [replymsg EXCEPT !.msg_type = type, !.body1 = "temparture"]
    BY <1>2, Zenon DEF Reply
  <2>2. Reply(type) = [msg_type |-> type, body1 |-> "temparture", body2 |-> replymsg.body2]
    BY <2>1 DEF Message
  <2>3. replymsg.body2 \in {"none", "location"}
    BY DEF Message
  <2>4. SourceOf[type] = "temparture"
    BY <1>2 DEF SourceOf
  <2> QED
    BY <1>2, <2>2, <2>3, <2>4 DEF Message
<1>3. CASE type = "msg_direciton"
  <2>1. Reply(type) = [replymsg EXCEPT !.msg_type = type, !.body1 = "direction"]
    BY <1>3, Zenon DEF Reply
  <2>2. Reply(type) = [msg_type |-> type, body1 |-> "direction", body2 |-> replymsg.body2]
    BY <2>1 DEF Message
  <2>3. replymsg.body2 \in {"none", "location"}
    BY DEF Message
  <2>4. SourceOf[type] = "direction"
    BY <1>3 DEF SourceOf
  <2> QED
    BY <1>3, <2>2, <2>3, <2>4 DEF Message
<1>4. CASE type \notin {"msg_GPS", "msg_temperatue", "msg_direciton"}
  <2>1. Reply(type) = replymsg
    BY <1>4, Zenon DEF Reply
  <2> QED
    BY <1>4, <2>1 DEF ReqTypes
<1> QED
  BY <1>1, <1>2, <1>3, <1>4

\* Of the stream, only the positions of headers hold header bytes.
LEMMA ContentIs ==
  ASSUME requests \in Seq(ReqTypes), NEW p \in Nat, p < 4 * Len(requests)
  PROVE  /\ p \div 4 + 1 \in 1 .. Len(requests)
         /\ Content(p) = "hdr" <=> p % 4 < 2
         /\ p % 4 = 2 => Content(p) = requests[p \div 4 + 1]
         /\ p % 4 = 3 => Content(p) = "hi"
<1> DEFINE a == p \div 4 b == p % 4
<1>1. a \in Nat /\ b \in 0 .. 3 /\ p = 4 * a + b
  BY DivMod
<1>2. Content(p) = IF b < 2 THEN "hdr" ELSE IF b = 2 THEN requests[a + 1] ELSE "hi"
  BY DEF Content, ReqLen, HdrLen
<1> HIDE DEF a, b
<1>3. Len(requests) \in Nat
  OBVIOUS
<1>4. a + 1 \in 1 .. Len(requests)
  BY <1>1, <1>3
<1>5. requests[a + 1] \in ReqTypes
  BY <1>4
<1>6. requests[a + 1] # "hdr"
  BY <1>5 DEF ReqTypes
<1>7. /\ Content(p) = "hdr" <=> b < 2
      /\ b = 2 => Content(p) = requests[a + 1]
      /\ b = 3 => Content(p) = "hi"
  BY <1>1, <1>2, <1>6
<1> QED
  BY <1>4, <1>7 DEF a, b

\* What a call does: it answers the request at its front, or nothing.  It
\* answers only from the header, and one of a connection that has brought
\* whole requests from the beginning of it.
Answered(type) ==
  /\ replymsg' = Reply(type)
  /\ replies' = Append(replies, [request |-> front \div 4 + 1, msg |-> replymsg'])
  /\ front % 4 < 2
  /\ (next' % 4 = 0) => /\ front % 4 = 0 /\ next' - front >= 4
                        /\ type \in ReqTypes /\ type = requests[front \div 4 + 1]

LEMMA CallAnswers ==
  ASSUME RequestTypeOK, NEW k \in 1 .. ReqLen * Len(requests), OnDatasockRead(k)
  PROVE  \/ /\ replymsg' = replymsg /\ replies' = replies
            /\ ~(front % 4 = 0 /\ next' - front >= 4)
         \/ \E type \in Contents : Answered(type)
<1> DEFINE n == next + k - front
           L == Len(requests)
<1>1. requests \in Seq(ReqTypes) /\ L \in Nat
  BY RequestAssumption DEF RequestTypeOK, ReqTypes
<1>2. next \in Nat /\ front \in Nat /\ front <= next /\ k \in Nat /\ k >= 1
  BY <1>1 DEF RequestTypeOK, ReqLen
<1>3. next' = next + k /\ next + k <= 4 * L
  BY DEF OnDatasockRead, ReqLen
<1>4. n \in Nat /\ n >= 1 /\ front + n = next' /\ next' - front = n
  BY <1>2, <1>3
<1>5. PICK stack \in [{i \in 0 .. ReqLen - 1 : i >= n} -> Contents] :
        HostRequestProc([i \in 0 .. ReqLen - 1 |->
                          IF i < n THEN Content(front + i) ELSE stack[i]], front)
  BY DEF OnDatasockRead
<1> DEFINE data == [i \in 0 .. ReqLen - 1 |->
                          IF i < n THEN Content(front + i) ELSE stack[i]]
<1>6. \A i \in 0 .. 3 : i < n => data[i] = Content(front + i)
  BY DEF ReqLen
<1>7. HostRequestProc(data, front)
  BY <1>5
<1> HIDE DEF n, data
<1>8. CASE ~(data[0] = "hdr" /\ data[1] = "hdr")
  <2>1. replymsg' = replymsg /\ replies' = replies
    BY <1>7, <1>8, Zenon DEF HostRequestProc
  <2>2. ASSUME front % 4 = 0, n >= 4 PROVE FALSE
    <3>1. /\ data[0] = Content(front) /\ data[1] = Content(front + 1)
          /\ front + 1 \in Nat /\ front + 1 < 4 * L /\ front < 4 * L
      BY <1>1, <1>2, <1>3, <1>4, <1>6, <2>2
    <3>2. (front + 1) % 4 = 1
      <4>1. front = 4 * (front \div 4) + (front % 4) /\ front \div 4 \in Nat
        BY <1>2, DivMod
      <4> QED
        BY <4>1, <2>2
    <3>3. Content(front) = "hdr" <=> front % 4 < 2
      BY <1>1, <1>2, <3>1, ContentIs
    <3>4. Content(front + 1) = "hdr" <=> (front + 1) % 4 < 2
      BY <1>1, <3>1, ContentIs
    <3> QED
      BY <1>8, <2>2, <3>1, <3>2, <3>3, <3>4
  <2> QED
    BY <2>1, <2>2, <1>4
<1>9. CASE data[0] = "hdr" /\ data[1] = "hdr"
  <2> DEFINE type == IF data[3] = "hi" THEN data[2] ELSE "other"
             a == front \div 4
             b == front % 4
  <2>1. /\ replymsg' = Reply(type)
        /\ replies' = Append(replies, [request |-> front \div 4 + 1, msg |-> replymsg'])
    <3>1. /\ replymsg' = Reply(type)
          /\ replies' = Append(replies, [request |-> front \div ReqLen + 1, msg |-> replymsg'])
      BY <1>7, <1>9, Zenon DEF HostRequestProc
    <3> QED
      BY <3>1 DEF ReqLen
  <2>2. a \in Nat /\ b \in 0 .. 3 /\ front = 4 * a + b
    BY <1>2, DivMod
  <2>3. data[0] = Content(front)
    BY <1>4, <1>6, <1>2
  <2>4. front < 4 * L
    BY <1>2, <1>3, <1>1, <1>4
  <2>5. b < 2 /\ a + 1 \in 1 .. L
    <3>1. /\ Content(front) = "hdr" <=> front % 4 < 2
          /\ front \div 4 + 1 \in 1 .. Len(requests)
      BY <1>1, <1>2, <2>4, ContentIs
    <3> QED
      BY <3>1, <1>9, <2>3
  <2>6. \A i \in 0 .. 3 : i < n => front + i \in Nat /\ front + i < 4 * L
    BY <1>1, <1>2, <1>3, <1>4
  <2>7. ASSUME next' % 4 = 0
        PROVE  /\ b = 0 /\ n >= 4
               /\ type \in ReqTypes /\ type = requests[a + 1]
    <3> DEFINE c == next' \div 4
    <3>1. c \in Nat /\ next' = 4 * c
      <4>1. next' \in Nat
        BY <1>2, <1>3
      <4>2. next' = 4 * (next' \div 4) + (next' % 4) /\ next' \div 4 \in Nat
        BY <4>1, DivMod
      <4> QED
        BY <4>2, <2>7
    <3> HIDE DEF a, b, c, type
    <3>2. ~(b = 1 /\ n < 2)
      BY <3>1, <2>2, <1>4
    <3>3. ASSUME b = 1, n >= 2 PROVE FALSE
      <4>1. front + 1 \in Nat /\ front + 1 < 4 * L /\ data[1] = Content(front + 1)
        BY <1>6, <2>6, <3>3, <1>4
      <4>2. (front + 1) % 4 = 2
        BY <2>2, <3>3
      <4>3. Content(front + 1) # "hdr"
        <5>1. Content(front + 1) = "hdr" <=> (front + 1) % 4 < 2
          BY <1>1, <4>1, ContentIs
        <5> QED
          BY <5>1, <4>2
      <4> QED
        BY <4>1, <4>3, <1>9
    <3>4. b = 0
      BY <3>2, <3>3, <2>2, <2>5, <1>4
    <3>5. n >= 4
      BY <3>1, <3>4, <2>2, <1>4
    <3>6. /\ data[2] = Content(front + 2) /\ data[3] = Content(front + 3)
          /\ front + 2 \in Nat /\ front + 2 < 4 * L
          /\ front + 3 \in Nat /\ front + 3 < 4 * L
      BY <1>6, <2>6, <3>5, <1>4
    <3>7. /\ (front + 2) % 4 = 2 /\ (front + 2) \div 4 = a
          /\ (front + 3) % 4 = 3
      BY <2>2, <3>4
    <3>8. Content(front + 2) = requests[a + 1]
      <4>1. (front + 2) % 4 = 2 => Content(front + 2) = requests[(front + 2) \div 4 + 1]
        BY <1>1, <3>6, ContentIs
      <4> QED
        BY <4>1, <3>7
    <3>9. Content(front + 3) = "hi"
      <4>1. (front + 3) % 4 = 3 => Content(front + 3) = "hi"
        BY <1>1, <3>6, ContentIs
      <4> QED
        BY <4>1, <3>7
    <3>10. requests[a + 1] \in ReqTypes
      BY <1>1, <2>5
    <3>11. type = requests[a + 1]
      BY <3>6, <3>8, <3>9 DEF type
    <3> QED
      BY <3>4, <3>5, <3>10, <3>11
  <2>8. type \in Contents
    <3>1. data[2] \in Contents
      <4>1. ASSUME 2 < n PROVE data[2] \in Contents
        <5>1. data[2] = Content(front + 2) /\ front + 2 \in Nat /\ front + 2 < 4 * L
          BY <1>6, <2>6, <4>1
        <5>2. /\ (front + 2) \div 4 + 1 \in 1 .. Len(requests)
              /\ Content(front + 2) = "hdr" <=> (front + 2) % 4 < 2
              /\ (front + 2) % 4 = 2 => Content(front + 2) = requests[(front + 2) \div 4 + 1]
              /\ (front + 2) % 4 = 3 => Content(front + 2) = "hi"
          BY <1>1, <5>1, ContentIs
        <5>3. (front + 2) % 4 \in 0 .. 3
          BY <5>1
        <5>4. requests[(front + 2) \div 4 + 1] \in ReqTypes
          BY <1>1, <5>2
        <5> QED
          BY <5>1, <5>2, <5>3, <5>4 DEF Contents, ReqTypes
      <4>2. ASSUME ~(2 < n) PROVE data[2] \in Contents
        <5>1. data[2] = stack[2]
          BY <4>2 DEF data, ReqLen
        <5>2. 2 \in {i \in 0 .. ReqLen - 1 : i >= n}
          BY <4>2, <1>4 DEF ReqLen
        <5> QED
          BY <5>1, <5>2
      <4> QED
        BY <4>1, <4>2
    <3> QED
      BY <3>1 DEF Contents
  <2>9. Answered(type)
    <3> HIDE DEF type
    <3>1. front % 4 < 2
      BY <2>5
    <3>2. (next' % 4 = 0) => /\ front % 4 = 0 /\ next' - front >= 4
                        /\ type \in ReqTypes /\ type = requests[front \div 4 + 1]
      BY <2>7, <1>4
    <3> QED
      BY <2>1, <3>1, <3>2, Zenon DEF Answered
  <2> QED
    BY <2>8, <2>9
<1> QED
  BY <1>8, <1>9
\* evbuffer_remove takes all of a request or more.
LEMMA TakenIs ==
  ASSUME NEW n \in Nat
  PROVE  /\ Taken(n) \in 0 .. n
         /\ n >= 1 => Taken(n) >= 1
         /\ n >= 4 => Taken(n) >= 4
         /\ n = 4 => Taken(n) = 4
  BY ReadAssumption DEF Taken, ReqLen

\* The parts of the inductive invariant: the type and the source of the data
\* go together; single requests leave nothing behind; whole ones are behind
\* the front once answered; the answers fit the headers taken.
\* What the reply holds, and each answer is given from it.
BodyInv ==
  /\ Matching(replymsg)
  /\ \A i \in 1 .. Len(replies) :
       /\ Matching(replies[i].msg)
       /\ replies[i].msg.body2 = "location" => replymsg.body2 = "location"
       /\ replies[i].msg.body2 = "location" =>
            \A j \in i .. Len(replies) : replies[j].msg.body2 = "location"

SingleInv == single => aligned /\ front = next /\ Len(replies) * 4 = next

AlignedInv ==
  /\ aligned => next % 4 = 0
  /\ aligned => \A i \in 1 .. Len(replies) :
       /\ 4 * replies[i].request <= front
       /\ i > 1 => replies[i - 1].request < replies[i].request
       /\ requests[replies[i].request] \in {"other", replies[i].msg.msg_type}

BoundInv == Len(replies) <= Bound(front)

RequestInv == RequestTypeOK /\ BodyInv /\ SingleInv /\ AlignedInv /\ BoundInv

LEMMA RequestInitInv == ASSUME RequestInit PROVE RequestInv
<1>1. requests \in Seq(ReqTypes) /\ Len(requests) \in Nat
  BY RequestAssumption DEF RequestInit, ReqTypes
<1>2. RequestTypeOK
  <2>1. replymsg \in Message
    BY DEF RequestInit, Message
  <2> QED
    BY <1>1, <2>1 DEF RequestInit, RequestTypeOK, ReqLen
<1>3. Len(replies) = 0
  BY DEF RequestInit
<1>4. BodyInv
  BY <1>3 DEF RequestInit, BodyInv, Matching, SourceOf
<1>5. SingleInv
  BY <1>3 DEF RequestInit, SingleInv
<1>6. AlignedInv
  BY <1>3 DEF RequestInit, AlignedInv
<1>7. BoundInv
  <2>1. Bound(front) \in Nat
    BY BoundGrows DEF RequestInit
  <2> QED
    BY <2>1, <1>3 DEF BoundInv
<1> QED
  BY <1>2, <1>4, <1>5, <1>6, <1>7 DEF RequestInv

LEMMA ReconnectInv == ASSUME RequestInv, Reconnect PROVE RequestInv'
<1>1. requests' \in Seq(ReqTypes) /\ Len(requests') \in Nat
  BY RequestAssumption DEF Reconnect, ReqTypes
<1>2. RequestTypeOK'
  BY <1>1 DEF RequestInv, Reconnect, RequestTypeOK, ReqLen
<1>3. Len(replies') = 0
  BY DEF Reconnect
<1>4. BodyInv'
  BY <1>3 DEF RequestInv, Reconnect, BodyInv
<1>5. SingleInv'
  BY <1>3 DEF Reconnect, SingleInv
<1>6. AlignedInv'
  BY <1>3 DEF Reconnect, AlignedInv
<1>7. BoundInv'
  <2>1. Bound(0) \in Nat
    BY BoundGrows
  <2>2. front' = 0
    BY DEF Reconnect
  <2> QED
    BY <2>1, <2>2, <1>3 DEF BoundInv
<1> QED
  BY <1>2, <1>4, <1>5, <1>6, <1>7 DEF RequestInv

LEMMA CallInv ==
  ASSUME RequestInv, NEW k \in 1 .. ReqLen * Len(requests), OnDatasockRead(k)
  PROVE  RequestInv'
<1> DEFINE n == next + k - front
           L == Len(requests)
<1>1. requests \in Seq(ReqTypes) /\ L \in Nat
  BY RequestAssumption DEF RequestInv, RequestTypeOK, ReqTypes
<1>2. next \in Nat /\ front \in Nat /\ front <= next /\ k \in Nat /\ k >= 1
  BY <1>1 DEF RequestInv, RequestTypeOK, ReqLen
<1>3. /\ next' = next + k /\ next + k <= 4 * L /\ front' = front + Taken(n)
      /\ requests' = requests
      /\ aligned' = (aligned /\ k % 4 = 0)
      /\ single' = (single /\ k = 4)
  BY DEF OnDatasockRead, ReqLen
<1>4. n \in Nat /\ n >= 1 /\ front + n = next' /\ next' - front = n
  BY <1>2, <1>3
<1> HIDE DEF n
<1>5. /\ Taken(n) \in 1 .. n /\ (n >= 4 => Taken(n) >= 4) /\ (n = 4 => Taken(n) = 4)
  BY <1>4, TakenIs
<1>6. /\ next' \in Nat /\ front' \in Nat /\ front' <= next' /\ next' <= 4 * L
      /\ front < front' /\ (n >= 4 => front + 4 <= front') /\ (n = 4 => front' = next')
  BY <1>2, <1>3, <1>4, <1>5
<1>7. /\ aligned' => aligned /\ k % 4 = 0
      /\ single' => single /\ k = 4
      /\ aligned' \in BOOLEAN /\ single' \in BOOLEAN
  <2>1. aligned \in BOOLEAN /\ single \in BOOLEAN
    BY DEF RequestInv, RequestTypeOK
  <2> QED
    BY <2>1, <1>3, Zenon
<1>8. aligned' => aligned /\ next % 4 = 0 /\ next' % 4 = 0
  <2>1. aligned' => aligned /\ next % 4 = 0 /\ k % 4 = 0
    BY <1>7, Zenon DEF RequestInv, AlignedInv
  <2>2. next % 4 = 0 /\ k % 4 = 0 => next' % 4 = 0
    <3>1. next = 4 * (next \div 4) + (next % 4) /\ next \div 4 \in Nat
      BY <1>2, DivMod
    <3>2. k = 4 * (k \div 4) + (k % 4) /\ k \div 4 \in Nat
      BY <1>2, DivMod
    <3> QED
      BY <1>3, <3>1, <3>2
  <2> QED
    BY <2>1, <2>2, Zenon
<1>9. single' => aligned' /\ n = 4 /\ front % 4 = 0 /\ Len(replies) * 4 = front
  <2>1. single' => single /\ k = 4 /\ aligned /\ front = next /\ Len(replies) * 4 = next
    BY <1>7, Zenon DEF RequestInv, SingleInv
  <2>2. k = 4 => k % 4 = 0
    OBVIOUS
  <2>3. single' => aligned'
    BY <2>1, <2>2, <1>3, Zenon
  <2>4. aligned' => next % 4 = 0
    BY <1>8
  <2>5. k = 4 /\ front = next => n = 4
    BY <1>2 DEF n
  <2> QED
    BY <2>1, <2>3, <2>4, <2>5, Zenon
<1>10. /\ replymsg \in Message
       /\ replies \in Seq([request : 1 .. L, msg : Message])
       /\ Len(replies) \in Nat
  BY DEF RequestInv, RequestTypeOK
<1>10a. ASSUME NEW i \in 1 .. Len(replies)
        PROVE  replies[i].request \in Nat
  <2> DEFINE S == [request : 1 .. L, msg : Message]
  <2>1. replies[i] \in S
    <3>1. replies \in Seq(S)
      BY <1>10
    <3> HIDE DEF S
    <3> QED
      BY <3>1
  <2>2. replies[i].request \in 1 .. L
    BY <2>1
  <2> QED
    BY <2>2, <1>1
<1>10b. /\ Bound(front) \in Nat /\ Bound(front') \in Nat
        /\ Bound(front) <= Bound(front')
        /\ front % 4 < 2 => Bound(front) + 1 <= Bound(front')
  <2>1. front <= front'
    BY <1>2, <1>6
  <2>2. /\ Bound(front) \in Nat
        /\ Bound(front) <= Bound(front')
        /\ front < front' /\ front % 4 < 2 => Bound(front) + 1 <= Bound(front')
    BY <1>2, <1>6, <2>1, BoundGrows, Zenon
  <2>3. Bound(front') \in Nat
    <3>1. front' \in Nat /\ front' <= front'
      BY <1>6
    <3> QED
      BY <3>1, BoundGrows, Zenon
  <2> QED
    BY <1>6, <2>2, <2>3
<1>11. CASE /\ replymsg' = replymsg /\ replies' = replies
            /\ ~(front % 4 = 0 /\ next' - front >= 4)
  <2>1. RequestTypeOK'
    BY <1>2, <1>3, <1>6, <1>7, <1>10, <1>11 DEF RequestInv, RequestTypeOK, ReqLen
  <2>2. BodyInv'
    BY <1>11 DEF RequestInv, BodyInv
  <2>3. ~single'
    <3>1. ~(front % 4 = 0 /\ n = 4)
      BY <1>11, <1>4
    <3> QED
      BY <3>1, <1>9, Zenon
  <2>4. SingleInv'
    BY <2>3 DEF SingleInv
  <2>5. AlignedInv'
    <3> SUFFICES ASSUME aligned'
                 PROVE  /\ next' % 4 = 0
                        /\ \A i \in 1 .. Len(replies) :
                            /\ 4 * replies[i].request <= front'
                            /\ i > 1 => replies[i - 1].request < replies[i].request
                            /\ requests[replies[i].request] \in {"other", replies[i].msg.msg_type}
      BY <1>11, <1>3 DEF AlignedInv
    <3>1. next' % 4 = 0 /\ aligned
      BY <1>8
    <3>2. ASSUME NEW i \in 1 .. Len(replies)
          PROVE  /\ 4 * replies[i].request <= front'
                 /\ i > 1 => replies[i - 1].request < replies[i].request
                 /\ requests[replies[i].request] \in {"other", replies[i].msg.msg_type}
      <4>1. /\ 4 * replies[i].request <= front
            /\ i > 1 => replies[i - 1].request < replies[i].request
            /\ requests[replies[i].request] \in {"other", replies[i].msg.msg_type}
        BY <3>1, Zenon DEF RequestInv, AlignedInv
      <4>2. replies[i].request \in Nat
        BY <1>10a
      <4>3. 4 * replies[i].request <= front'
        BY <4>1, <4>2, <1>6, <1>2
      <4> QED
        BY <4>1, <4>3, Zenon
    <3> QED
      BY <3>1, <3>2
  <2>6. BoundInv'
    <3>1. Bound(front) <= Bound(front') /\ Bound(front) \in Nat /\ Bound(front') \in Nat
      BY <1>10b
    <3>2. Len(replies) <= Bound(front)
      BY DEF RequestInv, BoundInv
    <3>3. Len(replies) <= Bound(front')
      BY <3>1, <3>2, <1>10
    <3> QED
      BY <3>3, <1>11 DEF BoundInv
  <2> QED
    BY <2>1, <2>2, <2>4, <2>5, <2>6 DEF RequestInv
<1>12. ASSUME NEW type \in Contents, Answered(type)
       PROVE  RequestInv'
  <2> DEFINE r == front \div 4 + 1
             m == Reply(type)
             answer == [request |-> r, msg |-> m]
  <2>1. /\ replymsg' = m /\ replies' = Append(replies, answer)
        /\ front % 4 < 2
    BY <1>12 DEF Answered
  <2>2. /\ m \in Message
        /\ type \in ReqTypes => type \in {"other", m.msg_type}
        /\ Matching(replymsg) => Matching(m)
        /\ replymsg.body2 = "location" => m.body2 = "location"
    BY <1>10, ReplyIsMessage
  <2>3. /\ next' % 4 = 0 => /\ front % 4 = 0 /\ n >= 4
                             /\ type \in ReqTypes /\ type = requests[r]
    BY <1>12, <1>4 DEF Answered
  <2>4. r \in 1 .. L /\ front = 4 * (r - 1) + (front % 4)
    <3>1. front = 4 * (front \div 4) + (front % 4) /\ front \div 4 \in Nat /\ front % 4 \in 0 .. 3
      BY <1>2, DivMod
    <3> QED
      BY <3>1, <1>1, <1>2, <1>6
  <2> HIDE DEF r, m
  <2>5. answer \in [request : 1 .. L, msg : Message]
    BY <2>2, <2>4
  <2>6. /\ answer.request = r /\ answer.msg = m
    OBVIOUS
  <2> HIDE DEF answer
  <2>7. /\ replies' \in Seq([request : 1 .. L, msg : Message])
        /\ Len(replies') = Len(replies) + 1
        /\ replies'[Len(replies) + 1] = answer
        /\ \A i \in 1 .. Len(replies) : replies'[i] = replies[i]
    BY <1>10, <2>1, <2>5
  <2>8. RequestTypeOK'
    BY <1>2, <1>3, <1>6, <1>7, <2>1, <2>2, <2>7 DEF RequestInv, RequestTypeOK, ReqLen
  <2>9. BodyInv'
    <3>1. Matching(m)
      BY <2>2 DEF RequestInv, BodyInv
    <3>2. ASSUME NEW i \in 1 .. Len(replies')
          PROVE  Matching(replies'[i].msg)
      <4>1. CASE i = Len(replies) + 1
        BY <4>1, <2>6, <2>7, <3>1
      <4>2. CASE i \in 1 .. Len(replies)
        BY <4>2, <2>7 DEF RequestInv, BodyInv
      <4> QED
        BY <4>1, <4>2, <2>7, <1>10
    <3>3. ASSUME NEW i \in 1 .. Len(replies'), replies'[i].msg.body2 = "location"
          PROVE  m.body2 = "location"
      <4>1. CASE i = Len(replies) + 1
        BY <4>1, <2>6, <2>7, <3>3
      <4>2. CASE i \in 1 .. Len(replies)
        BY <4>2, <2>2, <2>7, <3>3 DEF RequestInv, BodyInv
      <4> QED
        BY <4>1, <4>2, <2>7, <1>10
    <3>4. ASSUME NEW i \in 1 .. Len(replies'), replies'[i].msg.body2 = "location",
                 NEW j \in i .. Len(replies')
          PROVE  replies'[j].msg.body2 = "location"
      <4>1. CASE j = Len(replies) + 1
        BY <4>1, <2>6, <2>7, <3>3, <3>4
      <4>2. CASE j # Len(replies) + 1
        <5>1. i \in 1 .. Len(replies) /\ j \in i .. Len(replies) /\ j \in 1 .. Len(replies)
          BY <4>2, <2>7, <1>10
        <5>2. replies[i].msg.body2 = "location"
          BY <5>1, <2>7, <3>4
        <5>3. replies[j].msg.body2 = "location"
          BY <5>1, <5>2, Zenon DEF RequestInv, BodyInv
        <5> QED
          BY <5>1, <5>3, <2>7
      <4> QED
        BY <4>1, <4>2
    <3>5. /\ Matching(replymsg')
          /\ \A i \in 1 .. Len(replies') :
               replies'[i].msg.body2 = "location" => replymsg'.body2 = "location"
      BY <2>1, <3>1, <3>3, Zenon
    <3> QED
      BY <3>2, <3>4, <3>5, Zenon DEF BodyInv, Matching
  <2>10. SingleInv'
    <3> SUFFICES ASSUME single'
                 PROVE  aligned' /\ front' = next' /\ Len(replies') * 4 = next'
      BY DEF SingleInv
    <3>1. aligned' /\ n = 4 /\ Len(replies) * 4 = front
      BY <1>9
    <3>2. front' = next' /\ next' = front + 4
      BY <3>1, <1>4, <1>6
    <3>3. Len(replies') * 4 = next'
      BY <3>1, <3>2, <2>7, <1>10
    <3> QED
      BY <3>1, <3>2, <3>3
  <2>11. AlignedInv'
    <3> SUFFICES ASSUME aligned'
                 PROVE  /\ next' % 4 = 0
                        /\ \A i \in 1 .. Len(replies') :
                            /\ 4 * replies'[i].request <= front'
                            /\ i > 1 => replies'[i - 1].request < replies'[i].request
                            /\ requests[replies'[i].request] \in {"other", replies'[i].msg.msg_type}
      BY <1>3 DEF AlignedInv
    <3>1. aligned /\ next' % 4 = 0
      BY <1>8
    <3>2. /\ front % 4 = 0 /\ n >= 4 /\ requests[r] \in {"other", m.msg_type}
      BY <3>1, <2>2, <2>3
    <3>3. front = 4 * (r - 1) /\ 4 * r <= front' /\ r \in Nat
      BY <3>2, <2>4, <1>1, <1>2, <1>6
    <3>4. ASSUME NEW i \in 1 .. Len(replies)
          PROVE  /\ 4 * replies[i].request <= front
                 /\ i > 1 => replies[i - 1].request < replies[i].request
                 /\ requests[replies[i].request] \in {"other", replies[i].msg.msg_type}
                 /\ replies[i].request \in Nat
      <4>1. replies[i].request \in Nat
        BY <1>10a
      <4> QED
        BY <3>1, <4>1, Zenon DEF RequestInv, AlignedInv
    <3>5. ASSUME NEW i \in 1 .. Len(replies')
          PROVE  /\ 4 * replies'[i].request <= front'
                 /\ i > 1 => replies'[i - 1].request < replies'[i].request
                 /\ requests[replies'[i].request] \in {"other", replies'[i].msg.msg_type}
      <4>1. CASE i \in 1 .. Len(replies)
        <5>1. replies'[i] = replies[i]
          BY <4>1, <2>7
        <5>1a. ASSUME i > 1 PROVE replies'[i - 1] = replies[i - 1]
          <6>1. i - 1 \in 1 .. Len(replies)
            BY <4>1, <5>1a, <1>10
          <6> QED
            BY <6>1, <2>7
        <5>2. /\ 4 * replies[i].request <= front
              /\ i > 1 => replies[i - 1].request < replies[i].request
              /\ requests[replies[i].request] \in {"other", replies[i].msg.msg_type}
              /\ replies[i].request \in Nat
          BY <4>1, <3>4
        <5>3. 4 * replies[i].request <= front'
          <6> DEFINE q == replies[i].request
          <6>1. q \in Nat /\ 4 * q <= front
            BY <5>2
          <6> HIDE DEF q
          <6>2. 4 * q <= front'
            BY <6>1, <1>2, <1>6
          <6> QED
            BY <6>2 DEF q
        <5> QED
          BY <5>1, <5>1a, <5>2, <5>3
      <4>2. CASE i = Len(replies) + 1
        <5>1. replies'[i].request = r /\ replies'[i].msg = m
          BY <4>2, <2>6, <2>7
        <5>2. ASSUME i > 1 PROVE replies'[i - 1].request < r
          <6>1. i - 1 \in 1 .. Len(replies) /\ i - 1 = Len(replies)
            BY <4>2, <5>2, <1>10
          <6>2. replies'[i - 1] = replies[i - 1]
            BY <6>1, <2>7
          <6>3. 4 * replies[i - 1].request <= front /\ replies[i - 1].request \in Nat
            BY <6>1, <3>4
          <6>4. replies[i - 1].request < r
            BY <6>3, <3>3
          <6> QED
            BY <6>2, <6>4
        <5> QED
          BY <5>1, <5>2, <3>2, <3>3
      <4> QED
        BY <4>1, <4>2, <2>7, <1>10
    <3> QED
      BY <3>1, <3>5
  <2>12. BoundInv'
    <3>1. Bound(front) + 1 <= Bound(front') /\ Bound(front) \in Nat /\ Bound(front') \in Nat
      BY <1>10b, <2>1
    <3>2. Len(replies) <= Bound(front)
      BY DEF RequestInv, BoundInv
    <3>3. Len(replies') <= Bound(front')
      BY <3>1, <3>2, <1>10, <2>7
    <3> QED
      BY <3>3 DEF BoundInv
  <2> QED
    BY <2>8, <2>9, <2>10, <2>11, <2>12 DEF RequestInv
<1>13. \/ /\ replymsg' = replymsg /\ replies' = replies
          /\ ~(front % 4 = 0 /\ next' - front >= 4)
       \/ \E type \in Contents : Answered(type)
  BY CallAnswers DEF RequestInv
<1> QED
  BY <1>11, <1>12, <1>13

LEMMA RequestInvariant == RequestSpec => []RequestInv
<1>1. ASSUME RequestInv, [RequestNext]_requestVars PROVE RequestInv'
  <2>1. CASE Reconnect
    BY <1>1, <2>1, ReconnectInv
  <2>2. CASE \E k \in 1 .. ReqLen * Len(requests) : OnDatasockRead(k)
    BY <1>1, <2>2, CallInv
  <2>3. CASE UNCHANGED requestVars
    <3>1. /\ requests' = requests /\ next' = next /\ front' = front
          /\ replymsg' = replymsg /\ replies' = replies
          /\ aligned' = aligned /\ single' = single
      BY <2>3 DEF requestVars, streamVars
    <3> QED
      BY <1>1, <3>1 DEF RequestInv, RequestTypeOK, BodyInv, SingleInv, AlignedInv, BoundInv
  <2> QED
    BY <1>1, <2>1, <2>2, <2>3 DEF RequestNext
<1> QED
  BY <1>1, RequestInitInv, PTL DEF RequestSpec

\* on_datasock_read and host_request_proc keep their state within its types:
\* no more is taken from the bufferevent than has arrived, and every answer is
\* to a request of the stream.
THEOREM RequestTypes == RequestSpec => []RequestTypeOK
<1>1. RequestInv => RequestTypeOK
  BY DEF RequestInv
<1> QED
  BY <1>1, RequestInvariant, PTL

\* The static replymsg of host_request_proc is filled piecemeal and kept over
\* a reconnection: the first half of every answer's body is of the type it
\* names, and once an answer named GPS every later one has the location in
\* its second half.
THEOREM BodyAlwaysMatches == RequestSpec => []BodyMatchesType
<1>1. RequestInv => BodyMatchesType
  BY DEF RequestInv, BodyInv, Matching, BodyMatchesType, SourceOf
<1> QED
  BY <1>1, RequestInvariant, PTL

\* Whatever the host sends and however the stream is cut, for any size of the
\* read from four up: requests that arrive whole are answered in order, none
\* twice; single ones all are; and a cut one at most twice.
THEOREM AnswersStayInOrder == RequestSpec => []AnswersInOrder
<1>1. ASSUME RequestInv PROVE AnswersInOrder
  <2>1. RequestTypeOK
    BY <1>1 DEF RequestInv
  <2>2. AllAnsweredIfSingle
    BY <1>1 DEF RequestInv, SingleInv, AllAnsweredIfSingle, ReqLen
  <2>3. AnswersBounded
    <3> DEFINE b == HdrLen * ((front + ReqLen - 1) \div ReqLen)
    <3>1. front \in Nat /\ Len(replies) \in Nat
      BY <2>1 DEF RequestTypeOK
    <3>2. Bound(front) <= b /\ Bound(front) \in Nat
      BY <3>1, BoundIsPromised, BoundGrows
    <3>3. b \in Nat
      BY <3>1 DEF HdrLen, ReqLen
    <3>4. Len(replies) <= Bound(front)
      BY <1>1 DEF RequestInv, BoundInv
    <3> HIDE DEF b
    <3>5. Len(replies) <= b
      BY <3>1, <3>2, <3>3, <3>4
    <3> QED
      BY <3>5 DEF b, AnswersBounded
  <2> QED
    BY <1>1, <2>1, <2>2, <2>3, Zenon DEF RequestInv, AlignedInv, AnswersInOrder
<1> QED
  BY <1>1, RequestInvariant, PTL
=============================================================================
