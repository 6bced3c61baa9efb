----------------------------- MODULE DataSocket -----------------------------
(***************************************************************************)
(* The uplink to the host: the class DataSocket (datasocket.cpp), the      *)
(* libevent loop of main.cpp that owns it, and the boardctl thread that    *)
(* submits capture packets through it.                                     *)
(*                                                                         *)
(* Two threads share the member m_bufev without a lock.  The main thread   *)
(* runs every libevent callback: it creates the bufferevent (init,         *)
(* restart), frees it (release, a failed connect) and clears the member.   *)
(* The boardctl thread tests m_bufev and then uses it (submit).  Each main *)
(* thread step that the boardctl thread can observe is an action of its    *)
(* own; so are the test, the load and the use in submit.                   *)
(*                                                                         *)
(* A bufferevent is an address of Bevs; a freed address may be handed out  *)
(* again by a later bufferevent_socket_new.  libevent and the network are  *)
(* external: they are modelled from the calls this code makes.             *)
(*                                                                         *)
(* The answers on_datasock_read gives to the host go through submit() too, *)
(* but on the main thread, where nothing comes between the test and the    *)
(* use; HostRequest is about them.                                         *)
(***************************************************************************)
EXTENDS Naturals, Sequences

CONSTANTS
  Bevs,        \* the addresses a bufferevent can have
  NULL,        \* the null pointer
  MaxPkts      \* bound: packets the boardctl thread submits

ASSUME NullAssumption == NULL \notin Bevs
ASSUME BoundAssumption == MaxPkts \in Nat

VARIABLES
  m_bufev,       \* the member, read and written without a lock
  m_sockstatus,  \* what handle_timeout looks at
  started_,      \* Cthread: start() succeeded and stop() has not run since
  detached_,     \* Cthread: detach() ran; never reset
  bev,           \* libevent: the state of the bufferevent at each address
  cbs,           \* libevent: the bufferevents whose callbacks are installed
  wire,          \* the packets written to each bufferevent, by number
  net,           \* the path to the host
  main,          \* where the main thread is
  board,         \* where the boardctl thread is
  ptr,           \* the pointer the boardctl thread passes to libevent
  pkt,           \* packets the boardctl thread has begun to submit
  raced,         \* history: m_bufev was being replaced during this submit
  alive          \* the process runs

connVars  == <<bev, cbs, wire>>
sockVars  == <<m_bufev, m_sockstatus>>
thrVars   == <<started_, detached_>>
boardVars == <<board, ptr, pkt>>
vars == <<sockVars, thrVars, connVars, net, main, boardVars, raced, alive>>

Status == {"sock_uninit", "sock_init_fail", "sock_init_nodata"}
BevState == {"free", "new", "connecting", "up", "lost"}
MainPc == {"start", "loop", "connect", "failed", "setcb", "free", "null"}

Live == {b \in Bevs : bev[b] # "free"}

Init ==
  /\ m_bufev \in Bevs \cup {NULL}       \* the constructor leaves it unset
  /\ m_sockstatus = "sock_uninit"
  /\ started_ = FALSE
  /\ detached_ = FALSE
  /\ bev = [b \in Bevs |-> "free"]
  /\ cbs = {}
  /\ wire = [b \in Bevs |-> <<>>]
  /\ net \in {"noroute", "refused", "ok"}
  /\ main = "start"
  /\ board = "off"
  /\ ptr = NULL
  /\ pkt = 0
  /\ raced = FALSE
  /\ alive = TRUE

-----------------------------------------------------------------------------
(* Pieces of the calls.                                                    *)

\* bufferevent_socket_new: some address that is not in use.
NewBev(b) ==
  /\ bev[b] = "free"
  /\ bev' = [bev EXCEPT ![b] = "new"]
  /\ wire' = [wire EXCEPT ![b] = <<>>]
  /\ UNCHANGED cbs

\* bufferevent_free: the memory, the socket and the unsent output are gone.
FreeBev(b) ==
  /\ bev' = [bev EXCEPT ![b] = "free"]
  /\ wire' = [wire EXCEPT ![b] = <<>>]
  /\ cbs' = cbs \ {b}

\* start(): pthread_create may fail, and nobody looks.
Start == started_' \in BOOLEAN

\* A detach that forgets to record what it did.
Detach_Forgotten == UNCHANGED detached_

\* detach(), right after start().
Detach == detached_' = (detached_ \/ started_')

\* stop(): clears started_; it would first join() a thread that is not
\* detached, and the event loop with it (LoopConsistent).
Stop ==
  /\ started_' = FALSE
  /\ UNCHANGED detached_

\* A submit is in progress while the boardctl thread holds an answer of
\* its test of m_bufev.
InSubmit == board \in {"load", "write"}
-----------------------------------------------------------------------------
(* The main thread.                                                        *)

\* DataSocket::init.  If connect fails at once it leaves sock_init_fail.
DataSocketInit ==
  \/ /\ net # "noroute"
     /\ \E b \in Bevs :
          /\ m_bufev' = b
          /\ bev' = [bev EXCEPT ![b] = "connecting"]
     /\ m_sockstatus' = "sock_init_nodata"
     /\ Start /\ Detach
  \/ /\ net = "noroute"
     /\ m_bufev' = NULL
     /\ m_sockstatus' = "sock_init_fail"
     /\ UNCHANGED <<thrVars, bev>>

\* main(): g_datasock->init(...), setcb(...), g_myboard->init(...), dispatch.
\* The boardctl thread does not exist before the last of them, so this is
\* one step.  If init failed setcb does nothing, and main goes on regardless.
MainInit ==
  /\ main = "start"
  /\ main' = "loop"
  /\ board' = "idle"
  /\ DataSocketInit
  /\ cbs' = cbs \cup ({m_bufev'} \ {NULL})
  /\ UNCHANGED <<wire, net, ptr, pkt, raced, alive>>

HandleTimeout_AnyStatus ==
  /\ main = "loop"
  /\ \E b \in Bevs : NewBev(b) /\ m_bufev' = b
  /\ main' = "connect"
  /\ raced' = (raced \/ InSubmit)
  /\ UNCHANGED <<m_sockstatus, thrVars, net, boardVars, alive>>

\* handle_timeout, every 10 s: restart() only out of sock_uninit.  The new
\* bufferevent is in m_bufev before anything is known about the connection.
HandleTimeout ==
  /\ main = "loop"
  /\ m_sockstatus = "sock_uninit"
  /\ \E b \in Bevs : NewBev(b) /\ m_bufev' = b
  /\ main' = "connect"
  /\ raced' = (raced \/ InSubmit)
  /\ UNCHANGED <<m_sockstatus, thrVars, net, boardVars, alive>>

\* restart(): bufferevent_socket_connect returned 0.
RestartConnected ==
  /\ main = "connect"
  /\ net # "noroute"
  /\ bev' = [bev EXCEPT ![m_bufev] = "connecting"]
  /\ m_sockstatus' = "sock_init_nodata"
  /\ Start /\ Detach
  /\ main' = "setcb"
  /\ UNCHANGED <<m_bufev, cbs, wire, net, boardVars, raced, alive>>

\* The status is overwritten with the return code.
RestartFailed_ReturnCode ==
  /\ main = "connect"
  /\ net = "noroute"
  /\ m_sockstatus' = "-1"
  /\ main' = "failed"
  /\ UNCHANGED <<m_bufev, thrVars, connVars, net, boardVars, raced, alive>>

\* restart(): the connect failed at once; the bufferevent is freed while
\* m_bufev still points to it.
RestartFailed ==
  /\ main = "connect"
  /\ net = "noroute"
  /\ m_sockstatus' = "sock_uninit"
  /\ main' = "failed"
  /\ UNCHANGED <<m_bufev, thrVars, connVars, net, boardVars, raced, alive>>

SetCb_Forgotten ==
  /\ main = "setcb"
  /\ main' = "loop"
  /\ UNCHANGED <<sockVars, thrVars, connVars, net, boardVars, raced, alive>>

\* handle_timeout after a successful restart(): setcb installs and enables
\* the callbacks of the new bufferevent.
SetCb ==
  /\ main = "setcb"
  /\ cbs' = cbs \cup {m_bufev}
  /\ main' = "loop"
  /\ UNCHANGED <<sockVars, thrVars, bev, wire, net, boardVars, raced, alive>>

\* on_socket_event with BEV_EVENT_ERROR or BEV_EVENT_EOF: release() begins.
\* stop(), m_brunning and m_sockstatus concern the main thread only.
OnSocketEvent ==
  /\ main = "loop"
  /\ m_bufev \in cbs
  /\ bev[m_bufev] = "lost"
  /\ Stop
  /\ m_sockstatus' = "sock_uninit"
  /\ main' = "free"
  /\ raced' = (raced \/ InSubmit)
  /\ UNCHANGED <<m_bufev, connVars, net, boardVars, alive>>

\* release() and the failure path of restart(): bufferevent_free(m_bufev).
FreeBufev ==
  /\ main \in {"free", "failed"}
  /\ FreeBev(m_bufev)
  /\ main' = "null"
  /\ UNCHANGED <<sockVars, thrVars, net, boardVars, raced, alive>>

NullBufev_Forgotten ==
  /\ main = "null"
  /\ main' = "loop"
  /\ UNCHANGED <<sockVars, thrVars, connVars, net, boardVars, raced, alive>>

\* ... and only then m_bufev=NULL.
NullBufev ==
  /\ main = "null"
  /\ m_bufev' = NULL
  /\ main' = "loop"
  /\ UNCHANGED <<m_sockstatus, thrVars, connVars, net, boardVars, raced, alive>>

-----------------------------------------------------------------------------
(* The boardctl thread: DataSocket::submit, called with the next packet.   *)

SubmitTest_None ==
  /\ board = "idle"
  /\ pkt < MaxPkts
  /\ pkt' = pkt + 1
  /\ raced' = (main # "loop")
  /\ board' = "load"
  /\ UNCHANGED <<sockVars, thrVars, connVars, net, main, ptr, alive>>

\* if(m_bufev): without a bufferevent the packet is dropped.
SubmitTest ==
  /\ board = "idle"
  /\ pkt < MaxPkts
  /\ pkt' = pkt + 1
  /\ raced' = (main # "loop")
  /\ board' = IF m_bufev = NULL THEN "idle" ELSE "load"
  /\ UNCHANGED <<sockVars, thrVars, connVars, net, main, ptr, alive>>

\* The argument of bufferevent_write: m_bufev is read a second time.
SubmitLoad ==
  /\ board = "load"
  /\ ptr' = m_bufev
  /\ board' = "write"
  /\ UNCHANGED <<sockVars, thrVars, connVars, net, main, pkt, raced, alive>>

SubmitWrite_Twice ==
  /\ board = "write"
  /\ \/ /\ ptr \in Live
        /\ wire' = [wire EXCEPT ![ptr] = @ \o <<pkt, pkt>>]
        /\ board' = "idle"
        /\ UNCHANGED alive
     \/ /\ ptr \in Bevs \ Live
        /\ board' = "idle"
        /\ UNCHANGED <<wire, alive>>
     \/ /\ ptr \notin Live
        /\ alive' = FALSE
        /\ UNCHANGED <<wire, board>>
  /\ UNCHANGED <<sockVars, thrVars, bev, cbs, net, main, ptr, pkt, raced>>

\* bufferevent_write(m_bufev, ...) on the pointer just read.  On a
\* bufferevent that is in use the packet joins its output.  On freed memory
\* the bytes vanish or the process dies; on the null pointer it dies.
SubmitWrite ==
  /\ board = "write"
  /\ \/ /\ ptr \in Live
        /\ wire' = [wire EXCEPT ![ptr] = Append(@, pkt)]
        /\ board' = "idle"
        /\ UNCHANGED alive
     \/ /\ ptr \in Bevs \ Live
        /\ board' = "idle"
        /\ UNCHANGED <<wire, alive>>
     \/ /\ ptr \notin Live
        /\ alive' = FALSE
        /\ UNCHANGED <<wire, board>>
  /\ UNCHANGED <<sockVars, thrVars, bev, cbs, net, main, ptr, pkt, raced>>
-----------------------------------------------------------------------------
(* The network and the host.                                               *)

\* The path to the host changes.
NetChange ==
  /\ net' \in {"noroute", "refused", "ok"} \ {net}
  /\ UNCHANGED <<sockVars, thrVars, connVars, main, boardVars, raced, alive>>

Link(b, from, to) ==
  /\ bev[b] \in from
  /\ bev' = [bev EXCEPT ![b] = to]
  /\ UNCHANGED <<sockVars, thrVars, cbs, wire, net, main, boardVars, raced, alive>>

\* A pending connect completes (BEV_EVENT_CONNECTED only prints).
ConnUp == net = "ok" /\ \E b \in Bevs : Link(b, {"connecting"}, "up")

\* A connect is refused, a connection is reset or closed by the host.
ConnLost == net # "ok" /\ \E b \in Bevs : Link(b, {"connecting", "up"}, "lost")
-----------------------------------------------------------------------------
MainStep ==
  \/ MainInit \/ HandleTimeout \/ RestartConnected \/ RestartFailed \/ SetCb
  \/ OnSocketEvent \/ FreeBufev \/ NullBufev
BoardStep == SubmitTest \/ SubmitLoad \/ SubmitWrite
NetStep == NetChange \/ ConnUp \/ ConnLost

Next == alive /\ (MainStep \/ BoardStep \/ NetStep)

Spec == Init /\ [][Next]_vars

\* The threads run and the timer is EV_PERSIST; a connect to a reachable
\* host completes.  Nothing is assumed of hosts that are not reachable, nor
\* of the order in which threads run.
Fairness ==
  /\ WF_vars(alive /\ MainStep)
  /\ WF_vars(alive /\ (SubmitLoad \/ SubmitWrite))
  /\ WF_vars(alive /\ ConnUp)

FairSpec == Spec /\ Fairness
-----------------------------------------------------------------------------
(* Properties.                                                             *)

TypeOK ==
  /\ m_bufev \in Bevs \cup {NULL}
  /\ m_sockstatus \in Status
  /\ started_ \in BOOLEAN
  /\ detached_ \in BOOLEAN
  /\ bev \in [Bevs -> BevState]
  /\ cbs \subseteq Bevs
  /\ wire \in [Bevs -> Seq(Nat)]
  /\ net \in {"noroute", "refused", "ok"}
  /\ main \in MainPc
  /\ board \in {"off", "idle", "load", "write"}
  /\ ptr \in Bevs \cup {NULL}
  /\ pkt \in Nat
  /\ raced \in BOOLEAN
  /\ alive \in BOOLEAN

\* restart() and init() overwrite m_bufev without freeing what it points
\* to.  No bufferevent is lost that way: whatever is allocated is the one
\* m_bufev points to, at every step of every reconnection.
NoLeak == \A b \in Live : b = m_bufev

\* Whenever the event loop is idle the status the timer looks at tells the
\* truth about the pointer the callbacks and submit() use, the bufferevent
\* will report its own end (its callbacks are installed), and a release()
\* would not have to join a thread from inside the loop.
LoopConsistent ==
  main = "loop" =>
    /\ m_sockstatus = "sock_init_nodata" <=> m_bufev # NULL
    /\ m_bufev # NULL => m_bufev \in Live \cap cbs
    /\ started_ => detached_

\* submit() of the boardctl thread hands libevent a bufferevent that is in
\* use, unless a release() or a restart() was under way at some moment
\* between its test of m_bufev and its use: the unlocked window is the only
\* way to a dangling or null pointer.
DanglingOnlyIfRaced == board = "write" /\ ~raced => ptr \in Live

\* init() and restart() record a failed connect differently, and the timer
\* retries only one of the two: a board that starts without a route to the
\* host never tries again, however long it runs.
InitFailIsFinal ==
  [][m_sockstatus = "sock_init_fail"
       => m_sockstatus' = "sock_init_fail" /\ m_bufev' = NULL]_vars

\* The uplink is a session: at most one, packets in order, no packet twice,
\* none missing in the middle, and none while the session is open but one
\* whose submit still holds the pointer of the session before.
SessionLog == IF m_bufev \in Live THEN wire[m_bufev] ELSE <<>>
Disposed == IF InSubmit THEN pkt - 1 ELSE pkt
Late == board = "write" /\ Live # {} /\ ptr # m_bufev
Session == INSTANCE UplinkSession WITH
  open <- Live # {}, log <- SessionLog, n <- Disposed,
  late <- Late
ImplementsSession == Session!Spec

\* If the host ends up reachable for good, the uplink ends up connected for
\* good: every loss is noticed, released and retried.  The exceptions are
\* the initial failure above and the death of the process.
Reconnects ==
  <>[](net = "ok") =>
    \/ <>(~alive \/ m_sockstatus = "sock_init_fail")
    \/ <>[](m_bufev # NULL /\ bev[m_bufev] = "up")
=============================================================================
