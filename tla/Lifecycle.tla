----------------------------- MODULE Lifecycle -----------------------------
(***************************************************************************)
(* The life of the process: the steps of main that make the objects and    *)
(* start their threads (main.cpp:156-225), and illegal_inst_handler        *)
(* (main.cpp:44-112), which a signal runs in the middle of whatever its    *)
(* thread does and which releases and deletes objects while the threads    *)
(* that use them run on.                                                   *)
(*                                                                         *)
(* The kernel gives a signal of the process to the main thread, unless     *)
(* that runs a handler already: then any thread may get it that does not   *)
(* block it, and a thread blocks only the signal it is handling.  A        *)
(* handler on top of another suspends it, as it suspends its thread.       *)
(*                                                                         *)
(* The allocator has one lock.  backtrace_symbols, delete and exit need    *)
(* it, and a handler cannot get it from the thread it interrupted.         *)
(***************************************************************************)
EXTENDS Naturals, Sequences

CONSTANTS
  Signals,     \* the numbers the handler is installed for: SIGINT, SIGTERM...
  MaxSignals   \* bound: how many signals are sent

ASSUME SignalsAssumption == MaxSignals \in Nat

Threads == {"main", "gps", "hid", "eim", "board"}

VARIABLES
  main,       \* the step of main that comes next
  gpsport, g_eimdata, g_datafs,   \* null, live, or deleted (and still set)
  fsFile,     \* _fpsysmgr of the record manager: open, or never set
  thr,        \* where the threads are
  m_brunning, started_, detached_,  \* of g_eimdata
  heap,       \* who holds the allocator's lock
  handlers,   \* the handlers on the stack of each thread, the last on top
  installed,  \* signal() was called
  sent,       \* the number of signals sent
  process,    \* running, exited, killed (by a signal), or died
  fault,      \* history: who touched an object after it was deleted
  deletes,    \* history: how often g_eimdata was deleted
  oldTurn,    \* history: the EIM thread has begun no turn since it was told
  at,         \* history: where the EIM thread was when release() returned
  elsewhere,  \* history: a handler ran on another thread than main
  late        \* history: a handler began after the first delete

mainVars == <<main, gpsport, fsFile, installed>>
eimVars  == <<m_brunning, started_, detached_, g_eimdata>>
history  == <<fault, deletes, oldTurn, at, elsewhere, late>>
vars == <<mainVars, eimVars, g_datafs, thr, heap, handlers, sent, process, history>>

Init ==
  /\ main = "gps"
  /\ gpsport = "null" /\ g_eimdata = "null" /\ g_datafs = "null"
  /\ fsFile = "unset"
  /\ thr = [t \in Threads \ {"main"} |-> "none"]
  /\ m_brunning = FALSE /\ started_ = FALSE /\ detached_ = FALSE
  /\ heap = "free"
  /\ handlers = [t \in Threads |-> <<>>]
  /\ installed = FALSE /\ sent = 0 /\ process = "running"
  /\ fault = {} /\ deletes = 0 /\ oldTurn = FALSE /\ at = "none"
  /\ elsewhere = FALSE /\ late = FALSE

\* Thread t executes its own code.
Runs(t) == process = "running" /\ handlers[t] = <<>>

\* Reading freed memory: the process may die of it, or not.
Touch(object, who) ==
  IF object = "deleted"
  THEN fault' = fault \cup {who} /\ process' \in {"running", "died"}
  ELSE UNCHANGED <<fault, process>>
-----------------------------------------------------------------------------
(* main.                                                                   *)

MainStep(step, next) ==
  /\ Runs("main") /\ heap # "main"
  /\ main = step /\ main' = next

\* new Serialport and its init: without a tty the object is deleted and main
\* returns, else the GPS thread runs.
MainGps ==
  /\ Runs("main") /\ main = "gps"
  /\ \/ main' = "open" /\ gpsport' = "live" /\ thr' = [thr EXCEPT !["gps"] = "run"]
     \/ main' = "return" /\ gpsport' = "deleted" /\ UNCHANGED thr
  /\ UNCHANGED <<fsFile, installed, eimVars, g_datafs, heap, handlers, sent,
                 process, history>>

\* open("/dev/eimfpga"): on failure gpsport is deleted, under its thread.
MainOpen ==
  /\ Runs("main") /\ main = "open"
  /\ \/ main' = "objects" /\ UNCHANGED gpsport
     \/ main' = "return" /\ gpsport' = "deleted"
  /\ UNCHANGED <<fsFile, installed, eimVars, g_datafs, thr, heap, handlers,
                 sent, process, history>>

MainReturn ==
  /\ Runs("main") /\ main = "return"
  /\ process' = "exited"
  /\ UNCHANGED <<mainVars, eimVars, g_datafs, thr, heap, handlers, sent, history>>

\* new boardctl, CFilesys_mgr and EIMDATA.  The constructor of the record
\* manager returns early, _fpsysmgr unset, if it cannot create its file.
MainObjects ==
  /\ MainStep("objects", "hid")
  /\ g_eimdata' = "live" /\ g_datafs' = "live"
  /\ fsFile' \in {"open", "unset"}
  /\ UNCHANGED <<gpsport, installed, m_brunning, started_, detached_, thr, heap,
                 handlers, sent, process, history>>

\* temperdev::init: its thread is started whether or not the device opened.
MainHid ==
  /\ MainStep("hid", "signals")
  /\ thr' = [thr EXCEPT !["hid"] = "run"]
  /\ UNCHANGED <<gpsport, fsFile, installed, eimVars, g_datafs, heap, handlers,
                 sent, process, history>>

MainSignals ==
  /\ MainStep("signals", "sock")
  /\ installed' = TRUE
  /\ UNCHANGED <<gpsport, fsFile, eimVars, g_datafs, thr, heap, handlers, sent,
                 process, history>>

MainSock ==
  /\ MainStep("sock", "eimSet")
  /\ UNCHANGED <<gpsport, fsFile, installed, eimVars, g_datafs, thr, heap,
                 handlers, sent, process, history>>

\* EIMDATA::init, first the members.
MainEimSet ==
  /\ MainStep("eimSet", "eimStart")
  /\ m_brunning' = TRUE
  /\ UNCHANGED <<gpsport, fsFile, installed, started_, detached_, g_eimdata,
                 g_datafs, thr, heap, handlers, sent, process, history>>

\* start(): the thread may not be created.
MainEimStart ==
  /\ MainStep("eimStart", "eimDetach")
  /\ started_' \in BOOLEAN
  /\ thr' = IF started_' THEN [thr EXCEPT !["eim"] = "test"] ELSE thr
  /\ UNCHANGED <<gpsport, fsFile, installed, m_brunning, detached_, g_eimdata,
                 g_datafs, heap, handlers, sent, process, history>>

MainEimDetach_Forgotten ==
  /\ MainStep("eimDetach", "board")
  /\ UNCHANGED <<gpsport, fsFile, installed, eimVars, g_datafs, thr, heap,
                 handlers, sent, process, history>>

MainEimDetach ==
  /\ MainStep("eimDetach", "board")
  /\ detached_' = started_
  /\ UNCHANGED <<gpsport, fsFile, installed, m_brunning, started_, g_eimdata,
                 g_datafs, thr, heap, handlers, sent, process, history>>

\* set_boardctl, and boardctl::init, which starts its thread.
MainBoard ==
  /\ MainStep("board", "loop")
  /\ thr' = [thr EXCEPT !["board"] = "run"]
  /\ UNCHANGED <<gpsport, fsFile, installed, eimVars, g_datafs, heap, handlers,
                 sent, process, history>>

\* main and the boardctl thread allocate and free: new, libevent's callbacks,
\* the removal of a payload, bufferevent_write.
HeapEnter(t) ==
  /\ Runs(t) /\ heap = "free"
  /\ IF t = "main" THEN main \notin {"gps", "open", "return"} ELSE thr[t] = "run"
  /\ heap' = t
  /\ UNCHANGED <<mainVars, eimVars, g_datafs, thr, handlers, sent, process, history>>

HeapLeave(t) ==
  /\ Runs(t) /\ heap = t
  /\ heap' = "free"
  /\ UNCHANGED <<mainVars, eimVars, g_datafs, thr, handlers, sent, process, history>>
-----------------------------------------------------------------------------
(* The threads.                                                            *)

\* One turn of the GPS loop reads m_brunning and m_fd.
GpsTurn ==
  /\ Runs("gps") /\ thr["gps"] = "run" /\ gpsport = "deleted"
  /\ Touch(gpsport, "gps")
  /\ UNCHANGED <<mainVars, eimVars, g_datafs, thr, heap, handlers, sent, deletes,
                 oldTurn, at, elsewhere, late>>

\* A short read ends the temperature thread.
HidEnd ==
  /\ Runs("hid") /\ thr["hid"] = "run"
  /\ thr' = [thr EXCEPT !["hid"] = "ended"]
  /\ UNCHANGED <<mainVars, eimVars, g_datafs, heap, handlers, sent, process, history>>

EimAt(place, next) ==
  /\ Runs("eim") /\ thr["eim"] = place
  /\ thr' = [thr EXCEPT !["eim"] = next]

\* while(m_brunning), and the call of read with m_devfd.
EimTest ==
  /\ Runs("eim") /\ thr["eim"] = "test"
  /\ \E go \in IF g_eimdata = "deleted" THEN BOOLEAN ELSE {m_brunning} :
       /\ thr' = [thr EXCEPT !["eim"] = IF go THEN "read" ELSE "ended"]
       /\ oldTurn' = (oldTurn /\ ~go)
  /\ Touch(g_eimdata, "eim")
  /\ UNCHANGED <<mainVars, eimVars, g_datafs, heap, handlers, sent, deletes, at,
                 elsewhere, late>>

\* The device delivers something, or nothing (another turn).
EimRead ==
  /\ EimAt("read", "submit") \/ EimAt("read", "test")
  /\ UNCHANGED <<mainVars, eimVars, g_datafs, heap, handlers, sent, process, history>>

\* m_outctl->submit: evbuffer_add takes memory.
EimSubmit ==
  /\ heap = "free"
  /\ EimAt("submit", "add")
  /\ heap' = "eim"
  /\ Touch(g_eimdata, "eim")
  /\ UNCHANGED <<mainVars, eimVars, g_datafs, handlers, sent, deletes, oldTurn, at,
                 elsewhere, late>>

EimAdd ==
  /\ EimAt("add", "test")
  /\ heap' = "free"
  /\ UNCHANGED <<mainVars, eimVars, g_datafs, handlers, sent, process, history>>
-----------------------------------------------------------------------------
(* Signals and their handler.                                              *)

Living == {"main"} \cup {t \in DOMAIN thr : thr[t] \notin {"none", "ended"}}

\* Where a signal goes.
Takes(t, sig) ==
  IF handlers["main"] = <<>>
  THEN t = "main"
  ELSE /\ t \in Living
       /\ \A i \in DOMAIN handlers[t] : handlers[t][i].sig # sig

Signal(sig) ==
  /\ process = "running" /\ sent < MaxSignals
  /\ sent' = sent + 1
  /\ IF installed
     THEN \E t \in Threads :
            /\ Takes(t, sig)
            /\ handlers' = [handlers EXCEPT ![t] =
                              Append(@, [sig |-> sig, pc |-> "print"])]
            /\ elsewhere' = (elsewhere \/ t # "main")
            /\ late' = (late \/ g_eimdata = "deleted")
            /\ UNCHANGED process
     ELSE process' = "killed" /\ UNCHANGED <<handlers, elsewhere, late>>
  /\ UNCHANGED <<mainVars, eimVars, g_datafs, thr, heap, fault, deletes, oldTurn, at>>

\* The handler on top of thread t goes from pc to next.
Top(t) == handlers[t][Len(handlers[t])]

HandlerAt(t, pc, next) ==
  /\ process = "running" /\ handlers[t] # <<>> /\ Top(t).pc = pc
  /\ handlers' = [handlers EXCEPT ![t][Len(handlers[t])].pc = next]

\* backtrace_symbols and the free of what it returned.
HandlerPrint(t) ==
  /\ HandlerAt(t, "print", "stop")
  /\ heap = "free"
  /\ UNCHANGED <<mainVars, eimVars, g_datafs, thr, heap, sent, process, history>>

\* g_eimdata->release(): Cthread::stop, which joins a thread not detached.
HandlerStop(t) ==
  /\ \/ started_ /\ ~detached_ /\ HandlerAt(t, "stop", "join") /\ UNCHANGED started_
     \/ ~(started_ /\ ~detached_) /\ HandlerAt(t, "stop", "flag") /\ started_' = FALSE
  /\ Touch(g_eimdata, "handler")
  /\ UNCHANGED <<mainVars, m_brunning, detached_, g_eimdata, g_datafs, thr, heap,
                 sent, deletes, oldTurn, at, elsewhere, late>>

\* A thread that two others join at once may keep both, or refuse one; one
\* that joins itself may be refused.
Joining(t) == \E i \in DOMAIN handlers[t] : handlers[t][i].pc = "join"

HandlerJoin(t) ==
  /\ HandlerAt(t, "join", "flag")
  /\ \/ thr["eim"] = "ended"
     \/ t = "eim"
     \/ \E u \in Threads \ {t} : Joining(u)
     \/ \E i \in 1..(Len(handlers[t]) - 1) : handlers[t][i].pc = "join"
  /\ started_' = FALSE
  /\ UNCHANGED <<mainVars, m_brunning, detached_, g_eimdata, g_datafs, thr, heap,
                 sent, process, history>>

\* m_brunning = 0.
HandlerFlag(t) ==
  /\ HandlerAt(t, "flag", "sleep")
  /\ m_brunning' = FALSE
  /\ oldTurn' = (oldTurn \/ m_brunning)
  /\ Touch(g_eimdata, "handler")
  /\ UNCHANGED <<mainVars, started_, detached_, g_eimdata, g_datafs, thr, heap,
                 sent, deletes, at, elsewhere, late>>

\* usleep(1000000): a second is longer than anything the EIM thread does,
\* except to wait for the device, or for a thread that a handler stopped.
SecondOver ==
  \/ ~Runs("eim")
  \/ thr["eim"] \in {"none", "read", "ended"}
  \/ thr["eim"] = "submit" /\ heap # "free" /\ ~Runs(heap)

HandlerSleep_Short(t) ==
  /\ HandlerAt(t, "sleep", "delete")
  /\ at' = thr["eim"]
  /\ UNCHANGED <<mainVars, eimVars, g_datafs, thr, heap, sent, process, fault,
                 deletes, oldTurn, elsewhere, late>>

HandlerSleep(t) ==
  /\ HandlerAt(t, "sleep", "delete")
  /\ SecondOver
  /\ at' = thr["eim"]
  /\ UNCHANGED <<mainVars, eimVars, g_datafs, thr, heap, sent, process, fault,
                 deletes, oldTurn, elsewhere, late>>

\* delete g_eimdata, which is not set to null.
HandlerDelete(t) ==
  /\ HandlerAt(t, "delete", "fs")
  /\ heap = "free"
  /\ g_eimdata' = "deleted"
  /\ deletes' = deletes + 1
  /\ IF g_eimdata = "deleted" THEN process' \in {"running", "died"} ELSE UNCHANGED process
  /\ UNCHANGED <<mainVars, m_brunning, started_, detached_, g_datafs, thr, heap,
                 sent, fault, oldTurn, at, elsewhere, late>>

\* delete g_datafs: its destructor closes the index file.
HandlerFs(t) ==
  /\ HandlerAt(t, "fs", "exit")
  /\ heap = "free"
  /\ g_datafs' = "deleted"
  /\ IF g_datafs = "deleted" \/ fsFile = "unset"
     THEN process' \in {"running", "died"} ELSE UNCHANGED process
  /\ UNCHANGED <<mainVars, eimVars, thr, heap, sent, history>>

HandlerExit_Returns(t) ==
  /\ process = "running" /\ handlers[t] # <<>> /\ Top(t).pc = "exit"
  /\ handlers' = [handlers EXCEPT ![t] = SubSeq(@, 1, Len(@) - 1)]
  /\ UNCHANGED <<mainVars, eimVars, g_datafs, thr, heap, sent, process, history>>

\* exit(0): nothing after it in the handler, or under it, ever runs.
HandlerExit(t) ==
  /\ process = "running" /\ handlers[t] # <<>> /\ Top(t).pc = "exit"
  /\ heap = "free"
  /\ process' = "exited"
  /\ UNCHANGED <<mainVars, eimVars, g_datafs, thr, heap, handlers, sent, history>>
-----------------------------------------------------------------------------
Main == MainGps \/ MainOpen \/ MainReturn \/ MainObjects \/ MainHid \/ MainSignals
        \/ MainSock \/ MainEimSet \/ MainEimStart \/ MainEimDetach \/ MainBoard

Eim == EimTest \/ EimSubmit \/ EimAdd

Handler(t) == HandlerPrint(t) \/ HandlerStop(t) \/ HandlerJoin(t) \/ HandlerFlag(t)
              \/ HandlerSleep(t) \/ HandlerDelete(t) \/ HandlerFs(t) \/ HandlerExit(t)

Next ==
  \/ Main \/ GpsTurn \/ HidEnd \/ Eim \/ EimRead
  \/ \E t \in {"main", "board"} : HeapEnter(t) \/ HeapLeave(t)
  \/ \E sig \in Signals : Signal(sig)
  \/ \E t \in Threads : Handler(t)

Spec == Init /\ [][Next]_vars

\* Threads and handlers that can go on do, and get the allocator's lock some
\* time if it is free again and again.  The device may stay silent, main may
\* wait, and nobody has to send a signal.  (One thread at a time holds the
\* lock, and the handlers take finitely many steps, so that fairness to all
\* of them together is fairness to each.)
FairSpec ==
  /\ Spec
  /\ SF_vars(Eim)
  /\ WF_vars(\E t \in {"main", "board"} : HeapLeave(t))
  /\ SF_vars(\E t \in Threads : Handler(t))
-----------------------------------------------------------------------------
(* Properties.                                                             *)

Pcs == {"print", "stop", "join", "flag", "sleep", "delete", "fs", "exit"}

\* Types, and who holds the allocator's lock: the EIM thread exactly while it
\* is in evbuffer_add.
TypeOK ==
  /\ main \in {"gps", "open", "objects", "hid", "signals", "sock", "eimSet",
              "eimStart", "eimDetach", "board", "loop", "return"}
  /\ gpsport \in {"null", "live", "deleted"}
  /\ g_eimdata \in {"null", "live", "deleted"}
  /\ g_datafs \in {"null", "live", "deleted"}
  /\ fsFile \in {"unset", "open"}
  /\ thr \in [Threads \ {"main"} -> {"none", "run", "ended", "test", "read",
                                    "submit", "add"}]
  /\ m_brunning \in BOOLEAN /\ started_ \in BOOLEAN /\ detached_ \in BOOLEAN
  /\ heap \in {"free", "main", "board", "eim"}
  /\ heap = "eim" <=> thr["eim"] = "add"
  /\ \A t \in Threads : \A i \in DOMAIN handlers[t] :
       handlers[t][i].sig \in Signals /\ handlers[t][i].pc \in Pcs
  /\ installed \in BOOLEAN /\ sent \in 0..MaxSignals
  /\ process \in {"running", "exited", "killed", "died"}
  /\ fault \subseteq {"gps", "eim", "handler"} /\ deletes \in 0..MaxSignals
  /\ oldTurn \in BOOLEAN /\ elsewhere \in BOOLEAN /\ late \in BOOLEAN
  /\ at \in {"none", "test", "read", "submit", "add", "ended"}

\* Who can touch an object after its delete.  The EIM thread: in the turn it
\* was in when m_brunning was cleared, and for one signal only if the device
\* kept it in read for the second that release() waits.  The handler: only
\* with a second signal.  The GPS thread: only on the way out of a main that
\* found no device.
UseAfterDelete ==
  /\ "eim" \in fault => (at = "read" \/ sent > 1)
  /\ g_eimdata = "deleted" /\ thr["eim"] \notin {"none", "ended"} /\ fault = {} => oldTurn
  /\ "handler" \in fault => elsewhere \/ late
  /\ "gps" \in fault => main = "return" /\ g_eimdata = "null"

\* g_eimdata is deleted twice only if a second signal finds another thread,
\* or comes after the first delete; a handler on top of one that still waits
\* ends the process first.
DoubleDelete == deletes > 1 => elsewhere \/ late

\* The EIM thread ends only after a handler has told it to.
EimEndsOnlyWhenTold ==
  thr["eim"] = "ended" =>
    \/ process = "killed"
    \/ \E t \in Threads : \E i \in DOMAIN handlers[t] :
         handlers[t][i].pc \in {"sleep", "delete", "fs", "exit"}

\* Of all orders of signals, handlers and threads only these let a thread
\* touch or delete an object that is gone.
LateUseExplained == TypeOK /\ UseAfterDelete /\ DoubleDelete /\ EimEndsOnlyWhenTold

JoinStuck == \E t \in Threads : Joining(t)
HeapStuck == heap # "free" /\ ~Runs(heap) /\ process = "running"

\* release() joins the EIM thread, which has not been told to end, only if
\* the signal came between start() and detach() of EIMDATA::init.
JoinOnlyInWindow == JoinStuck => main = "eimDetach"

\* A signal ends the process, unless it interrupted a thread that held the
\* allocator's lock, or made release() join the EIM thread.
SignalEnds == (sent > 0) ~> (process # "running" \/ HeapStuck \/ JoinStuck)
=============================================================================
