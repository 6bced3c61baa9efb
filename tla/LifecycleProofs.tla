-------------------------- MODULE LifecycleProofs --------------------------
(***************************************************************************)
(* The life of the process for any number of signals, of any kinds, sent   *)
(* at any time: which orders of signals, handlers and threads let somebody *)
(* touch or delete an object that is gone, and when release() can wait for *)
(* the EIM thread.                                                         *)
(*                                                                         *)
(* The argument rests on one fact: the first handler runs on the main      *)
(* thread and never returns, so that main is where that signal found it.   *)
(***************************************************************************)
EXTENDS Lifecycle, FiniteSets, FiniteSetTheorems, TLAPS

\* A handler has cleared m_brunning, or found it cleared.
Past == {"sleep", "delete", "fs", "exit"}
Told == \E t \in Threads : \E i \in DOMAIN handlers[t] : handlers[t][i].pc \in Past

\* The steps of main before g_eimdata is made, and those with the handler
\* installed.
Early == {"gps", "open", "objects", "return"}
Late  == {"sock", "eimSet", "eimStart", "eimDetach", "board", "loop"}

\* The stacks of handlers; none is elsewhere before one is on main.
HandlersInv ==
  /\ handlers \in [Threads -> Seq([sig : Signals, pc : Pcs])]
  /\ \A t \in Threads : handlers[t] # <<>> => installed /\ handlers["main"] # <<>>
  /\ ~elsewhere => \A t \in Threads \ {"main"} : handlers[t] = <<>>

\* How far main has come.
MainInv ==
  /\ installed => main \in Late
  /\ gpsport = "deleted" => main = "return"
  /\ g_eimdata = "null" <=> main \in Early
  /\ thr["eim"] # "run"
  /\ main \notin {"eimDetach", "board", "loop"} => thr["eim"] = "none"

\* release() joins only a thread that main has started and not detached.
WindowInv ==
  /\ started_ /\ ~detached_ => main = "eimDetach"
  /\ JoinOnlyInWindow

\* Who has been told what.
ToldInv ==
  /\ main \in {"eimStart", "eimDetach", "board", "loop"} => m_brunning \/ Told
  /\ thr["eim"] = "ended" => Told
  /\ g_eimdata = "deleted" => Told
  /\ Told /\ thr["eim"] \notin {"none", "ended"} /\ fault = {} =>
       oldTurn /\ ~m_brunning

\* After a delete the handler that did it ends the process.
DeleteInv ==
  /\ deletes = 0 \/ g_eimdata = "deleted"
  /\ "eim" \in fault => g_eimdata = "deleted"
  /\ g_eimdata = "deleted" /\ ~elsewhere /\ ~late =>
       Top("main").pc \in {"fs", "exit"}

\* One signal: where the EIM thread was when release() returned is where it
\* stays, unless the device kept it.
OneInv ==
  /\ Len(handlers["main"]) <= sent
  /\ elsewhere \/ late => sent > 1
  /\ handlers["main"] # <<>> /\ sent <= 1
       /\ Top("main").pc \in {"delete", "fs", "exit"} =>
       \/ at = "read"
       \/ at \in {"none", "ended"} /\ thr["eim"] = at
       \/ at = "submit" /\ heap = "main" /\ Top("main").pc = "delete"

\* Every delete is that of another handler, every handler that of another
\* signal.
Slots == UNION {{t} \X (1 .. Len(handlers[t])) : t \in Threads}
Spent == {s \in Slots : handlers[s[1]][s[2]].pc \in {"fs", "exit"}}

CountInv ==
  /\ IsFiniteSet(Slots)
  /\ Cardinality(Slots) <= sent
  /\ deletes = Cardinality(Spent)

IInv ==
  /\ LateUseExplained /\ HandlersInv /\ MainInv /\ WindowInv /\ ToldInv
  /\ DeleteInv /\ OneInv /\ CountInv
-----------------------------------------------------------------------------
(* The stacks of handlers.                                                 *)

\* The handler on top of thread t goes on: nothing else changes.
LEMMA HandlerMoves ==
  ASSUME HandlersInv, NEW t \in Threads, NEW pc, NEW next \in Pcs,
         HandlerAt(t, pc, next)
  PROVE  /\ handlers' \in [Threads -> Seq([sig : Signals, pc : Pcs])]
         /\ Len(handlers[t]) \in 1 .. Len(handlers[t]) /\ handlers[t] # <<>>
         /\ handlers[t][Len(handlers[t])].pc = pc
         /\ \A u \in Threads : Len(handlers'[u]) = Len(handlers[u])
         /\ \A u \in Threads : handlers'[u] = <<>> <=> handlers[u] = <<>>
         /\ \A u \in Threads : \A i \in 1 .. Len(handlers[u]) :
              handlers'[u][i].pc = IF u = t /\ i = Len(handlers[t])
                                     THEN next ELSE handlers[u][i].pc
<1> DEFINE H == [sig : Signals, pc : Pcs]
           s == handlers[t]
           k == Len(handlers[t])
<1>1. handlers \in [Threads -> Seq(H)]
  BY DEF HandlersInv
<1>2. s \in Seq(H) /\ s # <<>> /\ s[k].pc = pc
  BY <1>1 DEF HandlerAt, Top
<1>3. k \in 1 .. k /\ k \in Nat
  <2> HIDE DEF H, s
  <2>1. Len(s) \in Nat /\ Len(s) # 0
    BY <1>2
  <2> QED
    BY <2>1 DEF s
<1>4. handlers' = [handlers EXCEPT ![t] = [s EXCEPT ![k] = [s[k] EXCEPT !.pc = next]]]
  BY DEF HandlerAt
<1>5. s[k] \in H
  <2> HIDE DEF H, s, k
  <2>1. k = Len(s)
    BY DEF k, s
  <2> QED
    BY <1>2, <1>3, <2>1
<1>6. [s[k] EXCEPT !.pc = next] \in H /\ [s[k] EXCEPT !.pc = next].pc = next
  BY <1>5
<1>7. /\ handlers'[t] \in Seq(H) /\ Len(handlers'[t]) = k
      /\ handlers'[t][k].pc = next
      /\ \A i \in 1 .. k : i # k => handlers'[t][i] = s[i]
  <2>1. handlers'[t] = [s EXCEPT ![k] = [s[k] EXCEPT !.pc = next]]
    BY <1>1, <1>4
  <2>2. PICK r \in H : r = [s[k] EXCEPT !.pc = next] /\ r.pc = next
    BY <1>6
  <2>3. handlers'[t] = [s EXCEPT ![k] = r]
    BY <2>1, <2>2
  <2>4. k = Len(s)
    OBVIOUS
  <2> HIDE DEF H, s, k
  <2>5. /\ [s EXCEPT ![k] = r] \in Seq(H) /\ Len([s EXCEPT ![k] = r]) = k
        /\ [s EXCEPT ![k] = r][k] = r
        /\ \A i \in 1 .. k : i # k => [s EXCEPT ![k] = r][i] = s[i]
    BY <1>2, <1>3, <2>4
  <2> QED
    BY <2>2, <2>3, <2>5
<1>8. \A u \in Threads : u # t => handlers'[u] = handlers[u]
  BY <1>1, <1>4
<1>9. handlers' \in [Threads -> Seq(H)]
  <2>1. DOMAIN handlers' = Threads
    BY <1>1, <1>4
  <2>2. \A u \in Threads : handlers'[u] \in Seq(H)
    BY <1>1, <1>7, <1>8
  <2>3. handlers' = [u \in Threads |-> handlers'[u]]
    BY <1>1, <1>4
  <2> HIDE DEF H
  <2> QED
    BY <2>2, <2>3
<1>10. \A u \in Threads : Len(handlers'[u]) = Len(handlers[u])
  BY <1>7, <1>8
<1>11. handlers'[t] # <<>>
  <2> HIDE DEF H, k
  <2> QED
    BY <1>3, <1>7
<1> QED
  BY <1>2, <1>3, <1>7, <1>8, <1>9, <1>10, <1>11

\* A signal puts a handler on top of thread t.
LEMMA HandlerBegins ==
  ASSUME HandlersInv, NEW t \in Threads, NEW sig \in Signals,
         handlers' = [handlers EXCEPT ![t] = Append(@, [sig |-> sig, pc |-> "print"])]
  PROVE  /\ handlers' \in [Threads -> Seq([sig : Signals, pc : Pcs])]
         /\ handlers'[t] # <<>>
         /\ Len(handlers[t]) \in Nat /\ Len(handlers'[t]) = Len(handlers[t]) + 1
         /\ \A i \in 1 .. Len(handlers[t]) : handlers'[t][i] = handlers[t][i]
         /\ handlers'[t][Len(handlers[t]) + 1].pc = "print"
         /\ \A u \in Threads : u # t => handlers'[u] = handlers[u]
<1> DEFINE H == [sig : Signals, pc : Pcs]
<1>1. handlers \in [Threads -> Seq(H)]
  BY DEF HandlersInv
<1>2. PICK r : r = [sig |-> sig, pc |-> "print"]
  OBVIOUS
<1>3. r \in H /\ r.pc = "print"
  BY <1>2 DEF Pcs
<1>4. /\ handlers'[t] = Append(handlers[t], r)
      /\ \A u \in Threads : u # t => handlers'[u] = handlers[u]
      /\ handlers' = [u \in Threads |-> handlers'[u]]
  BY <1>1, <1>2
<1> HIDE DEF H
<1>5. handlers[t] \in Seq(H)
  BY <1>1
<1>6. /\ Append(handlers[t], r) \in Seq(H) /\ Append(handlers[t], r) # <<>>
      /\ Len(handlers[t]) \in Nat
      /\ Len(Append(handlers[t], r)) = Len(handlers[t]) + 1
      /\ \A i \in 1 .. Len(handlers[t]) : Append(handlers[t], r)[i] = handlers[t][i]
      /\ Append(handlers[t], r)[Len(handlers[t]) + 1] = r
  BY <1>3, <1>5
<1>7. \A u \in Threads : handlers'[u] \in Seq(H)
  BY <1>1, <1>4, <1>6
<1>8. handlers' \in [Threads -> Seq(H)]
  BY <1>4, <1>7
<1> QED
  BY <1>3, <1>4, <1>6, <1>8 DEF H
-----------------------------------------------------------------------------
(* Three kinds of steps: a handler goes on, a signal begins one, and all   *)
(* others, which leave the handlers where they are.                        *)

Moving(t) == HandlerPrint(t) \/ HandlerStop(t) \/ HandlerJoin(t) \/ HandlerFlag(t)
             \/ HandlerSleep(t) \/ HandlerDelete(t) \/ HandlerFs(t)

Other ==
  \/ Main \/ GpsTurn \/ HidEnd \/ Eim \/ EimRead
  \/ \E t \in {"main", "board"} : HeapEnter(t) \/ HeapLeave(t)
  \/ \E t \in Threads : HandlerExit(t)
  \/ UNCHANGED vars

LEMMA Kinds ==
  ASSUME [Next]_vars
  PROVE  \/ \E t \in Threads : Moving(t)
         \/ \E sig \in Signals : Signal(sig)
         \/ Other
  BY DEF Next, Handler, Moving, Other

\* The steps of a handler, one after the other.
Edges == {<<"print", "stop">>, <<"stop", "join">>, <<"stop", "flag">>,
          <<"join", "flag">>, <<"flag", "sleep">>, <<"sleep", "delete">>,
          <<"delete", "fs">>, <<"fs", "exit">>}

LEMMA MovingFacts ==
  ASSUME NEW t \in Threads, Moving(t)
  PROVE  /\ \E pc, next \in Pcs : <<pc, next>> \in Edges /\ HandlerAt(t, pc, next)
         /\ UNCHANGED <<mainVars, thr, heap, sent, elsewhere, late>>
<1> USE DEF Pcs, Edges
<1>1. CASE HandlerPrint(t)
  BY <1>1 DEF HandlerPrint, history
<1>2. CASE HandlerStop(t)
  BY <1>2 DEF HandlerStop, history
<1>3. CASE HandlerJoin(t)
  BY <1>3 DEF HandlerJoin, history
<1>4. CASE HandlerFlag(t)
  BY <1>4 DEF HandlerFlag
<1>5. CASE HandlerSleep(t)
  BY <1>5 DEF HandlerSleep
<1>6. CASE HandlerDelete(t)
  BY <1>6 DEF HandlerDelete
<1>7. CASE HandlerFs(t)
  BY <1>7 DEF HandlerFs, history
<1> QED
  BY <1>1, <1>2, <1>3, <1>4, <1>5, <1>6, <1>7 DEF Moving

LEMMA OtherFacts ==
  ASSUME Other
  PROVE  /\ UNCHANGED <<handlers, sent, deletes, at, elsewhere, late>>
         /\ installed => installed'
<1>1. CASE Main
  BY <1>1 DEF Main, MainGps, MainOpen, MainReturn, MainObjects, MainHid,
     MainSignals, MainSock, MainEimSet, MainEimStart, MainEimDetach, MainBoard,
     MainStep, history, mainVars
<1>2. CASE GpsTurn \/ HidEnd \/ Eim \/ EimRead
  BY <1>2 DEF GpsTurn, HidEnd, Eim, EimTest, EimSubmit, EimAdd, EimRead,
     history, mainVars
<1>3. CASE \E t \in {"main", "board"} : HeapEnter(t) \/ HeapLeave(t)
  BY <1>3 DEF HeapEnter, HeapLeave, history, mainVars
<1>4. CASE \E t \in Threads : HandlerExit(t)
  BY <1>4 DEF HandlerExit, history, mainVars
<1>5. CASE UNCHANGED vars
  BY <1>5 DEF vars, history, mainVars
<1> QED
  BY <1>1, <1>2, <1>3, <1>4, <1>5 DEF Other

\* Main takes no step under a handler, and only main changes where it is.
LEMMA MainStops ==
  ASSUME [Next]_vars, \E t \in Threads : handlers[t] # <<>>, HandlersInv
  PROVE  UNCHANGED <<mainVars, detached_>>
<1>1. CASE \E t \in Threads : Moving(t)
  BY <1>1, MovingFacts DEF Moving, HandlerPrint, HandlerStop, HandlerJoin,
     HandlerFlag, HandlerSleep, HandlerDelete, HandlerFs, eimVars, mainVars
<1>2. CASE \E sig \in Signals : Signal(sig)
  BY <1>2 DEF Signal, eimVars, mainVars
<1>3. CASE Main
  BY <1>3 DEF HandlersInv, Main, MainGps, MainOpen, MainReturn, MainObjects,
     MainHid, MainSignals, MainSock, MainEimSet, MainEimStart, MainEimDetach,
     MainBoard, MainStep, Runs
<1>4. CASE GpsTurn \/ HidEnd \/ Eim \/ EimRead
  BY <1>4 DEF GpsTurn, HidEnd, Eim, EimTest, EimSubmit, EimAdd, EimRead, eimVars
<1>5. CASE \E t \in {"main", "board"} : HeapEnter(t) \/ HeapLeave(t)
  BY <1>5 DEF HeapEnter, HeapLeave, eimVars
<1>6. CASE \E t \in Threads : HandlerExit(t)
  BY <1>6 DEF HandlerExit, eimVars
<1>7. CASE UNCHANGED vars
  BY <1>7 DEF vars, eimVars
<1> QED
  BY <1>1, <1>2, <1>3, <1>4, <1>5, <1>6, <1>7, Kinds DEF Other

LEMMA HandlersStep == HandlersInv /\ [Next]_vars => HandlersInv'
<1> SUFFICES ASSUME HandlersInv, [Next]_vars PROVE HandlersInv'
  OBVIOUS
<1>0. /\ handlers \in [Threads -> Seq([sig : Signals, pc : Pcs])]
      /\ \A t \in Threads : handlers[t] # <<>> => installed /\ handlers["main"] # <<>>
      /\ ~elsewhere => \A t \in Threads \ {"main"} : handlers[t] = <<>>
  BY DEF HandlersInv
<1>1. ASSUME NEW t \in Threads, Moving(t) PROVE HandlersInv'
  <2>1. PICK pc, next \in Pcs : HandlerAt(t, pc, next)
    BY <1>1, MovingFacts
  <2>2. installed' = installed /\ elsewhere' = elsewhere
    BY <1>1, MovingFacts DEF mainVars
  <2>3. /\ handlers' \in [Threads -> Seq([sig : Signals, pc : Pcs])]
        /\ \A u \in Threads : handlers'[u] = <<>> <=> handlers[u] = <<>>
    BY <2>1, HandlerMoves
  <2>4. "main" \in Threads
    BY DEF Threads
  <2> QED
    BY <1>0, <2>2, <2>3, <2>4, Zenon DEF HandlersInv
<1>2. ASSUME NEW sig \in Signals, Signal(sig) PROVE HandlersInv'
  <2>1. CASE ~installed
    <3>1. UNCHANGED <<handlers, elsewhere, installed>>
      BY <1>2, <2>1 DEF Signal, mainVars
    <3> QED
      BY <1>0, <3>1, Zenon DEF HandlersInv
  <2>2. CASE installed
    <3>1. PICK t \in Threads :
            /\ Takes(t, sig)
            /\ handlers' = [handlers EXCEPT ![t] =
                              Append(@, [sig |-> sig, pc |-> "print"])]
            /\ elsewhere' = (elsewhere \/ t # "main")
      BY <1>2, <2>2 DEF Signal
    <3>2. installed' = installed
      BY <1>2 DEF Signal, mainVars
    <3>3. /\ handlers' \in [Threads -> Seq([sig : Signals, pc : Pcs])]
          /\ handlers'[t] # <<>>
          /\ \A u \in Threads : u # t => handlers'[u] = handlers[u]
      BY <3>1, HandlerBegins
    <3>4. handlers'["main"] # <<>>
      BY <3>1, <3>3 DEF Takes, Threads
    <3>5. ~elsewhere' => ~elsewhere /\ t = "main"
      BY <3>1
    <3>6. ~elsewhere' => \A u \in Threads \ {"main"} : handlers'[u] = <<>>
      BY <1>0, <3>3, <3>5
    <3> QED
      BY <2>2, <3>2, <3>3, <3>4, <3>6, Zenon DEF HandlersInv
  <2> QED
    BY <2>1, <2>2
<1>3. ASSUME Other PROVE HandlersInv'
  <2>1. UNCHANGED <<handlers, elsewhere>> /\ (installed => installed')
    BY <1>3, OtherFacts
  <2> QED
    BY <1>0, <2>1, Zenon DEF HandlersInv
<1> QED
  BY <1>1, <1>2, <1>3, Kinds
-----------------------------------------------------------------------------
(* Types, and how far main has come.                                       *)

LEMMA MainInvStep == TypeOK /\ HandlersInv /\ MainInv /\ [Next]_vars => MainInv'
<1> SUFFICES ASSUME TypeOK, HandlersInv, MainInv, [Next]_vars PROVE MainInv'
  OBVIOUS
<1> USE DEF MainInv, Early, Late
<1>0. thr \in [Threads \ {"main"} -> {"none", "run", "ended", "test", "read",
                                      "submit", "add"}]
  BY DEF TypeOK
<1>1. ASSUME NEW t \in Threads, Moving(t) PROVE MainInv'
  <2>1. UNCHANGED <<main, gpsport, installed, thr>>
    BY <1>1, MovingFacts DEF mainVars
  <2>2. installed
    <3>1. PICK pc, next \in Pcs : HandlerAt(t, pc, next)
      BY <1>1, MovingFacts
    <3>2. handlers[t] # <<>>
      BY <3>1 DEF HandlerAt
    <3> QED
      BY <3>2, Zenon DEF HandlersInv
  <2>3. g_eimdata' \in {g_eimdata, "deleted"}
    BY <1>1 DEF Moving, HandlerPrint, HandlerStop, HandlerJoin, HandlerFlag,
       HandlerSleep, HandlerDelete, HandlerFs, eimVars
  <2> QED
    BY <2>1, <2>2, <2>3
<1>2. ASSUME NEW sig \in Signals, Signal(sig) PROVE MainInv'
  BY <1>2 DEF Signal, mainVars, eimVars
<1>3. CASE MainGps
  BY <1>0, <1>3 DEF MainGps, eimVars, Threads
<1>4. CASE MainOpen \/ MainReturn
  BY <1>4 DEF MainOpen, MainReturn, mainVars, eimVars
<1>5. CASE MainObjects \/ MainSignals \/ MainSock \/ MainEimSet \/ MainEimDetach
  BY <1>5 DEF MainObjects, MainSignals, MainSock, MainEimSet, MainEimDetach,
     MainStep, eimVars
<1>6. CASE MainHid \/ MainBoard \/ MainEimStart
  BY <1>0, <1>6 DEF MainHid, MainBoard, MainEimStart, MainStep, Threads, eimVars
<1>7. CASE GpsTurn \/ HidEnd
  BY <1>0, <1>7 DEF GpsTurn, HidEnd, Threads, mainVars, eimVars
<1>8. CASE Eim \/ EimRead
  <2>1. UNCHANGED <<main, gpsport, installed, g_eimdata>>
    BY <1>8 DEF Eim, EimTest, EimRead, EimSubmit, EimAdd, EimAt, mainVars, eimVars
  <2>2. thr["eim"] # "none" /\ thr'["eim"] # "run"
    BY <1>0, <1>8 DEF Eim, EimTest, EimRead, EimSubmit, EimAdd, EimAt, Threads
  <2> QED
    BY <2>1, <2>2
<1>9. CASE \E t \in {"main", "board"} : HeapEnter(t) \/ HeapLeave(t)
  BY <1>9 DEF HeapEnter, HeapLeave, mainVars, eimVars
<1>10. CASE \E t \in Threads : HandlerExit(t)
  BY <1>10 DEF HandlerExit, mainVars, eimVars
<1>11. CASE UNCHANGED vars
  BY <1>11 DEF vars, mainVars, eimVars
<1> QED
  BY <1>1, <1>2, <1>3, <1>4, <1>5, <1>6, <1>7, <1>8, <1>9, <1>10, <1>11, Kinds
     DEF Other, Main

\* The flags.
Flags ==
  /\ m_brunning \in BOOLEAN /\ started_ \in BOOLEAN /\ detached_ \in BOOLEAN
  /\ installed \in BOOLEAN
  /\ oldTurn \in BOOLEAN /\ elsewhere \in BOOLEAN /\ late \in BOOLEAN

LEMMA FlagsStep == Flags /\ [Next]_vars => Flags'
<1> SUFFICES ASSUME Flags, [Next]_vars PROVE Flags'
  OBVIOUS
<1> USE DEF Flags
<1>1. CASE Main
  BY <1>1, Zenon DEF Main, MainGps, MainOpen, MainReturn, MainObjects, MainHid,
     MainSignals, MainSock, MainEimSet, MainEimStart, MainEimDetach, MainBoard,
     MainStep, history, mainVars, eimVars
<1>2. CASE GpsTurn \/ HidEnd \/ Eim \/ EimRead
  BY <1>2, Zenon DEF GpsTurn, HidEnd, Eim, EimTest, EimSubmit, EimAdd, EimRead,
     EimAt, history, mainVars, eimVars
<1>3. CASE \E t \in {"main", "board"} : HeapEnter(t) \/ HeapLeave(t)
  BY <1>3, Zenon DEF HeapEnter, HeapLeave, history, mainVars, eimVars
<1>4. CASE \E t \in Threads : HandlerExit(t)
  BY <1>4, Zenon DEF HandlerExit, history, mainVars, eimVars
<1>5. CASE UNCHANGED vars
  BY <1>5, Zenon DEF vars, history, mainVars, eimVars
<1>6. ASSUME NEW sig \in Signals, Signal(sig) PROVE Flags'
  BY <1>6, Zenon DEF Signal, mainVars, eimVars
<1>7. ASSUME NEW t \in Threads, Moving(t) PROVE Flags'
  BY <1>7, Zenon DEF Moving, HandlerPrint, HandlerStop, HandlerJoin, HandlerFlag,
     HandlerSleep, HandlerDelete, HandlerFs, history, mainVars, eimVars
<1> QED
  BY <1>1, <1>2, <1>3, <1>4, <1>5, <1>6, <1>7, Kinds DEF Other

\* The other types, and who holds the allocator's lock.
Places ==
  /\ main \in Early \cup Late \cup {"hid", "signals"}
  /\ gpsport \in {"null", "live", "deleted"}
  /\ g_eimdata \in {"null", "live", "deleted"}
  /\ g_datafs \in {"null", "live", "deleted"}
  /\ fsFile \in {"unset", "open"}
  /\ thr \in [Threads \ {"main"} -> {"none", "run", "ended", "test", "read",
                                    "submit", "add"}]
  /\ heap \in {"free", "main", "board", "eim"}
  /\ heap = "eim" <=> thr["eim"] = "add"
  /\ sent \in 0 .. MaxSignals
  /\ process \in {"running", "exited", "killed", "died"}
  /\ fault \subseteq {"gps", "eim", "handler"}
  /\ at \in {"none", "test", "read", "submit", "add", "ended"}

LEMMA PlacesStep == Places /\ MainInv /\ [Next]_vars => Places'
<1> SUFFICES ASSUME Places, MainInv, [Next]_vars PROVE Places'
  OBVIOUS
<1> USE DEF Places, Early, Late
<1>0. thr["eim"] # "run"
  BY DEF MainInv
<1>1. CASE MainGps
  BY <1>1 DEF MainGps, Threads, eimVars, history
<1>2. CASE MainOpen \/ MainReturn
  <2>1. /\ main' \in {main, "objects", "return"} /\ gpsport' \in {gpsport, "deleted"}
        /\ process' \in {process, "exited"}
        /\ UNCHANGED <<g_eimdata, g_datafs, fsFile, thr, heap, sent, fault, at>>
    BY <1>2 DEF MainOpen, MainReturn, mainVars, eimVars, history
  <2> QED
    BY <2>1
<1>3. CASE MainObjects \/ MainSignals \/ MainSock \/ MainEimSet \/ MainEimDetach
  <2>1. /\ main' \in {"hid", "sock", "eimSet", "eimStart", "board"}
        /\ g_eimdata' \in {g_eimdata, "live"} /\ g_datafs' \in {g_datafs, "live"}
        /\ fsFile' \in {fsFile, "open", "unset"}
        /\ UNCHANGED <<gpsport, thr, heap, sent, process, fault, at>>
    BY <1>3 DEF MainObjects, MainSignals, MainSock, MainEimSet, MainEimDetach,
       MainStep, eimVars, history
  <2> QED
    BY <2>1
<1>4. CASE MainHid \/ MainBoard
  <2>1. /\ main' \in {"signals", "loop"}
        /\ thr' \in {[thr EXCEPT !["hid"] = "run"], [thr EXCEPT !["board"] = "run"]}
        /\ UNCHANGED <<gpsport, g_eimdata, g_datafs, fsFile, heap, sent, process,
                       fault, at>>
    BY <1>4 DEF MainHid, MainBoard, MainStep, eimVars, history
  <2> QED
    BY <2>1 DEF Threads
<1>5. CASE MainEimStart
  <2>1. main = "eimStart" /\ main' = "eimDetach"
    BY <1>5 DEF MainEimStart, MainStep
  <2>2. thr["eim"] = "none"
    BY <2>1 DEF MainInv
  <2>3. thr' \in {thr, [thr EXCEPT !["eim"] = "test"]}
    BY <1>5 DEF MainEimStart
  <2>4. UNCHANGED <<gpsport, g_eimdata, g_datafs, fsFile, heap, sent, process,
                    fault, at>>
    BY <1>5 DEF MainEimStart, history
  <2> QED
    BY <2>1, <2>2, <2>3, <2>4 DEF Threads
<1>6. CASE GpsTurn
  <2>1. /\ process' \in {process, "running", "died"} /\ fault' \in {fault, fault \cup {"gps"}}
        /\ UNCHANGED <<main, gpsport, g_eimdata, g_datafs, fsFile, thr, heap, sent, at>>
    BY <1>6 DEF GpsTurn, Touch, mainVars, eimVars
  <2> QED
    BY <2>1
<1>7. CASE HidEnd
  BY <1>7 DEF HidEnd, Threads, mainVars, eimVars, history
<1>8. CASE Eim \/ EimRead
  <2>1. UNCHANGED <<main, gpsport, g_eimdata, g_datafs, fsFile, sent, at>>
    BY <1>8 DEF Eim, EimTest, EimRead, EimSubmit, EimAdd, mainVars, eimVars, history
  <2>2. fault' \subseteq {"gps", "eim", "handler"}
        /\ process' \in {"running", "exited", "killed", "died"}
    BY <1>8 DEF Eim, EimTest, EimRead, EimSubmit, EimAdd, Touch, history
  <2>3. /\ thr' \in [Threads \ {"main"} -> {"none", "run", "ended", "test", "read",
                                            "submit", "add"}]
        /\ heap' \in {"free", "main", "board", "eim"}
        /\ heap' = "eim" <=> thr'["eim"] = "add"
    BY <1>8 DEF Eim, EimTest, EimRead, EimSubmit, EimAdd, EimAt, Threads
  <2> QED
    BY <2>1, <2>2, <2>3
<1>9. CASE \E t \in {"main", "board"} : HeapEnter(t) \/ HeapLeave(t)
  <2>1. /\ heap # "eim" /\ heap' \in {"free", "main", "board"}
        /\ UNCHANGED <<main, gpsport, g_eimdata, g_datafs, fsFile, thr, sent, process,
                       fault, at>>
    BY <1>9 DEF HeapEnter, HeapLeave, mainVars, eimVars, history
  <2> QED
    BY <2>1
<1>10. CASE \E t \in Threads : HandlerExit(t)
  BY <1>10 DEF HandlerExit, mainVars, eimVars, history
<1>11. CASE UNCHANGED vars
  BY <1>11 DEF vars, mainVars, eimVars, history
<1>12. ASSUME NEW sig \in Signals, Signal(sig) PROVE Places'
  BY <1>12, SignalsAssumption DEF Signal, mainVars, eimVars
<1>13. ASSUME NEW t \in Threads, Moving(t) PROVE Places'
  <2>1. UNCHANGED <<main, gpsport, fsFile, thr, heap, sent>>
    BY <1>13, MovingFacts DEF mainVars
  <2>2. thr["eim"] \in {"none", "ended", "test", "read", "submit", "add"}
    BY <1>0 DEF Threads
  <2>3. /\ g_eimdata' \in {g_eimdata, "deleted"} /\ g_datafs' \in {g_datafs, "deleted"}
        /\ process' \in {process, "running", "exited", "died"}
        /\ fault' \in {fault, fault \cup {"handler"}}
        /\ at' \in {at, thr["eim"]}
    BY <1>13 DEF Moving, HandlerPrint, HandlerStop, HandlerJoin, HandlerFlag,
       HandlerSleep, HandlerDelete, HandlerFs, Touch, history, eimVars
  <2> QED
    BY <2>1, <2>2, <2>3
<1> QED
  BY <1>1, <1>2, <1>3, <1>4, <1>5, <1>6, <1>7, <1>8, <1>9, <1>10, <1>11, <1>12,
     <1>13, Kinds DEF Other, Main
-----------------------------------------------------------------------------
(* Who has been told.                                                      *)

LEMMA ToldAt ==
  ASSUME HandlersInv
  PROVE  /\ \A t \in Threads : DOMAIN handlers[t] = 1 .. Len(handlers[t])
         /\ Told => installed /\ handlers["main"] # <<>>
<1> DEFINE H == [sig : Signals, pc : Pcs]
<1>1. handlers \in [Threads -> Seq(H)]
  BY DEF HandlersInv
<1> HIDE DEF H
<1>2. \A t \in Threads : DOMAIN handlers[t] = 1 .. Len(handlers[t])
  BY <1>1
<1>3. ASSUME NEW t \in Threads, NEW i \in DOMAIN handlers[t] PROVE handlers[t] # <<>>
  <2>1. DOMAIN handlers[t] # {}
    BY <1>3
  <2> QED
    BY <1>1, <2>1
<1>4. Told => installed /\ handlers["main"] # <<>>
  BY <1>3, Zenon DEF Told, HandlersInv
<1> QED
  BY <1>2, <1>4

\* Nobody is told but by a handler that clears m_brunning, and what was said
\* is not taken back; a handler joins only a thread started and not detached.
LEMMA ToldStep ==
  ASSUME HandlersInv, HandlersInv', [Next]_vars
  PROVE  /\ Told => Told'
         /\ Told' => Told \/ \E t \in Threads : HandlerFlag(t)
         /\ \A t \in Threads : HandlerFlag(t) => Told'
         /\ JoinStuck' => JoinStuck \/ ((\E t \in Threads : Moving(t)) /\ started_ /\ ~detached_)
<1>0. /\ \A t \in Threads : DOMAIN handlers[t] = 1 .. Len(handlers[t])
      /\ \A t \in Threads : DOMAIN handlers'[t] = 1 .. Len(handlers'[t])
  <2>1. \A t \in Threads : DOMAIN handlers[t] = 1 .. Len(handlers[t])
    BY ToldAt
  <2> DEFINE H == [sig : Signals, pc : Pcs]
  <2>2. handlers' \in [Threads -> Seq(H)]
    BY DEF HandlersInv
  <2> HIDE DEF H
  <2>3. \A t \in Threads : DOMAIN handlers'[t] = 1 .. Len(handlers'[t])
    BY <2>2
  <2> QED
    BY <2>1, <2>3
<1> DEFINE G == /\ Told => Told'
                /\ Told' => Told \/ \E t \in Threads : HandlerFlag(t)
                /\ \A t \in Threads : HandlerFlag(t) => Told'
                /\ JoinStuck' => JoinStuck \/ ((\E t \in Threads : Moving(t)) /\ started_ /\ ~detached_)
<1>1. ASSUME NEW t \in Threads, Moving(t) PROVE G
  <2>1. PICK pc, next \in Pcs : <<pc, next>> \in Edges /\ HandlerAt(t, pc, next)
    BY <1>1, MovingFacts
  <2> DEFINE k == Len(handlers[t])
  <2>2. /\ k \in 1 .. k /\ handlers[t][k].pc = pc
        /\ \A u \in Threads : Len(handlers'[u]) = Len(handlers[u])
        /\ \A u \in Threads : \A i \in 1 .. Len(handlers[u]) :
             handlers'[u][i].pc = IF u = t /\ i = k THEN next ELSE handlers[u][i].pc
    BY <2>1, HandlerMoves
  <2>3. pc \in Past => next \in Past
    BY <2>1 DEF Edges, Past
  <2>4. next \in Past => pc \in Past \/ pc = "flag"
    BY <2>1 DEF Edges, Past
  <2> HIDE DEF k
  <2>5. Told => Told'
    BY <1>0, <2>2, <2>3 DEF Told, k
  <2>6. Told' => Told \/ (pc = "flag" /\ next \in Past)
    BY <1>0, <2>2, <2>4 DEF Told, k
  <2>7. pc = "flag" => HandlerFlag(t)
    BY <1>1, <2>2 DEF Moving, HandlerPrint, HandlerStop, HandlerJoin, HandlerFlag,
       HandlerSleep, HandlerDelete, HandlerFs, HandlerAt, Top, k
  <2>8. next \in Past => Told'
    BY <1>0, <2>2 DEF Told, k
  <2>9. ASSUME NEW u \in Threads, HandlerFlag(u) PROVE Told'
    <3>1. HandlerAt(u, "flag", "sleep")
      BY <2>9 DEF HandlerFlag
    <3>2. /\ Len(handlers[u]) \in 1 .. Len(handlers[u])
          /\ Len(handlers'[u]) = Len(handlers[u])
          /\ handlers'[u][Len(handlers[u])].pc = "sleep"
      BY <3>1, HandlerMoves DEF Pcs
    <3> QED
      BY <1>0, <3>2 DEF Told, Past
  <2>10. JoinStuck' => JoinStuck \/ next = "join"
    BY <1>0, <2>2 DEF JoinStuck, Joining, k
  <2>11. next = "join" => started_ /\ ~detached_
    <3> SUFFICES ASSUME next = "join" PROVE started_ /\ ~detached_
      OBVIOUS
    <3>1. pc = "stop"
      BY <2>1 DEF Edges
    <3>2. HandlerStop(t)
      BY <1>1, <2>2, <3>1 DEF Moving, HandlerPrint, HandlerJoin, HandlerFlag,
         HandlerSleep, HandlerDelete, HandlerFs, HandlerAt, Top, k
    <3>3. CASE HandlerAt(t, "stop", "flag")
      <4>1. \A u \in Threads : \A i \in 1 .. Len(handlers[u]) :
              handlers'[u][i].pc =
                IF u = t /\ i = Len(handlers[t]) THEN "flag" ELSE handlers[u][i].pc
        BY <3>3, HandlerMoves DEF Pcs
      <4> QED
        BY <2>2, <4>1 DEF k
    <3> QED
      BY <3>2, <3>3 DEF HandlerStop
  <2> QED
    BY <1>1, <2>5, <2>6, <2>7, <2>9, <2>10, <2>11, Zenon
<1>2. ASSUME NEW sig \in Signals, Signal(sig) PROVE G
  <2>1. CASE ~installed
    <3>1. UNCHANGED handlers
      BY <1>2, <2>1 DEF Signal
    <3>2. \A t \in Threads : handlers[t] = <<>>
      BY <2>1, Zenon DEF HandlersInv
    <3>3. \A t \in Threads : ~ HandlerFlag(t)
      BY <3>2 DEF HandlerFlag, HandlerAt
    <3> QED
      BY <3>1, <3>3, Zenon DEF Told, JoinStuck, Joining
  <2>2. CASE installed
    <3>1. PICK t \in Threads :
            handlers' = [handlers EXCEPT ![t] =
                           Append(@, [sig |-> sig, pc |-> "print"])]
      BY <1>2, <2>2 DEF Signal
    <3> DEFINE k == Len(handlers[t])
    <3>2. /\ k \in Nat /\ Len(handlers'[t]) = k + 1
          /\ \A i \in 1 .. k : handlers'[t][i] = handlers[t][i]
          /\ handlers'[t][k + 1].pc = "print"
          /\ \A u \in Threads : u # t => handlers'[u] = handlers[u]
      BY <3>1, HandlerBegins
    <3> HIDE DEF k
    <3>3. \A i \in 1 .. k + 1 : i \in 1 .. k \/ i = k + 1
      BY <3>2
    <3>4. \A i \in 1 .. k : i \in 1 .. k + 1
      BY <3>2
    <3>5. Told => Told'
      BY <1>0, <3>2, <3>4 DEF Told, k
    <3>6. Told' => Told
      BY <1>0, <3>2, <3>3 DEF Told, Past, k
    <3>7. JoinStuck' => JoinStuck
      BY <1>0, <3>2, <3>3 DEF JoinStuck, Joining, k
    <3>8. ASSUME NEW u \in Threads, HandlerFlag(u) PROVE FALSE
      <4>1. UNCHANGED sent
        BY <3>8 DEF HandlerFlag
      <4>2. sent' = sent + 1 /\ sent < MaxSignals
        BY <1>2 DEF Signal
      <4>3. UNCHANGED m_brunning /\ UNCHANGED oldTurn
        BY <1>2 DEF Signal, eimVars
      <4>4. HandlerAt(u, "flag", "sleep")
        BY <3>8 DEF HandlerFlag
      <4>5. \A v \in Threads : Len(handlers'[v]) = Len(handlers[v])
        BY <4>4, HandlerMoves DEF Pcs
      <4> QED
        BY <3>2, <4>5 DEF k
    <3> QED
      BY <3>5, <3>6, <3>7, <3>8
  <2> QED
    BY <2>1, <2>2
<1>3. ASSUME Other PROVE G
  <2>1. UNCHANGED handlers
    BY <1>3, OtherFacts
  <2>2. ASSUME NEW u \in Threads, HandlerFlag(u) PROVE FALSE
    <3>1. HandlerAt(u, "flag", "sleep")
      BY <2>2 DEF HandlerFlag
    <3>2. /\ Len(handlers[u]) \in 1 .. Len(handlers[u])
          /\ handlers[u][Len(handlers[u])].pc = "flag"
          /\ handlers'[u][Len(handlers[u])].pc = "sleep"
      BY <3>1, HandlerMoves DEF Pcs
    <3> QED
      BY <2>1, <3>2
  <2> QED
    BY <2>1, <2>2, Zenon DEF Told, JoinStuck, Joining
<1> QED
  BY <1>1, <1>2, <1>3, Kinds

LEMMA WindowStep ==
  HandlersInv /\ HandlersInv' /\ WindowInv /\ [Next]_vars => WindowInv'
<1> SUFFICES ASSUME HandlersInv, HandlersInv', WindowInv, [Next]_vars
             PROVE  WindowInv'
  OBVIOUS
<1>1. CASE \E t \in Threads : handlers[t] # <<>>
  <2>1. UNCHANGED <<main, detached_>>
    BY <1>1, MainStops DEF mainVars
  <2>2. started_' \in {started_, FALSE}
    <3>1. CASE MainEimStart
      BY <1>1, <3>1 DEF HandlersInv, MainEimStart, MainStep, Runs
    <3>2. CASE Other /\ ~MainEimStart
      BY <3>2 DEF Other, Main, MainGps, MainOpen, MainReturn, MainObjects, MainHid,
         MainSignals, MainSock, MainEimSet, MainEimDetach, MainBoard, GpsTurn,
         HidEnd, Eim, EimTest, EimSubmit, EimAdd, EimRead, HeapEnter, HeapLeave,
         HandlerExit, vars, eimVars
    <3>3. ASSUME NEW sig \in Signals, Signal(sig) PROVE started_' = started_
      BY <3>3 DEF Signal, eimVars
    <3>4. ASSUME NEW t \in Threads, Moving(t) PROVE started_' \in {started_, FALSE}
      BY <3>4 DEF Moving, HandlerPrint, HandlerStop, HandlerJoin, HandlerFlag,
         HandlerSleep, HandlerDelete, HandlerFs, eimVars
    <3> QED
      BY <3>1, <3>2, <3>3, <3>4, Kinds
  <2>3. JoinStuck' => JoinStuck \/ (started_ /\ ~detached_)
    BY ToldStep
  <2>4. (started_ /\ ~detached_)' => started_ /\ ~detached_
    BY <2>1, <2>2
  <2> QED
    BY <2>1, <2>3, <2>4, Zenon DEF WindowInv, JoinOnlyInWindow
<1>2. CASE \A t \in Threads : handlers[t] = <<>>
  <2>1. ASSUME NEW t \in Threads, Moving(t) PROVE FALSE
    BY <1>2, <2>1, MovingFacts DEF HandlerAt
  <2>2. ~JoinStuck
    BY <1>2 DEF JoinStuck, Joining
  <2>3. ~JoinStuck'
    BY <2>1, <2>2, ToldStep
  <2>4. (started_ /\ ~detached_)' => main' = "eimDetach"
    <3>1. ASSUME NEW sig \in Signals, Signal(sig)
          PROVE  UNCHANGED <<started_, detached_, main>>
      BY <3>1 DEF Signal, eimVars, mainVars
    <3>2. CASE MainEimStart
      BY <3>2 DEF MainEimStart, MainStep
    <3>3. CASE MainEimDetach
      BY <3>3 DEF MainEimDetach
    <3>4. ASSUME Main, ~MainEimStart, ~MainEimDetach
          PROVE  UNCHANGED <<started_, detached_>> /\ main # "eimDetach"
      BY <3>4 DEF Main, MainGps, MainOpen, MainReturn, MainObjects, MainHid,
         MainSignals, MainSock, MainEimSet, MainBoard, MainStep, eimVars
    <3>5. ASSUME Other, ~Main PROVE UNCHANGED <<started_, detached_, main>>
      BY <3>5 DEF Other, GpsTurn, HidEnd, Eim, EimTest, EimSubmit, EimAdd, EimRead,
         HeapEnter, HeapLeave, HandlerExit, vars, eimVars, mainVars
    <3>6. started_ /\ ~detached_ => main = "eimDetach"
      BY DEF WindowInv
    <3>7. ASSUME started_' = started_, detached_' = detached_,
                 main' = main \/ main # "eimDetach"
          PROVE  (started_ /\ ~detached_)' => main' = "eimDetach"
      BY <3>6, <3>7, Zenon
    <3>8. CASE Other
      BY <3>2, <3>3, <3>4, <3>5, <3>7, <3>8
    <3> QED
      BY <2>1, <3>1, <3>7, <3>8, Kinds
  <2> QED
    BY <2>3, <2>4, Zenon DEF WindowInv, JoinOnlyInWindow
<1> QED
  BY <1>1, <1>2

\* What steps do to m_brunning, to the EIM thread, to g_eimdata and to oldTurn.
LEMMA ToldMoves ==
  ASSUME TypeOK, [Next]_vars
  PROVE  /\ m_brunning' = m_brunning \/ MainEimSet \/ \E t \in Threads : HandlerFlag(t)
         /\ thr'["eim"] = thr["eim"] \/ MainEimStart \/ Eim \/ EimRead
         /\ g_eimdata' = g_eimdata \/ MainObjects \/ \E t \in Threads : HandlerDelete(t)
         /\ oldTurn' = oldTurn \/ EimTest \/ \E t \in Threads : HandlerFlag(t)
         /\ fault' = {} => fault = {}
<1>0. thr \in [Threads \ {"main"} -> {"none", "run", "ended", "test", "read",
                                      "submit", "add"}]
  BY DEF TypeOK
<1> DEFINE G == /\ m_brunning' = m_brunning \/ MainEimSet \/ \E t \in Threads : HandlerFlag(t)
                /\ thr'["eim"] = thr["eim"] \/ MainEimStart \/ Eim \/ EimRead
                /\ g_eimdata' = g_eimdata \/ MainObjects \/ \E t \in Threads : HandlerDelete(t)
                /\ oldTurn' = oldTurn \/ EimTest \/ \E t \in Threads : HandlerFlag(t)
                /\ fault' = {} => fault = {}
<1>1. ASSUME NEW t \in Threads, Moving(t) PROVE G
  <2>1. thr' = thr
    BY <1>1, MovingFacts
  <2>2. /\ m_brunning' = m_brunning \/ HandlerFlag(t)
        /\ g_eimdata' = g_eimdata \/ HandlerDelete(t)
        /\ oldTurn' = oldTurn \/ HandlerFlag(t)
    BY <1>1 DEF Moving, HandlerPrint, HandlerStop, HandlerJoin, HandlerSleep, HandlerFs,
       HandlerFlag, HandlerDelete, eimVars, history
  <2>3. fault' \in {fault, fault \cup {"handler"}}
    BY <1>1 DEF Moving, HandlerPrint, HandlerStop, HandlerJoin, HandlerFlag,
       HandlerSleep, HandlerDelete, HandlerFs, Touch, history
  <2>4. fault' = {} => fault = {}
    BY <2>3
  <2> QED
    BY <2>1, <2>2, <2>4
<1>2. ASSUME NEW sig \in Signals, Signal(sig) PROVE G
  BY <1>2 DEF Signal, eimVars
<1>3. CASE MainGps \/ MainOpen \/ MainReturn
  BY <1>0, <1>3 DEF MainGps, MainOpen, MainReturn, eimVars, history, Threads
<1>4. CASE MainObjects
  BY <1>4 DEF MainObjects, history
<1>5. CASE MainHid \/ MainBoard
  BY <1>0, <1>5 DEF MainHid, MainBoard, eimVars, history, Threads
<1>6. CASE MainSignals \/ MainSock \/ MainEimSet \/ MainEimStart \/ MainEimDetach
  BY <1>6 DEF MainSignals, MainSock, MainEimSet, MainEimStart, MainEimDetach, eimVars,
     history
<1>7. CASE GpsTurn
  BY <1>7 DEF GpsTurn, Touch, eimVars
<1>8. CASE HidEnd
  BY <1>0, <1>8 DEF HidEnd, eimVars, history, Threads
<1>9. CASE EimTest
  <2>1. fault' \in {fault, fault \cup {"eim"}}
    BY <1>9 DEF EimTest, Touch
  <2>2. fault' = {} => fault = {}
    BY <2>1
  <2> QED
    BY <1>9, <2>2 DEF EimTest, Eim, eimVars
<1>10. CASE EimSubmit \/ EimAdd \/ EimRead
  <2>1. fault' \in {fault, fault \cup {"eim"}} /\ UNCHANGED <<m_brunning, g_eimdata, oldTurn>>
    BY <1>10 DEF EimSubmit, EimAdd, EimRead, Touch, history, eimVars
  <2>2. fault' = {} => fault = {}
    BY <2>1
  <2> QED
    BY <1>10, <2>1, <2>2 DEF Eim
<1>11. CASE \E t \in {"main", "board"} : HeapEnter(t) \/ HeapLeave(t)
  BY <1>11 DEF HeapEnter, HeapLeave, eimVars, history
<1>12. CASE \E t \in Threads : HandlerExit(t)
  BY <1>12 DEF HandlerExit, eimVars, history
<1>13. CASE UNCHANGED vars
  BY <1>13 DEF vars, eimVars, history
<1> QED
  BY <1>1, <1>2, <1>3, <1>4, <1>5, <1>6, <1>7, <1>8, <1>9, <1>10, <1>11, <1>12,
     <1>13, Kinds DEF Other, Main, Eim

LEMMA ToldInvStep ==
  TypeOK /\ HandlersInv /\ HandlersInv' /\ MainInv /\ ToldInv /\ [Next]_vars => ToldInv'
<1> SUFFICES ASSUME TypeOK, HandlersInv, HandlersInv', MainInv, ToldInv, [Next]_vars
             PROVE  ToldInv'
  OBVIOUS
<1> DEFINE Started == {"eimStart", "eimDetach", "board", "loop"}
           Over    == {"none", "ended"}
<1>0. thr \in [Threads \ {"main"} -> {"none", "run", "ended", "test", "read",
                                      "submit", "add"}]
  BY DEF TypeOK
<1>1. /\ main \in Started => m_brunning \/ Told
      /\ thr["eim"] = "ended" => Told
      /\ g_eimdata = "deleted" => Told
      /\ Told /\ thr["eim"] \notin Over /\ fault = {} => oldTurn /\ ~m_brunning
      /\ thr["eim"] # "none" => main \in Started
  BY DEF ToldInv, MainInv
<1>2. /\ Told => Told'
      /\ Told' => Told \/ \E t \in Threads : HandlerFlag(t)
      /\ \A t \in Threads : HandlerFlag(t) => Told'
  BY ToldStep
<1>3. Told => handlers["main"] # <<>>
  BY ToldAt
<1>4. /\ m_brunning' = m_brunning \/ MainEimSet \/ \E t \in Threads : HandlerFlag(t)
      /\ thr'["eim"] = thr["eim"] \/ MainEimStart \/ Eim \/ EimRead
      /\ g_eimdata' = g_eimdata \/ MainObjects \/ \E t \in Threads : HandlerDelete(t)
      /\ oldTurn' = oldTurn \/ EimTest \/ \E t \in Threads : HandlerFlag(t)
      /\ fault' = {} => fault = {}
  BY ToldMoves
<1>5. ASSUME NEW t \in Threads, HandlerFlag(t)
      PROVE  /\ UNCHANGED <<main, thr, g_eimdata>>
             /\ m_brunning' = FALSE /\ oldTurn' = (oldTurn \/ m_brunning)
  BY <1>5 DEF HandlerFlag, mainVars
<1>6. main' \in Started => m_brunning' \/ Told'
  <2>1. CASE \E t \in Threads : HandlerFlag(t)
    BY <1>2, <2>1
  <2>2. CASE MainEimSet
    BY <2>2 DEF MainEimSet
  <2>3. CASE m_brunning' = m_brunning /\ ~MainEimSet
    <3>1. main' \in Started => main \in Started
      <4>1. ASSUME Main, ~MainEimSet PROVE main' \in Started => main \in Started
        BY <4>1 DEF Main, MainGps, MainOpen, MainReturn, MainObjects, MainHid,
           MainSignals, MainSock, MainEimStart, MainEimDetach, MainBoard, MainStep,
           mainVars
      <4>2. ASSUME Other, ~Main PROVE main' = main
        BY <4>2 DEF Other, GpsTurn, HidEnd, Eim, EimTest, EimSubmit, EimAdd, EimRead,
           HeapEnter, HeapLeave, HandlerExit, vars, mainVars
      <4>3. ASSUME NEW sig \in Signals, Signal(sig) PROVE main' = main
        BY <4>3 DEF Signal, mainVars
      <4>4. ASSUME NEW t \in Threads, Moving(t) PROVE main' = main
        BY <4>4, MovingFacts DEF mainVars
      <4> QED
        BY <2>3, <4>1, <4>2, <4>3, <4>4, Kinds
    <3> QED
      BY <1>1, <1>2, <2>3, <3>1, Zenon
  <2> QED
    BY <1>4, <2>1, <2>2, <2>3
<1>7. thr'["eim"] = "ended" => Told'
  <2>1. CASE thr'["eim"] = thr["eim"]
    BY <1>1, <1>2, <2>1
  <2>2. CASE MainEimStart \/ EimRead \/ EimSubmit \/ EimAdd
    <3>1. thr'["eim"] \in {"submit", "test", "add", thr["eim"]}
      BY <1>0, <2>2 DEF MainEimStart, EimRead, EimSubmit, EimAdd, EimAt, Threads
    <3> QED
      BY <1>1, <1>2, <3>1
  <2>3. CASE EimTest
    <3>1. PICK go \in IF g_eimdata = "deleted" THEN BOOLEAN ELSE {m_brunning} :
            thr' = [thr EXCEPT !["eim"] = IF go THEN "read" ELSE "ended"]
      BY <2>3 DEF EimTest
    <3>2. thr'["eim"] = "ended" => ~go
      BY <1>0, <3>1 DEF Threads
    <3>3. thr["eim"] = "test"
      BY <2>3 DEF EimTest
    <3>4. ~go => g_eimdata = "deleted" \/ ~m_brunning
      BY <3>1
    <3>5. main \in Started
      BY <1>1, <3>3
    <3> QED
      BY <1>1, <1>2, <3>2, <3>4, <3>5, Zenon
  <2> QED
    BY <1>4, <2>1, <2>2, <2>3 DEF Eim
<1>8. g_eimdata' = "deleted" => Told'
  <2>1. CASE g_eimdata' = g_eimdata
    BY <1>1, <1>2, <2>1
  <2>2. CASE MainObjects
    BY <2>2 DEF MainObjects
  <2>3. ASSUME NEW t \in Threads, HandlerDelete(t) PROVE Told
    <3>1. HandlerAt(t, "delete", "fs")
      BY <2>3 DEF HandlerDelete
    <3>2. Len(handlers[t]) \in 1 .. Len(handlers[t])
          /\ handlers[t][Len(handlers[t])].pc = "delete"
      BY <3>1, HandlerMoves DEF Pcs
    <3>3. DOMAIN handlers[t] = 1 .. Len(handlers[t])
      BY ToldAt
    <3> QED
      BY <3>2, <3>3 DEF Told, Past
  <2> QED
    BY <1>2, <1>4, <2>1, <2>2, <2>3
<1>9. Told' /\ thr'["eim"] \notin Over /\ fault' = {} => oldTurn' /\ ~m_brunning'
  <2> SUFFICES ASSUME Told', thr'["eim"] \notin Over, fault' = {}
               PROVE  oldTurn' /\ ~m_brunning'
    OBVIOUS
  <2>1. CASE \E t \in Threads : HandlerFlag(t)
    <3>1. UNCHANGED <<main, thr>> /\ m_brunning' = FALSE
          /\ oldTurn' = (oldTurn \/ m_brunning)
      BY <1>5, <2>1
    <3>2. main \in Started
      BY <1>1, <3>1
    <3>3. m_brunning \/ Told
      BY <1>1, <3>2
    <3>4. fault = {} /\ thr["eim"] \notin Over
      BY <1>4, <3>1
    <3> QED
      BY <1>1, <3>1, <3>3, <3>4, Zenon
  <2>2. CASE ~ \E t \in Threads : HandlerFlag(t)
    <3>1. Told
      BY <1>2, <2>2
    <3>2. ~MainEimSet /\ ~MainEimStart
      BY <1>3, <3>1 DEF MainEimSet, MainEimStart, MainStep, Runs
    <3>3. fault = {}
      BY <1>4
    <3>4. thr["eim"] \notin Over
      <4>1. CASE thr'["eim"] = thr["eim"]
        BY <4>1
      <4>2. CASE Eim \/ EimRead
        BY <4>2 DEF Eim, EimTest, EimSubmit, EimAdd, EimRead, EimAt
      <4> QED
        BY <1>4, <3>2, <4>1, <4>2
    <3>5. oldTurn /\ ~m_brunning
      BY <1>1, <3>1, <3>3, <3>4
    <3>6. CASE EimTest
      <4>1. g_eimdata # "deleted"
        <5>1. g_eimdata = "deleted" => fault' = fault \cup {"eim"}
          BY <3>6 DEF EimTest, Touch
        <5> QED
          BY <5>1
      <4>2. PICK go \in {m_brunning} :
              thr' = [thr EXCEPT !["eim"] = IF go THEN "read" ELSE "ended"]
        BY <3>6, <4>1 DEF EimTest
      <4>3. ~go
        BY <3>5, <4>2
      <4>4. thr'["eim"] = "ended"
        BY <1>0, <4>2, <4>3 DEF Threads
      <4> QED
        BY <4>4
    <3>7. CASE ~EimTest
      <4>1. m_brunning' = m_brunning /\ oldTurn' = oldTurn
        BY <1>4, <2>2, <3>2, <3>7, Zenon
      <4> QED
        BY <3>5, <4>1
    <3> QED
      BY <3>6, <3>7
  <2> QED
    BY <2>1, <2>2
<1> QED
  BY <1>6, <1>7, <1>8, <1>9 DEF ToldInv
-----------------------------------------------------------------------------
(* One signal, and after a delete.                                         *)

\* The handler on top before the step, and after it.
LEMMA TopMoves ==
  ASSUME HandlersInv, NEW t \in Threads, Moving(t)
  PROVE  /\ handlers[t] # <<>>
         /\ <<Top(t).pc, Top(t)'.pc>> \in Edges
         /\ Top(t).pc = "sleep" => HandlerSleep(t)
         /\ Top(t).pc = "delete" => HandlerDelete(t)
         /\ HandlerDelete(t) => Top(t)'.pc = "fs"
<1>1. PICK pc, next \in Pcs : <<pc, next>> \in Edges /\ HandlerAt(t, pc, next)
  BY MovingFacts
<1>2. /\ Len(handlers[t]) \in 1 .. Len(handlers[t]) /\ handlers[t] # <<>>
      /\ handlers[t][Len(handlers[t])].pc = pc
      /\ Len(handlers'[t]) = Len(handlers[t])
      /\ handlers'[t][Len(handlers[t])].pc = next
  BY <1>1, HandlerMoves
<1>3. Top(t).pc = pc
  BY <1>2 DEF Top
<1>4. Top(t)'.pc = next
  BY <1>2 DEF Top
<1>5. /\ pc = "sleep" => HandlerSleep(t)
      /\ pc = "delete" => HandlerDelete(t)
  BY <1>3 DEF Moving, HandlerPrint, HandlerStop, HandlerJoin, HandlerFlag,
     HandlerSleep, HandlerDelete, HandlerFs, HandlerAt
<1>6. HandlerDelete(t) => next = "fs"
  <2> SUFFICES ASSUME HandlerDelete(t) PROVE next = "fs"
    OBVIOUS
  <2>1. HandlerAt(t, "delete", "fs")
    BY DEF HandlerDelete
  <2>2. handlers'[t][Len(handlers[t])].pc = "fs"
    BY <1>2, <2>1, HandlerMoves DEF Pcs
  <2> QED
    BY <1>2, <2>2
<1> QED
  BY <1>1, <1>2, <1>3, <1>4, <1>5, <1>6

LEMMA DeleteStep ==
  TypeOK /\ HandlersInv /\ MainInv /\ ToldInv /\ DeleteInv /\ [Next]_vars => DeleteInv'
<1> SUFFICES ASSUME TypeOK, HandlersInv, MainInv, ToldInv, DeleteInv, [Next]_vars
             PROVE  DeleteInv'
  OBVIOUS
<1>1. /\ deletes = 0 \/ g_eimdata = "deleted"
      /\ "eim" \in fault => g_eimdata = "deleted"
      /\ g_eimdata = "deleted" /\ ~elsewhere /\ ~late => Top("main").pc \in {"fs", "exit"}
  BY DEF DeleteInv
<1>2. g_eimdata = "deleted" => installed /\ handlers["main"] # <<>>
  BY ToldAt DEF ToldInv
<1>3. ASSUME NEW t \in Threads, Moving(t) PROVE DeleteInv'
  <2>1. UNCHANGED <<elsewhere, late>>
    BY <1>3, MovingFacts
  <2>2. /\ HandlerDelete(t) \/ (g_eimdata' = g_eimdata /\ deletes' = deletes)
        /\ HandlerDelete(t) => g_eimdata' = "deleted"
        /\ "eim" \in fault' => "eim" \in fault
    BY <1>3 DEF Moving, HandlerPrint, HandlerStop, HandlerJoin, HandlerSleep, HandlerFs,
       HandlerFlag, HandlerDelete, eimVars, history, Touch
  <2>3. /\ handlers[t] # <<>>
        /\ <<Top(t).pc, Top(t)'.pc>> \in Edges
        /\ HandlerDelete(t) => Top(t)'.pc = "fs"
    BY <1>3, TopMoves
  <2>4. ~elsewhere => t = "main"
    BY <2>3, Zenon DEF HandlersInv
  <2>5. Top(t).pc \in {"fs", "exit"} => Top(t)'.pc \in {"fs", "exit"}
    BY <2>3 DEF Edges
  <2>6. (g_eimdata = "deleted" /\ ~elsewhere /\ ~late)' => Top("main")'.pc \in {"fs", "exit"}
    BY <1>1, <2>1, <2>2, <2>3, <2>4, <2>5
  <2>7. deletes' = 0 \/ g_eimdata' = "deleted"
    BY <1>1, <2>2
  <2>8. "eim" \in fault' => g_eimdata' = "deleted"
    BY <1>1, <2>2
  <2> QED
    BY <2>6, <2>7, <2>8, Zenon DEF DeleteInv
<1>4. ASSUME NEW sig \in Signals, Signal(sig) PROVE DeleteInv'
  <2>1. UNCHANGED <<g_eimdata, deletes, fault>>
    BY <1>4 DEF Signal, eimVars
  <2>2. CASE g_eimdata = "deleted"
    <3>1. late' = (late \/ g_eimdata = "deleted")
      BY <1>2, <1>4, <2>2 DEF Signal
    <3> QED
      BY <1>1, <2>1, <2>2, <3>1 DEF DeleteInv
  <2>3. CASE g_eimdata # "deleted"
    BY <1>1, <2>1, <2>3 DEF DeleteInv
  <2> QED
    BY <2>2, <2>3
<1>5. ASSUME Other PROVE DeleteInv'
  <2>1. UNCHANGED <<handlers, deletes, elsewhere, late>>
    BY <1>5, OtherFacts
  <2>2. CASE MainObjects
    <3>1. g_eimdata = "null" /\ g_eimdata' = "live" /\ fault' = fault
      BY <2>2 DEF MainObjects, MainStep, MainInv, Early, history
    <3>2. deletes' = 0 /\ "eim" \notin fault' /\ g_eimdata' # "deleted"
      BY <1>1, <2>1, <3>1
    <3> QED
      BY <3>2, Zenon DEF DeleteInv
  <2>3. CASE ~MainObjects
    <3>1. g_eimdata' = g_eimdata
      <4>1. \A t \in Threads : ~HandlerDelete(t)
        <5> SUFFICES ASSUME NEW t \in Threads, HandlerDelete(t) PROVE FALSE
          OBVIOUS
        <5>1. Top(t)'.pc = "fs" /\ Top(t).pc = "delete"
          BY TopMoves DEF Moving, HandlerDelete, HandlerAt
        <5> QED
          BY <2>1, <5>1 DEF Top
      <4> QED
        BY <2>3, <4>1, ToldMoves
    <3>2. "eim" \in fault' => "eim" \in fault \/ g_eimdata = "deleted"
      BY <1>5 DEF Other, Main, MainGps, MainOpen, MainReturn, MainObjects, MainHid,
         MainSignals, MainSock, MainEimSet, MainEimStart, MainEimDetach, MainBoard,
         GpsTurn, HidEnd, Eim, EimTest, EimSubmit, EimAdd, EimRead, Touch, HeapEnter,
         HeapLeave, HandlerExit, vars, history
    <3>3. Top("main")' = Top("main")
      BY <2>1 DEF Top
    <3> QED
      BY <1>1, <2>1, <3>1, <3>2, <3>3, Zenon DEF DeleteInv
  <2> QED
    BY <2>2, <2>3
<1> QED
  BY <1>3, <1>4, <1>5, Kinds

\* A handler on main means that a signal was sent.
LEMMA SentOne ==
  ASSUME HandlersInv, OneInv, TypeOK
  PROVE  /\ Len(handlers["main"]) \in Nat /\ sent \in Nat
         /\ handlers["main"] # <<>> => sent >= 1
<1> DEFINE H == [sig : Signals, pc : Pcs]
<1>1. handlers["main"] \in Seq(H)
  BY DEF HandlersInv, Threads
<1> HIDE DEF H
<1>2. /\ Len(handlers["main"]) \in Nat
      /\ handlers["main"] # <<>> => Len(handlers["main"]) # 0
  BY <1>1
<1>3. sent \in Nat
  BY SignalsAssumption DEF TypeOK
<1>4. Len(handlers["main"]) <= sent
  BY DEF OneInv
<1> QED
  BY <1>2, <1>3, <1>4

LEMMA OneStep ==
  TypeOK /\ HandlersInv /\ HandlersInv' /\ MainInv /\ ToldInv /\ OneInv /\ [Next]_vars
    => OneInv'
<1> SUFFICES ASSUME TypeOK, HandlersInv, HandlersInv', MainInv, ToldInv, OneInv, [Next]_vars
             PROVE  OneInv'
  OBVIOUS
<1> DEFINE End == {"delete", "fs", "exit"}
           Where == \/ at = "read"
                    \/ at \in {"none", "ended"} /\ thr["eim"] = at
                    \/ at = "submit" /\ heap = "main" /\ Top("main").pc = "delete"
<1>1. /\ Len(handlers["main"]) <= sent
      /\ elsewhere \/ late => sent > 1
      /\ handlers["main"] # <<>> /\ sent <= 1 /\ Top("main").pc \in End => Where
  BY DEF OneInv
<1>2. /\ Len(handlers["main"]) \in Nat /\ sent \in Nat
      /\ handlers["main"] # <<>> => sent >= 1
  BY SentOne
<1>3. "main" \in Threads
  BY DEF Threads
<1>4. ASSUME NEW t \in Threads, Moving(t) PROVE OneInv'
  <2>1. UNCHANGED <<main, thr, heap, sent, elsewhere, late>>
    BY <1>4, MovingFacts DEF mainVars
  <2>2. Len(handlers'["main"]) = Len(handlers["main"])
    BY <1>3, <1>4, MovingFacts, HandlerMoves
  <2>3. ASSUME sent <= 1, Top("main")'.pc \in End PROVE Where'
    <3>1. ~elsewhere
      BY <1>1, <1>2, <2>3
    <3>2. handlers[t] # <<>> /\ \A u \in Threads \ {"main"} : handlers[u] = <<>>
      BY <1>4, <3>1, TopMoves, Zenon DEF HandlersInv
    <3>3. t = "main"
      BY <3>2
    <3>4. <<Top("main").pc, Top("main")'.pc>> \in Edges
          /\ (Top("main").pc = "sleep" => HandlerSleep("main"))
          /\ (Top("main").pc = "delete" => HandlerDelete("main"))
      BY <1>4, <3>3, TopMoves
    <3>5. CASE Top("main").pc = "sleep"
      <4>1. HandlerSleep("main")
        BY <3>4, <3>5
      <4>2. at' = thr["eim"] /\ SecondOver /\ process = "running"
        BY <4>1 DEF HandlerSleep, HandlerAt
      <4>3. Top("main")'.pc = "delete"
        BY <3>4, <3>5 DEF Edges
      <4>4. Runs("eim") /\ Runs("board")
        BY <3>2, <4>2 DEF Runs, Threads
      <4>5. \/ thr["eim"] \in {"none", "read", "ended"}
            \/ thr["eim"] = "submit" /\ heap # "free" /\ ~Runs(heap)
        BY <4>2, <4>4 DEF SecondOver
      <4>6. heap \in {"free", "main", "board", "eim"}
        BY DEF TypeOK
      <4>7. \/ at' \in {"none", "read", "ended"}
            \/ at' = "submit" /\ heap = "main"
        BY <4>2, <4>4, <4>5, <4>6
      <4> QED
        BY <2>1, <4>2, <4>3, <4>7
    <3>6. CASE Top("main").pc = "delete"
      <4>1. heap = "free" /\ at' = at
        BY <3>4, <3>6 DEF HandlerDelete
      <4>2. Where
        BY <1>1, <2>3, <3>2, <3>3, <3>6
      <4>3. at = "read" \/ (at \in {"none", "ended"} /\ thr["eim"] = at)
        BY <4>1, <4>2
      <4> QED
        BY <2>1, <4>1, <4>3
    <3>7. CASE Top("main").pc = "fs"
      <4>1. ~HandlerSleep("main") /\ ~HandlerDelete("main")
        BY <3>7 DEF HandlerSleep, HandlerDelete, HandlerAt
      <4>2. at' = at
        BY <1>4, <3>3, <4>1 DEF Moving, HandlerPrint, HandlerStop, HandlerJoin,
           HandlerFlag, HandlerFs, history
      <4>3. Where
        BY <1>1, <2>3, <3>2, <3>3, <3>7
      <4>4. at = "read" \/ (at \in {"none", "ended"} /\ thr["eim"] = at)
        BY <3>7, <4>3
      <4> QED
        BY <2>1, <4>2, <4>4
    <3> QED
      BY <2>3, <3>4, <3>5, <3>6, <3>7 DEF Edges
  <2>4. Len(handlers'["main"]) <= sent'
    BY <1>1, <2>1, <2>2
  <2>5. elsewhere' \/ late' => sent' > 1
    BY <1>1, <2>1
  <2>6. (handlers["main"] # <<>> /\ sent <= 1 /\ Top("main").pc \in End)' => Where'
    BY <2>1, <2>3
  <2> QED
    BY <2>4, <2>5, <2>6, Zenon DEF OneInv
<1>5. ASSUME NEW sig \in Signals, Signal(sig) PROVE OneInv'
  <2>1. sent' = sent + 1
    BY <1>5 DEF Signal
  <2>2. CASE ~installed
    <3>1. UNCHANGED <<handlers, elsewhere, late>>
      BY <1>5, <2>2 DEF Signal
    <3>2. handlers["main"] = <<>>
      BY <1>3, <2>2, Zenon DEF HandlersInv
    <3>3. Len(handlers'["main"]) <= sent'
      BY <1>1, <1>2, <2>1, <3>1
    <3>4. elsewhere' \/ late' => sent' > 1
      BY <1>1, <1>2, <2>1, <3>1
    <3>5. handlers'["main"] = <<>>
      BY <3>1, <3>2
    <3> QED
      BY <3>3, <3>4, <3>5, Zenon DEF OneInv
  <2>3. CASE installed
    <3>1. PICK t \in Threads :
            /\ Takes(t, sig)
            /\ handlers' = [handlers EXCEPT ![t] =
                              Append(@, [sig |-> sig, pc |-> "print"])]
            /\ elsewhere' = (elsewhere \/ t # "main")
            /\ late' = (late \/ g_eimdata = "deleted")
      BY <1>5, <2>3 DEF Signal
    <3>2. /\ Len(handlers'[t]) = Len(handlers[t]) + 1
          /\ Len(handlers[t]) \in Nat
          /\ handlers'[t][Len(handlers[t]) + 1].pc = "print"
          /\ \A u \in Threads : u # t => handlers'[u] = handlers[u]
      BY <3>1, HandlerBegins
    <3>3. t # "main" => handlers["main"] # <<>>
      BY <3>1 DEF Takes
    <3>4. g_eimdata = "deleted" => handlers["main"] # <<>>
      BY ToldAt DEF ToldInv
    <3>5. elsewhere' \/ late' => sent' > 1
      <4>1. elsewhere' \/ late' => elsewhere \/ late \/ t # "main" \/ g_eimdata = "deleted"
        BY <3>1
      <4>2. elsewhere \/ late => sent' > 1
        BY <1>1, <1>2, <2>1
      <4>3. handlers["main"] # <<>> => sent' > 1
        BY <1>2, <2>1
      <4> QED
        BY <3>3, <3>4, <4>1, <4>2, <4>3, Zenon
    <3>6. Len(handlers'["main"]) <= sent'
      <4>1. CASE t = "main"
        BY <1>1, <1>2, <2>1, <3>2, <4>1
      <4>2. CASE t # "main"
        <5>1. handlers'["main"] = handlers["main"]
          BY <1>3, <3>2, <4>2
        <5> QED
          BY <1>1, <1>2, <2>1, <5>1
      <4> QED
        BY <4>1, <4>2
    <3>7. sent' <= 1 => Top("main")'.pc = "print"
      <4> SUFFICES ASSUME sent' <= 1 PROVE Top("main")'.pc = "print"
        OBVIOUS
      <4>1. sent = 0
        BY <1>2, <2>1
      <4>2. t = "main"
        BY <1>2, <3>3, <4>1
      <4> QED
        BY <3>2, <4>2 DEF Top
    <3>8. (handlers["main"] # <<>> /\ sent <= 1 /\ Top("main").pc \in End)' => FALSE
      BY <3>7
    <3> QED
      BY <3>5, <3>6, <3>8, Zenon DEF OneInv
  <2> QED
    BY <2>2, <2>3
<1>6. ASSUME Other PROVE OneInv'
  <2>1. UNCHANGED <<handlers, sent, at, elsewhere, late>>
    BY <1>6, OtherFacts
  <2>2. Top("main")' = Top("main")
    BY <2>1 DEF Top
  <2>3. ASSUME handlers["main"] # <<>>, Where PROVE Where'
    <3>1. ~MainEimStart /\ ~Main /\ ~HeapLeave("main")
      BY <2>3 DEF Main, MainGps, MainOpen, MainReturn, MainObjects, MainHid,
         MainSignals, MainSock, MainEimSet, MainEimStart, MainEimDetach, MainBoard,
         MainStep, HeapLeave, Runs
    <3>2. thr["eim"] \in {"none", "ended"} => thr'["eim"] = thr["eim"]
      <4>1. thr["eim"] \in {"none", "ended"} => ~Eim /\ ~EimRead
        BY DEF Eim, EimTest, EimSubmit, EimAdd, EimRead, EimAt
      <4> QED
        BY <3>1, <4>1, ToldMoves
    <3>3. heap = "main" => heap' = "main"
      <4>1. heap = "eim" <=> thr["eim"] = "add"
        BY DEF TypeOK
      <4> QED
        BY <1>6, <3>1, <4>1 DEF Other, GpsTurn, HidEnd, Eim, EimTest, EimSubmit,
           EimAdd, EimAt, EimRead, HeapEnter, HeapLeave, HandlerExit, vars
    <3> QED
      BY <2>1, <2>2, <2>3, <3>2, <3>3
  <2>4. (handlers["main"] # <<>> /\ sent <= 1 /\ Top("main").pc \in End)' => Where'
    BY <1>1, <2>1, <2>2, <2>3
  <2>5. Len(handlers'["main"]) <= sent' /\ (elsewhere' \/ late' => sent' > 1)
    BY <1>1, <2>1
  <2> QED
    BY <2>4, <2>5, Zenon DEF OneInv
<1> QED
  BY <1>4, <1>5, <1>6, Kinds
-----------------------------------------------------------------------------
(* How many deletes.                                                       *)

LEMMA CountStep ==
  TypeOK /\ HandlersInv /\ CountInv /\ [Next]_vars => CountInv'
<1> SUFFICES ASSUME TypeOK, HandlersInv, CountInv, [Next]_vars PROVE CountInv'
  OBVIOUS
<1>0. sent \in Nat
  BY SignalsAssumption DEF TypeOK
<1>1. IsFiniteSet(Slots) /\ Cardinality(Slots) <= sent /\ deletes = Cardinality(Spent)
  BY DEF CountInv
<1>2. Cardinality(Slots) \in Nat
  BY <1>1, FS_CardinalityType
<1>3. IsFiniteSet(Spent) /\ Cardinality(Spent) \in Nat
  <2>1. Spent \subseteq Slots
    BY DEF Spent
  <2> QED
    BY <1>1, <2>1, FS_Subset, FS_CardinalityType
<1>4. \A s : s \in Slots <=>
        \E t \in Threads : \E i \in 1 .. Len(handlers[t]) : s = <<t, i>>
  BY DEF Slots
<1>5. \A s : s \in Slots' <=>
        \E t \in Threads : \E i \in 1 .. Len(handlers'[t]) : s = <<t, i>>
  BY DEF Slots
<1>6. /\ \A s : s \in Spent <=> s \in Slots /\ handlers[s[1]][s[2]].pc \in {"fs", "exit"}
      /\ \A s : s \in Spent' <=> s \in Slots' /\ handlers'[s[1]][s[2]].pc \in {"fs", "exit"}
  BY DEF Spent
<1>7. ASSUME NEW t \in Threads, Moving(t) PROVE CountInv'
  <2> DEFINE k == Len(handlers[t])
             new == <<t, k>>
  <2>1. PICK pc, next \in Pcs : <<pc, next>> \in Edges /\ HandlerAt(t, pc, next)
    BY <1>7, MovingFacts
  <2>2. /\ k \in 1 .. k /\ handlers[t][k].pc = pc
        /\ \A u \in Threads : Len(handlers'[u]) = Len(handlers[u])
        /\ \A u \in Threads : \A i \in 1 .. Len(handlers[u]) :
             handlers'[u][i].pc = IF u = t /\ i = k THEN next ELSE handlers[u][i].pc
    BY <2>1, HandlerMoves
  <2>3. Slots' = Slots
    BY <2>2 DEF Slots
  <2>4. sent' = sent
    BY <1>7, MovingFacts
  <2>5. \A s \in Slots : handlers'[s[1]][s[2]].pc =
                           IF s = new THEN next ELSE handlers[s[1]][s[2]].pc
    <3> SUFFICES ASSUME NEW u \in Threads, NEW i \in 1 .. Len(handlers[u])
                 PROVE  handlers'[u][i].pc =
                          IF <<u, i>> = new THEN next ELSE handlers[u][i].pc
      BY <1>4
    <3> QED
      BY <2>2
  <2>6. new \in Slots /\ handlers[new[1]][new[2]].pc = pc
    BY <1>4, <2>2
  <2>7. /\ HandlerDelete(t) <=> pc = "delete"
        /\ deletes' = IF HandlerDelete(t) THEN deletes + 1 ELSE deletes
    <3>1. Top(t).pc = pc
      BY <2>2 DEF Top
    <3>2. HandlerDelete(t) <=> pc = "delete"
      BY <1>7, <3>1, TopMoves DEF HandlerDelete, HandlerAt
    <3>3. HandlerDelete(t) => deletes' = deletes + 1
      BY DEF HandlerDelete
    <3>4. ~HandlerDelete(t) => deletes' = deletes
      BY <1>7 DEF Moving, HandlerPrint, HandlerStop, HandlerJoin, HandlerFlag,
         HandlerSleep, HandlerFs, history
    <3> QED
      BY <3>2, <3>3, <3>4
  <2> HIDE DEF new, k
  <2>8. CASE pc = "delete"
    <3>1. next = "fs"
      BY <2>1, <2>8 DEF Edges
    <3>2. Spent' = Spent \cup {new}
      <4> SUFFICES ASSUME NEW s PROVE s \in Spent' <=> s \in Spent \/ s = new
        OBVIOUS
      <4> QED
        BY <1>6, <2>3, <2>5, <2>6, <3>1
    <3>3. new \notin Spent
      BY <1>6, <2>6, <2>8
    <3>4. /\ Cardinality(Spent \cup {new}) = Cardinality(Spent) + 1
      BY <1>3, <3>3, FS_AddElement
    <3>5. deletes' = deletes + 1
      BY <2>7, <2>8
    <3>6. deletes' = Cardinality(Spent')
      BY <1>1, <3>2, <3>4, <3>5
    <3> QED
      BY <1>1, <2>3, <2>4, <3>6 DEF CountInv
  <2>9. CASE pc # "delete"
    <3>1. next \in {"fs", "exit"} <=> pc \in {"fs", "exit"}
      BY <2>1, <2>9 DEF Edges
    <3>2. Spent' = Spent
      <4> SUFFICES ASSUME NEW s PROVE s \in Spent' <=> s \in Spent
        OBVIOUS
      <4> QED
        BY <1>6, <2>3, <2>5, <2>6, <3>1
    <3>3. deletes' = deletes
      BY <2>7, <2>9
    <3> QED
      BY <1>1, <2>3, <2>4, <3>2, <3>3 DEF CountInv
  <2> QED
    BY <2>8, <2>9
<1>8. ASSUME NEW sig \in Signals, Signal(sig) PROVE CountInv'
  <2>1. sent' = sent + 1 /\ deletes' = deletes
    BY <1>8 DEF Signal
  <2>2. CASE ~installed
    <3>1. UNCHANGED handlers
      BY <1>8, <2>2 DEF Signal
    <3>2. Slots' = Slots /\ Spent' = Spent
      BY <3>1 DEF Slots, Spent
    <3>3. Cardinality(Slots) <= sent'
      BY <1>0, <1>1, <1>2, <2>1
    <3> QED
      BY <1>1, <2>1, <3>2, <3>3 DEF CountInv
  <2>3. CASE installed
    <3>1. PICK t \in Threads :
            handlers' = [handlers EXCEPT ![t] =
                           Append(@, [sig |-> sig, pc |-> "print"])]
      BY <1>8, <2>3 DEF Signal
    <3> DEFINE k == Len(handlers[t])
               new == <<t, k + 1>>
    <3>2. /\ k \in Nat /\ Len(handlers'[t]) = k + 1
          /\ \A i \in 1 .. k : handlers'[t][i] = handlers[t][i]
          /\ handlers'[t][k + 1].pc = "print"
          /\ \A u \in Threads : u # t => handlers'[u] = handlers[u]
      BY <3>1, HandlerBegins
    <3>3. new \notin Slots
      BY <1>4, <3>2
    <3>4. Slots' = Slots \cup {new}
      <4>1. \A i : i \in 1 .. k + 1 <=> i \in 1 .. k \/ i = k + 1
        BY <3>2
      <4> SUFFICES ASSUME NEW s PROVE s \in Slots' <=> s \in Slots \/ s = new
        OBVIOUS
      <4> QED
        BY <1>4, <1>5, <3>2, <4>1
    <3>5. \A s \in Slots : handlers'[s[1]][s[2]].pc = handlers[s[1]][s[2]].pc
      <4> SUFFICES ASSUME NEW u \in Threads, NEW i \in 1 .. Len(handlers[u])
                   PROVE  handlers'[u][i].pc = handlers[u][i].pc
        BY <1>4
      <4> QED
        BY <3>2
    <3>6. handlers'[new[1]][new[2]].pc = "print"
      BY <3>2
    <3> HIDE DEF new, k
    <3>7. Spent' = Spent
      <4> SUFFICES ASSUME NEW s PROVE s \in Spent' <=> s \in Spent
        OBVIOUS
      <4> QED
        BY <1>6, <3>3, <3>4, <3>5, <3>6
    <3>8. /\ IsFiniteSet(Slots \cup {new})
          /\ Cardinality(Slots \cup {new}) = Cardinality(Slots) + 1
      BY <1>1, <3>3, FS_AddElement
    <3>9. Cardinality(Slots') <= sent'
      BY <1>0, <1>1, <1>2, <2>1, <3>4, <3>8
    <3> QED
      BY <1>1, <2>1, <3>4, <3>7, <3>8, <3>9 DEF CountInv
  <2> QED
    BY <2>2, <2>3
<1>9. ASSUME Other PROVE CountInv'
  <2>1. UNCHANGED <<handlers, sent, deletes>>
    BY <1>9, OtherFacts
  <2>2. Slots' = Slots /\ Spent' = Spent
    BY <2>1 DEF Slots, Spent
  <2> QED
    BY <1>1, <2>1, <2>2 DEF CountInv
<1> QED
  BY <1>7, <1>8, <1>9, Kinds
-----------------------------------------------------------------------------
(* Who touches what is gone.                                               *)

LEMMA FaultMoves ==
  ASSUME [Next]_vars
  PROVE  /\ "eim" \in fault' =>
              "eim" \in fault \/ ((EimTest \/ EimSubmit) /\ g_eimdata = "deleted")
         /\ "gps" \in fault' => "gps" \in fault \/ gpsport = "deleted"
         /\ "handler" \in fault' =>
              \/ "handler" \in fault
              \/ \E t \in Threads : /\ Moving(t) /\ g_eimdata = "deleted"
                                    /\ Top(t).pc \in {"stop", "flag"}
<1>1. ASSUME NEW t \in Threads, Moving(t)
      PROVE  /\ "eim" \in fault' => "eim" \in fault
             /\ "gps" \in fault' => "gps" \in fault
             /\ "handler" \in fault' =>
                  \/ "handler" \in fault
                  \/ g_eimdata = "deleted" /\ Top(t).pc \in {"stop", "flag"}
  BY <1>1 DEF Moving, HandlerPrint, HandlerStop, HandlerJoin, HandlerFlag,
     HandlerSleep, HandlerDelete, HandlerFs, HandlerAt, Touch, history
<1>2. ASSUME NEW sig \in Signals, Signal(sig) PROVE fault' = fault
  BY <1>2 DEF Signal
<1>3. CASE Main
  BY <1>3 DEF Main, MainGps, MainOpen, MainReturn, MainObjects, MainHid, MainSignals,
     MainSock, MainEimSet, MainEimStart, MainEimDetach, MainBoard, history
<1>4. CASE GpsTurn
  BY <1>4 DEF GpsTurn, Touch
<1>5. CASE EimTest \/ EimSubmit
  BY <1>5 DEF EimTest, EimSubmit, Touch
<1>6. CASE HidEnd \/ EimAdd \/ EimRead
  BY <1>6 DEF HidEnd, EimAdd, EimRead, history
<1>7. CASE \E t \in {"main", "board"} : HeapEnter(t) \/ HeapLeave(t)
  BY <1>7 DEF HeapEnter, HeapLeave, history
<1>8. CASE \E t \in Threads : HandlerExit(t)
  BY <1>8 DEF HandlerExit, history
<1>9. CASE UNCHANGED vars
  BY <1>9 DEF vars, history
<1> QED
  BY <1>1, <1>2, <1>3, <1>4, <1>5, <1>6, <1>7, <1>8, <1>9, Kinds DEF Other, Eim

\* What was counted and noted is not forgotten.
LEMMA Noted ==
  ASSUME [Next]_vars, TypeOK
  PROVE  /\ elsewhere \/ late => elsewhere' \/ late'
         /\ sent > 1 => sent' > 1
         /\ at' = at \/ \E t \in Threads : HandlerSleep(t)
         /\ deletes' = deletes \/ \E t \in Threads : HandlerDelete(t)
<1>1. ASSUME NEW t \in Threads, Moving(t)
      PROVE  /\ UNCHANGED <<sent, elsewhere, late>>
             /\ at' = at \/ HandlerSleep(t)
             /\ deletes' = deletes \/ HandlerDelete(t)
  BY <1>1, MovingFacts DEF Moving, HandlerPrint, HandlerStop, HandlerJoin,
     HandlerFlag, HandlerSleep, HandlerDelete, HandlerFs, history
<1>2. ASSUME NEW sig \in Signals, Signal(sig)
      PROVE  /\ sent' = sent + 1 /\ UNCHANGED <<at, deletes>>
             /\ elsewhere \/ late => elsewhere' \/ late'
  BY <1>2 DEF Signal
<1>3. CASE Other
  BY <1>3, OtherFacts
<1>4. sent \in Nat
  BY SignalsAssumption DEF TypeOK
<1>5. sent > 1 => sent + 1 > 1
  BY <1>4
<1> QED
  BY <1>1, <1>2, <1>3, <1>5, Kinds

LEMMA UseStep ==
  IInv /\ HandlersInv' /\ ToldInv' /\ [Next]_vars
    => UseAfterDelete' /\ DoubleDelete' /\ EimEndsOnlyWhenTold'
<1> SUFFICES ASSUME IInv, HandlersInv', ToldInv', [Next]_vars
             PROVE  UseAfterDelete' /\ DoubleDelete' /\ EimEndsOnlyWhenTold'
  OBVIOUS
<1>1. /\ TypeOK /\ HandlersInv /\ MainInv /\ ToldInv /\ DeleteInv /\ OneInv /\ CountInv
      /\ UseAfterDelete /\ DoubleDelete
  BY DEF IInv, LateUseExplained
<1>2. /\ elsewhere \/ late => elsewhere' \/ late'
      /\ sent > 1 => sent' > 1
      /\ at' = at \/ \E t \in Threads : HandlerSleep(t)
      /\ deletes' = deletes \/ \E t \in Threads : HandlerDelete(t)
  BY <1>1, Noted
<1>3. ASSUME g_eimdata = "deleted", ~elsewhere, ~late
      PROVE  /\ Top("main").pc \in {"fs", "exit"} /\ handlers["main"] # <<>>
             /\ \A t \in Threads : Moving(t) => Top(t).pc \in {"fs", "exit"}
  <2>1. Top("main").pc \in {"fs", "exit"}
    BY <1>1, <1>3 DEF DeleteInv
  <2>2. handlers["main"] # <<>>
    BY <1>1, <1>3, ToldAt DEF ToldInv
  <2>3. \A t \in Threads : Moving(t) => handlers[t] # <<>>
    BY <1>1, TopMoves
  <2>4. \A t \in Threads : handlers[t] # <<>> => t = "main"
    BY <1>1, <1>3, Zenon DEF HandlersInv
  <2> QED
    BY <2>1, <2>2, <2>3, <2>4, Zenon
<1>4. sent > 1 \/ (sent <= 1 /\ ~elsewhere /\ ~late)
  BY <1>1, SentOne DEF OneInv
<1>5. "eim" \in fault' => at' = "read" \/ sent' > 1
  <2> SUFFICES ASSUME "eim" \in fault', ~(sent > 1) PROVE at' = "read"
    BY <1>2
  <2>1. sent <= 1 /\ ~elsewhere /\ ~late
    BY <1>4
  <2>2. g_eimdata = "deleted"
    BY <1>1, FaultMoves DEF DeleteInv
  <2>3. at = "read"
    <3>1. CASE "eim" \in fault
      BY <1>1, <3>1 DEF UseAfterDelete
    <3>2. CASE EimTest \/ EimSubmit
      <4>1. thr["eim"] \in {"test", "submit"}
        BY <3>2 DEF EimTest, EimSubmit, EimAt
      <4> QED
        BY <1>1, <1>3, <2>1, <2>2, <4>1 DEF OneInv
    <3> QED
      BY <3>1, <3>2, FaultMoves
  <2>4. at' = at
    <3> SUFFICES ASSUME NEW t \in Threads, HandlerSleep(t) PROVE FALSE
      BY <1>2
    <3>1. Top(t).pc = "sleep" /\ Moving(t)
      BY DEF HandlerSleep, HandlerAt, Moving
    <3> QED
      BY <1>3, <2>1, <2>2, <3>1
  <2> QED
    BY <2>3, <2>4
<1>6. (g_eimdata = "deleted" /\ thr["eim"] \notin {"none", "ended"} /\ fault = {} => oldTurn)'
  BY Zenon DEF ToldInv
<1>7. "handler" \in fault' => elsewhere' \/ late'
  <2> SUFFICES ASSUME "handler" \in fault', ~elsewhere, ~late PROVE FALSE
    BY <1>2
  <2>1. "handler" \notin fault
    BY <1>1 DEF UseAfterDelete
  <2>2. PICK t \in Threads : /\ Moving(t) /\ g_eimdata = "deleted"
                             /\ Top(t).pc \in {"stop", "flag"}
    BY <2>1, FaultMoves
  <2> QED
    BY <1>3, <2>2
<1>8. "gps" \in fault' => main' = "return" /\ g_eimdata' = "null"
  <2> SUFFICES ASSUME "gps" \in fault' PROVE main' = "return" /\ g_eimdata' = "null"
    OBVIOUS
  <2>1. main = "return" /\ g_eimdata = "null"
    BY <1>1, FaultMoves DEF UseAfterDelete, MainInv, Early
  <2>2. \A t \in Threads : ~Moving(t)
    <3>1. ~installed
      BY <1>1, <2>1 DEF MainInv, Late
    <3>2. \A t \in Threads : handlers[t] = <<>>
      BY <1>1, <3>1, Zenon DEF HandlersInv
    <3> QED
      BY <1>1, <3>2, TopMoves
  <2>3. g_eimdata' = g_eimdata
    <3>1. ~MainObjects
      BY <2>1 DEF MainObjects, MainStep
    <3>2. \A t \in Threads : ~HandlerDelete(t)
      BY <2>2 DEF Moving
    <3> QED
      BY <1>1, <3>1, <3>2, ToldMoves
  <2>4. main' = main
    <3>1. CASE Other
      BY <2>1, <3>1 DEF Other, Main, MainGps, MainOpen, MainReturn, MainObjects,
         MainHid, MainSignals, MainSock, MainEimSet, MainEimStart, MainEimDetach,
         MainBoard, MainStep, GpsTurn, HidEnd, Eim, EimTest, EimSubmit, EimAdd,
         EimRead, HeapEnter, HeapLeave, HandlerExit, vars, mainVars
    <3>2. ASSUME NEW sig \in Signals, Signal(sig) PROVE main' = main
      BY <3>2 DEF Signal, mainVars
    <3> QED
      BY <2>2, <3>1, <3>2, Kinds
  <2> QED
    BY <2>1, <2>3, <2>4
<1>9. DoubleDelete'
  <2> SUFFICES ASSUME deletes' > 1, ~elsewhere, ~late PROVE FALSE
    BY <1>2 DEF DoubleDelete
  <2>1. ~(deletes > 1)
    BY <1>1 DEF DoubleDelete
  <2>2. PICK t \in Threads : HandlerDelete(t)
    BY <1>2, <2>1
  <2>3. deletes' = deletes + 1 /\ Top(t).pc = "delete" /\ Moving(t)
    BY <2>2 DEF HandlerDelete, HandlerAt, Moving
  <2>4. deletes # 0
    BY <2>3
  <2>5. g_eimdata = "deleted"
    BY <1>1, <2>4 DEF DeleteInv
  <2> QED
    BY <1>3, <2>3, <2>5
<1>10. EimEndsOnlyWhenTold'
  BY DEF ToldInv, EimEndsOnlyWhenTold, Told, Past
<1>11. UseAfterDelete'
  BY <1>5, <1>6, <1>7, <1>8, Zenon DEF UseAfterDelete
<1> QED
  BY <1>9, <1>10, <1>11
-----------------------------------------------------------------------------
(* The invariant and the theorems.                                         *)

\* The types from their parts.
LEMMA TypeParts ==
  Flags /\ Places /\ HandlersInv /\ CountInv => TypeOK
<1> SUFFICES ASSUME Flags, Places, HandlersInv, CountInv PROVE TypeOK
  OBVIOUS
<1>1. \A t \in Threads : \A i \in DOMAIN handlers[t] :
        handlers[t][i].sig \in Signals /\ handlers[t][i].pc \in Pcs
  <2> DEFINE H == [sig : Signals, pc : Pcs]
  <2>1. handlers \in [Threads -> Seq(H)]
    BY DEF HandlersInv
  <2>2. \A r \in H : r.sig \in Signals /\ r.pc \in Pcs
    OBVIOUS
  <2> HIDE DEF H
  <2>3. \A t \in Threads : \A i \in DOMAIN handlers[t] : handlers[t][i] \in H
    BY <2>1
  <2> QED
    BY <2>2, <2>3
<1>2. deletes \in 0 .. MaxSignals
  <2>1. IsFiniteSet(Slots) /\ Cardinality(Slots) <= sent /\ deletes = Cardinality(Spent)
    BY DEF CountInv
  <2>2. Spent \subseteq Slots
    BY DEF Spent
  <2>3. Cardinality(Slots) \in Nat
    BY <2>1, FS_CardinalityType
  <2>4. Cardinality(Spent) \in Nat
    BY <2>1, <2>2, FS_Subset, FS_CardinalityType
  <2>5. Cardinality(Spent) <= Cardinality(Slots)
    BY <2>1, <2>2, FS_Subset
  <2>6. sent \in Nat /\ sent <= MaxSignals
    BY SignalsAssumption DEF Places
  <2> QED
    BY <2>1, <2>3, <2>4, <2>5, <2>6, SignalsAssumption
<1>3. /\ m_brunning \in BOOLEAN /\ started_ \in BOOLEAN /\ detached_ \in BOOLEAN
      /\ installed \in BOOLEAN
      /\ oldTurn \in BOOLEAN /\ elsewhere \in BOOLEAN /\ late \in BOOLEAN
  BY DEF Flags
<1>4. main \in {"gps", "open", "objects", "hid", "signals", "sock", "eimSet",
               "eimStart", "eimDetach", "board", "loop", "return"}
  BY DEF Places, Early, Late
<1> QED
  BY <1>1, <1>2, <1>3, <1>4, Zenon DEF Places, TypeOK

LEMMA InitIInv == Init => IInv
<1> SUFFICES ASSUME Init PROVE IInv
  OBVIOUS
<1> USE DEF Init
<1>1. \A t \in Threads : handlers[t] = <<>>
  OBVIOUS
<1>2. HandlersInv
  <2> DEFINE H == [sig : Signals, pc : Pcs]
  <2> HIDE DEF H
  <2>1. <<>> \in Seq(H)
    OBVIOUS
  <2>2. handlers \in [Threads -> Seq(H)]
    BY <2>1
  <2> QED
    BY <1>1, <2>2 DEF HandlersInv, H
<1>3. Slots = {} /\ Spent = {}
  <2>1. \A t \in Threads : Len(handlers[t]) = 0
    BY <1>1
  <2>2. Slots = {}
    BY <2>1 DEF Slots
  <2> QED
    BY <2>2 DEF Spent
<1>4. CountInv
  BY <1>3, FS_EmptySet DEF CountInv
<1>5. Places
  BY SignalsAssumption DEF Places, Early, Late, Threads
<1>6. Flags
  BY Zenon DEF Flags
<1>7. TypeOK
  BY <1>2, <1>4, <1>5, <1>6, TypeParts
<1>8. ~Told /\ ~JoinStuck
  BY <1>1 DEF Told, JoinStuck, Joining
<1>9. thr["eim"] = "none"
  BY DEF Threads
<1>10. MainInv
  BY <1>9 DEF MainInv, Early, Late
<1>11. WindowInv
  BY <1>8 DEF WindowInv, JoinOnlyInWindow
<1>12. ToldInv
  BY <1>8, <1>9 DEF ToldInv
<1>13. DeleteInv
  BY DEF DeleteInv
<1>14. OneInv
  BY <1>1 DEF OneInv, Threads
<1>15. UseAfterDelete /\ DoubleDelete /\ EimEndsOnlyWhenTold
  BY <1>9 DEF UseAfterDelete, DoubleDelete, EimEndsOnlyWhenTold
<1> QED
  BY <1>2, <1>4, <1>7, <1>10, <1>11, <1>12, <1>13, <1>14, <1>15
     DEF IInv, LateUseExplained

LEMMA NextIInv == IInv /\ [Next]_vars => IInv'
<1> SUFFICES ASSUME IInv, [Next]_vars PROVE IInv'
  OBVIOUS
<1>1. /\ TypeOK /\ HandlersInv /\ MainInv /\ WindowInv /\ ToldInv /\ DeleteInv
      /\ OneInv /\ CountInv
  BY DEF IInv, LateUseExplained
<1>2. HandlersInv'
  BY <1>1, HandlersStep
<1>3. MainInv' /\ DeleteInv' /\ CountInv'
  BY <1>1, MainInvStep, DeleteStep, CountStep
<1>4. WindowInv' /\ ToldInv' /\ OneInv'
  BY <1>1, <1>2, WindowStep, ToldInvStep, OneStep
<1>5. Flags' /\ Places'
  <2>1. Flags
    BY <1>1, Zenon DEF TypeOK, Flags
  <2>2. Places
    BY <1>1 DEF TypeOK, Places, Early, Late
  <2> QED
    BY <1>1, <2>1, <2>2, FlagsStep, PlacesStep
<1>6. TypeOK'
  BY <1>2, <1>3, <1>5, TypeParts, PTL
<1>7. UseAfterDelete' /\ DoubleDelete' /\ EimEndsOnlyWhenTold'
  BY <1>2, <1>4, UseStep
<1> QED
  BY <1>2, <1>3, <1>4, <1>6, <1>7 DEF IInv, LateUseExplained

\* Whatever signals come, and whenever: only a second signal, a device that
\* kept the EIM thread in read for the second release() waits, or a main that
\* found no device, lets a thread or a handler touch an object that is gone;
\* g_eimdata is deleted twice only if a second signal was taken by another
\* thread or came after the first delete; and the EIM thread ends only after
\* release() has cleared m_brunning (main.cpp:44-112, eimdata.cpp).
THEOREM LateUseAlwaysExplained == Spec => []LateUseExplained
<1>1. Init => IInv
  BY InitIInv
<1>2. IInv /\ [Next]_vars => IInv'
  BY NextIInv
<1>3. IInv => LateUseExplained
  BY DEF IInv
<1> QED
  BY <1>1, <1>2, <1>3, PTL DEF Spec

\* release() waits for the EIM thread, which has not been told to end, only if
\* a signal interrupted EIMDATA::init between start() and detach(), for any
\* number of signals (thread.h, Cthread::stop; eimdata.cpp, init and release).
THEOREM JoinStaysInWindow == Spec => []JoinOnlyInWindow
<1>1. Init => IInv
  BY InitIInv
<1>2. IInv /\ [Next]_vars => IInv'
  BY NextIInv
<1>3. IInv => JoinOnlyInWindow
  BY DEF IInv, WindowInv
<1> QED
  BY <1>1, <1>2, <1>3, PTL DEF Spec
=============================================================================
