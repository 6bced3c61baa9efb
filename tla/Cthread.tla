------------------------------ MODULE Cthread ------------------------------
(***************************************************************************)
(* The thread wrapper (thread.cpp, thread.h): one Cthread object, the      *)
(* owner that calls start, detach, stop, cancel, join, suspend and resume, *)
(* and the threads it creates, which run sub_routine and call wait and     *)
(* exit.  The object keeps one thread id and a few flags; pthreads keeps   *)
(* the rest.  The owner follows the remarks of thread.h ("start should be  *)
(* called before"), each start may or may not be followed by a detach, and *)
(* it calls join only if it was not ("detach should not be called").       *)
(*                                                                         *)
(* The critical sections of cond_ are one step each, so the mutex is free  *)
(* between steps unless a thread died with it: pthread_cond_wait is a      *)
(* cancellation point, the cancelled thread takes the mutex back before it *)
(* unwinds, and the wrapper pushes no cleanup handler that releases it.    *)
(***************************************************************************)
EXTENDS Integers, FiniteSets

CONSTANTS
  Threads,   \* the threads pthread_create can make
  NULL,      \* no thread: what thread_ is before the first start
  MaxFlag    \* bound: how far flag_ goes from 0

ASSUME NULLAssumption == NULL \notin Threads
ASSUME MaxFlagAssumption == MaxFlag \in Nat

VARIABLES
  started_, detached_, flag_, thread_,  \* the members of Cthread
  thr,        \* where each thread is
  handle,     \* what pthreads knows of its id
  cancelled,  \* the threads pthread_cancel was called for
  cond_,      \* the mutex: free, or lost with the thread that held it
  owner,      \* idle, blocked in a join, or blocked for ever on the mutex
  alive,      \* the process runs
  crowd,      \* history: two threads were in wait() at the same time
  over,       \* history: threads that were current when start was called
  joined,     \* history: join() was called
  stale       \* history: the operations that passed a dead id to pthreads

members == <<started_, detached_, flag_, thread_>>
pthreads == <<thr, handle, cancelled, cond_>>
history == <<crowd, over, joined, stale>>
vars == <<members, pthreads, owner, alive, history>>

Init ==
  /\ started_ = FALSE /\ detached_ = FALSE /\ flag_ = 0 /\ thread_ = NULL
  /\ thr = [t \in Threads |-> "none"]
  /\ handle = [t \in Threads |-> "none"]
  /\ cancelled = {}
  /\ cond_ = "free"
  /\ owner = "idle" /\ alive = TRUE
  /\ crowd = FALSE /\ over = {} /\ joined = FALSE /\ stale = {}

\* The places of a thread inside wait().
Waiting == {"lock", "asleep"}

\* An id pthreads has forgotten: its thread was joined, or it was detached
\* and has ended.  What a call that is given one does is undefined.
DeadId(t) ==
  \/ handle[t] = "joined"
  \/ handle[t] = "detached" /\ thr[t] = "ended"

\* A call of operation op is given the id thread_.
Pass(op) ==
  IF DeadId(thread_)
  THEN stale' = stale \cup {op} /\ alive' \in BOOLEAN
  ELSE UNCHANGED <<stale, alive>>

Free == owner = "idle" /\ alive

\* The owner locks cond_.
Stuck ==
  /\ cond_ = "lost"
  /\ owner' = "stuck"
  /\ UNCHANGED <<members, pthreads, alive, history>>
-----------------------------------------------------------------------------
(* start and detach.                                                       *)

Over == IF started_ THEN over \cup {thread_} ELSE over

\* start(waiting).  flag_ is decremented before anything can fail and not
\* restored.  The scheduling attributes can be refused, which leaves started_
\* as it was; pthread_create can fail, which clears it whatever it was.
Start(waiting) ==
  /\ cond_ = "free" \/ ~waiting
  /\ waiting => flag_ > -MaxFlag
  /\ flag_' = IF waiting THEN flag_ - 1 ELSE flag_
  /\ \/ UNCHANGED <<started_, thread_, thr, handle, over>>
     \/ started_' = FALSE /\ over' = Over /\ UNCHANGED <<thread_, thr, handle>>
     \/ \E t \in Threads :
          /\ thr[t] = "none"
          /\ started_' = TRUE /\ thread_' = t /\ over' = Over
          /\ thr' = [thr EXCEPT ![t] = "run"]
          /\ handle' = [handle EXCEPT ![t] = "joinable"]
  /\ UNCHANGED <<detached_, cancelled, cond_, owner, alive, crowd, joined, stale>>

OwnerStart ==
  /\ Free
  /\ \E waiting \in BOOLEAN : Start(waiting) \/ (waiting /\ Stuck)

\* detach().  detached_ is never reset, not even by the next start.
Detach ==
  /\ Free /\ started_
  /\ Pass("detach")
  /\ handle' = IF handle[thread_] = "joinable"
               THEN [handle EXCEPT ![thread_] = "detached"] ELSE handle
  /\ detached_' = TRUE
  /\ UNCHANGED <<started_, flag_, thread_, thr, cancelled, cond_, owner,
                 crowd, over, joined>>
-----------------------------------------------------------------------------
(* stop, join and cancel.                                                  *)

Stop_NoJoin ==
  /\ Free /\ started_
  /\ started_' = FALSE
  /\ UNCHANGED <<detached_, flag_, thread_, pthreads, owner, alive, history>>

\* stop(): joins unless detached, then forgets that it was started.
Stop ==
  /\ Free /\ started_
  /\ IF detached_
     THEN started_' = FALSE /\ UNCHANGED <<owner, alive, stale>>
     ELSE IF DeadId(thread_)
          THEN Pass("stop") /\ started_' = FALSE /\ UNCHANGED owner
          ELSE owner' = "stop" /\ UNCHANGED <<started_, alive, stale>>
  /\ UNCHANGED <<detached_, flag_, thread_, pthreads, crowd, over, joined>>

\* join(): does not touch started_.
Join ==
  /\ Free /\ started_ /\ handle[thread_] # "detached"
  /\ joined' = TRUE
  /\ Pass("join")
  /\ owner' = IF DeadId(thread_) THEN "idle" ELSE "join"
  /\ UNCHANGED <<members, pthreads, crowd, over>>

\* The thread that is joined has ended.
JoinReturns ==
  /\ alive /\ owner \in {"stop", "join"} /\ thr[thread_] = "ended"
  /\ handle' = [handle EXCEPT ![thread_] = "joined"]
  /\ started_' = (started_ /\ owner = "join")
  /\ owner' = "idle"
  /\ UNCHANGED <<detached_, flag_, thread_, thr, cancelled, cond_, alive, history>>

\* cancel().
Cancel ==
  /\ Free /\ started_
  /\ Pass("cancel")
  /\ cancelled' = IF DeadId(thread_) THEN cancelled ELSE cancelled \cup {thread_}
  /\ started_' = FALSE
  /\ UNCHANGED <<detached_, flag_, thread_, thr, handle, cond_, owner,
                 crowd, over, joined>>
-----------------------------------------------------------------------------
(* suspend and resume.                                                     *)

Suspend ==
  /\ Free /\ started_
  /\ \/ /\ cond_ = "free" /\ flag_ > -MaxFlag
        /\ flag_' = flag_ - 1
        /\ UNCHANGED <<started_, detached_, thread_, pthreads, owner, alive, history>>
     \/ Stuck

Resume_NoSignal ==
  /\ Free /\ started_
  /\ cond_ = "free" /\ flag_ < MaxFlag
  /\ flag_' = flag_ + 1
  /\ UNCHANGED <<started_, detached_, thread_, pthreads, owner, alive, history>>

\* resume(): the signal wakes one of the sleeping threads; before a start, or
\* after a stop, resume starts a thread and leaves flag_ alone.
Resume ==
  /\ Free
  /\ \/ /\ started_ /\ cond_ = "free" /\ flag_ < MaxFlag
        /\ flag_' = flag_ + 1
        /\ IF \E t \in Threads : thr[t] = "asleep"
           THEN \E t \in Threads : thr[t] = "asleep" /\ thr' = [thr EXCEPT ![t] = "lock"]
           ELSE UNCHANGED thr
        /\ UNCHANGED <<started_, detached_, thread_, handle, cancelled, cond_,
                       owner, alive, history>>
     \/ started_ /\ Stuck
     \/ ~started_ /\ Start(FALSE)
-----------------------------------------------------------------------------
(* The threads.                                                            *)

\* wait(): the test of started_ is made before the lock.
WaitCall(t) ==
  /\ alive /\ thr[t] = "run" /\ started_
  /\ thr' = [thr EXCEPT ![t] = "lock"]
  /\ crowd' = (crowd \/ \E u \in Threads \ {t} : thr[u] \in Waiting)
  /\ UNCHANGED <<members, handle, cancelled, cond_, owner, alive, over, joined, stale>>

WaitTest_Backwards(t) ==
  /\ alive /\ thr[t] = "lock" /\ cond_ = "free"
  /\ thr' = [thr EXCEPT ![t] = IF flag_ <= 0 THEN "asleep" ELSE "run"]
  /\ UNCHANGED <<members, handle, cancelled, cond_, owner, alive, history>>

\* The mutex is taken and flag_ tested, on entry and after each wakeup.
WaitTest(t) ==
  /\ alive /\ thr[t] = "lock" /\ cond_ = "free"
  /\ thr' = [thr EXCEPT ![t] = IF flag_ < 0 THEN "asleep" ELSE "run"]
  /\ UNCHANGED <<members, handle, cancelled, cond_, owner, alive, history>>

\* pthread_cond_wait may return without a signal.
SpuriousWakeup(t) ==
  /\ alive /\ thr[t] = "asleep" /\ cond_ = "free"
  /\ thr' = [thr EXCEPT ![t] = "lock"]
  /\ UNCHANGED <<members, handle, cancelled, cond_, owner, alive, history>>

\* exit() ends the thread unless the object was stopped in the meantime; a
\* return of sub_routine, and a cancellation point in it, always do.
Finish(t) ==
  /\ alive /\ thr[t] = "run"
  /\ thr' = [thr EXCEPT ![t] = "ended"]
  /\ UNCHANGED <<members, handle, cancelled, cond_, owner, alive, history>>

\* A cancelled thread dies in pthread_cond_wait, and the mutex with it.
CancelInWait(t) ==
  /\ alive /\ t \in cancelled /\ thr[t] = "asleep" /\ cond_ = "free"
  /\ thr' = [thr EXCEPT ![t] = "ended"]
  /\ cond_' = "lost"
  /\ UNCHANGED <<members, handle, cancelled, owner, alive, history>>
-----------------------------------------------------------------------------
OwnerNext == OwnerStart \/ Detach \/ Stop \/ Join \/ JoinReturns \/ Cancel
             \/ Suspend \/ Resume

ThreadNext(t) == WaitCall(t) \/ WaitTest(t) \/ SpuriousWakeup(t) \/ Finish(t)
                 \/ CancelInWait(t)

Next == OwnerNext \/ \E t \in Threads : ThreadNext(t)

Spec == Init /\ [][Next]_vars

\* A thread that can take the mutex takes it; nobody has to call anything.
FairSpec == Spec /\ \A t \in Threads : WF_vars(WaitTest(t))
-----------------------------------------------------------------------------
(* Properties.                                                             *)

TypeOK ==
  /\ started_ \in BOOLEAN /\ detached_ \in BOOLEAN
  /\ flag_ \in -MaxFlag..MaxFlag
  /\ thread_ \in Threads \cup {NULL}
  /\ started_ => thread_ # NULL
  /\ thr \in [Threads -> {"none", "run", "lock", "asleep", "ended"}]
  /\ handle \in [Threads -> {"none", "joinable", "detached", "joined"}]
  /\ cancelled \subseteq Threads /\ over \subseteq Threads
  /\ cond_ \in {"free", "lost"}
  /\ owner \in {"idle", "stop", "join", "stuck"}
  /\ alive \in BOOLEAN /\ crowd \in BOOLEAN /\ joined \in BOOLEAN
  /\ stale \subseteq {"detach", "stop", "join", "cancel"}

\* No lost wakeup: while no two threads of the object were in wait() at once,
\* one sleeps there only as long as flag_ says that it is suspended; neither
\* a resume between its test and its sleep nor a spurious wakeup is missed.
\* (Two sleepers share one flag, and one signal wakes one of them.)
AsleepOnlyIfSuspended ==
  ~crowd => \A t \in Threads : thr[t] = "asleep" => flag_ < 0

\* The same as progress: a thread of an object that stays resumed does not
\* stay in wait(), unless it was not alone there or the mutex is lost.
ResumedGoesOn ==
  \A t \in Threads :
    <>[](thr[t] \in Waiting /\ flag_ >= 0) => <>(crowd \/ cond_ = "lost" \/ ~alive)

\* A thread nobody can join or detach any more, and whose stack is therefore
\* never freed, was cancelled, or a second start came before its stop, or a
\* detach of an earlier thread made stop believe that this one is detached.
ZombiesExplained ==
  \A t \in Threads :
    handle[t] = "joinable" /\ ~(started_ /\ thread_ = t)
      => t \in cancelled \cup over \/ detached_

\* stop() never joins a thread that was detached or joined, whatever came
\* before, unless join() was called: join leaves started_ set.  detach and
\* cancel pass a dead id only of a thread that was joined so, or detached.
StaleIds ==
  /\ stale \cap {"stop", "join"} # {} => joined
  /\ stale # {} => joined \/ detached_

\* The owner, or a thread in wait(), blocks for ever on the mutex only after
\* the owner cancelled a thread that died in its wait().
StuckOnlyByCancel ==
  owner = "stuck" \/ (cond_ = "lost" /\ \E t \in Threads : thr[t] = "lock")
    => \E t \in cancelled : thr[t] = "ended"

\* wait, suspend and resume neither lose a wakeup nor block for ever, for
\* every order of their calls, but for what the two parts except.
NoLostWakeup == TypeOK /\ AsleepOnlyIfSuspended /\ StuckOnlyByCancel

\* Every thread the object makes is joined or detached once, by an id that
\* is still valid, but for what the two parts except: one id and two flags
\* stand for any number of threads.
ThreadsAccounted == ZombiesExplained /\ StaleIds
=============================================================================
