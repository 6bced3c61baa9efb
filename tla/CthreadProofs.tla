--------------------------- MODULE CthreadProofs ---------------------------
(***************************************************************************)
(* The thread wrapper for any number of threads and any order of the calls *)
(* of its owner: no wakeup is lost and every thread is accounted for, but  *)
(* for the exceptions Cthread.tla names.                                   *)
(***************************************************************************)
EXTENDS Cthread, TLAPS

\* As long as there was no crowd, one thread at most is in wait().
WaitsAlone ==
  ~crowd => \A t, u \in Threads : thr[t] \in Waiting /\ thr[u] \in Waiting => t = u

\* The mutex is lost, and the owner blocked on it, only with a dead thread.
LostByCancel ==
  cond_ = "lost" \/ owner = "stuck" => \E t \in cancelled : thr[t] = "ended"

\* Whom a blocked owner waits for.
OwnerJoins ==
  /\ owner \in {"stop", "join"} => started_
  /\ owner = "join" => joined

\* What the flags say of the ids pthreads has given up.
IdsGivenUp ==
  /\ \A t \in Threads : handle[t] = "detached" => detached_
  /\ started_ /\ handle[thread_] = "joined" => joined

IInv ==
  /\ TypeOK /\ AsleepOnlyIfSuspended /\ WaitsAlone /\ LostByCancel
  /\ OwnerJoins /\ IdsGivenUp /\ ThreadsAccounted
-----------------------------------------------------------------------------
(* What the steps of the owner have in common.                             *)

\* A started object has a thread, and that is one of Threads.
LEMMA StartedThread ==
  ASSUME TypeOK, started_
  PROVE  thread_ \in Threads
  BY DEF TypeOK

\* Threads only ever go on: one that has ended stays so.
EndedStays == \A t \in Threads : thr[t] = "ended" => thr'[t] = "ended"

\* What each step does to the states of the threads.
ThrChange ==
  \/ UNCHANGED thr
  \/ \E t \in Threads : thr[t] # "ended" /\ thr' = [thr EXCEPT ![t] = "run"]
  \/ \E t \in Threads : thr[t] # "ended" /\ thr' = [thr EXCEPT ![t] = "lock"]
  \/ \E t \in Threads : thr[t] # "ended" /\ thr' = [thr EXCEPT ![t] = "asleep"]
  \/ \E t \in Threads : thr' = [thr EXCEPT ![t] = "ended"]

LEMMA ThrChanges ==
  ASSUME TypeOK, Next
  PROVE  ThrChange
<1>1. ASSUME NEW w \in BOOLEAN, Start(w) PROVE ThrChange
  BY <1>1 DEF Start, ThrChange
<1>2. CASE OwnerStart
  BY <1>1, <1>2 DEF OwnerStart, Stuck, pthreads, ThrChange
<1>3. CASE Detach \/ Stop \/ Join \/ JoinReturns \/ Cancel \/ Suspend
  BY <1>3 DEF Detach, Stop, Join, JoinReturns, Cancel, Suspend, Stuck, pthreads, ThrChange
<1>4. CASE Resume
  BY <1>1, <1>4 DEF Resume, Stuck, pthreads, ThrChange
<1>5. ASSUME NEW t \in Threads, ThreadNext(t) PROVE ThrChange
  <2>1. CASE WaitCall(t)
    BY <2>1 DEF WaitCall, ThrChange
  <2>2. CASE WaitTest(t)
    <3>1. thr' = [thr EXCEPT ![t] = "asleep"] \/ thr' = [thr EXCEPT ![t] = "run"]
      BY <2>2 DEF WaitTest
    <3> QED
      BY <2>2, <3>1 DEF WaitTest, ThrChange
  <2>3. CASE SpuriousWakeup(t)
    BY <2>3 DEF SpuriousWakeup, ThrChange
  <2>4. CASE Finish(t)
    BY <2>4 DEF Finish, ThrChange
  <2>5. CASE CancelInWait(t)
    BY <2>5 DEF CancelInWait, ThrChange
  <2> QED
    BY <1>5, <2>1, <2>2, <2>3, <2>4, <2>5 DEF ThreadNext
<1> QED
  BY <1>2, <1>3, <1>4, <1>5 DEF Next, OwnerNext

LEMMA EndedRemains ==
  ASSUME TypeOK, Next
  PROVE  /\ EndedStays
         /\ thr' \in [Threads -> {"none", "run", "lock", "asleep", "ended"}]
<1>1. thr \in [Threads -> {"none", "run", "lock", "asleep", "ended"}]
  BY DEF TypeOK
<1>2. ThrChange
  BY ThrChanges
<1> QED
  BY <1>1, <1>2 DEF ThrChange, EndedStays

\* The owner is given back a stale id at most under the name of the call.
LEMMA PassFacts ==
  ASSUME TypeOK, NEW op \in {"detach", "stop", "join", "cancel"}, Pass(op)
  PROVE  /\ alive' \in BOOLEAN
         /\ stale' \subseteq {"detach", "stop", "join", "cancel"}
         /\ stale' = stale \/ (DeadId(thread_) /\ stale' = stale \cup {op})
<1>1. stale \subseteq {"detach", "stop", "join", "cancel"} /\ alive \in BOOLEAN
  BY DEF TypeOK
<1>2. CASE DeadId(thread_)
  BY <1>1, <1>2 DEF Pass
<1>3. CASE ~ DeadId(thread_)
  BY <1>1, <1>3 DEF Pass
<1> QED
  BY <1>2, <1>3
-----------------------------------------------------------------------------
(* Types.                                                                  *)

\* The members and history of the object, whatever the threads do.
ObjectTypes ==
  /\ started_ \in BOOLEAN /\ detached_ \in BOOLEAN
  /\ flag_ \in -MaxFlag..MaxFlag
  /\ thread_ \in Threads \cup {NULL}
  /\ started_ => thread_ # NULL
  /\ over \subseteq Threads /\ joined \in BOOLEAN /\ crowd \in BOOLEAN

LEMMA ObjectStart ==
  ASSUME TypeOK, NEW w \in BOOLEAN, Start(w)
  PROVE  ObjectTypes'
<1>1. flag_' \in -MaxFlag..MaxFlag
  <2>1. flag_ \in -MaxFlag..MaxFlag /\ (w => flag_ > -MaxFlag)
        /\ flag_' = IF w THEN flag_ - 1 ELSE flag_
    BY DEF TypeOK, Start
  <2>2. CASE w
    BY <2>1, <2>2, MaxFlagAssumption
  <2>3. CASE ~ w
    BY <2>1, <2>3
  <2> QED
    BY <2>2, <2>3
<1>2. Over \subseteq Threads
  BY StartedThread DEF Over, TypeOK
<1>3. UNCHANGED <<detached_, joined, crowd>>
  BY DEF Start
<1>4. CASE UNCHANGED <<started_, thread_, over>>
  BY <1>1, <1>3, <1>4 DEF TypeOK, ObjectTypes
<1>5. CASE started_' = FALSE /\ over' = Over /\ UNCHANGED thread_
  BY <1>1, <1>2, <1>3, <1>5 DEF TypeOK, ObjectTypes
<1>6. ASSUME NEW t \in Threads, started_' = TRUE, thread_' = t, over' = Over
      PROVE  ObjectTypes'
  BY <1>1, <1>2, <1>3, <1>6, NULLAssumption DEF TypeOK, ObjectTypes
<1> QED
  BY <1>4, <1>5, <1>6 DEF Start

LEMMA ObjectStep ==
  ASSUME TypeOK, Next
  PROVE  ObjectTypes'
<1>0. ASSUME UNCHANGED <<flag_, detached_, thread_, over>>,
             started_' \in BOOLEAN, started_' => started_,
             joined' \in BOOLEAN, crowd' \in BOOLEAN
      PROVE  ObjectTypes'
  BY <1>0 DEF TypeOK, ObjectTypes
<1>1. /\ started_ \in BOOLEAN /\ joined \in BOOLEAN /\ crowd \in BOOLEAN
      /\ flag_ \in -MaxFlag..MaxFlag
  BY DEF TypeOK
<1>2. CASE OwnerStart
  BY <1>0, <1>1, <1>2, ObjectStart DEF OwnerStart, Stuck, members, history
<1>3. CASE Detach
  <2>1. /\ UNCHANGED <<started_, flag_, thread_, crowd, over, joined>>
        /\ detached_' = TRUE
    BY <1>3 DEF Detach
  <2> QED
    BY <2>1 DEF TypeOK, ObjectTypes
<1>4. CASE Stop
  <2>1. UNCHANGED <<flag_, detached_, thread_, crowd, over, joined>> /\ started_
    BY <1>4 DEF Stop
  <2>2. started_' = FALSE \/ started_' = started_
    BY <1>4, Zenon DEF Stop
  <2> QED
    BY <1>0, <1>1, <2>1, <2>2
<1>5. CASE Join
  BY <1>0, <1>1, <1>5 DEF Join, members
<1>6. CASE JoinReturns
  <2>1. /\ UNCHANGED <<flag_, detached_, thread_, crowd, over, joined>>
        /\ started_' = (started_ /\ owner = "join")
    BY <1>6 DEF JoinReturns, history
  <2>2. started_' \in BOOLEAN /\ (started_' => started_)
    BY <2>1, Zenon
  <2> QED
    BY <1>0, <1>1, <2>1, <2>2
<1>7. CASE Cancel
  BY <1>0, <1>1, <1>7 DEF Cancel
<1>8. CASE Suspend
  <2>1. CASE Stuck
    BY <1>0, <1>1, <2>1 DEF Stuck, members, history
  <2>2. CASE ~ Stuck
    <3>1. /\ UNCHANGED <<started_, detached_, thread_, crowd, over, joined>>
          /\ flag_' = flag_ - 1 /\ flag_ > -MaxFlag
      BY <1>8, <2>2 DEF Suspend, history
    <3>2. flag_' \in -MaxFlag..MaxFlag
      BY <1>1, <3>1, MaxFlagAssumption
    <3> QED
      BY <3>1, <3>2 DEF TypeOK, ObjectTypes
  <2> QED
    BY <2>1, <2>2
<1>9. CASE Resume
  <2>1. CASE Stuck
    BY <1>0, <1>1, <2>1 DEF Stuck, members, history
  <2>2. CASE Start(FALSE)
    BY <2>2, ObjectStart
  <2>3. CASE ~ Stuck /\ ~ Start(FALSE)
    <3>1. /\ UNCHANGED <<started_, detached_, thread_, crowd, over, joined>>
          /\ flag_' = flag_ + 1 /\ flag_ < MaxFlag
      BY <1>9, <2>3 DEF Resume, history
    <3>2. flag_' \in -MaxFlag..MaxFlag
      BY <1>1, <3>1, MaxFlagAssumption
    <3> QED
      BY <3>1, <3>2 DEF TypeOK, ObjectTypes
  <2> QED
    BY <2>1, <2>2, <2>3
<1>10. ASSUME NEW t \in Threads, ThreadNext(t) PROVE ObjectTypes'
  <2>1. UNCHANGED members /\ UNCHANGED <<over, joined>>
    BY <1>10 DEF ThreadNext, WaitCall, WaitTest, SpuriousWakeup, Finish, CancelInWait, history
  <2>2. crowd' \in BOOLEAN
    <3>1. CASE WaitCall(t)
      BY <3>1, Zenon DEF WaitCall
    <3>2. CASE ~ WaitCall(t)
      BY <1>1, <1>10, <3>2 DEF ThreadNext, WaitTest, SpuriousWakeup, Finish, CancelInWait, history
    <3> QED
      BY <3>1, <3>2
  <2> QED
    BY <1>0, <1>1, <2>1, <2>2 DEF members
<1> QED
  BY <1>2, <1>3, <1>4, <1>5, <1>6, <1>7, <1>8, <1>9, <1>10 DEF Next, OwnerNext

\* What pthreads keeps, but for the places of the threads.
PthreadTypes ==
  /\ handle \in [Threads -> {"none", "joinable", "detached", "joined"}]
  /\ cancelled \subseteq Threads
  /\ cond_ \in {"free", "lost"}
  /\ owner \in {"idle", "stop", "join", "stuck"}
  /\ alive \in BOOLEAN
  /\ stale \subseteq {"detach", "stop", "join", "cancel"}

LEMMA PthreadStep ==
  ASSUME TypeOK, Next
  PROVE  PthreadTypes'
<1>0. PthreadTypes
  BY DEF TypeOK, PthreadTypes
<1>1. ASSUME NEW w \in BOOLEAN, Start(w) PROVE PthreadTypes'
  BY <1>0, <1>1 DEF Start, PthreadTypes
<1>2. CASE Stuck
  BY <1>0, <1>2 DEF Stuck, pthreads, history, PthreadTypes
<1>3. CASE OwnerStart
  BY <1>1, <1>2, <1>3 DEF OwnerStart
<1>4. CASE Detach
  <2>1. alive' \in BOOLEAN /\ stale' \subseteq {"detach", "stop", "join", "cancel"}
    BY <1>4, PassFacts DEF Detach
  <2> QED
    BY <1>0, <1>4, <2>1 DEF Detach, PthreadTypes
<1>5. CASE Stop
  <2>1. alive' \in BOOLEAN /\ stale' \subseteq {"detach", "stop", "join", "cancel"}
    <3>1. Pass("stop") \/ UNCHANGED <<alive, stale>>
      BY <1>5 DEF Stop
    <3> QED
      BY <1>0, <3>1, PassFacts DEF PthreadTypes
  <2>2. owner' \in {owner, "stop"}
    BY <1>5 DEF Stop
  <2> QED
    BY <1>0, <1>5, <2>1, <2>2 DEF Stop, pthreads, PthreadTypes
<1>6. CASE Join
  <2>1. alive' \in BOOLEAN /\ stale' \subseteq {"detach", "stop", "join", "cancel"}
    BY <1>6, PassFacts DEF Join
  <2> QED
    BY <1>0, <1>6, <2>1 DEF Join, pthreads, PthreadTypes
<1>7. CASE JoinReturns
  BY <1>0, <1>7 DEF JoinReturns, history, PthreadTypes
<1>8. CASE Cancel
  <2>1. alive' \in BOOLEAN /\ stale' \subseteq {"detach", "stop", "join", "cancel"}
    BY <1>8, PassFacts DEF Cancel
  <2>2. thread_ \in Threads
    BY <1>8, StartedThread DEF Cancel
  <2> QED
    BY <1>0, <1>8, <2>1, <2>2 DEF Cancel, PthreadTypes
<1>9. CASE Suspend
  BY <1>0, <1>2, <1>9 DEF Suspend, pthreads, history, PthreadTypes
<1>10. CASE Resume
  BY <1>0, <1>1, <1>2, <1>10 DEF Resume, history, PthreadTypes
<1>11. ASSUME NEW t \in Threads, ThreadNext(t) PROVE PthreadTypes'
  BY <1>0, <1>11 DEF ThreadNext, WaitCall, WaitTest, SpuriousWakeup, Finish, CancelInWait,
                     history, PthreadTypes
<1> QED
  BY <1>3, <1>4, <1>5, <1>6, <1>7, <1>8, <1>9, <1>10, <1>11 DEF Next, OwnerNext

LEMMA TypeStep ==
  ASSUME TypeOK, Next
  PROVE  TypeOK'
  BY ObjectStep, PthreadStep, EndedRemains DEF ObjectTypes, PthreadTypes, TypeOK
-----------------------------------------------------------------------------
(* wait, suspend and resume.                                               *)

\* A step that makes nobody wait, and lets nobody sleep while flag_ is 0 or
\* more who did not.
LEMMA NobodyNew ==
  ASSUME AsleepOnlyIfSuspended, WaitsAlone, crowd' = crowd,
         \A u \in Threads : thr'[u] \in Waiting => thr[u] \in Waiting,
         \A u \in Threads : thr'[u] = "asleep" =>
           flag_' < 0 \/ (thr[u] = "asleep" /\ (flag_ < 0 => flag_' < 0))
  PROVE  AsleepOnlyIfSuspended' /\ WaitsAlone'
<1>1. AsleepOnlyIfSuspended'
  BY DEF AsleepOnlyIfSuspended
<1>2. WaitsAlone'
  BY DEF WaitsAlone, Waiting
<1> QED
  BY <1>1, <1>2

LEMMA AsleepStep ==
  ASSUME TypeOK, AsleepOnlyIfSuspended, WaitsAlone, Next
  PROVE  AsleepOnlyIfSuspended' /\ WaitsAlone'
<1>0. /\ thr \in [Threads -> {"none", "run", "lock", "asleep", "ended"}]
      /\ flag_ \in Int
  BY MaxFlagAssumption DEF TypeOK
<1>1. CASE UNCHANGED <<thr, crowd, flag_>>
  BY <1>1, NobodyNew
<1>2. ASSUME NEW w \in BOOLEAN, Start(w)
      PROVE  AsleepOnlyIfSuspended' /\ WaitsAlone'
  <2>1. crowd' = crowd /\ (flag_' = flag_ \/ flag_' = flag_ - 1)
    BY <1>2 DEF Start
  <2>2. flag_ < 0 => flag_' < 0
    BY <1>0, <2>1
  <2>3. \A u \in Threads : thr'[u] = thr[u] \/ thr'[u] = "run"
    BY <1>0, <1>2 DEF Start
  <2> QED
    BY <2>1, <2>2, <2>3, NobodyNew DEF Waiting
<1>3. CASE Stuck
  BY <1>1, <1>3 DEF Stuck, members, pthreads, history
<1>4. CASE OwnerStart
  BY <1>2, <1>3, <1>4 DEF OwnerStart
<1>5. CASE Detach \/ Stop \/ Join \/ JoinReturns \/ Cancel
  BY <1>1, <1>5 DEF Detach, Stop, Join, JoinReturns, Cancel, members, pthreads, history
<1>6. CASE Suspend
  <2>1. CASE ~ Stuck
    <3>1. flag_' = flag_ - 1 /\ UNCHANGED <<thr, crowd>>
      BY <1>6, <2>1 DEF Suspend, pthreads, history
    <3>2. flag_ < 0 => flag_' < 0
      BY <1>0, <3>1
    <3> QED
      BY <3>1, <3>2, NobodyNew
  <2> QED
    BY <1>3, <2>1
<1>7. CASE Resume
  <2>1. CASE ~ Stuck /\ ~ Start(FALSE)
    <3>1. crowd' = crowd
      BY <1>7, <2>1 DEF Resume, history
    <3>2. CASE ~ \E t \in Threads : thr[t] = "asleep"
      <4>1. UNCHANGED thr
        BY <1>7, <2>1, <3>2 DEF Resume
      <4> QED
        BY <3>1, <3>2, <4>1, NobodyNew
    <3>3. CASE \E t \in Threads : thr[t] = "asleep"
      <4>1. PICK t \in Threads : thr[t] = "asleep" /\ thr' = [thr EXCEPT ![t] = "lock"]
        BY <1>7, <2>1, <3>3 DEF Resume
      <4>2. /\ thr'[t] = "lock" /\ thr[t] \in Waiting
            /\ \A u \in Threads \ {t} : thr'[u] = thr[u]
        BY <1>0, <4>1 DEF Waiting
      <4>3. \A u \in Threads : thr'[u] \in Waiting => thr[u] \in Waiting
        BY <4>2
      <4>4. WaitsAlone'
        BY <3>1, <4>3 DEF WaitsAlone, Waiting
      <4>5. AsleepOnlyIfSuspended'
        <5> SUFFICES ASSUME ~ crowd', NEW u \in Threads, thr'[u] = "asleep"
                     PROVE  FALSE
          BY DEF AsleepOnlyIfSuspended
        <5>1. u # t /\ thr[u] \in Waiting /\ ~ crowd
          BY <3>1, <4>2 DEF Waiting
        <5> QED
          BY <4>2, <5>1 DEF WaitsAlone
      <4> QED
        BY <4>4, <4>5
    <3> QED
      BY <3>2, <3>3
  <2> QED
    BY <1>2, <1>3, <2>1
<1>8. ASSUME NEW t \in Threads, WaitCall(t)
      PROVE  AsleepOnlyIfSuspended' /\ WaitsAlone'
  <2>1. /\ crowd' = (crowd \/ \E u \in Threads \ {t} : thr[u] \in Waiting)
        /\ thr' = [thr EXCEPT ![t] = "lock"] /\ flag_' = flag_
    BY <1>8 DEF WaitCall, members
  <2>2. thr'[t] = "lock" /\ \A u \in Threads \ {t} : thr'[u] = thr[u]
    BY <1>0, <2>1
  <2>3. ~ crowd' => ~ crowd /\ \A u \in Threads \ {t} : ~ (thr[u] \in Waiting)
    BY <2>1, Zenon
  <2>4. AsleepOnlyIfSuspended'
    BY <2>1, <2>2, <2>3 DEF AsleepOnlyIfSuspended
  <2>5. WaitsAlone'
    BY <2>2, <2>3 DEF WaitsAlone, Waiting
  <2> QED
    BY <2>4, <2>5
<1>9. ASSUME NEW t \in Threads,
             WaitTest(t) \/ SpuriousWakeup(t) \/ Finish(t) \/ CancelInWait(t)
      PROVE  AsleepOnlyIfSuspended' /\ WaitsAlone'
  <2>1. crowd' = crowd /\ flag_' = flag_
    BY <1>9 DEF WaitTest, SpuriousWakeup, Finish, CancelInWait, members, history
  <2>2. \A u \in Threads \ {t} : thr'[u] = thr[u]
    BY <1>0, <1>9 DEF WaitTest, SpuriousWakeup, Finish, CancelInWait
  <2>3. CASE WaitTest(t)
    <3>1. /\ thr[t] = "lock"
          /\ thr'[t] = IF flag_ < 0 THEN "asleep" ELSE "run"
      BY <1>0, <2>3 DEF WaitTest
    <3>2. \A u \in Threads : thr'[u] \in Waiting => thr[u] \in Waiting
      BY <2>2, <3>1 DEF Waiting
    <3>3. \A u \in Threads : thr'[u] = "asleep" => flag_' < 0 \/ thr[u] = "asleep"
      BY <2>1, <2>2, <3>1
    <3> QED
      BY <2>1, <3>2, <3>3, NobodyNew
  <2>4. CASE SpuriousWakeup(t)
    <3>1. thr[t] = "asleep" /\ thr'[t] = "lock"
      BY <1>0, <2>4 DEF SpuriousWakeup
    <3> QED
      BY <2>1, <2>2, <3>1, NobodyNew DEF Waiting
  <2>5. CASE Finish(t) \/ CancelInWait(t)
    <3>1. thr'[t] = "ended"
      BY <1>0, <2>5 DEF Finish, CancelInWait
    <3> QED
      BY <2>1, <2>2, <3>1, NobodyNew DEF Waiting
  <2> QED
    BY <1>9, <2>3, <2>4, <2>5
<1> QED
  BY <1>4, <1>5, <1>6, <1>7, <1>8, <1>9 DEF Next, OwnerNext, ThreadNext

\* Who can lose the mutex, and who can block on it.
LEMMA LostStep ==
  ASSUME TypeOK, LostByCancel, Next
  PROVE  LostByCancel'
<1>0. EndedStays /\ thr \in [Threads -> {"none", "run", "lock", "asleep", "ended"}]
      /\ cancelled \subseteq Threads
  BY EndedRemains DEF TypeOK
<1>1. ASSUME cancelled \subseteq cancelled', cond_' = cond_,
             owner' = "stuck" => owner = "stuck" \/ cond_ = "lost"
      PROVE  LostByCancel'
  BY <1>0, <1>1 DEF LostByCancel, EndedStays
<1>2. ASSUME NEW w \in BOOLEAN, Start(w) PROVE LostByCancel'
  BY <1>1, <1>2 DEF Start
<1>3. CASE Stuck
  BY <1>1, <1>3 DEF Stuck, pthreads
<1>4. CASE OwnerStart
  BY <1>2, <1>3, <1>4 DEF OwnerStart
<1>5. CASE Detach \/ Stop \/ Join \/ JoinReturns \/ Cancel
  <2>1. cancelled \subseteq cancelled' /\ cond_' = cond_
    BY <1>5 DEF Detach, Stop, Join, JoinReturns, Cancel, pthreads
  <2>2. owner' = owner \/ owner' \in {"stop", "join", "idle"}
    BY <1>5 DEF Detach, Stop, Join, JoinReturns, Cancel
  <2> QED
    BY <1>1, <2>1, <2>2
<1>6. CASE Suspend
  BY <1>1, <1>3, <1>6 DEF Suspend, pthreads
<1>7. CASE Resume
  BY <1>1, <1>2, <1>3, <1>7 DEF Resume
<1>8. ASSUME NEW t \in Threads, CancelInWait(t) PROVE LostByCancel'
  <2>1. t \in cancelled' /\ thr'[t] = "ended"
    BY <1>0, <1>8 DEF CancelInWait
  <2> QED
    BY <2>1 DEF LostByCancel
<1>9. ASSUME NEW t \in Threads,
             WaitCall(t) \/ WaitTest(t) \/ SpuriousWakeup(t) \/ Finish(t)
      PROVE  LostByCancel'
  BY <1>1, <1>9 DEF WaitCall, WaitTest, SpuriousWakeup, Finish
<1> QED
  BY <1>4, <1>5, <1>6, <1>7, <1>8, <1>9 DEF Next, OwnerNext, ThreadNext
-----------------------------------------------------------------------------
(* start, detach, stop, join and cancel.                                   *)

LEMMA OwnerStep ==
  ASSUME TypeOK, OwnerJoins, Next
  PROVE  OwnerJoins'
<1>1. ASSUME owner' \in {"idle", "stuck"} PROVE OwnerJoins'
  BY <1>1 DEF OwnerJoins
<1>2. ASSUME UNCHANGED <<owner, started_, joined>> PROVE OwnerJoins'
  BY <1>2 DEF OwnerJoins
<1>3. ASSUME Free, NEW w \in BOOLEAN, Start(w) PROVE OwnerJoins'
  BY <1>1, <1>3 DEF Free, Start
<1>4. CASE OwnerStart
  BY <1>1, <1>3, <1>4 DEF OwnerStart, Stuck
<1>5. CASE Detach \/ Cancel \/ JoinReturns
  BY <1>1, <1>5 DEF Detach, Cancel, JoinReturns, Free
<1>6. CASE Stop
  <2>1. owner = "idle" /\ started_
    BY <1>6 DEF Stop, Free
  <2>2. owner' = "idle" \/ (owner' = "stop" /\ started_' = started_)
    BY <1>6, <2>1 DEF Stop
  <2> QED
    BY <1>1, <2>1, <2>2 DEF OwnerJoins
<1>7. CASE Join
  BY <1>7 DEF Join, members, OwnerJoins
<1>8. CASE Suspend
  BY <1>1, <1>8 DEF Suspend, Stuck, Free, pthreads, history
<1>9. CASE Resume
  BY <1>1, <1>3, <1>9 DEF Resume, Stuck, Free, history
<1>10. ASSUME NEW t \in Threads, ThreadNext(t) PROVE OwnerJoins'
  BY <1>2, <1>10 DEF ThreadNext, WaitCall, WaitTest, SpuriousWakeup, Finish, CancelInWait,
                     members, history
<1> QED
  BY <1>4, <1>5, <1>6, <1>7, <1>8, <1>9, <1>10 DEF Next, OwnerNext

\* A step after which the object stands for no other thread than before and
\* pthreads has given up no other id.
LEMMA SameIds ==
  ASSUME IdsGivenUp, ThreadsAccounted, UNCHANGED <<thread_, handle, detached_>>,
         started_' = started_, joined' = joined, stale' = stale,
         cancelled \subseteq cancelled', over \subseteq over'
  PROVE  IdsGivenUp' /\ ThreadsAccounted'
<1>1. IdsGivenUp'
  BY DEF IdsGivenUp
<1>2. ZombiesExplained'
  BY DEF ThreadsAccounted, ZombiesExplained
<1>3. StaleIds'
  BY DEF ThreadsAccounted, StaleIds
<1> QED
  BY <1>1, <1>2, <1>3 DEF ThreadsAccounted

LEMMA IdsStart ==
  ASSUME TypeOK, IdsGivenUp, ThreadsAccounted, NEW w \in BOOLEAN, Start(w)
  PROVE  IdsGivenUp' /\ ThreadsAccounted'
<1>0. /\ UNCHANGED <<detached_, cancelled, joined, stale>>
      /\ handle \in [Threads -> {"none", "joinable", "detached", "joined"}]
  BY DEF Start, TypeOK
<1>1. CASE UNCHANGED <<started_, thread_, thr, handle, over>>
  BY <1>0, <1>1, SameIds
<1>2. ASSUME over' = Over, ~ UNCHANGED <<started_, thread_, thr, handle, over>>
      PROVE  \A u \in Threads :
               handle[u] = "joinable" /\ u \notin cancelled /\ ~ detached_ => u \in over'
  <2> SUFFICES ASSUME NEW u \in Threads, handle[u] = "joinable", u \notin cancelled, ~ detached_
               PROVE  u \in over'
    OBVIOUS
  <2>1. CASE started_ /\ thread_ = u
    BY <1>2, <2>1 DEF Over
  <2>2. CASE ~ (started_ /\ thread_ = u)
    <3>1. u \in over
      BY <2>2 DEF ThreadsAccounted, ZombiesExplained
    <3> QED
      BY <1>2, <3>1 DEF Over
  <2> QED
    BY <2>1, <2>2
<1>3. StaleIds'
  BY <1>0 DEF ThreadsAccounted, StaleIds
<1>4. CASE started_' = FALSE /\ over' = Over /\ UNCHANGED <<thread_, thr, handle>>
      /\ ~ UNCHANGED <<started_, thread_, thr, handle, over>>
  <2>1. ZombiesExplained'
    BY <1>0, <1>2, <1>4 DEF ZombiesExplained
  <2>2. IdsGivenUp'
    BY <1>0, <1>4 DEF IdsGivenUp
  <2> QED
    BY <1>3, <2>1, <2>2 DEF ThreadsAccounted
<1>5. ASSUME NEW t \in Threads, started_' = TRUE, thread_' = t, over' = Over,
             handle' = [handle EXCEPT ![t] = "joinable"],
             ~ UNCHANGED <<started_, thread_, thr, handle, over>>
      PROVE  IdsGivenUp' /\ ThreadsAccounted'
  <2>1. handle'[t] = "joinable" /\ \A u \in Threads \ {t} : handle'[u] = handle[u]
    BY <1>0, <1>5
  <2>2. ZombiesExplained'
    BY <1>0, <1>2, <1>5, <2>1 DEF ZombiesExplained
  <2>3. IdsGivenUp'
    BY <1>0, <1>5, <2>1 DEF IdsGivenUp
  <2> QED
    BY <1>3, <2>2, <2>3 DEF ThreadsAccounted
<1> QED
  BY <1>1, <1>4, <1>5 DEF Start

\* What a dead id says of a started object.
LEMMA DeadIdExplained ==
  ASSUME TypeOK, IdsGivenUp, started_, DeadId(thread_)
  PROVE  joined \/ detached_
  BY StartedThread DEF IdsGivenUp, DeadId

LEMMA IdsStep ==
  ASSUME TypeOK, OwnerJoins, IdsGivenUp, ThreadsAccounted, Next
  PROVE  IdsGivenUp' /\ ThreadsAccounted'
<1>0. handle \in [Threads -> {"none", "joinable", "detached", "joined"}]
  BY DEF TypeOK
<1>1. CASE Stuck
  BY <1>1, SameIds DEF Stuck, members, pthreads, history
<1>2. CASE OwnerStart
  BY <1>1, <1>2, IdsStart DEF OwnerStart
<1>3. CASE Detach
  <2>1. /\ started_ /\ Pass("detach") /\ thread_ \in Threads /\ detached_' = TRUE
        /\ UNCHANGED <<started_, thread_, cancelled, over, joined>>
        /\ handle' = IF handle[thread_] = "joinable"
                     THEN [handle EXCEPT ![thread_] = "detached"] ELSE handle
    BY <1>3, StartedThread DEF Detach
  <2>2. handle'[thread_] = "joined" => handle[thread_] = "joined"
    BY <1>0, <2>1
  <2>3. IdsGivenUp'
    BY <2>1, <2>2 DEF IdsGivenUp
  <2>4. ZombiesExplained'
    BY <2>1 DEF ZombiesExplained
  <2>5. stale' = stale \/ stale' = stale \cup {"detach"}
    BY <2>1, PassFacts
  <2>6. StaleIds'
    BY <2>1, <2>5 DEF ThreadsAccounted, StaleIds
  <2> QED
    BY <2>3, <2>4, <2>6 DEF ThreadsAccounted
<1>4. CASE Stop
  <2>1. /\ started_ /\ thread_ \in Threads
        /\ UNCHANGED <<thread_, handle, detached_, cancelled, over, joined>>
    BY <1>4, StartedThread DEF Stop, pthreads
  <2>2. CASE ~ detached_ /\ ~ DeadId(thread_)
    BY <1>4, <2>1, <2>2, SameIds DEF Stop
  <2>3. CASE detached_ \/ DeadId(thread_)
    <3>1. started_' = FALSE
      BY <1>4, <2>3 DEF Stop
    <3>2. IdsGivenUp'
      BY <2>1, <3>1 DEF IdsGivenUp
    <3>3. DeadId(thread_) => handle[thread_] # "joinable"
      BY DEF DeadId
    <3>4. ZombiesExplained'
      BY <2>1, <2>3, <3>1, <3>3 DEF ThreadsAccounted, ZombiesExplained
    <3>5. StaleIds'
      <4>1. CASE stale' = stale
        BY <2>1, <4>1 DEF ThreadsAccounted, StaleIds
      <4>2. CASE stale' # stale
        <5>1. ~ detached_ /\ DeadId(thread_)
          BY <1>4, <2>3, <4>2 DEF Stop
        <5>2. joined
          BY <2>1, <5>1, DeadIdExplained
        <5> QED
          BY <2>1, <5>2 DEF StaleIds
      <4> QED
        BY <4>1, <4>2
    <3> QED
      BY <3>2, <3>4, <3>5 DEF ThreadsAccounted
  <2> QED
    BY <2>2, <2>3
<1>5. CASE Join
  <2>1. joined' = TRUE /\ UNCHANGED <<members, handle, cancelled, over>>
    BY <1>5 DEF Join, pthreads
  <2>2. IdsGivenUp' /\ ZombiesExplained' /\ StaleIds'
    BY <2>1 DEF members, IdsGivenUp, ThreadsAccounted, ZombiesExplained, StaleIds
  <2> QED
    BY <2>2 DEF ThreadsAccounted
<1>6. CASE JoinReturns
  <2>1. /\ handle' = [handle EXCEPT ![thread_] = "joined"]
        /\ started_' = (started_ /\ owner = "join")
        /\ UNCHANGED <<thread_, detached_, cancelled, over, joined, stale>>
        /\ owner \in {"stop", "join"}
    BY <1>6 DEF JoinReturns, history
  <2>2. started_ /\ thread_ \in Threads
    BY <2>1, StartedThread DEF OwnerJoins
  <2>3. /\ handle'[thread_] = "joined"
        /\ \A u \in Threads \ {thread_} : handle'[u] = handle[u]
    BY <1>0, <2>1, <2>2
  <2>4. started_' => joined
    BY <2>1 DEF OwnerJoins
  <2>5. IdsGivenUp'
    BY <2>1, <2>3, <2>4 DEF IdsGivenUp
  <2>6. ZombiesExplained'
    BY <2>1, <2>2, <2>3 DEF ThreadsAccounted, ZombiesExplained
  <2>7. StaleIds'
    BY <2>1 DEF ThreadsAccounted, StaleIds
  <2> QED
    BY <2>5, <2>6, <2>7 DEF ThreadsAccounted
<1>7. CASE Cancel
  <2>1. /\ started_ /\ Pass("cancel") /\ thread_ \in Threads /\ started_' = FALSE
        /\ UNCHANGED <<detached_, thread_, handle, over, joined>>
        /\ cancelled' = IF DeadId(thread_) THEN cancelled ELSE cancelled \cup {thread_}
    BY <1>7, StartedThread DEF Cancel
  <2>2. IdsGivenUp'
    BY <2>1 DEF IdsGivenUp
  <2>3. DeadId(thread_) => handle[thread_] # "joinable"
    BY DEF DeadId
  <2>4. ZombiesExplained'
    BY <2>1, <2>3 DEF ThreadsAccounted, ZombiesExplained
  <2>5. stale' = stale \/ (DeadId(thread_) /\ stale' = stale \cup {"cancel"})
    BY <2>1, PassFacts
  <2>6. StaleIds'
    <3>1. stale' \cap {"stop", "join"} = stale \cap {"stop", "join"}
      BY <2>5
    <3>2. stale' # {} => joined \/ detached_
      BY <2>1, <2>5, DeadIdExplained DEF ThreadsAccounted, StaleIds
    <3> QED
      BY <2>1, <3>1, <3>2 DEF ThreadsAccounted, StaleIds
  <2> QED
    BY <2>2, <2>4, <2>6 DEF ThreadsAccounted
<1>8. CASE Suspend
  BY <1>1, <1>8, SameIds DEF Suspend, pthreads, history
<1>9. CASE Resume
  BY <1>1, <1>9, IdsStart, SameIds DEF Resume, history
<1>10. ASSUME NEW t \in Threads, ThreadNext(t) PROVE IdsGivenUp' /\ ThreadsAccounted'
  BY <1>10, SameIds DEF ThreadNext, WaitCall, WaitTest, SpuriousWakeup, Finish, CancelInWait,
                        members, history
<1> QED
  BY <1>2, <1>3, <1>4, <1>5, <1>6, <1>7, <1>8, <1>9, <1>10 DEF Next, OwnerNext
-----------------------------------------------------------------------------
(* The theorems.                                                           *)

LEMMA InitIInv == Init => IInv
<1> SUFFICES ASSUME Init PROVE IInv
  OBVIOUS
<1>1. TypeOK
  <2>1. 0 \in -MaxFlag..MaxFlag
    BY MaxFlagAssumption
  <2>2. /\ thr \in [Threads -> {"none", "run", "lock", "asleep", "ended"}]
        /\ handle \in [Threads -> {"none", "joinable", "detached", "joined"}]
    BY DEF Init
  <2>3. /\ started_ \in BOOLEAN /\ detached_ \in BOOLEAN /\ ~ started_
        /\ alive \in BOOLEAN /\ crowd \in BOOLEAN /\ joined \in BOOLEAN
    BY Zenon DEF Init
  <2>4. /\ flag_ = 0 /\ thread_ = NULL /\ cancelled = {} /\ over = {} /\ stale = {}
        /\ cond_ = "free" /\ owner = "idle"
    BY DEF Init
  <2> QED
    BY <2>1, <2>2, <2>3, <2>4 DEF TypeOK
<1>2. AsleepOnlyIfSuspended /\ WaitsAlone /\ LostByCancel /\ OwnerJoins
  BY DEF Init, AsleepOnlyIfSuspended, WaitsAlone, Waiting, LostByCancel, OwnerJoins
<1>3. IdsGivenUp /\ ThreadsAccounted
  BY DEF Init, IdsGivenUp, ThreadsAccounted, ZombiesExplained, StaleIds
<1> QED
  BY <1>1, <1>2, <1>3 DEF IInv

LEMMA NextIInv == IInv /\ [Next]_vars => IInv'
<1> SUFFICES ASSUME IInv, [Next]_vars PROVE IInv'
  OBVIOUS
<1>1. CASE Next
  BY <1>1, TypeStep, AsleepStep, LostStep, OwnerStep, IdsStep DEF IInv
<1>2. CASE UNCHANGED vars
  <2>1. TypeOK'
    BY <1>2 DEF vars, members, pthreads, history, IInv, TypeOK
  <2>2. AsleepOnlyIfSuspended' /\ WaitsAlone' /\ LostByCancel' /\ OwnerJoins'
    BY <1>2 DEF vars, members, pthreads, history, IInv, AsleepOnlyIfSuspended, WaitsAlone,
                LostByCancel, OwnerJoins
  <2>3. IdsGivenUp' /\ ThreadsAccounted'
    BY <1>2, SameIds DEF vars, members, pthreads, history, IInv
  <2> QED
    BY <2>1, <2>2, <2>3 DEF IInv
<1> QED
  BY <1>1, <1>2

THEOREM InvariantHolds == Spec => []IInv
<1>1. Init => IInv
  BY InitIInv
<1>2. IInv /\ [Next]_vars => IInv'
  BY NextIInv
<1> QED
  BY <1>1, <1>2, PTL DEF Spec

\* wait, suspend and resume lose no wakeup and block nobody for ever, in any
\* order of their calls: a lone waiter sleeps only while the object is
\* suspended, and the mutex is only lost with a cancelled thread.
THEOREM NoWakeupLost == Spec => []NoLostWakeup
<1>1. IInv => NoLostWakeup
  BY DEF IInv, NoLostWakeup, LostByCancel, StuckOnlyByCancel
<1> QED
  BY <1>1, InvariantHolds, PTL

\* Every thread start() made is joined or detached once by an id that is
\* still valid, unless it was cancelled, started over, or its object was
\* detached or joined before.
THEOREM EveryThreadAccounted == Spec => []ThreadsAccounted
<1>1. IInv => ThreadsAccounted
  BY DEF IInv
<1> QED
  BY <1>1, InvariantHolds, PTL
=============================================================================
