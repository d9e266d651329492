--------------------------- MODULE ThreadPool_proofs ---------------------------
(***************************************************************************)
(* Proofs about ThreadPool for any number of threads and packets.          *)
(***************************************************************************)
EXTENDS ThreadPool, FiniteSetTheorems, TLAPS

Busy == {t \in Threads : pc[t] \in {"run", "ran"}}

\* The mutex is held exactly in the two steps between lock and wait or unlock.
MutexHeld == \A t \in Threads : (pc[t] \in {"test", "park"}) <=> (m_pthreadMutex = t)

\* A thread about to wait saw an empty queue, and nobody can push until it waits.
ParkEmpty == \A t \in Threads : pc[t] = "park" => m_msgRecvQueue = <<>>

\* The queue is no longer than what was pushed; the counter is its length.
QueueCounted ==
    /\ Len(m_msgRecvQueue) <= pushed
    /\ main # "gone" => m_iRecvMsgQueueCount = Len(m_msgRecvQueue)

RunningCounted == m_iRunningThreadNum = Cardinality(Busy)

Stopping ==
    /\ main \in {"broadcast", "join", "stopped", "gone"} <=> m_shutdown
    /\ main \in {"stopped", "gone"} => \A t \in Threads : pc[t] = "exited"

\* A thread holds a packet exactly from taking it to releasing it.
JobHeld == \A t \in Threads : (pc[t] \in {"taken", "run"}) <=> (jobbuf[t] # NoJob)

\* A thread marked as started has been created.
MarkedCreated == \A t \in Threads : ifRunning[t] => pc[t] # "none"

\* The parts of the invariant that need no counting of threads.
Basic == /\ TypeOK /\ MutexHeld /\ ParkEmpty /\ QueueCounted /\ Stopping
         /\ JobHeld /\ MarkedCreated /\ StartedBeforeServing

IInv == Basic /\ RunningCounted /\ WorkConserving

-----------------------------------------------------------------------------
\* Any set of threads is finite and no larger than the pool.
LEMMA SomeThreads ==
    ASSUME NEW S \in SUBSET Threads
    PROVE  IsFiniteSet(S) /\ Cardinality(S) \in 0 .. Cardinality(Threads)
  <1>1. IsFiniteSet(S) /\ Cardinality(S) <= Cardinality(Threads)
    BY PoolThreads, FS_Subset
  <1>2. Cardinality(S) \in Nat /\ Cardinality(Threads) \in Nat
    BY <1>1, PoolThreads, FS_CardinalityType
  <1> QED BY <1>1, <1>2

LEMMA OneMore ==
    ASSUME NEW S \in SUBSET Threads, NEW t \in Threads, t \notin S
    PROVE  Cardinality(S \cup {t}) = Cardinality(S) + 1
  BY SomeThreads, FS_AddElement

LEMMA OneLess ==
    ASSUME NEW S \in SUBSET Threads, NEW t \in S
    PROVE  Cardinality(S \ {t}) = Cardinality(S) - 1
  BY SomeThreads, FS_RemoveElement

\* Head and tail of a sequence that is not empty.
LEMMA HeadTail ==
    ASSUME NEW S, NEW q \in Seq(S), q # <<>>
    PROVE  /\ Head(q) \in S /\ Tail(q) \in Seq(S)
           /\ Len(q) \in Nat \ {0} /\ Len(Tail(q)) = Len(q) - 1
           /\ Head(q) = q[1]
           /\ \A i \in 1 .. Len(q) - 1 : Tail(q)[i] = q[i + 1]
  OBVIOUS

LEMMA ComingThreads == Coming \in SUBSET Threads /\ Coming' \in SUBSET Threads
  BY DEF Coming

LEMMA InitOK == Init => IInv
  <1> SUFFICES ASSUME Init PROVE IInv OBVIOUS
  <1>1. Cardinality(Threads) \in Nat
    BY PoolThreads, FS_CardinalityType
  <1>2. Busy = {} /\ Waiting = {}
    BY DEF Init, Busy, Waiting
  <1>3. Cardinality(Busy) = 0
    BY <1>2, FS_EmptySet
  <1>4. TypeOK
    <2>1. <<>> \in Seq(1 .. MaxMsgs) /\ 0 \in 0 .. MaxMsgs /\ 0 \in 0 .. Cardinality(Threads)
      BY <1>1, PoolMaxMsgs
    <2> QED
      BY <2>1 DEF Init, TypeOK, NoJob
  <1> QED
    BY <1>2, <1>3, <1>4, PoolNoThread
    DEF Init, IInv, Basic, MutexHeld, ParkEmpty, QueueCounted, RunningCounted, Stopping,
        JobHeld, MarkedCreated, StartedBeforeServing, WorkConserving

-----------------------------------------------------------------------------
(* Counting: how a step changes the sets of threads decides the two parts  *)
(* of the invariant that count them.                                       *)

LEMMA BusySame ==
    ASSUME RunningCounted, Busy' = Busy, m_iRunningThreadNum' = m_iRunningThreadNum
    PROVE  RunningCounted'
  BY DEF RunningCounted

\* The queue is empty after the step, or nothing that counts changed.
LEMMA EmptyConserves ==
    ASSUME m_msgRecvQueue' = <<>>
    PROVE  WorkConserving'
  <1>1. Cardinality(Coming') \in Nat
    BY ComingThreads, SomeThreads
  <1>2. Len(m_msgRecvQueue') = 0 /\ PendingSignal' \in {0, 1}
    BY DEF PendingSignal
  <1> QED
    BY <1>1, <1>2 DEF WorkConserving

LEMMA SameConserves ==
    ASSUME WorkConserving, Coming' = Coming, Waiting' = Waiting,
           UNCHANGED <<m_msgRecvQueue, m_shutdown, main>>
    PROVE  WorkConserving'
  BY DEF WorkConserving, PendingSignal

\* One more thread is coming; nobody went to sleep.
LEMMA ComerConserves ==
    ASSUME TypeOK, WorkConserving, NEW t \in Threads, t \notin Coming,
           Coming' = Coming \cup {t}, Waiting' \subseteq Waiting,
           UNCHANGED <<m_msgRecvQueue, m_shutdown>>,
           main' = main \/ PendingSignal = 0
    PROVE  WorkConserving'
  <1>1. Cardinality(Coming') = Cardinality(Coming) + 1 /\ Cardinality(Coming) \in Nat
    BY ComingThreads, OneMore, SomeThreads
  <1>2. Len(m_msgRecvQueue) \in Nat
    BY DEF TypeOK
  <1> QED
    BY <1>1, <1>2 DEF WorkConserving, PendingSignal

-----------------------------------------------------------------------------
(* Steps of a pool thread *)

LEMMA LockOK ==
    ASSUME IInv, NEW t \in Threads, NEW from \in {"lock", "relock"},
           Lock(t, from)
    PROVE  IInv'
  <1>1. Basic'
    BY PoolNoThread DEF Lock, Alive, Moves, queueVars,
        IInv, Basic, TypeOK, MutexHeld, ParkEmpty, QueueCounted, Stopping, JobHeld,
        MarkedCreated, StartedBeforeServing
  <1>2. Busy' = Busy /\ Coming' = Coming /\ Waiting' = Waiting
    BY DEF Lock, Moves, Busy, Coming, Waiting, IInv, Basic, TypeOK
  <1> QED
    BY <1>1, <1>2, BusySame, SameConserves DEF IInv, Lock, queueVars
LEMMA FindNothingOK ==
    ASSUME IInv, NEW t \in Threads, FindNothing(t)
    PROVE  IInv'
  <1>1. Basic'
    BY DEF FindNothing, Alive, Moves, queueVars,
        IInv, Basic, TypeOK, MutexHeld, ParkEmpty, QueueCounted, Stopping, JobHeld,
        MarkedCreated, StartedBeforeServing
  <1>2. Busy' = Busy
    BY DEF FindNothing, Moves, Busy, IInv, Basic, TypeOK
  <1>3. m_msgRecvQueue' = <<>>
    BY DEF FindNothing, queueVars
  <1> QED
    BY <1>1, <1>2, <1>3, BusySame, EmptyConserves DEF IInv, FindNothing
LEMMA ParkOK ==
    ASSUME IInv, NEW t \in Threads, Park(t)
    PROVE  IInv'
  <1>1. Basic'
    BY PoolNoThread DEF Park, Alive, Moves, queueVars,
        IInv, Basic, TypeOK, MutexHeld, ParkEmpty, QueueCounted, Stopping, JobHeld,
        MarkedCreated, StartedBeforeServing
  <1>2. Busy' = Busy
    BY DEF Park, Moves, Busy, IInv, Basic, TypeOK
  <1>3. m_msgRecvQueue' = <<>>
    BY DEF Park, Moves, queueVars, IInv, Basic, ParkEmpty
  <1> QED
    BY <1>1, <1>2, <1>3, BusySame, EmptyConserves DEF IInv, Park
LEMMA SpuriousWakeupOK ==
    ASSUME IInv, NEW t \in Threads, SpuriousWakeup(t)
    PROVE  IInv'
  <1>1. Basic'
    BY DEF SpuriousWakeup, Alive, Moves, queueVars,
        IInv, Basic, TypeOK, MutexHeld, ParkEmpty, QueueCounted, Stopping, JobHeld,
        MarkedCreated, StartedBeforeServing
  <1>2. Busy' = Busy
    BY DEF SpuriousWakeup, Moves, Busy, IInv, Basic, TypeOK
  <1>3. Coming' = Coming \cup {t} /\ t \notin Coming /\ Waiting' \subseteq Waiting
    BY DEF SpuriousWakeup, Moves, Coming, Waiting, IInv, Basic, TypeOK
  <1>4. WorkConserving'
    BY <1>3, ComerConserves DEF SpuriousWakeup, queueVars, IInv, Basic
  <1> QED
    BY <1>1, <1>2, <1>4, BusySame DEF IInv, SpuriousWakeup
LEMMA QuitOK ==
    ASSUME IInv, NEW t \in Threads, Quit(t)
    PROVE  IInv'
  <1>1. Basic'
    BY PoolNoThread DEF Quit, Alive, Moves, queueVars,
        IInv, Basic, TypeOK, MutexHeld, ParkEmpty, QueueCounted, Stopping, JobHeld,
        MarkedCreated, StartedBeforeServing
  <1>2. Busy' = Busy
    BY DEF Quit, Moves, Busy, IInv, Basic, TypeOK
  <1> QED
    BY <1>1, <1>2, BusySame DEF IInv, WorkConserving, Quit
LEMMA TakeOK ==
    ASSUME IInv, NEW t \in Threads, Take(t)
    PROVE  IInv'
  <1>1. /\ Head(m_msgRecvQueue) \in 1 .. MaxMsgs
        /\ Tail(m_msgRecvQueue) \in Seq(1 .. MaxMsgs)
        /\ Len(m_msgRecvQueue) \in Nat \ {0}
        /\ Len(Tail(m_msgRecvQueue)) = Len(m_msgRecvQueue) - 1
    BY HeadTail DEF Take, IInv, Basic, TypeOK
  <1>2. main # "gone"
    BY DEF Take, Moves, IInv, Basic, Stopping
  <1>3. (TypeOK /\ QueueCounted)'
    BY <1>1, <1>2, PoolMaxMsgs DEF Take, Moves, IInv, Basic, TypeOK, QueueCounted
  <1>4. (MutexHeld /\ ParkEmpty)'
    BY PoolNoThread DEF Take, Moves, IInv, Basic, TypeOK, MutexHeld, ParkEmpty
  <1>5. (Stopping /\ JobHeld /\ MarkedCreated /\ StartedBeforeServing)'
    BY <1>1 DEF Take, Moves, IInv, Basic, TypeOK, Stopping, JobHeld, MarkedCreated,
        StartedBeforeServing, NoJob
  <1>6. Busy' = Busy /\ Coming' = Coming \ {t} /\ t \in Coming /\ Waiting' = Waiting
    BY DEF Take, Moves, Busy, Coming, Waiting, IInv, Basic, TypeOK
  <1>7. Cardinality(Coming') = Cardinality(Coming) - 1 /\ Cardinality(Coming) \in Nat
    BY <1>6, OneLess, SomeThreads, ComingThreads
  <1>8. WorkConserving'
    BY <1>1, <1>6, <1>7 DEF Take, IInv, WorkConserving, PendingSignal
  <1> QED
    BY <1>3, <1>4, <1>5, <1>6, <1>8, BusySame DEF IInv, Basic, Take
LEMMA BeginOK ==
    ASSUME IInv, NEW t \in Threads, Begin(t)
    PROVE  IInv'
  <1>1. Busy' = Busy \cup {t} /\ t \notin Busy /\ Coming' = Coming /\ Waiting' = Waiting
    BY DEF Begin, Moves, Busy, Coming, Waiting, IInv, Basic, TypeOK
  <1>2. Cardinality(Busy') = Cardinality(Busy) + 1
    BY <1>1, OneMore DEF Busy
  <1>3. Cardinality(Busy') \in 0 .. Cardinality(Threads)
    BY SomeThreads DEF Busy
  <1>4. RunningCounted'
    BY <1>2 DEF IInv, RunningCounted, Begin
  <1>5. m_iRunningThreadNum' \in 0 .. Cardinality(Threads)
    BY <1>3, <1>4 DEF RunningCounted
  <1>6. Basic'
    BY <1>5 DEF Begin, Moves, queueVars,
        IInv, Basic, TypeOK, MutexHeld, ParkEmpty, QueueCounted, Stopping, JobHeld,
        MarkedCreated, StartedBeforeServing
  <1> QED
    BY <1>1, <1>4, <1>6, SameConserves DEF IInv, Begin, queueVars
LEMMA HandledOK ==
    ASSUME IInv, NEW t \in Threads, Handled(t)
    PROVE  IInv'
  <1>1. jobbuf[t] \in 1 .. MaxMsgs /\ 0 \in 0 .. MaxMsgs
    BY PoolMaxMsgs DEF Handled, Moves, IInv, Basic, TypeOK, JobHeld, NoJob
  <1>2. Basic'
    BY <1>1 DEF Handled, Moves, queueVars, NoJob,
        IInv, Basic, TypeOK, MutexHeld, ParkEmpty, QueueCounted, Stopping, JobHeld,
        MarkedCreated, StartedBeforeServing
  <1>3. Busy' = Busy
    BY DEF Handled, Moves, Busy, IInv, Basic, TypeOK
  <1>4. Coming' = Coming \cup {t} /\ t \notin Coming /\ Waiting' = Waiting
    BY DEF Handled, Moves, Coming, Waiting, IInv, Basic, TypeOK
  <1>5. WorkConserving'
    BY <1>4, ComerConserves DEF Handled, queueVars, IInv, Basic
  <1> QED
    BY <1>2, <1>3, <1>5, BusySame DEF IInv, Handled
LEMMA EndOK ==
    ASSUME IInv, NEW t \in Threads, End(t)
    PROVE  IInv'
  <1>1. Busy' = Busy \ {t} /\ t \in Busy /\ Coming' = Coming /\ Waiting' = Waiting
    BY DEF End, Moves, Busy, Coming, Waiting, IInv, Basic, TypeOK
  <1>2. Cardinality(Busy') = Cardinality(Busy) - 1
    BY <1>1, OneLess DEF Busy
  <1>3. Cardinality(Busy') \in 0 .. Cardinality(Threads)
    BY SomeThreads DEF Busy
  <1>4. RunningCounted'
    BY <1>2 DEF IInv, RunningCounted, End
  <1>5. m_iRunningThreadNum' \in 0 .. Cardinality(Threads)
    BY <1>3, <1>4 DEF RunningCounted
  <1>6. Basic'
    BY <1>5 DEF End, Moves, queueVars,
        IInv, Basic, TypeOK, MutexHeld, ParkEmpty, QueueCounted, Stopping, JobHeld,
        MarkedCreated, StartedBeforeServing
  <1> QED
    BY <1>1, <1>4, <1>6, SameConserves DEF IInv, End, queueVars
-----------------------------------------------------------------------------
(* Steps of the main thread *)

LEMMA CreateOK ==
    ASSUME IInv, NEW t \in Threads, Create(t)
    PROVE  IInv'
  <1>1. Basic'
    BY DEF Create, queueVars,
        IInv, Basic, TypeOK, MutexHeld, ParkEmpty, QueueCounted, Stopping, JobHeld,
        MarkedCreated, StartedBeforeServing
  <1>2. Busy' = Busy /\ Coming' = Coming \cup {t} /\ t \notin Coming /\ Waiting' = Waiting
    BY DEF Create, Busy, Coming, Waiting, IInv, Basic, TypeOK
  <1>3. WorkConserving'
    BY <1>2, ComerConserves DEF Create, queueVars, IInv, Basic, PendingSignal
  <1> QED
    BY <1>1, <1>2, <1>3, BusySame DEF IInv, Create
LEMMA CreateFailsOK ==
    ASSUME IInv, CreateFails
    PROVE  IInv'
  <1>1. Basic'
    BY DEF CreateFails, MainMoves, queueVars,
        IInv, Basic, TypeOK, MutexHeld, ParkEmpty, QueueCounted, Stopping, JobHeld,
        MarkedCreated, StartedBeforeServing
  <1>2. Busy' = Busy /\ Coming' = Coming /\ Waiting' = Waiting
    BY DEF CreateFails, Busy, Coming, Waiting
  <1>3. WorkConserving'
    BY <1>2 DEF CreateFails, MainMoves, queueVars, IInv, WorkConserving, PendingSignal
  <1> QED
    BY <1>1, <1>2, <1>3, BusySame DEF IInv, CreateFails
LEMMA CreateReturnsOK ==
    ASSUME IInv, CreateReturns
    PROVE  IInv'
  <1>1. Basic'
    BY DEF CreateReturns, MainMoves, queueVars,
        IInv, Basic, TypeOK, MutexHeld, ParkEmpty, QueueCounted, Stopping, JobHeld,
        MarkedCreated, StartedBeforeServing
  <1>2. Busy' = Busy /\ Coming' = Coming /\ Waiting' = Waiting
    BY DEF CreateReturns, Busy, Coming, Waiting
  <1>3. WorkConserving'
    BY <1>2 DEF CreateReturns, MainMoves, queueVars, IInv, WorkConserving, PendingSignal
  <1> QED
    BY <1>1, <1>2, <1>3, BusySame DEF IInv, CreateReturns
LEMMA JoinOK ==
    ASSUME IInv, Join
    PROVE  IInv'
  <1>1. Basic'
    BY DEF Join, MainMoves, queueVars,
        IInv, Basic, TypeOK, MutexHeld, ParkEmpty, QueueCounted, Stopping, JobHeld,
        MarkedCreated, StartedBeforeServing
  <1>2. Busy' = Busy /\ Coming' = Coming /\ Waiting' = Waiting
    BY DEF Join, Busy, Coming, Waiting
  <1>3. WorkConserving'
    BY <1>2 DEF Join, MainMoves, queueVars, IInv, WorkConserving, PendingSignal
  <1> QED
    BY <1>1, <1>2, <1>3, BusySame DEF IInv, Join
LEMMA PushOK ==
    ASSUME IInv, Push
    PROVE  IInv'
  <1>1. /\ Append(m_msgRecvQueue, pushed + 1) \in Seq(1 .. MaxMsgs)
        /\ Len(m_msgRecvQueue) \in Nat
        /\ Len(Append(m_msgRecvQueue, pushed + 1)) = Len(m_msgRecvQueue) + 1
    BY PoolMaxMsgs DEF Push, IInv, Basic, TypeOK
  <1>2. (TypeOK /\ QueueCounted)'
    BY <1>1, PoolMaxMsgs DEF Push, MainMoves, IInv, Basic, TypeOK, QueueCounted
  <1>3. (MutexHeld /\ ParkEmpty)'
    BY PoolNoThread DEF Push, IInv, Basic, TypeOK, MutexHeld, ParkEmpty
  <1>4. (Stopping /\ JobHeld /\ MarkedCreated /\ StartedBeforeServing)'
    BY DEF Push, MainMoves, IInv, Basic, Stopping, JobHeld, MarkedCreated,
        StartedBeforeServing
  <1>5. Busy' = Busy /\ Coming' = Coming /\ Waiting' = Waiting
    BY DEF Push, Busy, Coming, Waiting
  <1>6. Cardinality(Coming) \in Nat
    BY ComingThreads, SomeThreads
  <1>7. WorkConserving'
    BY <1>1, <1>5, <1>6 DEF Push, MainMoves, IInv, WorkConserving, PendingSignal
  <1> QED
    BY <1>2, <1>3, <1>4, <1>5, <1>7, BusySame DEF IInv, Basic, Push
LEMMA SignalOK ==
    ASSUME IInv, Signal
    PROVE  IInv'
  <1>1. Basic'
    BY SMTT(30) DEF Signal, MainMoves, queueVars,
        IInv, Basic, TypeOK, MutexHeld, ParkEmpty, QueueCounted, Stopping, JobHeld,
        MarkedCreated, StartedBeforeServing
  <1>2. Busy' = Busy
    BY DEF Signal, Busy, IInv, Basic, TypeOK
  <1>3. WorkConserving'
    <2>1. CASE \A t \in Threads : pc[t] # "wait"
      <3>1. Waiting' = {}
        BY <2>1 DEF Signal, Waiting
      <3> QED
        BY <3>1 DEF WorkConserving
    <2>2. CASE \E t \in Threads : pc[t] = "wait" /\ pc' = [pc EXCEPT ![t] = "relock"]
      <3>1. PICK t \in Threads : pc[t] = "wait" /\ pc' = [pc EXCEPT ![t] = "relock"]
        BY <2>2
      <3>2. Coming' = Coming \cup {t} /\ t \notin Coming /\ t \in Waiting
        BY <3>1 DEF Coming, Waiting, IInv, Basic, TypeOK
      <3>3. Cardinality(Coming') = Cardinality(Coming) + 1 /\ Cardinality(Coming) \in Nat
        BY <3>2, ComingThreads, OneMore, SomeThreads
      <3>4. Len(m_msgRecvQueue) \in Nat
        BY DEF IInv, Basic, TypeOK
      <3> QED
        BY <3>2, <3>3, <3>4
        DEF Signal, MainMoves, queueVars, IInv, WorkConserving, PendingSignal
    <2> QED
      BY <2>1, <2>2 DEF Signal
  <1> QED
    BY <1>1, <1>2, <1>3, BusySame DEF IInv, Signal
LEMMA ShutdownOK ==
    ASSUME IInv, Shutdown
    PROVE  IInv'
  <1>1. Basic'
    BY DEF Shutdown, MainMoves, queueVars,
        IInv, Basic, TypeOK, MutexHeld, ParkEmpty, QueueCounted, Stopping, JobHeld,
        MarkedCreated, StartedBeforeServing
  <1>2. Busy' = Busy
    BY DEF Shutdown, Busy
  <1> QED
    BY <1>1, <1>2, BusySame DEF IInv, WorkConserving, Shutdown
LEMMA BroadcastOK ==
    ASSUME IInv, Broadcast
    PROVE  IInv'
  <1>1. Basic'
    BY DEF Broadcast, MainMoves, queueVars,
        IInv, Basic, TypeOK, MutexHeld, ParkEmpty, QueueCounted, Stopping, JobHeld,
        MarkedCreated, StartedBeforeServing
  <1>2. Busy' = Busy
    BY DEF Broadcast, Busy
  <1> QED
    BY <1>1, <1>2, BusySame
    DEF IInv, Basic, Stopping, WorkConserving, Broadcast, MainMoves
\* The packets of a queue are packets.
LEMMA SeqElements ==
    ASSUME NEW S, NEW q \in Seq(S)
    PROVE  {q[i] : i \in DOMAIN q} \subseteq S
  OBVIOUS

LEMMA DestroyOK ==
    ASSUME IInv, Destroy
    PROVE  IInv'
  <1>1. {m_msgRecvQueue[i] : i \in DOMAIN m_msgRecvQueue} \subseteq 1 .. MaxMsgs
    BY SeqElements DEF IInv, Basic, TypeOK
  <1>2. <<>> \in Seq(1 .. MaxMsgs) /\ Len(<<>>) = 0
    OBVIOUS
  <1>3. (TypeOK /\ QueueCounted)'
    <2>1. freed' \in SUBSET (1 .. MaxMsgs)
      BY <1>1 DEF Destroy, IInv, Basic, TypeOK
    <2>2. m_msgRecvQueue' \in Seq(1 .. MaxMsgs)
      BY <1>2 DEF Destroy
    <2>3. TypeOK'
      BY <2>1, <2>2 DEF Destroy, MainMoves, IInv, Basic, TypeOK
    <2> QED
      BY <1>2, <2>3 DEF Destroy, MainMoves, IInv, Basic, TypeOK, QueueCounted
  <1>4. (MutexHeld /\ ParkEmpty)'
    BY DEF Destroy, IInv, Basic, MutexHeld, ParkEmpty
  <1>5. (Stopping /\ JobHeld /\ MarkedCreated /\ StartedBeforeServing)'
    BY DEF Destroy, MainMoves, IInv, Basic, Stopping, JobHeld, MarkedCreated,
        StartedBeforeServing
  <1>6. Busy' = Busy /\ m_msgRecvQueue' = <<>>
    BY DEF Destroy, Busy
  <1> QED
    BY <1>3, <1>4, <1>5, <1>6, BusySame, EmptyConserves DEF IInv, Basic, Destroy
-----------------------------------------------------------------------------
\* Every step preserves the invariant.
LEMMA NextOK == IInv /\ [Next]_vars => IInv'
  <1> SUFFICES ASSUME IInv, [Next]_vars PROVE IInv' OBVIOUS
  <1>1. CASE UNCHANGED vars
    <2>1. Busy' = Busy /\ Coming' = Coming /\ Waiting' = Waiting
      BY <1>1 DEF vars, Busy, Coming, Waiting
    <2>2. Basic'
      BY <1>1 DEF vars, IInv, Basic, TypeOK, MutexHeld, ParkEmpty, QueueCounted, Stopping, JobHeld,
        MarkedCreated, StartedBeforeServing
    <2> QED
      BY <1>1, <2>1, <2>2, BusySame, SameConserves DEF IInv, vars
  <1>2. ASSUME NEW t \in Threads, ThreadStep(t) PROVE IInv'
    BY <1>2, LockOK, FindNothingOK, ParkOK, QuitOK, TakeOK, BeginOK, HandledOK, EndOK
    DEF ThreadStep
  <1>3. CASE MainStep
    BY <1>3, CreateOK, CreateReturnsOK, SignalOK, BroadcastOK, JoinOK, DestroyOK
    DEF MainStep
  <1> QED
    BY <1>1, <1>2, <1>3, CreateFailsOK, PushOK, ShutdownOK, SpuriousWakeupOK DEF Next

LEMMA IInvAlways == Spec => []IInv
  BY InitOK, NextOK, PTL DEF Spec

\* The variables of the pool keep their types: in particular the two counters
\* never leave 0 .. MaxMsgs and 0 .. m_iThreadNum.
THEOREM TypeCorrect == Spec => []TypeOK
  <1>1. IInv => TypeOK
    BY DEF IInv, Basic
  <1> QED
    BY <1>1, IInvAlways, PTL

\* No wake-up is lost and no packet waits for a busy thread while another one
\* sleeps, for any number of threads and packets.
THEOREM NoLostWakeup == Spec => []WorkConserving
  <1>1. IInv => WorkConserving
    BY DEF IInv
  <1> QED
    BY <1>1, IInvAlways, PTL

\* create() returns only to a pool whose threads all reached their first wait.
THEOREM CreateWaitsForAll == Spec => []StartedBeforeServing
  <1>1. IInv => StartedBeforeServing
    BY DEF IInv, Basic
  <1> QED
    BY <1>1, IInvAlways, PTL

\* The alarm of call() is never raised while a thread is free.
THEOREM AlarmRight == Spec => []NoFalseAlarm
  <1>1. IInv => NoFalseAlarm
    <2> SUFFICES ASSUME IInv, m_iRunningThreadNum = Cardinality(Threads)
                 PROVE  \A t \in Threads : pc[t] \in {"run", "ran"}
      BY DEF NoFalseAlarm
    <2>1. Busy \subseteq Threads /\ Cardinality(Busy) = Cardinality(Threads)
      BY DEF IInv, RunningCounted, Busy
    <2>2. Busy = Threads
      BY <2>1, PoolThreads, FS_Subset
    <2> QED
      BY <2>2 DEF Busy
  <1> QED
    BY <1>1, IInvAlways, PTL
-----------------------------------------------------------------------------
(* Where the packets are: PacketsAccounted and StoppedClean. *)

Accounted == IInv /\ PacketsAccounted /\ StoppedClean

\* A step that touches neither queue, nor hands, nor memory moves no packet.
LEMMA NothingMoves ==
    ASSUME PacketsAccounted, UNCHANGED <<queueVars, jobbuf, freed>>,
           main' = "gone" <=> main = "gone"
    PROVE  PacketsAccounted'
  BY DEF PacketsAccounted, HeldBy, queueVars

LEMMA PushAccounted ==
    ASSUME Accounted, Push
    PROVE  PacketsAccounted'
  <1>1. /\ m_msgRecvQueue \in Seq(1 .. MaxMsgs) /\ pushed \in Nat
        /\ m_msgRecvQueue' = Append(m_msgRecvQueue, pushed + 1)
        /\ pushed' = pushed + 1 /\ jobbuf' = jobbuf /\ freed' = freed
        /\ main # "gone" /\ main' # "gone"
    BY DEF Accounted, IInv, Basic, TypeOK, Push, MainMoves
  <1>2. /\ Len(m_msgRecvQueue) \in Nat
        /\ Len(m_msgRecvQueue') = Len(m_msgRecvQueue) + 1
        /\ DOMAIN m_msgRecvQueue = 1 .. Len(m_msgRecvQueue)
        /\ DOMAIN m_msgRecvQueue' = 1 .. Len(m_msgRecvQueue) + 1
        /\ \A i \in 1 .. Len(m_msgRecvQueue) : m_msgRecvQueue'[i] = m_msgRecvQueue[i]
        /\ m_msgRecvQueue'[Len(m_msgRecvQueue) + 1] = pushed + 1
    BY <1>1
  <1>3. pushed' - Len(m_msgRecvQueue') = pushed - Len(m_msgRecvQueue)
    BY <1>1, <1>2
  <1>4. \A i \in DOMAIN m_msgRecvQueue' :
            m_msgRecvQueue'[i] = pushed' - Len(m_msgRecvQueue') + i
    BY <1>1, <1>2, <1>3 DEF Accounted, PacketsAccounted
  <1> QED
    BY <1>1, <1>3, <1>4 DEF Accounted, PacketsAccounted, HeldBy

LEMMA TakeAccounted ==
    ASSUME Accounted, NEW t \in Threads, Take(t)
    PROVE  PacketsAccounted'
  <1> DEFINE q == m_msgRecvQueue
             gone == pushed - Len(q)
  <1>1. /\ q \in Seq(1 .. MaxMsgs) /\ q # <<>> /\ pushed \in Nat
        /\ q' = Tail(q) /\ pushed' = pushed /\ freed' = freed /\ main' = main
        /\ jobbuf \in [Threads -> 0 .. MaxMsgs]
        /\ jobbuf' = [jobbuf EXCEPT ![t] = Head(q)]
        /\ Len(q) <= pushed
    BY DEF Accounted, IInv, Basic, TypeOK, QueueCounted, Take
  <1>2. /\ Head(q) \in 1 .. MaxMsgs /\ Len(q) \in Nat \ {0} /\ Len(q') = Len(q) - 1
        /\ Head(q) = q[1] /\ \A i \in 1 .. Len(q) - 1 : q'[i] = q[i + 1]
        /\ DOMAIN q = 1 .. Len(q) /\ DOMAIN q' = 1 .. Len(q) - 1
    <2>1. /\ Head(q) \in 1 .. MaxMsgs /\ Tail(q) \in Seq(1 .. MaxMsgs)
          /\ Len(q) \in Nat \ {0} /\ Len(Tail(q)) = Len(q) - 1 /\ Head(q) = q[1]
          /\ \A i \in 1 .. Len(q) - 1 : Tail(q)[i] = q[i + 1]
      BY <1>1, HeadTail
    <2>2. DOMAIN q = 1 .. Len(q) /\ DOMAIN Tail(q) = 1 .. Len(Tail(q))
      BY <1>1, <2>1
    <2> QED BY <1>1, <2>1, <2>2
  <1>3. \A i \in 1 .. Len(q) : q[i] = gone + i
    BY <1>2 DEF Accounted, PacketsAccounted
  <1>4. Head(q) = gone + 1 /\ pushed' - Len(q') = gone + 1 /\ gone \in Nat
    BY <1>1, <1>2, <1>3
  <1>5. \A i \in DOMAIN q' : q'[i] = pushed' - Len(q') + i
    BY <1>2, <1>3, <1>4
  <1>6. jobbuf[t] = NoJob /\ main # "gone"
    BY PoolNoThread DEF Accounted, IInv, Basic, JobHeld, Stopping, Take, Moves
  <1>7. /\ \A u \in Threads : jobbuf[u] # NoJob => jobbuf[u] <= gone /\ jobbuf[u] \notin freed
        /\ \A m \in freed : m <= gone
        /\ \A m \in 1 .. gone : m \in freed \/ \E u \in Threads : jobbuf[u] = m
        /\ \A u, v \in Threads : jobbuf[u] = jobbuf[v] /\ jobbuf[u] # NoJob => u = v
    BY <1>6 DEF Accounted, PacketsAccounted, HeldBy
  <1> HIDE DEF q, gone
  <1>8. \A u \in Threads : u # t => jobbuf'[u] = jobbuf[u]
    BY <1>1
  <1>9. jobbuf'[t] = gone + 1
    BY <1>1, <1>4
  <1>10. \A u \in Threads : jobbuf[u] \in Nat
    BY <1>1
  <1>11. \A u, v \in Threads : jobbuf'[u] = jobbuf'[v] /\ jobbuf'[u] # NoJob => u = v
    <2> SUFFICES ASSUME NEW u \in Threads, NEW v \in Threads,
                        jobbuf'[u] = jobbuf'[v], jobbuf'[u] # NoJob, u # v
                 PROVE  FALSE
      OBVIOUS
    <2>1. CASE u = t
      BY <2>1, <1>4, <1>7, <1>8, <1>9, <1>10
    <2>2. CASE v = t
      BY <2>2, <1>4, <1>7, <1>8, <1>9, <1>10
    <2>3. CASE u # t /\ v # t
      BY <2>3, <1>7, <1>8
    <2> QED BY <2>1, <2>2, <2>3
  <1>12. gone + 1 \notin freed
    BY <1>4, <1>7
  <1>13. \A u \in Threads : jobbuf'[u] # NoJob => jobbuf'[u] <= gone + 1 /\ jobbuf'[u] \notin freed
    <2> SUFFICES ASSUME NEW u \in Threads, jobbuf'[u] # NoJob
                 PROVE  jobbuf'[u] <= gone + 1 /\ jobbuf'[u] \notin freed
      OBVIOUS
    <2>1. CASE u = t
      BY <2>1, <1>4, <1>9, <1>12
    <2>2. CASE u # t
      BY <2>2, <1>4, <1>7, <1>8, <1>10
    <2> QED BY <2>1, <2>2
  <1>14. \A m \in 1 .. gone + 1 : m \in freed \/ \E u \in Threads : jobbuf'[u] = m
    <2> SUFFICES ASSUME NEW m \in 1 .. gone + 1, m \notin freed
                 PROVE  \E u \in Threads : jobbuf'[u] = m
      OBVIOUS
    <2>1. CASE m = gone + 1
      BY <2>1, <1>9
    <2>2. CASE m # gone + 1
      <3>1. m \in 1 .. gone
        BY <2>2, <1>4
      <3>2. PICK u \in Threads : jobbuf[u] = m
        BY <3>1, <1>7
      <3>3. u # t
        BY <3>1, <3>2, <1>6, <1>4 DEF NoJob
      <3> QED BY <3>2, <3>3, <1>8
    <2> QED BY <2>1, <2>2
  <1>15. \A m \in freed : m <= gone + 1
    <2>1. freed \subseteq Nat
      BY DEF Accounted, IInv, Basic, TypeOK
    <2> QED BY <2>1, <1>4, <1>7
  <1> QED
    BY <1>1, <1>4, <1>5, <1>11, <1>13, <1>14, <1>15 DEF PacketsAccounted, HeldBy, q

LEMMA HandledAccounted ==
    ASSUME Accounted, NEW t \in Threads, Handled(t)
    PROVE  PacketsAccounted'
  <1>1. /\ UNCHANGED queueVars /\ main' = main
        /\ jobbuf \in [Threads -> 0 .. MaxMsgs]
        /\ jobbuf' = [jobbuf EXCEPT ![t] = NoJob]
        /\ freed' = freed \cup {jobbuf[t]}
        /\ jobbuf[t] # NoJob
    BY DEF Accounted, IInv, Basic, TypeOK, JobHeld, Handled, Moves
  <1>2. \A u \in Threads : jobbuf'[u] # NoJob => u # t /\ jobbuf'[u] = jobbuf[u]
    BY <1>1
  <1>3. \A u \in Threads : jobbuf'[u] # NoJob => jobbuf[u] # jobbuf[t]
    BY <1>1, <1>2 DEF Accounted, PacketsAccounted
  <1>4. \A u \in Threads : u # t => jobbuf'[u] = jobbuf[u]
    BY <1>1
  <1> QED
    BY <1>1, <1>2, <1>3, <1>4 DEF Accounted, PacketsAccounted, HeldBy, queueVars

LEMMA DestroyAccounted ==
    ASSUME Accounted, Destroy
    PROVE  PacketsAccounted' /\ freed' = 1 .. pushed
  <1> DEFINE q == m_msgRecvQueue
             gone == pushed - Len(q)
  <1>1. /\ q \in Seq(1 .. MaxMsgs) /\ pushed \in Nat /\ Len(q) <= pushed
        /\ q' = <<>> /\ pushed' = pushed /\ jobbuf' = jobbuf
        /\ freed' = freed \cup {q[i] : i \in DOMAIN q}
        /\ freed \subseteq 1 .. MaxMsgs
        /\ main = "stopped" /\ main' = "gone"
    BY DEF Accounted, IInv, Basic, TypeOK, QueueCounted, Destroy, MainMoves
  <1>2. \A t \in Threads : jobbuf[t] = NoJob
    BY <1>1 DEF Accounted, StoppedClean
  <1>3. Len(q) \in Nat /\ DOMAIN q = 1 .. Len(q) /\ gone \in Nat
    BY <1>1
  <1>4. \A i \in 1 .. Len(q) : q[i] = gone + i
    BY <1>3 DEF Accounted, PacketsAccounted
  <1>5. freed = 1 .. gone
    <2>1. \A m \in freed : m \in 1 .. MaxMsgs /\ m <= gone
      BY <1>1 DEF Accounted, PacketsAccounted
    <2>2. \A m \in 1 .. gone : m \in freed \/ \E t \in Threads : jobbuf[t] = m
      BY <1>1 DEF Accounted, PacketsAccounted, HeldBy
    <2>3. \A m \in 1 .. gone : m \in freed
      BY <1>2, <1>3, <2>2 DEF NoJob
    <2>4. freed \subseteq 1 .. gone
      BY <1>3, <2>1
    <2>5. 1 .. gone \subseteq freed
      BY <2>3
    <2> HIDE DEF gone
    <2> QED BY <2>4, <2>5
  <1>6. freed' = 1 .. pushed
    <2>1. freed' \subseteq 1 .. pushed
      BY <1>1, <1>3, <1>4, <1>5
    <2>2. ASSUME NEW m \in 1 .. pushed PROVE m \in freed'
      <3>1. CASE m <= gone
        BY <3>1, <1>1, <1>3, <1>5
      <3>2. CASE ~(m <= gone)
        <4>1. m - gone \in 1 .. Len(q) /\ gone + (m - gone) = m
          BY <3>2, <1>1, <1>3
        <4> QED BY <4>1, <1>1, <1>3, <1>4
      <3> QED BY <3>1, <3>2
    <2> QED BY <2>1, <2>2
  <1>7. DOMAIN m_msgRecvQueue' = {}
    BY <1>1
  <1>8. PacketsAccounted'
    BY <1>1, <1>2, <1>7 DEF PacketsAccounted, NoJob
  <1> QED BY <1>6, <1>8

LEMMA AccountedInit == Init => Accounted
  <1> SUFFICES ASSUME Init PROVE Accounted OBVIOUS
  <1>1. PacketsAccounted
    BY DEF Init, PacketsAccounted, NoJob
  <1> QED
    BY <1>1, InitOK DEF Accounted, StoppedClean, Init

LEMMA AccountedNext == Accounted /\ [Next]_vars => Accounted'
  <1> SUFFICES ASSUME Accounted, [Next]_vars PROVE Accounted' OBVIOUS
  <1>1. IInv'
    BY NextOK DEF Accounted
  <1>2. PacketsAccounted'
    <2>1. ASSUME NEW t \in Threads, ThreadStep(t) \/ SpuriousWakeup(t)
          PROVE  PacketsAccounted'
      <3>1. CASE Take(t) \/ Handled(t)
        BY <3>1, TakeAccounted, HandledAccounted
      <3>2. CASE ~(Take(t) \/ Handled(t))
        <4>1. UNCHANGED <<queueVars, jobbuf, freed, main>>
          BY <2>1, <3>2 DEF ThreadStep, Lock, FindNothing, Park, Quit, Begin, End,
              SpuriousWakeup
        <4> QED BY <4>1, NothingMoves DEF Accounted
      <3> QED BY <3>1, <3>2
    <2>2. CASE (\E t \in Threads : Create(t)) \/ CreateReturns \/ Signal \/ Broadcast
               \/ Join \/ CreateFails \/ Shutdown \/ UNCHANGED vars
      <3>1. UNCHANGED <<queueVars, jobbuf, freed>> /\ (main' = "gone" <=> main = "gone")
        BY <2>2 DEF Create, CreateReturns, Signal, Broadcast, Join, CreateFails,
            Shutdown, MainMoves, vars, queueVars
      <3> QED BY <3>1, NothingMoves DEF Accounted
    <2> QED
      BY <2>1, <2>2, PushAccounted, DestroyAccounted DEF Next, MainStep
  <1>3. StoppedClean'
    <2>1. ASSUME main' \in {"stopped", "gone"}
          PROVE  \A t \in Threads : pc'[t] = "exited" /\ jobbuf'[t] = NoJob
      BY <1>1, <2>1 DEF IInv, Basic, Stopping, JobHeld
    <2>2. ASSUME main' = "gone" PROVE freed' = 1 .. pushed'
      <3>1. CASE main = "gone"
        <4>1. \A t \in Threads : pc[t] = "exited"
          BY <3>1 DEF Accounted, StoppedClean
        <4>2. freed = 1 .. pushed
          BY <3>1 DEF Accounted, StoppedClean
        <4>3. UNCHANGED <<freed, pushed>>
          BY <3>1, <4>1 DEF Next, MainStep, ThreadStep, Lock, FindNothing, Park, Quit,
              Take, Begin, Handled, End, SpuriousWakeup, Moves, MainMoves, Create,
              CreateReturns, Signal, Broadcast, Join, Destroy, CreateFails, Push,
              Shutdown, vars, queueVars
        <4> QED BY <4>2, <4>3
      <3>2. CASE main # "gone"
        <4>1. Destroy
          BY <2>2, <3>2 DEF Next, MainStep, ThreadStep, Lock, FindNothing, Park, Quit,
              Take, Begin, Handled, End, SpuriousWakeup, MainMoves, Create,
              CreateReturns, Signal, Broadcast, Join, CreateFails, Push,
              Shutdown, vars
        <4> QED BY <4>1, DestroyAccounted DEF Destroy
      <3> QED BY <3>1, <3>2
    <2> QED BY <2>1, <2>2 DEF StoppedClean
  <1> QED BY <1>1, <1>2, <1>3 DEF Accounted

\* No packet is lost, handled twice or overtaken, from push to release.
THEOREM NoPacketLost == Spec => []PacketsAccounted
  <1>1. Accounted => PacketsAccounted
    BY DEF Accounted
  <1> QED
    BY <1>1, AccountedInit, AccountedNext, PTL DEF Spec

\* After stopAll() the threads are gone; after the destructor every packet
\* ever pushed has been released.
THEOREM StopsClean == Spec => []StoppedClean
  <1>1. Accounted => StoppedClean
    BY DEF Accounted
  <1> QED
    BY <1>1, AccountedInit, AccountedNext, PTL DEF Spec
-----------------------------------------------------------------------------
(* The refinement: every step of the pool is a step of JobQueue or a stutter. *)

\* The packets in the threads' hands, as JobQueue sees them.
InHand == {jobbuf[t] : t \in Threads} \ {NoJob}

\* A thread without a packet leaves room for one more handler.
LEMMA RoomForOne ==
    ASSUME Accounted, NEW t \in Threads, jobbuf[t] = NoJob
    PROVE  Cardinality(InHand) < Cardinality(Threads)
  <1> DEFINE S == {u \in Threads : jobbuf[u] # NoJob}
             f == [u \in S |-> jobbuf[u]]
  <1>1. S \in SUBSET Threads /\ S \in SUBSET (Threads \ {t}) /\ t \notin S
    OBVIOUS
  <1>2. f \in [S -> InHand]
    BY DEF InHand
  <1>3. \A m \in InHand : \E u \in S : f[u] = m
    BY DEF InHand
  <1>4. f \in Surjection(S, InHand)
    BY <1>2, <1>3 DEF Surjection
  <1>5. IsFiniteSet(S)
    BY <1>1, SomeThreads
  <1>6. Cardinality(InHand) <= Cardinality(S) /\ IsFiniteSet(InHand)
    BY <1>4, <1>5, FS_Surjection
  <1>7. S \cup {t} \in SUBSET Threads /\ Cardinality(S \cup {t}) = Cardinality(S) + 1
    BY <1>1, OneMore
  <1>8. Cardinality(S \cup {t}) <= Cardinality(Threads)
    BY <1>7, PoolThreads, FS_Subset
  <1>9. Cardinality(InHand) \in Nat /\ Cardinality(S) \in Nat /\ Cardinality(Threads) \in Nat
    BY <1>5, <1>6, PoolThreads, FS_CardinalityType
  <1> QED BY <1>6, <1>7, <1>8, <1>9

LEMMA TakeStarts ==
    ASSUME Accounted, NEW t \in Threads, Take(t)
    PROVE  JQ!Start
  <1>1. jobbuf \in [Threads -> 0 .. MaxMsgs] /\ m_msgRecvQueue \in Seq(1 .. MaxMsgs)
    BY DEF Accounted, IInv, Basic, TypeOK
  <1>2. jobbuf[t] = NoJob
    BY DEF Accounted, IInv, Basic, JobHeld, Take, Moves
  <1>3. Head(m_msgRecvQueue) \in 1 .. MaxMsgs
    BY <1>1, HeadTail DEF Take
  <1>4. InHand' = InHand \cup {Head(m_msgRecvQueue)}
    <2>1. jobbuf' = [jobbuf EXCEPT ![t] = Head(m_msgRecvQueue)]
      BY DEF Take
    <2>2. Head(m_msgRecvQueue) # NoJob
      BY <1>3 DEF NoJob
    <2> QED BY <1>1, <1>2, <2>1, <2>2 DEF InHand
  <1>5. JQ!Cardinality(InHand) = Cardinality(InHand)
    BY DEF JQ!Cardinality, Cardinality
  <1> QED
    BY <1>2, <1>4, <1>5, RoomForOne DEF JQ!Start, Take, InHand

LEMMA HandledFinishes ==
    ASSUME Accounted, NEW t \in Threads, Handled(t)
    PROVE  JQ!Finish
  <1>1. jobbuf \in [Threads -> 0 .. MaxMsgs]
    BY DEF Accounted, IInv, Basic, TypeOK
  <1>2. jobbuf[t] # NoJob /\ jobbuf[t] \notin freed
    BY DEF Accounted, IInv, Basic, JobHeld, Handled, Moves, PacketsAccounted
  <1>3. \A u \in Threads : jobbuf[u] = jobbuf[t] => u = t
    BY <1>2 DEF Accounted, PacketsAccounted
  <1>4. jobbuf' = [jobbuf EXCEPT ![t] = NoJob] /\ freed' = freed \cup {jobbuf[t]}
    BY DEF Handled
  <1>5. jobbuf[t] \in InHand
    BY <1>2 DEF InHand
  <1>6. InHand' = InHand \ {jobbuf[t]}
    BY <1>1, <1>3, <1>4 DEF InHand
  <1> QED
    BY <1>2, <1>4, <1>5, <1>6 DEF JQ!Finish, Handled, InHand, queueVars

LEMMA PushArrives ==
    ASSUME Accounted, Push
    PROVE  JQ!Arrive
  <1>1. ~m_shutdown
    BY DEF Accounted, IInv, Basic, Stopping, Push, MainMoves
  <1> QED
    BY <1>1 DEF JQ!Arrive, Push

LEMMA DestroyClears ==
    ASSUME Accounted, Destroy
    PROVE  JQ!Clear
  <1>1. m_shutdown
    BY DEF Accounted, IInv, Basic, Stopping, Destroy, MainMoves
  <1>2. \A t \in Threads : jobbuf[t] = NoJob
    BY DEF Accounted, StoppedClean, Destroy, MainMoves
  <1>3. InHand = {}
    BY <1>2 DEF InHand
  <1> QED
    BY <1>1, <1>3 DEF JQ!Clear, Destroy, InHand

LEMMA JobStep == Accounted /\ [Next]_vars => [JQ!Next]_(JQ!jobs)
  <1> SUFFICES ASSUME Accounted, [Next]_vars
               PROVE  JQ!Next \/ UNCHANGED JQ!jobs
    OBVIOUS
  <1> USE DEF JQ!Next
  <1>1. ASSUME NEW t \in Threads, Take(t) \/ Handled(t)
        PROVE  JQ!Next
    BY <1>1, TakeStarts, HandledFinishes
  <1>2. ASSUME NEW t \in Threads, ThreadStep(t) \/ SpuriousWakeup(t),
               ~(Take(t) \/ Handled(t))
        PROVE  UNCHANGED JQ!jobs
    BY <1>2 DEF ThreadStep, Lock, FindNothing, Park, Quit, Begin, End, SpuriousWakeup,
        JQ!jobs, queueVars
  <1>3. CASE Push
    BY <1>3, PushArrives
  <1>4. CASE Destroy
    BY <1>4, DestroyClears
  <1>5. CASE Shutdown
    BY <1>5 DEF Shutdown, JQ!Close, queueVars
  <1>6. CASE (\E t \in Threads : Create(t)) \/ CreateReturns \/ Signal \/ Broadcast
             \/ Join \/ CreateFails \/ UNCHANGED vars
    BY <1>6 DEF Create, CreateReturns, Signal, Broadcast, Join, CreateFails, JQ!jobs,
        vars, queueVars
  <1> QED
    BY <1>1, <1>2, <1>3, <1>4, <1>5, <1>6 DEF Next, MainStep

LEMMA JobInit == Init => JQ!Init
  <1> SUFFICES ASSUME Init PROVE JQ!Init OBVIOUS
  <1>1. \A t \in Threads : jobbuf[t] = NoJob
    BY DEF Init
  <1> QED BY <1>1 DEF Init, JQ!Init

\* The thread pool implements the job queue, for any number of threads and
\* packets: packets are taken up in order, each is handled and released once.
THEOREM PoolIsJobQueue == Spec => ImplementsJobQueue
  <1> QED
    BY JobInit, JobStep, AccountedInit, AccountedNext, PTL
    DEF Spec, ImplementsJobQueue, JQ!Spec
=============================================================================
