------------------------------ MODULE ThreadPool ------------------------------
(***************************************************************************)
(* CThreadPool (misc/ngx_c_threadpool.cpp): the pool threads that take     *)
(* received packets from m_msgRecvQueue, and the worker's main thread,     *)
(* which creates the pool, pushes packets and, if its event loop ever      *)
(* ended, would stop the pool.                                             *)
(*                                                                         *)
(* A packet is the number of its arrival.  A step that holds m_pthreadMutex*)
(* and touches only what the mutex protects is one action; m_shutdown and  *)
(* ifRunning are read or written without the mutex, so the steps around    *)
(* them are separate.                                                      *)
(***************************************************************************)
EXTENDS Integers, Sequences, FiniteSets

CONSTANTS
    Threads,        \* the m_iThreadNum pool threads
    NoThread,       \* value of the mutex when nobody holds it
    MaxMsgs,        \* bound: packets pushed in one behaviour
    StopAllCalled   \* does the main thread ever reach stopAll()?

ASSUME PoolThreads == IsFiniteSet(Threads) /\ Threads # {}
ASSUME PoolNoThread == NoThread \notin Threads
ASSUME PoolMaxMsgs == MaxMsgs \in Nat
ASSUME PoolStop == StopAllCalled \in BOOLEAN

NoJob == 0

VARIABLES
    m_pthreadMutex,       \* the thread that holds it, or NoThread
    m_msgRecvQueue,       \* packets waiting for a thread
    m_iRecvMsgQueueCount,
    m_iRunningThreadNum,
    m_shutdown,
    ifRunning,            \* ThreadItem::ifRunning of each thread
    pc,                   \* control point of each pool thread
    jobbuf,               \* packet a thread holds
    main,                 \* control point of the main thread
    pushed,               \* packets pushed so far
    freed                 \* packets whose memory was released

vars == <<m_pthreadMutex, m_msgRecvQueue, m_iRecvMsgQueueCount,
          m_iRunningThreadNum, m_shutdown, ifRunning, pc, jobbuf, main,
          pushed, freed>>

queueVars == <<m_msgRecvQueue, m_iRecvMsgQueueCount, pushed>>

Init ==
    /\ m_pthreadMutex = NoThread
    /\ m_msgRecvQueue = <<>>
    /\ m_iRecvMsgQueueCount = 0
    /\ m_iRunningThreadNum = 0
    /\ m_shutdown = FALSE
    /\ ifRunning = [t \in Threads |-> FALSE]
    /\ pc = [t \in Threads |-> "none"]
    /\ jobbuf = [t \in Threads |-> NoJob]
    /\ main = "create"
    /\ pushed = 0
    /\ freed = {}

Alive == main # "exit"

\* Thread t goes from one control point to another.
Moves(t, from, to) ==
    /\ Alive
    /\ pc[t] = from
    /\ pc' = [pc EXCEPT ![t] = to]

-----------------------------------------------------------------------------
(* threadFunc *)

Lock(t, from) ==
    /\ Moves(t, from, "test")
    /\ m_pthreadMutex = NoThread
    /\ m_pthreadMutex' = t
    /\ UNCHANGED <<queueVars, m_iRunningThreadNum, m_shutdown, ifRunning,
                   jobbuf, main, freed>>

\* Queue empty and no shutdown: mark the thread as started, then wait.
FindNothing(t) ==
    /\ Moves(t, "test", "park")
    /\ m_msgRecvQueue = <<>>
    /\ ~m_shutdown
    /\ ifRunning' = [ifRunning EXCEPT ![t] = TRUE]
    /\ UNCHANGED <<m_pthreadMutex, queueVars, m_iRunningThreadNum, m_shutdown,
                   jobbuf, main, freed>>

\* pthread_cond_wait releases the mutex and sleeps in one step.
Park(t) ==
    /\ Moves(t, "park", "wait")
    /\ m_pthreadMutex' = NoThread
    /\ UNCHANGED <<queueVars, m_iRunningThreadNum, m_shutdown, ifRunning,
                   jobbuf, main, freed>>

\* The wake-ups nobody asked for that POSIX allows.
SpuriousWakeup(t) ==
    /\ Moves(t, "wait", "relock")
    /\ UNCHANGED <<m_pthreadMutex, queueVars, m_iRunningThreadNum, m_shutdown,
                   ifRunning, jobbuf, main, freed>>

Quit(t) ==
    /\ Moves(t, "test", "exited")
    /\ m_shutdown
    /\ m_pthreadMutex' = NoThread
    /\ UNCHANGED <<queueVars, m_iRunningThreadNum, m_shutdown, ifRunning,
                   jobbuf, main, freed>>

\* Mutant of Take: the thread takes the newest packet.
TakeNewest(t) ==
    /\ Moves(t, "test", "taken")
    /\ ~m_shutdown
    /\ m_msgRecvQueue # <<>>
    /\ jobbuf' = [jobbuf EXCEPT ![t] = m_msgRecvQueue[Len(m_msgRecvQueue)]]
    /\ m_msgRecvQueue' = SubSeq(m_msgRecvQueue, 1, Len(m_msgRecvQueue) - 1)
    /\ m_iRecvMsgQueueCount' = m_iRecvMsgQueueCount - 1
    /\ m_pthreadMutex' = NoThread
    /\ UNCHANGED <<pushed, m_iRunningThreadNum, m_shutdown, ifRunning, main,
                   freed>>

Take(t) ==
    /\ Moves(t, "test", "taken")
    /\ ~m_shutdown
    /\ m_msgRecvQueue # <<>>
    /\ jobbuf' = [jobbuf EXCEPT ![t] = Head(m_msgRecvQueue)]
    /\ m_msgRecvQueue' = Tail(m_msgRecvQueue)
    /\ m_iRecvMsgQueueCount' = m_iRecvMsgQueueCount - 1
    /\ m_pthreadMutex' = NoThread
    /\ UNCHANGED <<pushed, m_iRunningThreadNum, m_shutdown, ifRunning, main,
                   freed>>

Begin(t) ==
    /\ Moves(t, "taken", "run")
    /\ m_iRunningThreadNum' = m_iRunningThreadNum + 1
    /\ UNCHANGED <<m_pthreadMutex, queueVars, m_shutdown, ifRunning, jobbuf,
                   main, freed>>

\* threadRecvProcFunc returns and the packet is released.
Handled(t) ==
    /\ Moves(t, "run", "ran")
    /\ freed' = freed \cup {jobbuf[t]}
    /\ jobbuf' = [jobbuf EXCEPT ![t] = NoJob]
    /\ UNCHANGED <<m_pthreadMutex, queueVars, m_iRunningThreadNum, m_shutdown,
                   ifRunning, main>>

\* Mutant of End: the thread never leaves the count of running threads.
EndUncounted(t) ==
    /\ Moves(t, "ran", "lock")
    /\ UNCHANGED <<m_pthreadMutex, queueVars, m_iRunningThreadNum, m_shutdown,
                   ifRunning, jobbuf, main, freed>>

End(t) ==
    /\ Moves(t, "ran", "lock")
    /\ m_iRunningThreadNum' = m_iRunningThreadNum - 1
    /\ UNCHANGED <<m_pthreadMutex, queueVars, m_shutdown, ifRunning, jobbuf,
                   main, freed>>

-----------------------------------------------------------------------------
(* The main thread: create, inMsgRecvQueueAndSignal + call, stopAll *)

MainMoves(from, to) ==
    /\ main = from
    /\ main' = to

\* pthread_create of the next thread.
Create(t) ==
    /\ main = "create"
    /\ pc[t] = "none"
    /\ pc' = [pc EXCEPT ![t] = "lock"]
    /\ main' = IF \A u \in Threads \ {t} : pc[u] # "none" THEN "await" ELSE "create"
    /\ UNCHANGED <<m_pthreadMutex, queueVars, m_iRunningThreadNum, m_shutdown,
                   ifRunning, jobbuf, freed>>

\* pthread_create fails: create() returns false and the worker exits.
CreateFails ==
    /\ MainMoves("create", "exit")
    /\ UNCHANGED <<m_pthreadMutex, queueVars, m_iRunningThreadNum, m_shutdown,
                   ifRunning, pc, jobbuf, freed>>

\* The lblfor loop ends when it sees every thread marked.
CreateReturns ==
    /\ MainMoves("await", "serve")
    /\ \A t \in Threads : ifRunning[t]
    /\ UNCHANGED <<m_pthreadMutex, queueVars, m_iRunningThreadNum, m_shutdown,
                   ifRunning, pc, jobbuf, freed>>

Push ==
    /\ MainMoves("serve", "call")
    /\ pushed < MaxMsgs
    /\ m_pthreadMutex = NoThread
    /\ pushed' = pushed + 1
    /\ m_msgRecvQueue' = Append(m_msgRecvQueue, pushed + 1)
    /\ m_iRecvMsgQueueCount' = m_iRecvMsgQueueCount + 1
    /\ UNCHANGED <<m_pthreadMutex, m_iRunningThreadNum, m_shutdown, ifRunning,
                   pc, jobbuf, freed>>

\* Mutant of Signal: the push forgets to signal.
SignalLost ==
    /\ MainMoves("call", "serve")
    /\ UNCHANGED <<m_pthreadMutex, queueVars, m_iRunningThreadNum, m_shutdown,
                   ifRunning, pc, jobbuf, freed>>

\* pthread_cond_signal: one sleeping thread, if there is one.
Signal ==
    /\ MainMoves("call", "serve")
    /\ \/ \E t \in Threads :
            /\ pc[t] = "wait"
            /\ pc' = [pc EXCEPT ![t] = "relock"]
       \/ /\ \A t \in Threads : pc[t] # "wait"
          /\ UNCHANGED pc
    /\ UNCHANGED <<m_pthreadMutex, queueVars, m_iRunningThreadNum, m_shutdown,
                   ifRunning, jobbuf, freed>>

\* stopAll sets m_shutdown without the mutex ...
Shutdown ==
    /\ StopAllCalled
    /\ MainMoves("serve", "broadcast")
    /\ m_shutdown' = TRUE
    /\ UNCHANGED <<m_pthreadMutex, queueVars, m_iRunningThreadNum, ifRunning,
                   pc, jobbuf, freed>>

\* ... and then wakes the threads that sleep at this moment.
Broadcast ==
    /\ MainMoves("broadcast", "join")
    /\ pc' = [t \in Threads |-> IF pc[t] = "wait" THEN "relock" ELSE pc[t]]
    /\ UNCHANGED <<m_pthreadMutex, queueVars, m_iRunningThreadNum, m_shutdown,
                   ifRunning, jobbuf, freed>>

\* Mutant of Join: only one thread is joined.
JoinOne ==
    /\ MainMoves("join", "stopped")
    /\ \E t \in Threads : pc[t] = "exited"
    /\ UNCHANGED <<m_pthreadMutex, queueVars, m_iRunningThreadNum, m_shutdown,
                   ifRunning, pc, jobbuf, freed>>

\* pthread_join of every thread, then the mutex and the items are destroyed.
Join ==
    /\ MainMoves("join", "stopped")
    /\ \A t \in Threads : pc[t] = "exited"
    /\ UNCHANGED <<m_pthreadMutex, queueVars, m_iRunningThreadNum, m_shutdown,
                   ifRunning, pc, jobbuf, freed>>

\* ~CThreadPool: clearMsgRecvQueue releases what was never taken.
Destroy ==
    /\ MainMoves("stopped", "gone")
    /\ freed' = freed \cup {m_msgRecvQueue[i] : i \in DOMAIN m_msgRecvQueue}
    /\ m_msgRecvQueue' = <<>>
    /\ UNCHANGED <<m_pthreadMutex, m_iRecvMsgQueueCount, m_iRunningThreadNum,
                   m_shutdown, ifRunning, pc, jobbuf, pushed>>

-----------------------------------------------------------------------------
ThreadStep(t) ==
    \/ Lock(t, "lock") \/ Lock(t, "relock")
    \/ FindNothing(t) \/ Park(t) \/ Quit(t) \/ Take(t)
    \/ Begin(t) \/ Handled(t) \/ End(t)

MainStep ==
    \/ \E t \in Threads : Create(t)
    \/ CreateReturns \/ Signal \/ Broadcast \/ Join \/ Destroy

Next ==
    \/ MainStep \/ CreateFails \/ Push \/ Shutdown
    \/ \E t \in Threads : ThreadStep(t) \/ SpuriousWakeup(t)

Spec == Init /\ [][Next]_vars

(* A runnable thread keeps running and a handler returns; clients owe us no
   packets, and nothing forces a failure, a spurious wake-up or a stop. *)
FairSpec ==
    /\ Spec
    /\ WF_vars(MainStep)
    /\ \A t \in Threads : WF_vars(ThreadStep(t))

-----------------------------------------------------------------------------
TypeOK ==
    /\ m_pthreadMutex \in Threads \cup {NoThread}
    /\ m_msgRecvQueue \in Seq(1 .. MaxMsgs)
    /\ m_iRecvMsgQueueCount \in 0 .. MaxMsgs
    /\ m_iRunningThreadNum \in 0 .. Cardinality(Threads)
    /\ m_shutdown \in BOOLEAN
    /\ ifRunning \in [Threads -> BOOLEAN]
    /\ pc \in [Threads -> {"none", "lock", "test", "park", "wait", "relock",
                           "taken", "run", "ran", "exited"}]
    /\ jobbuf \in [Threads -> 0 .. MaxMsgs]
    /\ main \in {"create", "await", "serve", "call", "broadcast", "join",
                 "stopped", "gone", "exit"}
    /\ pushed \in 0 .. MaxMsgs
    /\ freed \in SUBSET (1 .. MaxMsgs)

Waiting == {t \in Threads : pc[t] = "wait"}

\* Threads that will look at the queue again before they sleep.
Coming == {t \in Threads : pc[t] \in {"lock", "test", "relock", "ran"}}

PendingSignal == IF main = "call" THEN 1 ELSE 0

\* While any thread sleeps in pthread_cond_wait, every queued packet has a
\* thread of its own on the way to the queue, or its signal is about to be
\* sent: the push, which signals after it unlocked, loses no wake-up, and no
\* packet waits for a busy thread while another one idles.
WorkConserving ==
    ~m_shutdown /\ Waiting # {} =>
        Len(m_msgRecvQueue) <= Cardinality(Coming) + PendingSignal

\* Every packet pushed is in exactly one place: the queue, one thread's hands,
\* or released; the queue holds the latest ones in arrival order.  So a packet
\* is handled once, released once and never overtaken in the queue.
HeldBy(m) == {t \in Threads : jobbuf[t] = m}

PacketsAccounted ==
    /\ \A i \in DOMAIN m_msgRecvQueue :
            m_msgRecvQueue[i] = pushed - Len(m_msgRecvQueue) + i
    /\ \A t, u \in Threads : jobbuf[t] = jobbuf[u] /\ jobbuf[t] # NoJob => t = u
    /\ \A t \in Threads : jobbuf[t] # NoJob =>
            jobbuf[t] <= pushed - Len(m_msgRecvQueue) /\ jobbuf[t] \notin freed
    /\ main # "gone" =>
        \A m \in 1 .. pushed - Len(m_msgRecvQueue) : m \in freed \/ HeldBy(m) # {}
    /\ main # "gone" =>
        \A m \in freed : m <= pushed - Len(m_msgRecvQueue)

\* After create() returned, whenever the mutex is free every thread has been
\* through the started mark and is waiting or beyond: no packet is pushed to a
\* pool with a thread that has not started.
StartedBeforeServing ==
    main \in {"serve", "call"} => \A t \in Threads : pc[t] # "none" /\ ifRunning[t]

\* When stopAll() has returned, the threads are gone and hold no packet, and
\* the destructor that follows leaves no packet unreleased.
StoppedClean ==
    /\ main \in {"stopped", "gone"} =>
        \A t \in Threads : pc[t] = "exited" /\ jobbuf[t] = NoJob
    /\ main = "gone" => freed = 1 .. pushed

\* The alarm of call() (m_iRunningThreadNum = m_iThreadNum) is raised only when
\* every thread really is inside a handler.
NoFalseAlarm ==
    m_iRunningThreadNum = Cardinality(Threads) =>
        \A t \in Threads : pc[t] \in {"run", "ran"}

\* Every packet pushed is handled, whatever the interleaving of the pushes,
\* the signals and the threads that go to sleep, unless the pool is stopped.
EveryPacketHandled ==
    \A m \in 1 .. MaxMsgs : (pushed >= m) ~> (m \in freed \/ m_shutdown)

\* The pool is a job queue: seen from outside, with the packets in the threads'
\* hands as those being handled, every step is a step of JobQueue or changes
\* nothing.  So packets are taken up in order and by at most m_iThreadNum handlers
\* at a time, and nothing is taken up after m_shutdown was set.
JQ == INSTANCE JobQueue WITH
        Size <- Cardinality(Threads),
        arrived <- pushed,
        waiting <- m_msgRecvQueue,
        handling <- {jobbuf[t] : t \in Threads} \ {NoJob},
        released <- freed,
        closed <- m_shutdown

ImplementsJobQueue == JQ!Spec
=============================================================================
