--------------------------------- MODULE Worker ---------------------------------
(***************************************************************************)
(* The threads of a worker process together, lock by lock: the main thread *)
(* accepts clients and reads packets, pool threads handle them, the timer  *)
(* thread looks for silent clients, the send thread sends replies and the  *)
(* recycling thread gives connections back.  Each may close a connection   *)
(* but the last two, and a pool thread does so inside msgSend, with two    *)
(* mutexes locked.                                                         *)
(*                                                                         *)
(* What a single component does in detail is in its own module; here are   *)
(* the mutexes that are held while another is waited for, and the state    *)
(* that threads of different components share.  m_connectionMutex and      *)
(* m_recvMessageQueueMutex are held for one step only and need no owner.   *)
(***************************************************************************)
EXTENDS Integers, Sequences, FiniteSets, SequencesExt

CONSTANTS
    Workers,                         \* pool threads
    Main, Timer, Sender, Recycler,   \* the other threads
    Conns,                           \* connection objects there can be
    Prepared,                        \* those that initconnection makes
    Nobody,                          \* owner of a mutex that is free
    MaxPending,     \* 400 in msgSend
    MaxClients,     \* bound: clients that connect in one behaviour
    MaxPackets,     \* bound: packets they send
    RecyclerRuns    \* Initialize_subproc does not start ServerRecyConnectionThread;
                    \* TRUE if it is to run

ASSUME WorkerLimits ==
    /\ MaxPending \in Nat /\ MaxClients \in Nat /\ MaxPackets \in Nat
    /\ RecyclerRuns \in BOOLEAN
ASSUME WorkerThreads ==
    /\ IsFiniteSet(Workers) /\ IsFiniteSet(Conns) /\ Prepared \subseteq Conns
    /\ Cardinality({Main, Timer, Sender, Recycler, Nobody} \ Workers) = 5

Threads == Workers \cup {Main, Timer, Sender, Recycler}

\* A mutex: one of these, or a connection for its logicPorcMutex.
SendMutex == "m_sendMessageQueueMutex"
TimeMutex == "m_timequeueMutex"
RecyMutex == "m_recyconnqueueMutex"
Mutexes == Conns \cup {SendMutex, TimeMutex, RecyMutex}

ASSUME WorkerMutexes == Conns \cap {SendMutex, TimeMutex, RecyMutex} = {}

VARIABLES
    pc,                     \* where each thread is
    work,                   \* the packet, entry or reply it is at: none or one
    owner,                  \* of each mutex
    iCurrsequence,          \* of each connection
    iSendCount,             \* of each connection
    open,                   \* connections whose fd is not -1
    m_connectionList,       \* the connections made so far, as a set
    m_freeconnectionList,
    m_recyconnectionList,
    m_MsgRecvQueue,         \* packets for the pool
    m_MsgSendQueue,         \* replies
    m_timerQueuemap,        \* entries, without their times
    m_lsIdleList,           \* entries the timer thread took from it
    clients, packets,       \* so far
    client,                 \* of each connection: the present or the last client
    gone, twice             \* history: clients whose connection was put into the list
                            \* for recycling; connections that were for a client in it

connVars == <<iCurrsequence, iSendCount, open>>
listVars == <<m_connectionList, m_freeconnectionList, m_recyconnectionList>>
queueVars == <<m_MsgRecvQueue, m_MsgSendQueue>>
timerVars == <<m_timerQueuemap, m_lsIdleList>>
clientVars == <<clients, client, gone, twice>>
vars == <<pc, work, owner, connVars, listVars, queueVars, timerVars, packets, clientVars>>

\* A packet, a timer entry and a reply carry their connection and the sequence
\* number it had; the client is for the properties only.
Tagged(c) == [conn |-> c, iCurrsequence |-> iCurrsequence[c], client |-> client[c]]
Current(p) == p.iCurrsequence = iCurrsequence[p.conn]

Init ==
    /\ pc = [t \in Threads |-> "loop"]
    /\ work = [t \in Threads |-> {}]
    /\ owner = [m \in Mutexes |-> Nobody]
    /\ iCurrsequence = [c \in Conns |-> 0]
    /\ iSendCount = [c \in Conns |-> 0]
    /\ open = {}
    /\ m_connectionList = Prepared
    /\ m_freeconnectionList = CHOOSE s \in [1 .. Cardinality(Prepared) -> Prepared] :
                                 \A c \in Prepared : \E i \in DOMAIN s : s[i] = c
    /\ m_recyconnectionList = <<>>
    /\ m_MsgRecvQueue = <<>> /\ m_MsgSendQueue = <<>>
    /\ m_timerQueuemap = {} /\ m_lsIdleList = {}
    /\ clients = 0 /\ packets = 0
    /\ client = [c \in Conns |-> 0] /\ gone = {} /\ twice = {}

Goes(t, from, to) == pc[t] = from /\ pc' = [pc EXCEPT ![t] = to]
Holds(t, p) == work' = [work EXCEPT ![t] = {p}]
Drops(t) == work' = [work EXCEPT ![t] = {}]

\* pthread_mutex_lock that returns, for a mutex kept; and one that is let go again
\* in the same step.
Locks(t, m) == owner[m] = Nobody /\ owner' = [owner EXCEPT ![m] = t]
Free(m) == owner[m] = Nobody
Unlocks(t, M) ==
    owner' = [m \in Mutexes |-> IF m \in M /\ owner[m] = t THEN Nobody ELSE owner[m]]

-----------------------------------------------------------------------------
(* zdClosesocketProc, by any of the threads that reach "close" *)

\* DeleteFromTimerQueue, and close() of the socket.
CloseSocket(t) ==
    /\ Goes(t, "close", "recycle")
    /\ Free(TimeMutex)
    /\ \E p \in work[t] :
          /\ m_timerQueuemap' = {e \in m_timerQueuemap : e.conn # p.conn}
          /\ open' = open \ {p.conn}
    /\ UNCHANGED <<work, owner, iCurrsequence, iSendCount, listVars, queueVars, m_lsIdleList,
                   packets, clientVars>>

\* inRecyConnectQueue; a pool thread returns into msgSend with its mutex locked.
CloseRecycle(t) ==
    /\ Goes(t, "recycle", IF t \in Workers THEN "unlock" ELSE "loop")
    /\ Free(RecyMutex)
    /\ \E p \in work[t] :
          /\ iCurrsequence' = [iCurrsequence EXCEPT ![p.conn] = @ + 1]
          /\ m_recyconnectionList' = Append(m_recyconnectionList, p.conn)
          /\ gone' = gone \cup {p.client}
          /\ twice' = IF p.client \in gone THEN twice \cup {p.conn} ELSE twice
    /\ Drops(t)
    /\ UNCHANGED <<owner, iSendCount, open, m_connectionList, m_freeconnectionList,
                   queueVars, timerVars,
                   packets, clients, client>>

-----------------------------------------------------------------------------
(* Main thread *)

\* ngx_get_connection, with a new connection if none is free; GetOneToUse.
Accept(c) ==
    /\ clients < MaxClients /\ clients' = clients + 1
    /\ Goes(Main, "loop", "addTimer")
    /\ \/ /\ m_freeconnectionList # <<>> /\ c = Head(m_freeconnectionList)
          /\ m_freeconnectionList' = Tail(m_freeconnectionList)
          /\ UNCHANGED m_connectionList
       \/ /\ m_freeconnectionList = <<>> /\ c \notin m_connectionList
          /\ m_connectionList' = m_connectionList \cup {c}
          /\ UNCHANGED m_freeconnectionList
    /\ iCurrsequence' = [iCurrsequence EXCEPT ![c] = @ + 1]
    /\ iSendCount' = [iSendCount EXCEPT ![c] = 0]
    /\ open' = open \cup {c}
    /\ client' = [client EXCEPT ![c] = clients + 1]
    /\ Holds(Main, [conn |-> c])
    /\ UNCHANGED <<owner, m_recyconnectionList, queueVars, timerVars, packets, gone, twice>>

\* AddToTimerQueue
AddTimer ==
    /\ Goes(Main, "addTimer", "loop")
    /\ Free(TimeMutex)
    /\ \E p \in work[Main] : m_timerQueuemap' = m_timerQueuemap \cup {Tagged(p.conn)}
    /\ Drops(Main)
    /\ UNCHANGED <<owner, connVars, listVars, queueVars, m_lsIdleList, packets, clientVars>>

\* A whole packet goes to the pool.
Read(c) ==
    /\ packets < MaxPackets /\ packets' = packets + 1
    /\ pc[Main] = "loop"
    /\ c \in open
    /\ m_MsgRecvQueue' = Append(m_MsgRecvQueue, Tagged(c))
    /\ UNCHANGED <<pc, work, owner, connVars, listVars, m_MsgSendQueue, timerVars, clientVars>>

\* recv() says that the client has gone.
Leave(c) ==
    /\ Goes(Main, "loop", "close")
    /\ c \in open
    /\ Holds(Main, Tagged(c))
    /\ UNCHANGED <<owner, connVars, listVars, queueVars, timerVars, packets, clientVars>>

-----------------------------------------------------------------------------
(* Pool threads: threadRecvProcFunc, a handler, msgSend *)

\* The packet of a client that has gone is not handled.
Take(w) ==
    /\ m_MsgRecvQueue # <<>>
    /\ m_MsgRecvQueue' = Tail(m_MsgRecvQueue)
    /\ IF Current(Head(m_MsgRecvQueue))
       THEN Goes(w, "loop", "logic") /\ Holds(w, Head(m_MsgRecvQueue))
       ELSE pc[w] = "loop" /\ UNCHANGED <<pc, work>>
    /\ UNCHANGED <<owner, connVars, listVars, m_MsgSendQueue, timerVars, packets, clientVars>>

\* The handler locks logicPorcMutex.  The sequence number is not looked at again.
Handle(w) ==
    /\ Goes(w, "logic", "send")
    /\ \E p \in work[w] : Locks(w, p.conn)
    /\ UNCHANGED <<work, connVars, listVars, queueVars, timerVars, packets, clientVars>>

\* msgSend's limit on the whole queue, which drops the reply, is in SendQueue.
Backlog(c) == iSendCount[c] > MaxPending

\* msgSend to its end, and the end of the handler.
Queue(w) ==
    /\ Goes(w, "send", "loop")
    /\ Free(SendMutex)
    /\ \E p \in work[w] :
          /\ ~Backlog(p.conn)
          /\ iSendCount' = [iSendCount EXCEPT ![p.conn] = @ + 1]
          /\ m_MsgSendQueue' = Append(m_MsgSendQueue, p)
    /\ Unlocks(w, Conns)
    /\ Drops(w)
    /\ UNCHANGED <<iCurrsequence, open, listVars, m_MsgRecvQueue, timerVars, packets, clientVars>>

\* msgSend as far as its call of zdClosesocketProc, with its mutex locked.
CutOff(w) ==
    /\ Goes(w, "send", "close")
    /\ \E p \in work[w] : Backlog(p.conn) /\ Holds(w, Tagged(p.conn))
    /\ Locks(w, SendMutex)
    /\ UNCHANGED <<connVars, listVars, queueVars, timerVars, packets, clientVars>>

\* Mutant of Return: an early return that forgets the mutex.
ReturnLocked(w) ==
    /\ Goes(w, "unlock", "loop")
    /\ Unlocks(w, Conns)
    /\ UNCHANGED <<work, connVars, listVars, queueVars, timerVars, packets, clientVars>>

\* The end of msgSend and of the handler after that.
Return(w) ==
    /\ Goes(w, "unlock", "loop")
    /\ Unlocks(w, Mutexes)
    /\ UNCHANGED <<work, connVars, listVars, queueVars, timerVars, packets, clientVars>>

-----------------------------------------------------------------------------
(* ServerTimerQueueMonitorThread *)

\* Mutant of Scan: the mutex stays locked while the entries are checked.
ScanLocked ==
    /\ pc[Timer] = "loop" /\ UNCHANGED pc
    /\ m_lsIdleList = {}
    /\ Locks(Timer, TimeMutex)
    /\ m_lsIdleList' \in (SUBSET m_timerQueuemap) \ {{}}
    /\ UNCHANGED <<work, connVars, listVars, queueVars, m_timerQueuemap, packets, clientVars>>

\* Some entries are due; each is put back with a later time.
Scan ==
    /\ pc[Timer] = "loop" /\ UNCHANGED pc
    /\ m_lsIdleList = {}
    /\ Free(TimeMutex)
    /\ m_lsIdleList' \in (SUBSET m_timerQueuemap) \ {{}}
    /\ UNCHANGED <<work, owner, connVars, listVars, queueVars, m_timerQueuemap, packets, clientVars>>

\* What GetOverTimeTimer returns when no more entry is due is not initialised: if
\* it is not NULL the loop does not end (see TimerQueue).
Hang ==
    /\ Goes(Timer, "loop", "hung")
    /\ m_lsIdleList = {} /\ m_timerQueuemap # {}
    /\ Locks(Timer, TimeMutex)
    /\ UNCHANGED <<work, connVars, listVars, queueVars, timerVars, packets, clientVars>>

\* procPingTimeOutChecking of one entry: the client is closed if it is the same and
\* silent, which TimerQueue decides.
Check ==
    /\ pc[Timer] = "loop"
    /\ \E e \in m_lsIdleList :
          /\ m_lsIdleList' = m_lsIdleList \ {e}
          /\ \/ UNCHANGED <<pc, work>>
             \/ Current(e) /\ Goes(Timer, "loop", "close") /\ Holds(Timer, e)
    /\ UNCHANGED <<owner, connVars, listVars, queueVars, m_timerQueuemap, packets, clientVars>>

-----------------------------------------------------------------------------
(* ServerSendQueueThread *)

\* The wait for the semaphore is in SendQueue.
StartPass ==
    /\ Goes(Sender, "loop", "pass")
    /\ m_MsgSendQueue # <<>>
    /\ Locks(Sender, SendMutex)
    /\ UNCHANGED <<work, connVars, listVars, queueVars, timerVars, packets, clientVars>>

\* Mutant of EraseStale: the reply is taken off the connection's count.
EraseStaleCounted ==
    /\ pc[Sender] = "pass" /\ UNCHANGED pc
    /\ m_MsgSendQueue # <<>> /\ ~Current(Head(m_MsgSendQueue))
    /\ iSendCount' = [iSendCount EXCEPT ![Head(m_MsgSendQueue).conn] = @ - 1]
    /\ m_MsgSendQueue' = Tail(m_MsgSendQueue)
    /\ UNCHANGED <<work, owner, iCurrsequence, open, listVars, m_MsgRecvQueue, timerVars,
                   packets, clientVars>>

EraseStale ==
    /\ pc[Sender] = "pass" /\ UNCHANGED pc
    /\ m_MsgSendQueue # <<>> /\ ~Current(Head(m_MsgSendQueue))
    /\ m_MsgSendQueue' = Tail(m_MsgSendQueue)
    /\ UNCHANGED <<work, owner, connVars, listVars, m_MsgRecvQueue, timerVars, packets, clientVars>>

\* Mutant of Send: the sequence number is not compared.
SendAny ==
    /\ Goes(Sender, "pass", "sendproc")
    /\ m_MsgSendQueue # <<>>
    /\ iSendCount' = [iSendCount EXCEPT ![Head(m_MsgSendQueue).conn] = @ - 1]
    /\ Holds(Sender, Head(m_MsgSendQueue))
    /\ m_MsgSendQueue' = Tail(m_MsgSendQueue)
    /\ UNCHANGED <<owner, iCurrsequence, open, listVars, m_MsgRecvQueue, timerVars, packets, clientVars>>

Send ==
    /\ Goes(Sender, "pass", "sendproc")
    /\ m_MsgSendQueue # <<>> /\ Current(Head(m_MsgSendQueue))
    /\ iSendCount' = [iSendCount EXCEPT ![Head(m_MsgSendQueue).conn] = @ - 1]
    /\ Holds(Sender, Head(m_MsgSendQueue))
    /\ m_MsgSendQueue' = Tail(m_MsgSendQueue)
    /\ UNCHANGED <<owner, iCurrsequence, open, listVars, m_MsgRecvQueue, timerVars, packets, clientVars>>

Sent ==
    /\ Goes(Sender, "sendproc", "pass")
    /\ Drops(Sender)
    /\ UNCHANGED <<owner, connVars, listVars, queueVars, timerVars, packets, clientVars>>

EndPass ==
    /\ Goes(Sender, "pass", "loop")
    /\ m_MsgSendQueue = <<>>
    /\ Unlocks(Sender, {SendMutex})
    /\ UNCHANGED <<work, connVars, listVars, queueVars, timerVars, packets, clientVars>>

-----------------------------------------------------------------------------
(* ServerRecyConnectionThread *)

StartRecycling ==
    /\ RecyclerRuns
    /\ Goes(Recycler, "loop", "recycling")
    /\ m_recyconnectionList # <<>>
    /\ Locks(Recycler, RecyMutex)
    /\ UNCHANGED <<work, connVars, listVars, queueVars, timerVars, packets, clientVars>>

\* The entries whose connection has waited its time, those at the front; one that
\* was closed twice waits from the second time on (see ConnPool).
LastPlace(c) ==
    CHOOSE i \in DOMAIN m_recyconnectionList :
        /\ m_recyconnectionList[i] = c
        /\ \A j \in DOMAIN m_recyconnectionList : m_recyconnectionList[j] = c => j <= i

InTurn(i) ==
    \A j \in 1 .. i - 1 :
        LastPlace(m_recyconnectionList[j]) > LastPlace(m_recyconnectionList[i])

\* ngx_free_connection, PutOneToFree
Freed(i) ==
    LET c == m_recyconnectionList[i]
    IN  /\ m_freeconnectionList' = Append(m_freeconnectionList, c)
        /\ iCurrsequence' = [iCurrsequence EXCEPT ![c] = @ + 1]
        /\ m_recyconnectionList' = RemoveAt(m_recyconnectionList, i)

\* The time a connection waits is longer than one call of send().
Recycle ==
    /\ pc[Recycler] = "recycling" /\ UNCHANGED pc
    /\ \E i \in DOMAIN m_recyconnectionList :
          /\ InTurn(i)
          /\ \A r \in work[Sender] : r.conn # m_recyconnectionList[i]
          /\ Freed(i)
    /\ UNCHANGED <<work, owner, iSendCount, open, m_connectionList, queueVars, timerVars, packets, clientVars>>

EndRecycling ==
    /\ Goes(Recycler, "recycling", "loop")
    /\ Unlocks(Recycler, {RecyMutex})
    /\ UNCHANGED <<work, connVars, listVars, queueVars, timerVars, packets, clientVars>>

-----------------------------------------------------------------------------
Closing(t) == CloseSocket(t) \/ CloseRecycle(t)

WorkerStep(w) ==
    \/ Take(w) \/ Handle(w) \/ Queue(w) \/ CutOff(w)
    \/ Return(w) \/ Closing(w)

MainStep == AddTimer \/ Closing(Main)
TimerStep == Scan \/ Hang \/ Check \/ Closing(Timer)
SenderStep == StartPass \/ EraseStale \/ Send \/ Sent \/ EndPass
RecyclerStep == StartRecycling \/ Recycle \/ EndRecycling

Next ==
    \/ MainStep \/ TimerStep \/ SenderStep \/ RecyclerStep
    \/ \E c \in Conns : Accept(c) \/ Read(c) \/ Leave(c)
    \/ \E w \in Workers : WorkerStep(w)

Spec == Init /\ [][Next]_vars

(* Every thread runs when it can: with the packets of one behaviour bounded,  *)
(* a mutex is free for good in the end if its owners let it go.  A connection *)
(* in the list grows old enough.  Clients need not do anything, and whether   *)
(* the timer thread hangs is left open.                                       *)
FairSpec ==
    /\ Spec
    /\ WF_vars(MainStep) /\ WF_vars(Check \/ Closing(Timer)) /\ WF_vars(SenderStep)
    /\ WF_vars(StartRecycling \/ EndRecycling) /\ SF_vars(Recycle)
    /\ \A w \in Workers : WF_vars(WorkerStep(w))

-----------------------------------------------------------------------------
\* The mutex a thread has to wait for, if any.
Wants(t) ==
    CASE pc[t] \in {"close", "addTimer"} -> {TimeMutex}
      [] pc[t] = "recycle" -> {RecyMutex}
      [] pc[t] = "logic" -> {p.conn : p \in work[t]}
      [] pc[t] = "send" -> {SendMutex}
      [] pc[t] = "loop" /\ t = Sender /\ m_MsgSendQueue # <<>> -> {SendMutex}
      [] pc[t] = "loop" /\ t = Recycler /\ RecyclerRuns -> {RecyMutex}
      [] pc[t] = "loop" /\ t = Timer /\ m_lsIdleList = {} -> {TimeMutex}
      [] OTHER -> {}

WaitsFor(t) == {owner[m] : m \in Wants(t)} \ {Nobody}

\* No threads wait for one another in a circle, whoever closes a connection, from
\* inside msgSend too (ngx_c_socket.cpp:325), where logicPorcMutex and m_sendMessageQueueMutex
\* are locked while m_timequeueMutex and m_recyconnqueueMutex are waited for.
NoCircularWait ==
    \A S \in (SUBSET Threads) \ {{}} : \E t \in S : WaitsFor(t) \cap S = {}

\* The bytes of a reply never go to another client than the one whose packet it
\* answers (ngx_c_socket.cpp:620): its connection was not given to a new client before send()
\* returned, although it may be closed from the moment of the test on.  Excepted is a
\* connection that two threads closed at the same time (see ConnPool).
RightClient ==
    \A r \in work[Sender] : r.conn \notin twice => r.client = client[r.conn]

\* The count msgSend limits (ngx_c_socket.cpp:320) is never lower than what is queued for the
\* connection's present client; replies to its former clients, which come late or
\* are erased without being counted off, cannot hide a backlog.
BacklogCovered ==
    \A c \in open :
        iSendCount[c] >= Cardinality({i \in DOMAIN m_MsgSendQueue :
            m_MsgSendQueue[i].conn = c /\ m_MsgSendQueue[i].client = client[c]})

\* No thread waits for ever: again and again all of them are back in their loops at the
\* same time, no mutex locked that one of them could wait for, and what was queued is
\* handled and sent, unless the timer thread hangs with m_timequeueMutex locked.
EveryThreadReturns ==
    []<>(\/ pc[Timer] = "hung"
         \/ /\ \A t \in Threads : pc[t] = "loop"
            /\ \A m \in Mutexes : owner[m] = Nobody
            /\ m_MsgRecvQueue = <<>> /\ m_MsgSendQueue = <<>>)
=============================================================================
