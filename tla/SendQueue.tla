------------------------------- MODULE SendQueue -------------------------------
(***************************************************************************)
(* Replies from the handlers to the kernel (net/ngx_c_socket.cpp): msgSend *)
(* queues a reply under m_sendMessageQueueMutex and posts                  *)
(* m_semEventSendQueue; ServerSendQueueThread waits for the semaphore and  *)
(* empties the queue under the same mutex; sendproc calls send().  Other   *)
(* threads close connections meanwhile (see ConnPool).                     *)
(*                                                                         *)
(* A reply is the number of its creation.  iThrowsendCount is 0 for ever:  *)
(* it grows only where sendproc returns a positive number or -1, and it    *)
(* never does; so the branches that test it, EPOLLOUT and                  *)
(* ngx_write_request_handler are left out.                                 *)
(***************************************************************************)
EXTENDS Integers, Sequences, FiniteSets

CONSTANTS
    Workers,        \* pool threads that run handlers
    Conns,          \* connections of clients
    MaxQueue,       \* 50000 in msgSend
    MaxPending,     \* 400 in msgSend
    MaxReplies,     \* bound: replies made in one behaviour
    StopCalled      \* does the event loop ever end, with g_stopEvent set?

ASSUME SendLimits == MaxQueue \in Nat /\ MaxPending \in Nat /\ MaxReplies \in Nat
ASSUME SendStop == StopCalled \in BOOLEAN
ASSUME SendConns == IsFiniteSet(Conns) /\ IsFiniteSet(Workers)

VARIABLES
    m_MsgSendQueue,          \* replies with their connection and sequence number
    m_iSendMsgQueueCount,
    m_iDiscardSendPkgCount,
    m_semEventSendQueue,
    iCurrsequence,           \* of each connection: 0, larger once closed
    iSendCount,              \* of each connection
    psendMemPointer,         \* replies the send thread is sending
    sender,                  \* control point of ServerSendQueueThread
    reply,                   \* the reply each worker is about to queue, if any
    made,                    \* replies made so far
    freed,                   \* replies whose memory was released
    cut,                     \* history: connections msgSend closed
    unsent,                  \* history: replies released unsent for an open connection
    main                     \* main thread: "run" or its step in shutting down

connVars == <<iCurrsequence, iSendCount>>
queueVars == <<m_MsgSendQueue, m_iSendMsgQueueCount>>
vars == <<connVars, queueVars, m_iDiscardSendPkgCount, m_semEventSendQueue,
          psendMemPointer, sender, reply, made, freed, cut, unsent, main>>

Init ==
    /\ m_MsgSendQueue = <<>>
    /\ m_iSendMsgQueueCount = 0
    /\ m_iDiscardSendPkgCount = 0
    /\ m_semEventSendQueue = 0
    /\ iCurrsequence = [c \in Conns |-> 0]
    /\ iSendCount = [c \in Conns |-> 0]
    /\ psendMemPointer = {}
    /\ sender = "wait"
    /\ reply = [w \in Workers |-> {}]
    /\ made = 0
    /\ freed = {} /\ cut = {} /\ unsent = {}
    /\ main = "run"

\* m_sendMessageQueueMutex is held from the start of a pass to its end.
MutexFree == sender \notin {"pass", "send"}

IsOpen(c) == iCurrsequence[c] = 0
Stale(r) == r.iCurrsequence # iCurrsequence[r.conn]

\* inRecyConnectQueue, reached by the main or the timer thread.
Close(c) ==
    /\ main # "gone"
    /\ IsOpen(c)
    /\ iCurrsequence' = [iCurrsequence EXCEPT ![c] = @ + 1]
    /\ UNCHANGED <<iSendCount, queueVars, m_iDiscardSendPkgCount, m_semEventSendQueue,
                   psendMemPointer, sender, reply, made, freed, cut, unsent, main>>

-----------------------------------------------------------------------------
(* Pool threads *)

\* A handler takes logicPorcMutex of the connection its packet came from and
\* makes a reply with the packet's sequence number.
Handle(w, c) ==
    /\ main = "run"
    /\ made < MaxReplies
    /\ IsOpen(c)
    /\ reply[w] = {}
    /\ \A v \in Workers : \A r \in reply[v] : r.conn # c
    /\ made' = made + 1
    /\ reply' = [reply EXCEPT ![w] =
                    {[id |-> made + 1, conn |-> c, iCurrsequence |-> iCurrsequence[c]]}]
    /\ UNCHANGED <<connVars, queueVars, m_iDiscardSendPkgCount, m_semEventSendQueue,
                   psendMemPointer, sender, freed, cut, unsent, main>>

\* The start of msgSend with reply r; its locks are released at the end.
MsgSend(w, r) ==
    /\ r \in reply[w]
    /\ MutexFree
    /\ reply' = [reply EXCEPT ![w] = {}]

QueueFull == m_iSendMsgQueueCount > MaxQueue
Backlog(c) == iSendCount[c] > MaxPending

Discard(r) ==
    /\ m_iDiscardSendPkgCount' = m_iDiscardSendPkgCount + 1
    /\ freed' = freed \cup {r.id}
    /\ UNCHANGED <<queueVars, m_semEventSendQueue, psendMemPointer, sender, made,
                   unsent, main>>

DropReply(w) ==
    \E r \in reply[w] :
        /\ MsgSend(w, r)
        /\ QueueFull
        /\ Discard(r)
        /\ UNCHANGED <<connVars, cut>>

\* zdClosesocketProc, whether the connection is still open or not.
CutOff(w) ==
    \E r \in reply[w] :
        /\ MsgSend(w, r)
        /\ ~QueueFull /\ Backlog(r.conn)
        /\ Discard(r)
        /\ iCurrsequence' = [iCurrsequence EXCEPT ![r.conn] = @ + 1]
        /\ cut' = cut \cup {r.conn}
        /\ UNCHANGED iSendCount

\* Mutants of Queue: the semaphore is not posted; the reply is queued twice.
QueueNoPost(w) ==
    \E r \in reply[w] :
        /\ MsgSend(w, r)
        /\ ~QueueFull /\ ~Backlog(r.conn)
        /\ iSendCount' = [iSendCount EXCEPT ![r.conn] = @ + 1]
        /\ m_MsgSendQueue' = Append(m_MsgSendQueue, r)
        /\ m_iSendMsgQueueCount' = m_iSendMsgQueueCount + 1
        /\ UNCHANGED <<iCurrsequence, m_iDiscardSendPkgCount, m_semEventSendQueue,
                       psendMemPointer, sender, made, freed, cut, unsent, main>>

QueueTwice(w) ==
    \E r \in reply[w] :
        /\ MsgSend(w, r)
        /\ ~QueueFull /\ ~Backlog(r.conn)
        /\ iSendCount' = [iSendCount EXCEPT ![r.conn] = @ + 1]
        /\ m_MsgSendQueue' = m_MsgSendQueue \o <<r, r>>
        /\ m_iSendMsgQueueCount' = m_iSendMsgQueueCount + 1
        /\ m_semEventSendQueue' = m_semEventSendQueue + 1
        /\ UNCHANGED <<iCurrsequence, m_iDiscardSendPkgCount, psendMemPointer,
                       sender, made, freed, cut, unsent, main>>

Queue(w) ==
    \E r \in reply[w] :
        /\ MsgSend(w, r)
        /\ ~QueueFull /\ ~Backlog(r.conn)
        /\ iSendCount' = [iSendCount EXCEPT ![r.conn] = @ + 1]
        /\ m_MsgSendQueue' = Append(m_MsgSendQueue, r)
        /\ m_iSendMsgQueueCount' = m_iSendMsgQueueCount + 1
        /\ m_semEventSendQueue' = m_semEventSendQueue + 1
        /\ UNCHANGED <<iCurrsequence, m_iDiscardSendPkgCount, psendMemPointer,
                       sender, made, freed, cut, unsent, main>>

-----------------------------------------------------------------------------
(* ServerSendQueueThread *)

Sender(from, to) == sender = from /\ sender' = to

g_stopEvent == main # "run"

SemWait ==
    /\ Sender("wait", "look")
    /\ m_semEventSendQueue > 0
    /\ m_semEventSendQueue' = m_semEventSendQueue - 1
    /\ UNCHANGED <<connVars, queueVars, m_iDiscardSendPkgCount, psendMemPointer,
                   reply, made, freed, cut, unsent, main>>

\* The end of the loop is reached with g_stopEvent set.
Exit ==
    /\ Sender("look", "exited")
    /\ g_stopEvent
    /\ UNCHANGED <<connVars, queueVars, m_iDiscardSendPkgCount, m_semEventSendQueue,
                   psendMemPointer, reply, made, freed, cut, unsent, main>>

\* The counter is read before the mutex is taken.
NothingQueued ==
    /\ Sender("look", "wait")
    /\ ~g_stopEvent
    /\ m_iSendMsgQueueCount <= 0
    /\ UNCHANGED <<connVars, queueVars, m_iDiscardSendPkgCount, m_semEventSendQueue,
                   psendMemPointer, reply, made, freed, cut, unsent, main>>

StartPass ==
    /\ Sender("look", "pass")
    /\ m_iSendMsgQueueCount > 0
    /\ UNCHANGED <<connVars, queueVars, m_iDiscardSendPkgCount, m_semEventSendQueue,
                   psendMemPointer, reply, made, freed, cut, unsent, main>>

\* Erase the head of the queue.
EraseHead ==
    /\ m_MsgSendQueue # <<>>
    /\ m_MsgSendQueue' = Tail(m_MsgSendQueue)
    /\ m_iSendMsgQueueCount' = m_iSendMsgQueueCount - 1

EraseStale ==
    /\ Sender("pass", "pass")
    /\ EraseHead
    /\ Stale(Head(m_MsgSendQueue))
    /\ freed' = freed \cup {Head(m_MsgSendQueue).id}
    /\ UNCHANGED <<connVars, m_iDiscardSendPkgCount, m_semEventSendQueue,
                   psendMemPointer, reply, made, cut, unsent, main>>

\* Mutant of Send: iSendCount keeps what is sent.
SendUncounted ==
    /\ Sender("pass", "send")
    /\ EraseHead
    /\ ~Stale(Head(m_MsgSendQueue))
    /\ psendMemPointer' = {Head(m_MsgSendQueue)}
    /\ UNCHANGED <<connVars, m_iDiscardSendPkgCount, m_semEventSendQueue, reply,
                   made, freed, cut, unsent, main>>

Send ==
    /\ Sender("pass", "send")
    /\ EraseHead
    /\ ~Stale(Head(m_MsgSendQueue))
    /\ iSendCount' = [iSendCount EXCEPT ![Head(m_MsgSendQueue).conn] = @ - 1]
    /\ psendMemPointer' = {Head(m_MsgSendQueue)}
    /\ UNCHANGED <<iCurrsequence, m_iDiscardSendPkgCount, m_semEventSendQueue, reply,
                   made, freed, cut, unsent, main>>

\* psendbuf is NULL in every connection (zeroed, then assigned nowhere), so
\* send() fails with EFAULT, or EBADF if the socket was closed: sendproc
\* returns -2 and the reply is released.
SendFails ==
    /\ Sender("send", "pass")
    /\ \E r \in psendMemPointer :
          /\ freed' = freed \cup {r.id}
          /\ unsent' = IF IsOpen(r.conn) THEN unsent \cup {r.id} ELSE unsent
    /\ psendMemPointer' = {}
    /\ UNCHANGED <<connVars, queueVars, m_iDiscardSendPkgCount, m_semEventSendQueue,
                   reply, made, cut, main>>

EndPass ==
    /\ Sender("pass", IF g_stopEvent THEN "exited" ELSE "wait")
    /\ m_MsgSendQueue = <<>>
    /\ UNCHANGED <<connVars, queueVars, m_iDiscardSendPkgCount, m_semEventSendQueue,
                   psendMemPointer, reply, made, freed, cut, unsent, main>>

-----------------------------------------------------------------------------
(* Main thread: Shutdown_subproc, after stopAll has ended the pool threads *)

MainMoves(from, to) == main = from /\ main' = to

StopEvent ==
    /\ StopCalled
    /\ MainMoves("run", "stop")
    /\ \A w \in Workers : reply[w] = {}
    /\ UNCHANGED <<connVars, queueVars, m_iDiscardSendPkgCount, m_semEventSendQueue,
                   psendMemPointer, sender, reply, made, freed, cut, unsent>>

\* Mutant of PostStop: nothing wakes the send thread.
PostStopForgotten ==
    /\ MainMoves("stop", "join")
    /\ UNCHANGED <<connVars, queueVars, m_iDiscardSendPkgCount, m_semEventSendQueue,
                   psendMemPointer, sender, reply, made, freed, cut, unsent>>

PostStop ==
    /\ MainMoves("stop", "join")
    /\ m_semEventSendQueue' = m_semEventSendQueue + 1
    /\ UNCHANGED <<connVars, queueVars, m_iDiscardSendPkgCount, psendMemPointer,
                   sender, reply, made, freed, cut, unsent>>

\* pthread_join, then clearMsgSendQueue.
JoinAndClear ==
    /\ MainMoves("join", "gone")
    /\ sender = "exited"
    /\ freed' = freed \cup {m_MsgSendQueue[i].id : i \in DOMAIN m_MsgSendQueue}
    /\ m_MsgSendQueue' = <<>>
    /\ UNCHANGED <<connVars, m_iSendMsgQueueCount, m_iDiscardSendPkgCount,
                   m_semEventSendQueue, psendMemPointer, sender, reply, made, cut,
                   unsent>>

-----------------------------------------------------------------------------
SenderStep ==
    \/ SemWait \/ Exit \/ NothingQueued \/ StartPass
    \/ EraseStale \/ Send \/ SendFails \/ EndPass

WorkerStep(w) == DropReply(w) \/ CutOff(w) \/ Queue(w)

Next ==
    \/ SenderStep \/ StopEvent \/ PostStop \/ JoinAndClear
    \/ \E c \in Conns : Close(c)
    \/ \E w \in Workers : WorkerStep(w) \/ \E c \in Conns : Handle(w, c)

Spec == Init /\ [][Next]_vars

(* The threads that can run do run; clients need not do anything. *)
FairSpec ==
    /\ Spec
    /\ WF_vars(SenderStep) /\ WF_vars(PostStop) /\ WF_vars(JoinAndClear)
    /\ \A w \in Workers : SF_vars(WorkerStep(w))

-----------------------------------------------------------------------------
Replies == [id : 1 .. MaxReplies, conn : Conns, iCurrsequence : Nat]

TypeOK ==
    /\ m_MsgSendQueue \in Seq(Replies)
    /\ m_iSendMsgQueueCount \in 0 .. MaxQueue + 1
    /\ m_iDiscardSendPkgCount \in Nat
    /\ m_semEventSendQueue \in Nat
    /\ iCurrsequence \in [Conns -> Nat]
    /\ iSendCount \in [Conns -> Int]
    /\ \A c \in Conns : iSendCount[c] <= MaxPending + 1
    /\ psendMemPointer \in SUBSET Replies
    /\ sender \in {"wait", "look", "pass", "send", "exited"}
    /\ reply \in [Workers -> SUBSET Replies]
    /\ made \in 0 .. MaxReplies
    /\ freed \in SUBSET (1 .. MaxReplies)
    /\ cut \in SUBSET Conns
    /\ unsent \in SUBSET (1 .. MaxReplies)
    /\ main \in {"run", "stop", "join", "gone"}

Queued(c) == {i \in DOMAIN m_MsgSendQueue : m_MsgSendQueue[i].conn = c}

\* No post is lost: while replies are queued the send thread is awake or the
\* semaphore will wake it, although it reads the counter without the mutex.
NoPostLost ==
    m_MsgSendQueue # <<>> /\ sender = "wait" => m_semEventSendQueue > 0

\* Every reply made is in one place: a worker's hands, the queue, the send
\* thread's hands, or released; none is released twice or lost, also when the
\* queue is full or its client is cut off.
InHands(ids) == \A id \in ids : id \notin freed

RepliesAccounted ==
    LET queued == {m_MsgSendQueue[i].id : i \in DOMAIN m_MsgSendQueue}
        sending == {r.id : r \in psendMemPointer}
        waiting == {r.id : r \in UNION {reply[w] : w \in Workers}}
    IN  /\ Cardinality(queued) = Len(m_MsgSendQueue)
        /\ queued \cap sending = {} /\ queued \cap waiting = {}
        /\ sending \cap waiting = {}
        /\ InHands(queued \cup sending \cup waiting)
        /\ queued \cup sending \cup waiting \cup freed = 1 .. made

\* The backlog msgSend counts for an open connection is what is queued for it,
\* so it cuts off only a client that has more than MaxPending replies queued.
BacklogExact ==
    main # "gone" =>
        \A c \in Conns : IsOpen(c) => iSendCount[c] = Cardinality(Queued(c))

\* A reply that msgSend accepted for a client that stays is sent to it.
RepliesSent == unsent = {}

\* Every reply is dealt with in the end.
EveryReplyReleased == \A id \in 1 .. MaxReplies : (made >= id) ~> (id \in freed)

\* Shutdown_subproc, once the event loop has ended with g_stopEvent set, ends.
ShutdownReturns == (main = "stop") ~> (main = "gone")
=============================================================================
