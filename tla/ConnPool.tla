------------------------------- MODULE ConnPool -------------------------------
(***************************************************************************)
(* The life of a connection object in one worker process: the connection   *)
(* pool and the recycle queue (net/ngx_c_socket_conn.cpp), accepting       *)
(* (net/ngx_c_socket_accept.cpp), the epoll loop and the three places that *)
(* close a connection through zdClosesocketProc: the read handler and the  *)
(* flood check in the main thread, the timer thread, and msgSend in a pool *)
(* thread.  Nothing but the small mutexes of the lists orders these        *)
(* threads, so zdClosesocketProc is modelled step by step.                 *)
(*                                                                         *)
(* A connection object is the number of its address; a client is the       *)
(* number of its arrival; time is left out: any entries of the timer queue *)
(* may have expired, any recycled connection may have waited long enough.  *)
(***************************************************************************)
EXTENDS Integers, Sequences, FiniteSets, SequencesExt

CONSTANTS
    Workers,              \* pool threads that run handlers
    m_worker_connections, \* configured number of clients
    Ports,                \* m_ListenPortCount
    TimerEnable,          \* m_ifkickTimeCount = 1
    TimeOutKick,          \* m_ifTimeOutKick = 1
    FloodEnable,          \* m_floodAkEnable = 1
    SendBacklog,          \* may a client get more than 400 unsent replies?
    RecyThread,           \* is ServerRecyConnectionThread created?
    MaxEvents,            \* NGX_MAX_EVENTS
    MaxFds,               \* bound: descriptors of client sockets
    MaxConns,             \* bound: addresses for connection objects
    MaxClients,           \* bound: clients accepted in one behaviour
    MaxRecy               \* bound: entries of the recycle queue

ASSUME PoolSizes ==
    /\ m_worker_connections \in Nat \ {0}
    /\ Ports \in 1 .. m_worker_connections
    /\ MaxEvents \in Nat \ {0}
    /\ MaxFds \in Nat
    /\ MaxClients \in Nat
    /\ MaxRecy \in Nat
ASSUME PoolSwitches ==
    {TimerEnable, TimeOutKick, FloodEnable, SendBacklog, RecyThread} \subseteq BOOLEAN
ASSUME PoolAddresses ==   \* the pool is bounded by the code, not by this bound
    MaxConns \in Nat /\ MaxConns > 5 * m_worker_connections + 1
ASSUME PoolWorkers == {"main", "timer"} \cap Workers = {}

Conns == 1 .. MaxConns
Clients == 1 .. MaxClients
Fds == 1 .. MaxFds
NoFd == -1            \* fd == -1
ListenFd == 0         \* a listening socket; never closed in a worker
GarbageFd == MaxFds + 1   \* what free() leaves in the fd of a released object
None == 0

Closers == {"main", "timer"} \cup Workers

VARIABLES
    m_connectionList, m_freeconnectionList, m_recyconnectionList,
    m_onlineUserCount,
    iCurrsequence, fd,    \* fields of the connection objects
    session,              \* history: client the object was last given to
    released,             \* objects whose memory went back to the allocator
    flooded,              \* history: objects the flood check gave back
    sock,                 \* kernel: client of each open descriptor
    registered,           \* kernel: epoll's data.ptr of each descriptor
    accepted,             \* clients accepted so far
    m_events,             \* main thread: events of this epoll_wait not yet handled
    main, newc,           \* main thread: step of ngx_event_accept, its connection
    m_timerQueuemap, m_lsIdleList, \* timer queue; entries the timer thread took
    hung,                 \* the timer thread loops holding m_timequeueMutex
    inbox, job,           \* packets for the pool threads; packet of each
    closing, target       \* step of zdClosesocketProc per thread, its argument

connVars == <<iCurrsequence, fd, session, released, flooded>>
listVars == <<m_connectionList, m_freeconnectionList, m_recyconnectionList,
              m_onlineUserCount>>
kernelVars == <<sock, registered, accepted>>
mainVars == <<m_events, main, newc>>
timerVars == <<m_timerQueuemap, m_lsIdleList, hung>>
workVars == <<inbox, job>>
closeVars == <<closing, target>>
vars == <<connVars, listVars, kernelVars, mainVars, timerVars, workVars, closeVars>>

ListenConns == {c \in Conns : fd[c] = ListenFd}

\* initconnection, then one connection for each listening socket.
Init ==
    /\ m_connectionList = [i \in 1 .. m_worker_connections |-> i]
    /\ m_freeconnectionList =
            [i \in 1 .. m_worker_connections - Ports |-> Ports + i]
    /\ m_recyconnectionList = <<>>
    /\ m_onlineUserCount = 0
    /\ iCurrsequence = [c \in Conns |-> IF c <= Ports THEN 2
                                        ELSE IF c <= m_worker_connections THEN 1 ELSE 0]
    /\ fd = [c \in Conns |-> IF c <= Ports THEN ListenFd ELSE NoFd]
    /\ session = [c \in Conns |-> None]
    /\ released = {} /\ flooded = {}
    /\ sock = [f \in Fds |-> None]
    /\ registered = [f \in Fds |-> None]
    /\ accepted = 0
    /\ m_events = {} /\ main = "loop" /\ newc = None
    /\ m_timerQueuemap = {} /\ m_lsIdleList = {} /\ hung = FALSE
    /\ inbox = {} /\ job = [w \in Workers |-> {}]
    /\ closing = [p \in Closers |-> "no"]
    /\ target = [p \in Closers |-> None]

Tag(c) == [conn |-> c, iCurrsequence |-> iCurrsequence[c], client |-> session[c]]
Fresh(tag) == tag.iCurrsequence = iCurrsequence[tag.conn]

-----------------------------------------------------------------------------
(* zdClosesocketProc, by any thread *)

CloseStep(p, from, to) ==
    /\ closing[p] = from
    /\ closing' = [closing EXCEPT ![p] = to]

StartClose(p, c) ==
    /\ closing' = [closing EXCEPT ![p] = "unlist"]
    /\ target' = [target EXCEPT ![p] = c]

\* DeleteFromTimerQueue; waits for ever behind a hung timer thread.
Unlist(p) ==
    /\ CloseStep(p, "unlist", "test")
    /\ TimerEnable => ~hung
    /\ m_timerQueuemap' = {e \in m_timerQueuemap : e.conn # target[p]}
    /\ UNCHANGED <<connVars, listVars, kernelVars, mainVars, workVars,
                   m_lsIdleList, hung, target>>

TestFd(p) ==
    /\ CloseStep(p, "test", IF fd[target[p]] # NoFd THEN "close" ELSE "recycle")
    /\ UNCHANGED <<connVars, listVars, kernelVars, mainVars, timerVars, workVars,
                   target>>

KernelClose(f) ==
    /\ sock' = [g \in Fds |-> IF g = f THEN None ELSE sock[g]]
    /\ registered' = [g \in Fds |-> IF g = f THEN None ELSE registered[g]]

\* Mutant of CloseFd: fd is set to -1 first, so close() gets -1.
CloseFdTooLate(p) ==
    /\ CloseStep(p, "close", "clear")
    /\ UNCHANGED <<connVars, listVars, mainVars, timerVars, workVars, kernelVars,
                   target>>

\* close(p_Conn->fd): the field is read again; EBADF changes nothing.
CloseFd(p) ==
    /\ CloseStep(p, "close", "clear")
    /\ KernelClose(fd[target[p]])
    /\ UNCHANGED <<connVars, listVars, mainVars, timerVars, workVars, accepted,
                   target>>

\* Mutant of ClearFd: fd == -1 for fd = -1.
ClearFdNot(p) ==
    /\ CloseStep(p, "clear", "recycle")
    /\ UNCHANGED <<connVars, listVars, kernelVars, mainVars, timerVars, workVars,
                   target>>

ClearFd(p) ==
    /\ CloseStep(p, "clear", "recycle")
    /\ fd' = [fd EXCEPT ![target[p]] = NoFd]
    /\ UNCHANGED <<iCurrsequence, session, released, flooded, listVars, kernelVars,
                   mainVars, timerVars, workVars, target>>

\* Mutant of Recycle: the client is not taken off the count.
RecycleUncounted(p) ==
    /\ CloseStep(p, "recycle", "no")
    /\ iCurrsequence' = [iCurrsequence EXCEPT ![target[p]] = @ + 1]
    /\ m_recyconnectionList' = Append(m_recyconnectionList, target[p])
    /\ target' = [target EXCEPT ![p] = None]
    /\ UNCHANGED <<fd, session, released, flooded, m_connectionList, m_freeconnectionList,
                   m_onlineUserCount, kernelVars, mainVars, timerVars, workVars>>

\* inRecyConnectQueue: its search for p_Conn never stops the insertion.
Recycle(p) ==
    /\ CloseStep(p, "recycle", "no")
    /\ iCurrsequence' = [iCurrsequence EXCEPT ![target[p]] = @ + 1]
    /\ m_recyconnectionList' = Append(m_recyconnectionList, target[p])
    /\ m_onlineUserCount' = m_onlineUserCount - 1
    /\ target' = [target EXCEPT ![p] = None]
    /\ UNCHANGED <<fd, session, released, flooded, m_connectionList, m_freeconnectionList,
                   kernelVars, mainVars, timerVars, workVars>>

-----------------------------------------------------------------------------
(* Main thread: ngx_epoll_process_events and ngx_event_accept *)

MainIdle == main = "loop" /\ closing["main"] = "no"

\* epoll_wait reports some of the descriptors it watches.
EpollWait ==
    /\ MainIdle /\ m_events = {}
    /\ \E E \in (SUBSET (ListenConns \cup {registered[f] : f \in Fds})) \ {{}} :
          /\ None \notin E
          /\ Cardinality(E) <= MaxEvents
          /\ m_events' = E
    /\ UNCHANGED <<connVars, listVars, kernelVars, timerVars, workVars, closeVars,
                   main, newc>>

TakeEvent(c) ==
    /\ MainIdle
    /\ c \in m_events
    /\ m_events' = m_events \ {c}

LowestFree(f) == sock[f] = None /\ \A g \in Fds : sock[g] = None => f <= g

\* Mutants of the two limits: each is off by one.
TooManyClientsLate == m_onlineUserCount > m_worker_connections
PoolExhaustedLate ==
    /\ Len(m_connectionList) > 5 * m_worker_connections + 1
    /\ Len(m_freeconnectionList) < m_worker_connections

TooManyClients == m_onlineUserCount >= m_worker_connections
PoolExhausted ==
    /\ Len(m_connectionList) > 5 * m_worker_connections
    /\ Len(m_freeconnectionList) < m_worker_connections

\* accept4 fails (EAGAIN, ECONNABORTED, EMFILE), or a limit closes the socket at
\* once.
AcceptNothing(c) ==
    /\ TakeEvent(c) /\ c \in ListenConns
    /\ UNCHANGED <<connVars, listVars, kernelVars, timerVars, workVars, closeVars,
                   main, newc>>

\* ngx_get_connection: the first free object, else a new one at the next
\* address, or at one the flood check gave back to the allocator.
Obtains(c) ==
    IF m_freeconnectionList # <<>>
    THEN /\ c = Head(m_freeconnectionList)
         /\ UNCHANGED <<m_connectionList, released>>
    ELSE /\ \/ c \in released
            \/ c \notin Range(m_connectionList) /\ c - 1 \in Range(m_connectionList)
         /\ m_connectionList' = Append(m_connectionList, c)
         /\ released' = released \ {c}

\* Mutant of SeqGiven: a reused object starts again from 0.
SeqGivenAnew(c) == 1

\* GetOneToUse; the constructor of a new object starts from 0.
SeqGiven(c) == IF m_freeconnectionList # <<>> THEN iCurrsequence[c] + 1 ELSE 1
FreeLeft == IF m_freeconnectionList # <<>> THEN Tail(m_freeconnectionList) ELSE <<>>

\* accept4 succeeds with the lowest free descriptor f, both limits are passed,
\* and connection c is given to the client.
AcceptOn(l, c, f) ==
    /\ TakeEvent(l) /\ l \in ListenConns
    /\ LowestFree(f) /\ accepted < MaxClients
    /\ ~TooManyClients /\ ~PoolExhausted
    /\ Obtains(c)
    /\ fd' = [fd EXCEPT ![c] = f]
    /\ session' = [session EXCEPT ![c] = accepted + 1]
    /\ accepted' = accepted + 1
    /\ UNCHANGED <<flooded, m_recyconnectionList, m_onlineUserCount, timerVars,
                   workVars, closeVars>>

Accept(l, c, f) ==
    /\ AcceptOn(l, c, f)
    /\ m_freeconnectionList' = FreeLeft
    /\ iCurrsequence' = [iCurrsequence EXCEPT ![c] = SeqGiven(c)]
    /\ sock' = [sock EXCEPT ![f] = accepted + 1]
    /\ registered' = [registered EXCEPT ![f] = c]
    /\ main' = IF TimerEnable THEN "timer" ELSE "count"
    /\ newc' = c

\* epoll_ctl fails: ngx_close_connection frees the object, closes the socket
\* and leaves fd as it is (the assignment is written ==).
AcceptFails(l, c, f) ==
    /\ AcceptOn(l, c, f)
    /\ m_freeconnectionList' = Append(FreeLeft, c)
    /\ iCurrsequence' = [iCurrsequence EXCEPT ![c] = SeqGiven(c) + 1]
    /\ UNCHANGED <<sock, registered, main, newc>>

\* AddToTimerQueue; waits for ever behind a hung timer thread.
AddTimer ==
    /\ main = "timer" /\ main' = "count"
    /\ ~hung
    /\ m_timerQueuemap' = m_timerQueuemap \cup {Tag(newc)}
    /\ UNCHANGED <<connVars, listVars, kernelVars, workVars, closeVars, m_events,
                   newc, m_lsIdleList, hung>>

CountOnline ==
    /\ main = "count" /\ main' = "loop"
    /\ m_onlineUserCount' = m_onlineUserCount + 1
    /\ newc' = None
    /\ UNCHANGED <<connVars, m_connectionList, m_freeconnectionList,
                   m_recyconnectionList, kernelVars, timerVars, workVars,
                   closeVars, m_events>>

-----------------------------------------------------------------------------
(* Main thread: ngx_read_request_handler *)

Open(f) == f \in Fds /\ sock[f] # None

\* Part of a packet (see PacketRecv), or a complete one for the pool threads.
ReadPart(c) ==
    /\ TakeEvent(c) /\ Open(fd[c])
    /\ UNCHANGED <<connVars, listVars, kernelVars, timerVars, workVars, closeVars,
                   main, newc>>

ReadPacket(c) ==
    /\ TakeEvent(c) /\ Open(fd[c])
    /\ inbox' = inbox \cup {Tag(c)}
    /\ UNCHANGED <<connVars, listVars, kernelVars, timerVars, closeVars, main,
                   newc, job>>

\* recv returns 0 or fails; it fails for sure on a descriptor that is not open.
ReadEnds(c) ==
    /\ TakeEvent(c) /\ c \notin ListenConns
    /\ Len(m_recyconnectionList) < MaxRecy
    /\ StartClose("main", c)
    /\ UNCHANGED <<connVars, listVars, kernelVars, timerVars, workVars, main, newc>>

\* The packet fails TestFlood: plast releases the connection object itself
\* instead of the packet, free() may overwrite fd, then the object is closed.
ReadFlood(c) ==
    /\ FloodEnable
    /\ TakeEvent(c) /\ Open(fd[c])
    /\ released' = released \cup {c} /\ flooded' = flooded \cup {c}
    /\ \E g \in {fd[c], GarbageFd} : fd' = [fd EXCEPT ![c] = g]
    /\ StartClose("main", c)
    /\ UNCHANGED <<iCurrsequence, session, listVars, kernelVars, timerVars,
                   workVars, main, newc>>

-----------------------------------------------------------------------------
(* Timer thread: ServerTimerQueueMonitorThread, procPingTimeOutChecking *)

TimerIdle == TimerEnable /\ ~hung /\ closing["timer"] = "no"

\* Some entries have expired.  Without TimeOutKick each is queued again.
\* If entries are left, GetOverTimeTimer at last returns an uninitialised
\* pointer: the loop ends if that is NULL, else it goes on with the mutex held.
ScanTimers ==
    /\ TimerIdle /\ m_lsIdleList = {}
    /\ m_timerQueuemap # {}
    /\ \E expired \in SUBSET m_timerQueuemap :
          /\ m_lsIdleList' = expired
          /\ m_timerQueuemap' = IF TimeOutKick THEN m_timerQueuemap \ expired
                                ELSE m_timerQueuemap
    /\ hung' \in IF m_timerQueuemap' = {} THEN {FALSE} ELSE BOOLEAN
    /\ UNCHANGED <<connVars, listVars, kernelVars, mainVars, workVars, closeVars>>

\* procPingTimeOutChecking on one of them: nothing to do, or the client is kicked.
TimerPasses ==
    /\ TimerIdle
    /\ \E tag \in m_lsIdleList :
          /\ TimeOutKick => ~Fresh(tag)
          /\ m_lsIdleList' = m_lsIdleList \ {tag}
    /\ UNCHANGED <<connVars, listVars, kernelVars, mainVars, workVars, closeVars,
                   m_timerQueuemap, hung>>

TimerKicks ==
    /\ TimerIdle
    /\ \E tag \in m_lsIdleList :
          /\ Fresh(tag)
          /\ StartClose("timer", tag.conn)
          /\ m_lsIdleList' = m_lsIdleList \ {tag}
    /\ UNCHANGED <<connVars, listVars, kernelVars, mainVars, workVars,
                   m_timerQueuemap, hung>>

-----------------------------------------------------------------------------
(* Pool threads: threadRecvProcFunc and msgSend *)

\* A stale packet is dropped.
Dispatch(w) ==
    /\ closing[w] = "no" /\ job[w] = {}
    /\ \E m \in inbox :
          /\ inbox' = inbox \ {m}
          /\ job' = [job EXCEPT ![w] = IF Fresh(m) THEN {m} ELSE {}]
    /\ UNCHANGED <<connVars, listVars, kernelVars, mainVars, timerVars, closeVars>>

\* The handler ends, with or without queueing a reply.
Finish(w) ==
    /\ closing[w] = "no" /\ job[w] # {}
    /\ job' = [job EXCEPT ![w] = {}]
    /\ UNCHANGED <<connVars, listVars, kernelVars, mainVars, timerVars, closeVars,
                   inbox>>

\* msgSend finds too many unsent replies and closes the connection while it
\* holds m_sendMessageQueueMutex; it does not compare sequence numbers.
KickBacklog(w) ==
    /\ SendBacklog
    /\ \A v \in Workers : closing[v] = "no"
    /\ \E m \in job[w] : StartClose(w, m.conn)
    /\ job' = [job EXCEPT ![w] = {}]
    /\ UNCHANGED <<connVars, listVars, kernelVars, mainVars, timerVars, inbox>>

-----------------------------------------------------------------------------
(* ServerRecyConnectionThread, if it is created *)

\* The loop erases the first connection of the list that has waited long enough.
\* One that was closed twice is in the list twice, and waits from the second time on.
LastPlace(c) ==
    CHOOSE i \in DOMAIN m_recyconnectionList :
        /\ m_recyconnectionList[i] = c
        /\ \A j \in DOMAIN m_recyconnectionList : m_recyconnectionList[j] = c => j <= i

InTurn(i) ==
    \A j \in 1 .. i - 1 :
        LastPlace(m_recyconnectionList[j]) > LastPlace(m_recyconnectionList[i])

\* Mutant of RecycleDue: the entry is not erased.
RecycleNotErased ==
    /\ RecyThread
    /\ m_recyconnectionList # <<>>
    /\ LET c == Head(m_recyconnectionList)
       IN  /\ iCurrsequence' = [iCurrsequence EXCEPT ![c] = @ + 1]
           /\ m_freeconnectionList' = Append(m_freeconnectionList, c)
    /\ UNCHANGED <<fd, session, released, flooded, m_connectionList, m_recyconnectionList,
                   m_onlineUserCount, kernelVars, mainVars, timerVars, workVars,
                   closeVars>>

RecycleDue ==
    /\ RecyThread
    /\ \E i \in DOMAIN m_recyconnectionList :
          LET c == m_recyconnectionList[i]
          IN  /\ InTurn(i)
              /\ iCurrsequence' = [iCurrsequence EXCEPT ![c] = @ + 1]
              /\ m_freeconnectionList' = Append(m_freeconnectionList, c)
              /\ m_recyconnectionList' = RemoveAt(m_recyconnectionList, i)
    /\ UNCHANGED <<fd, session, released, flooded, m_connectionList, m_onlineUserCount,
                   kernelVars, mainVars, timerVars, workVars, closeVars>>

-----------------------------------------------------------------------------
ZdClose(p) == Unlist(p) \/ TestFd(p) \/ CloseFd(p) \/ ClearFd(p) \/ Recycle(p)

MainStep ==
    \/ EpollWait \/ AddTimer \/ CountOnline
    \/ \E c \in Conns :
          \/ AcceptNothing(c) \/ ReadPart(c) \/ ReadPacket(c) \/ ReadEnds(c)
          \/ ReadFlood(c)
          \/ \E l \in Conns, f \in Fds : Accept(l, c, f) \/ AcceptFails(l, c, f)

TimerStep == ScanTimers \/ TimerPasses \/ TimerKicks

Next ==
    \/ MainStep \/ TimerStep \/ RecycleDue
    \/ \E w \in Workers : Dispatch(w) \/ Finish(w) \/ KickBacklog(w)
    \/ \E p \in Closers : ZdClose(p)

Spec == Init /\ [][Next]_vars

-----------------------------------------------------------------------------
Tags == [conn : Conns, iCurrsequence : Nat, client : Clients]

TypeOK ==
    /\ m_connectionList \in Seq(Conns)
    /\ m_freeconnectionList \in Seq(Conns)
    /\ m_recyconnectionList \in Seq(Conns)
    /\ m_onlineUserCount \in Int
    /\ iCurrsequence \in [Conns -> Nat]
    /\ fd \in [Conns -> {NoFd, ListenFd, GarbageFd} \cup Fds]
    /\ session \in [Conns -> Clients \cup {None}]
    /\ released \in SUBSET Conns /\ flooded \in SUBSET Conns
    /\ sock \in [Fds -> Clients \cup {None}]
    /\ registered \in [Fds -> Conns \cup {None}]
    /\ accepted \in 0 .. MaxClients
    /\ m_events \in SUBSET Conns
    /\ main \in {"loop", "timer", "count"}
    /\ newc \in Conns \cup {None}
    /\ m_timerQueuemap \in SUBSET Tags /\ m_lsIdleList \in SUBSET Tags
    /\ hung \in BOOLEAN
    /\ inbox \in SUBSET Tags
    /\ job \in [Workers -> SUBSET Tags]
    /\ closing \in [Closers -> {"no", "unlist", "test", "close", "clear", "recycle"}]
    /\ target \in [Closers -> Conns \cup {None}]
    /\ \A c \in Conns : fd[c] = ListenFd => c <= Ports
    /\ \A p \in Closers : closing[p] # "no" => target[p] # None
    /\ main # "loop" => newc # None

ClosingConns == {target[p] : p \in Closers}
Online == {f \in Fds : sock[f] # None}
TagsInUse ==
    m_timerQueuemap \cup m_lsIdleList \cup inbox
    \cup UNION {job[w] : w \in Workers}

\* The pool stops growing at 5 * worker_connections + 1 objects, the limit
\* ngx_event_accept sets, however connections are closed and never recycled.
PoolBound == Len(m_connectionList) <= 5 * m_worker_connections + 1

\* A tag (packet or timer entry) whose sequence number still equals its
\* connection's belongs to the client that has the connection now: the
\* comparison of iCurrsequence never lets an old client's packet through.
StaleDetected ==
    \A tag \in TagsInUse : Fresh(tag) => session[tag.conn] = tag.client

\* A connection on the free list is there once, is in no other list, is being
\* closed by nobody, is watched by no descriptor, and no tag names it as fresh.
FreeConnsIdle ==
    /\ IsInjective(m_freeconnectionList)
    /\ \A c \in Range(m_freeconnectionList) :
          /\ c \notin Range(m_recyconnectionList)
          /\ c \notin ClosingConns
          /\ \A f \in Fds : registered[f] # c
          /\ \A tag \in TagsInUse : tag.conn = c => ~Fresh(tag)

\* Every open client socket can still be reached: epoll hands out the
\* connection that holds it.  So no race of closers leaks a socket; only the
\* flood check, which releases the connection first, may.
SocketReachable ==
    \A f \in Fds : sock[f] # None /\ registered[f] \notin flooded =>
        \E c \in Conns : registered[f] = c /\ fd[c] = f /\ session[c] = sock[f]

\* The descriptor in a connection nobody is closing is its own client's socket.
FdIsOwn ==
    \A c \in Conns :
        fd[c] \in Fds /\ c \notin ClosingConns /\ c \notin Range(m_freeconnectionList)
            => sock[fd[c]] = session[c]

\* At most worker_connections clients are connected (nginx.conf).
AdmissionLimit == Cardinality(Online) <= m_worker_connections

\* Between two events m_onlineUserCount never exceeds the number of connected
\* clients, whoever closes what how often: no client is refused for the limit
\* while fewer than worker_connections are connected.
CountNeverHigh ==
    main = "loop" /\ (\A p \in Closers : closing[p] = "no") =>
        m_onlineUserCount <= Cardinality(Online)
=============================================================================
