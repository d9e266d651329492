------------------------------- MODULE TimerQueue -------------------------------
(***************************************************************************)
(* The clock that kicks silent clients (net/ngx_c_socket_time.cpp): each   *)
(* connection has an entry in m_timerQueuemap under m_timequeueMutex;      *)
(* ServerTimerQueueMonitorThread looks at the cached size and earliest     *)
(* time without the mutex, takes the expired entries with it, and checks   *)
(* them without it in procPingTimeOutChecking, while the main thread adds  *)
(* and closes connections and pool threads answer pings.                   *)
(*                                                                         *)
(* Time is the seconds of time(NULL).  zdClosesocketProc is one action     *)
(* here; ConnPool has its steps.                                           *)
(***************************************************************************)
EXTENDS Integers, FiniteSets

CONSTANTS
    Conns,          \* connections of clients; none is used again
    m_iWaitTime,    \* Sock_MaxWaitTime
    Grace,          \* 10 in procPingTimeOutChecking
    TimeOutKick,    \* m_ifTimeOutKick = 1
    UnsetPTmp,      \* what p_tmp of GetOverTimeTimer may hold uninitialised
    StopCalled,     \* does the event loop ever end, with g_stopEvent set?
    MaxTime         \* bound: seconds

ASSUME TimerTimes == m_iWaitTime \in Nat \ {0} /\ Grace \in Nat /\ MaxTime \in Nat
ASSUME TimerSwitches == TimeOutKick \in BOOLEAN /\ StopCalled \in BOOLEAN
ASSUME TimerUnset == UnsetPTmp \in SUBSET {"NULL", "garbage"} /\ UnsetPTmp # {}

VARIABLES
    now,            \* time(NULL)
    conn,           \* of each connection: "none", "open" or "closed"
    lastPingTime,
    adding,         \* connections the main thread is adding, with their fultime
    m_timerQueuemap,   \* entries: connection and time
    m_cur_size_, m_timer_value_,
    thread,         \* step of the timer thread
    cur_time,       \* time(NULL) when the timer thread found the clock due
    m_lsIdleList,   \* expired entries it took
    victim,         \* connection it decided to kick and has not closed yet
    silence,        \* history: how long a client had been silent at that time
    main            \* main thread: "run", or its step in Shutdown_subproc

clientVars == <<conn, lastPingTime, silence>>
queueVars == <<m_timerQueuemap, m_cur_size_, m_timer_value_>>
threadVars == <<thread, cur_time, m_lsIdleList, victim>>
vars == <<now, clientVars, adding, queueVars, threadVars, main>>

Init ==
    /\ now = 0
    /\ conn = [c \in Conns |-> "none"]
    /\ lastPingTime = [c \in Conns |-> 0]
    /\ silence = [c \in Conns |-> -1]
    /\ adding = {}
    /\ m_timerQueuemap = {} /\ m_cur_size_ = 0 /\ m_timer_value_ = 0
    /\ thread = "look" /\ cur_time = 0 /\ m_lsIdleList = {} /\ victim = {}
    /\ main = "run"

g_stopEvent == main # "run"

\* m_timequeueMutex; a hung thread never leaves the loop that holds it.
MutexFree == thread \notin {"scan", "hung"}

\* GetEarliestTime of entries Q, which the callers ensure are not empty.
GetEarliestTime(Q) == CHOOSE t \in {e.time : e \in Q} : \A e \in Q : t <= e.time

\* The entries become Q; m_timer_value_ stays if none is left.
SetQueue(Q) ==
    /\ m_timerQueuemap' = Q
    /\ m_cur_size_' = m_cur_size_ + Cardinality(Q) - Cardinality(m_timerQueuemap)
    /\ m_timer_value_' = IF m_cur_size_' > 0 THEN GetEarliestTime(Q) ELSE m_timer_value_

-----------------------------------------------------------------------------
(* Time, clients and the threads that serve them *)

Tick ==
    /\ now < MaxTime
    /\ now' = now + 1
    /\ UNCHANGED <<clientVars, adding, queueVars, threadVars, main>>

\* ngx_event_accept: GetOneToUse, and AddToTimerQueue up to its lock.
Accept(c) ==
    /\ main = "run"
    /\ conn[c] = "none" /\ adding = {}
    /\ conn' = [conn EXCEPT ![c] = "open"]
    /\ lastPingTime' = [lastPingTime EXCEPT ![c] = now]
    /\ adding' = {[conn |-> c, time |-> now + m_iWaitTime]}
    /\ UNCHANGED <<now, silence, queueVars, threadVars, main>>

AddToTimerQueue ==
    /\ adding # {} /\ MutexFree
    /\ SetQueue(m_timerQueuemap \cup adding)
    /\ adding' = {}
    /\ UNCHANGED <<now, clientVars, threadVars, main>>

\* _HandlePing
Ping(c) ==
    /\ main = "run"
    /\ conn[c] = "open" /\ \A e \in adding : e.conn # c
    /\ lastPingTime' = [lastPingTime EXCEPT ![c] = now]
    /\ UNCHANGED <<now, conn, silence, adding, queueVars, threadVars, main>>

\* Mutant of DeleteFromTimerQueue: the cached time is kept.
DeleteOnly(c) ==
    /\ MutexFree
    /\ m_timerQueuemap' = {e \in m_timerQueuemap : e.conn # c}
    /\ m_cur_size_' = Cardinality(m_timerQueuemap')
    /\ UNCHANGED m_timer_value_

DeleteFromTimerQueue(c) ==
    /\ MutexFree
    /\ SetQueue({e \in m_timerQueuemap : e.conn # c})

\* The main thread closes a connection whose client left.
Leave(c) ==
    /\ main = "run"
    /\ conn[c] = "open" /\ adding = {}
    /\ DeleteFromTimerQueue(c)
    /\ conn' = [conn EXCEPT ![c] = "closed"]
    /\ UNCHANGED <<now, lastPingTime, silence, adding, threadVars, main>>

-----------------------------------------------------------------------------
(* ServerTimerQueueMonitorThread *)

Thread(from, to) == thread = from /\ thread' = to

\* Reads the cached size and time without the mutex.
Due ==
    /\ Thread("look", "lock")
    /\ ~g_stopEvent
    /\ m_cur_size_ > 0 /\ m_timer_value_ < now
    /\ cur_time' = now
    /\ UNCHANGED <<now, clientVars, adding, queueVars, m_lsIdleList, victim, main>>

Lock ==
    /\ Thread("lock", "scan")
    /\ UNCHANGED <<now, clientVars, adding, queueVars, cur_time, m_lsIdleList,
                   victim, main>>

\* RemoveFirstTimer, then the entry that replaces it unless TimeOutKick.
IsFirst(e) == e \in m_timerQueuemap /\ \A d \in m_timerQueuemap : e.time <= d.time
Again(e) == IF TimeOutKick THEN {} ELSE {[e EXCEPT !.time = cur_time + m_iWaitTime]}

\* Mutant of GetOverTimeTimer: the entry is not queued again.
GetAndForget ==
    /\ Thread("scan", "scan")
    /\ \E e \in m_timerQueuemap :
          /\ IsFirst(e) /\ e.time <= cur_time
          /\ SetQueue(m_timerQueuemap \ {e})
          /\ m_lsIdleList' = m_lsIdleList \cup {e}
    /\ UNCHANGED <<now, clientVars, adding, cur_time, victim, main>>

GetOverTimeTimer ==
    /\ Thread("scan", "scan")
    /\ \E e \in m_timerQueuemap :
          /\ IsFirst(e) /\ e.time <= cur_time
          /\ SetQueue((m_timerQueuemap \ {e}) \cup Again(e))
          /\ m_lsIdleList' = m_lsIdleList \cup {e}
    /\ UNCHANGED <<now, clientVars, adding, cur_time, victim, main>>

\* NULL ends the loop: the queue is empty ...
ScanEnds ==
    /\ Thread("scan", "check")
    /\ m_timerQueuemap = {}
    /\ UNCHANGED <<now, clientVars, adding, queueVars, cur_time, m_lsIdleList,
                   victim, main>>

\* ... or nothing is expired and p_tmp, never assigned, happens to be NULL.  If
\* it is not, the loop goes on for ever: cur_time does not change in it.
NothingExpired ==
    /\ m_timerQueuemap # {} /\ \A e \in m_timerQueuemap : e.time > cur_time
    /\ \/ "NULL" \in UnsetPTmp /\ Thread("scan", "check")
       \/ "garbage" \in UnsetPTmp /\ Thread("scan", "hung")
    /\ UNCHANGED <<now, clientVars, adding, queueVars, cur_time, m_lsIdleList,
                   victim, main>>

\* Mutants of MustKick: the wait time is not multiplied; nobody is kicked.
MustKickSoon(c) == TimeOutKick \/ cur_time - lastPingTime[c] > m_iWaitTime
MustKickNever(c) == FALSE

\* procPingTimeOutChecking
MustKick(c) == TimeOutKick \/ cur_time - lastPingTime[c] > m_iWaitTime * 3 + Grace

CheckPasses ==
    /\ Thread("check", "check")
    /\ \E e \in m_lsIdleList :
          /\ conn[e.conn] = "open" => ~MustKick(e.conn)
          /\ m_lsIdleList' = m_lsIdleList \ {e}
    /\ UNCHANGED <<now, clientVars, adding, queueVars, cur_time, victim, main>>

CheckKicks ==
    /\ Thread("check", "kick")
    /\ \E e \in m_lsIdleList :
          /\ conn[e.conn] = "open" /\ MustKick(e.conn)
          /\ victim' = {e.conn}
          /\ silence' = [silence EXCEPT ![e.conn] = now - lastPingTime[e.conn]]
          /\ m_lsIdleList' = m_lsIdleList \ {e}
    /\ UNCHANGED <<now, conn, lastPingTime, adding, queueVars, cur_time, main>>

\* zdClosesocketProc; meanwhile the client may have pinged, or left.
Kick ==
    /\ Thread("kick", "check")
    /\ \E c \in victim :
          /\ DeleteFromTimerQueue(c)
          /\ conn' = [conn EXCEPT ![c] = "closed"]
    /\ victim' = {}
    /\ UNCHANGED <<now, lastPingTime, silence, adding, cur_time, m_lsIdleList, main>>

Checked ==
    /\ Thread("check", "look")
    /\ m_lsIdleList = {}
    /\ UNCHANGED <<now, clientVars, adding, queueVars, cur_time, m_lsIdleList,
                   victim, main>>

\* Mutant of Exit: the flag is looked at only when the queue is empty.
ExitIdle ==
    /\ Thread("look", "exited")
    /\ g_stopEvent /\ m_cur_size_ = 0
    /\ UNCHANGED <<now, clientVars, adding, queueVars, cur_time, m_lsIdleList, victim, main>>

Exit ==
    /\ Thread("look", "exited")
    /\ g_stopEvent
    /\ UNCHANGED <<now, clientVars, adding, queueVars, cur_time, m_lsIdleList, victim, main>>

-----------------------------------------------------------------------------
(* Main thread: Shutdown_subproc, after stopAll has ended the pool threads *)

StopEvent ==
    /\ StopCalled /\ main = "run" /\ adding = {}
    /\ main' = "join"
    /\ UNCHANGED <<now, clientVars, adding, queueVars, threadVars>>

\* pthread_join, then clearAllFromTimerQueue.
JoinAndClear ==
    /\ main = "join" /\ main' = "gone"
    /\ thread = "exited"
    /\ m_timerQueuemap' = {}
    /\ m_cur_size_' = m_cur_size_ - Cardinality(m_timerQueuemap)
    /\ UNCHANGED <<now, clientVars, adding, m_timer_value_, threadVars>>

-----------------------------------------------------------------------------
ThreadStep ==
    \/ Due \/ Lock \/ GetOverTimeTimer \/ ScanEnds \/ NothingExpired
    \/ CheckPasses \/ CheckKicks \/ Kick \/ Checked \/ Exit

Next ==
    \/ Tick \/ AddToTimerQueue \/ ThreadStep \/ StopEvent \/ JoinAndClear
    \/ \E c \in Conns : Accept(c) \/ Ping(c) \/ Leave(c)

Spec == Init /\ [][Next]_vars

(* Time passes and the two threads run; clients need not do anything. *)
FairSpec ==
    /\ Spec
    /\ WF_vars(Tick) /\ WF_vars(ThreadStep)
    /\ WF_vars(AddToTimerQueue) /\ WF_vars(JoinAndClear)

-----------------------------------------------------------------------------
Entries == [conn : Conns, time : Nat]

TypeOK ==
    /\ now \in 0 .. MaxTime /\ cur_time \in 0 .. MaxTime
    /\ conn \in [Conns -> {"none", "open", "closed"}]
    /\ lastPingTime \in [Conns -> 0 .. MaxTime]
    /\ silence \in [Conns -> Int]
    /\ adding \in SUBSET Entries
    /\ m_timerQueuemap \in SUBSET Entries
    /\ m_cur_size_ \in Nat /\ m_timer_value_ \in Nat
    /\ thread \in {"look", "lock", "scan", "check", "kick", "hung", "exited"}
    /\ main \in {"run", "join", "gone"}
    /\ m_lsIdleList \in SUBSET Entries /\ victim \in SUBSET Conns

\* The two values the timer thread reads without the mutex are those of the
\* queue, so it never sleeps over an entry that is due.
CacheExact ==
    /\ m_cur_size_ = Cardinality(m_timerQueuemap)
    /\ m_timerQueuemap # {} => m_timer_value_ = GetEarliestTime(m_timerQueuemap)

EntriesOf(c) == {e \in m_timerQueuemap \cup adding : e.conn = c}

\* Every connected client stays under the clock: it has one entry, or the timer
\* thread is about to check it; and a closed connection leaves none behind.
OneEntryEach ==
    main # "gone" => \A c \in Conns :
        IF conn[c] = "open"
        THEN \/ Cardinality(EntriesOf(c)) = 1
             \/ TimeOutKick /\ EntriesOf(c) = {}
                /\ c \in victim \cup {e.conn : e \in m_lsIdleList}
        ELSE EntriesOf(c) = {}

\* The heartbeat check decides to kick only a client that at this moment sent no
\* ping for three wait times and the grace: the entry, the time of the check and
\* the time of the last ping, all taken at different moments, do not disagree.
KickedOnlySilent ==
    ~TimeOutKick => \A c \in Conns : silence[c] # -1 => silence[c] > m_iWaitTime * 3 + Grace

Overdue(c, t) == conn[c] = "open" /\ lastPingTime[c] = t
LongEnough(t) == t + 4 * m_iWaitTime + Grace < MaxTime

\* With Sock_WaitTimeEnable a client that sends no ping is kicked, unless the timer
\* thread is caught in the loop over the expired entries or the worker stops.
SilentKickedOrHung ==
    \A c \in Conns : \A t \in 0 .. MaxTime :
        LongEnough(t) =>
            (Overdue(c, t) ~> ~Overdue(c, t) \/ thread = "hung" \/ g_stopEvent)

\* Shutdown_subproc gets the timer thread to end, whatever it was doing and
\* whoever is still under the clock, unless it is caught in that loop.
StopReturns == (main = "join") ~> (main = "gone" \/ thread = "hung")
=============================================================================
