---------------------------- MODULE TimerQueue_proofs ----------------------------
(***************************************************************************)
(* Proofs about TimerQueue, for any clients, times and switches.  The      *)
(* timer thread reads the cached size and time without the mutex, so both  *)
(* have to be right after every operation on the map: SetQueue keeps them  *)
(* (QueueSet), and nothing else changes the map but the end of the worker. *)
(* That only the silent are kicked rests on the order in which the clock   *)
(* is read (InPast): the time of the check and every last ping are past    *)
(* when the decision is made.  That every client has its one entry needs   *)
(* to know where an entry can be meanwhile (UnderClock): about to be       *)
(* added, in the map, taken from it, or about to be kicked for.            *)
(***************************************************************************)
EXTENDS TimerQueue, FiniteSetTheorems, WellFoundedInduction, TLAPS

Finite == IsFiniteSet(m_timerQueuemap) /\ IsFiniteSet(adding)

InPast == cur_time <= now /\ \A c \in Conns : lastPingTime[c] <= now

IInv == TypeOK /\ Finite /\ CacheExact

-----------------------------------------------------------------------------
(* A set of times has an earliest one. *)
LEMMA EarliestExists ==
    ASSUME NEW T \in SUBSET Nat, T # {}
    PROVE  \E t \in T : \A u \in T : t <= u
<1> DEFINE R == OpToRel(<, Nat)
<1>1. IsWellFoundedOn(R, Nat)
    BY NatLessThanWellFounded
<1>2. \A u, t \in Nat : u < t => <<u, t>> \in R
    BY DEF OpToRel
<1> HIDE DEF R
<1>3. PICK t \in T : \A u \in T : <<u, t>> \notin R
    BY <1>1, WFMin
<1>4. \A u \in T : ~(u < t)
    BY <1>2, <1>3
<1>5. \A u \in T : t <= u
    BY <1>4
<1> QED
    BY <1>5

(* GetEarliestTime of entries is the time of one of them. *)
LEMMA EarliestIsTime ==
    ASSUME NEW Q \in SUBSET Entries, Q # {}
    PROVE  GetEarliestTime(Q) \in Nat
<1> DEFINE T == {e.time : e \in Q}
<1>1. T \in SUBSET Nat /\ T # {}
    BY DEF Entries
<1>2. \E t \in T : \A u \in T : t <= u
    <2> HIDE DEF T
    <2> QED
        BY <1>1, EarliestExists
<1>3. \E t \in {e.time : e \in Q} : \A e \in Q : t <= e.time
    BY <1>2
<1>4. GetEarliestTime(Q) \in T
    BY <1>3 DEF GetEarliestTime
<1> QED
    BY <1>1, <1>4

(* AddToTimerQueue, DeleteFromTimerQueue and RemoveFirstTimer: the cached size and *)
(* time are those of the entries that result.                                      *)
LEMMA QueueSet ==
    ASSUME IInv, NEW Q \in SUBSET Entries, IsFiniteSet(Q), SetQueue(Q)
    PROVE  /\ m_timerQueuemap' \in SUBSET Entries /\ IsFiniteSet(m_timerQueuemap')
           /\ m_cur_size_' \in Nat /\ m_timer_value_' \in Nat
           /\ CacheExact'
<1> USE DEF IInv
<1>1. m_timerQueuemap' = Q
    BY DEF SetQueue
<1>2. Cardinality(Q) \in Nat /\ Cardinality(m_timerQueuemap) \in Nat
    BY FS_CardinalityType DEF Finite
<1>3. m_cur_size_' = Cardinality(Q)
    BY <1>2 DEF SetQueue, CacheExact
<1>4. Q # {} <=> m_cur_size_' > 0
    BY <1>2, <1>3, FS_EmptySet
<1>5. m_timer_value_' \in Nat /\ (Q # {} => m_timer_value_' = GetEarliestTime(Q))
    BY <1>4, EarliestIsTime DEF SetQueue, TypeOK
<1>6. CacheExact'
    BY <1>1, <1>3, <1>5 DEF CacheExact, GetEarliestTime
<1> QED
    BY <1>1, <1>2, <1>3, <1>5, <1>6

(* A connection's entries taken out. *)
LEMMA DeleteKeeps ==
    ASSUME IInv, NEW c \in Conns, DeleteFromTimerQueue(c)
    PROVE  /\ m_timerQueuemap' \in SUBSET Entries /\ IsFiniteSet(m_timerQueuemap')
           /\ m_cur_size_' \in Nat /\ m_timer_value_' \in Nat
           /\ CacheExact'
<1> DEFINE Q == {e \in m_timerQueuemap : e.conn # c}
<1>1. Q \in SUBSET Entries /\ IsFiniteSet(Q)
    BY FS_Subset DEF IInv, TypeOK, Finite
<1>2. SetQueue(Q)
    BY DEF DeleteFromTimerQueue
<1> HIDE DEF Q
<1> QED
    BY <1>1, <1>2, QueueSet

(* The first entry taken out, and perhaps put back with a later time. *)
LEMMA AgainKeeps ==
    ASSUME IInv, NEW e \in m_timerQueuemap,
           SetQueue((m_timerQueuemap \ {e}) \cup Again(e))
    PROVE  /\ m_timerQueuemap' \in SUBSET Entries /\ IsFiniteSet(m_timerQueuemap')
           /\ m_cur_size_' \in Nat /\ m_timer_value_' \in Nat
           /\ CacheExact'
<1> DEFINE Q == (m_timerQueuemap \ {e}) \cup Again(e)
<1>1. Again(e) \in SUBSET Entries /\ IsFiniteSet(Again(e))
  <2>1. cur_time + m_iWaitTime \in Nat
      BY TimerTimes DEF IInv, TypeOK
  <2>2. [e EXCEPT !.time = cur_time + m_iWaitTime] \in Entries
      BY <2>1 DEF IInv, TypeOK, Entries
  <2> QED
      BY <2>2, FS_EmptySet, FS_Singleton DEF Again
<1>2. IsFiniteSet(m_timerQueuemap \ {e})
    BY FS_Subset DEF IInv, Finite
<1>3. IsFiniteSet(Q)
    BY <1>1, <1>2, FS_Union
<1>4. Q \in SUBSET Entries
    BY <1>1 DEF IInv, TypeOK
<1> HIDE DEF Q
<1> QED
    BY <1>3, <1>4, QueueSet DEF Q

-----------------------------------------------------------------------------
(* Steps that change neither the map nor what is cached of it. *)
LEMMA QueueUnchanged ==
    ASSUME IInv, UNCHANGED queueVars
    PROVE  CacheExact'
    BY DEF IInv, CacheExact, GetEarliestTime, queueVars

LEMMA IInvStep == IInv /\ [Next]_vars => IInv'
<1> SUFFICES ASSUME IInv, [Next]_vars PROVE IInv'
    OBVIOUS
<1> USE TimerTimes DEF TypeOK, Finite
<1>0. TypeOK /\ Finite
    BY DEF IInv
<1>1. CASE Tick
    BY <1>0, <1>1, QueueUnchanged DEF Tick, IInv, clientVars, queueVars, threadVars
<1>2. CASE AddToTimerQueue
  <2>1. m_timerQueuemap \cup adding \in SUBSET Entries /\ IsFiniteSet(m_timerQueuemap \cup adding)
      BY <1>0, FS_Union
  <2>2. SetQueue(m_timerQueuemap \cup adding)
      BY <1>2 DEF AddToTimerQueue
  <2>3. /\ m_timerQueuemap' \in SUBSET Entries /\ IsFiniteSet(m_timerQueuemap')
        /\ m_cur_size_' \in Nat /\ m_timer_value_' \in Nat
        /\ CacheExact'
      BY <2>1, <2>2, QueueSet
  <2> QED
      BY <1>0, <1>2, <2>3, FS_EmptySet DEF AddToTimerQueue, IInv, clientVars, threadVars
<1>3. ASSUME NEW c \in Conns, Accept(c) PROVE IInv'
  <2>1. now + m_iWaitTime \in Nat
      BY <1>0
  <2> DEFINE e == [conn |-> c, time |-> now + m_iWaitTime]
  <2>2. adding' \in SUBSET Entries /\ IsFiniteSet(adding')
    <3>1. e \in Entries
        BY <2>1 DEF Entries
    <3>2. adding' = {e}
        BY <1>3 DEF Accept
    <3> HIDE DEF e
    <3> QED
        BY <3>1, <3>2, FS_Singleton
  <2>3. /\ conn' \in [Conns -> {"none", "open", "closed"}]
        /\ lastPingTime' \in [Conns -> 0 .. MaxTime]
      BY <1>0, <1>3 DEF Accept
  <2>4. CacheExact'
      BY <1>3, QueueUnchanged DEF Accept
  <2>5. UNCHANGED <<now, silence, queueVars, threadVars, main>>
      BY <1>3 DEF Accept
  <2> QED
      BY <1>0, <2>2, <2>3, <2>4, <2>5 DEF IInv, queueVars, threadVars
<1>4. ASSUME NEW c \in Conns, Ping(c) PROVE IInv'
  <2>1. CacheExact'
      BY <1>4, QueueUnchanged DEF Ping
  <2> QED
      BY <1>0, <1>4, <2>1 DEF Ping, IInv, queueVars, threadVars
<1>5. ASSUME NEW c \in Conns, Leave(c) PROVE IInv'
  <2>1. /\ m_timerQueuemap' \in SUBSET Entries /\ IsFiniteSet(m_timerQueuemap')
        /\ m_cur_size_' \in Nat /\ m_timer_value_' \in Nat
        /\ CacheExact'
      BY <1>5, DeleteKeeps DEF Leave
  <2> QED
      BY <1>0, <1>5, <2>1 DEF Leave, IInv, threadVars
<1>6. CASE ThreadStep
  <2> USE DEF Thread
  <2>1. CASE Due \/ Lock \/ ScanEnds \/ NothingExpired \/ Checked \/ Exit
    <3>1. UNCHANGED queueVars
        BY <2>1 DEF Due, Lock, ScanEnds, NothingExpired, Checked, Exit
    <3>2. CacheExact'
        BY <3>1, QueueUnchanged
    <3>3. TypeOK' /\ Finite'
        BY <1>0, <2>1 DEF Due, Lock, ScanEnds, NothingExpired, Checked, Exit, clientVars,
                          queueVars
    <3> QED
        BY <3>2, <3>3 DEF IInv
  <2>2. CASE GetOverTimeTimer
    <3>1. PICK e \in m_timerQueuemap :
              /\ SetQueue((m_timerQueuemap \ {e}) \cup Again(e))
              /\ m_lsIdleList' = m_lsIdleList \cup {e}
        BY <2>2 DEF GetOverTimeTimer
    <3>2. /\ m_timerQueuemap' \in SUBSET Entries /\ IsFiniteSet(m_timerQueuemap')
          /\ m_cur_size_' \in Nat /\ m_timer_value_' \in Nat
          /\ CacheExact'
        BY <3>1, AgainKeeps
    <3>3. m_lsIdleList' \in SUBSET Entries
        BY <1>0, <3>1
    <3> QED
        BY <1>0, <2>2, <3>2, <3>3 DEF GetOverTimeTimer, IInv, clientVars
  <2>3. CASE CheckPasses
    <3>1. CacheExact'
        BY <2>3, QueueUnchanged DEF CheckPasses
    <3> QED
        BY <1>0, <2>3, <3>1 DEF CheckPasses, IInv, clientVars, queueVars
  <2>4. CASE CheckKicks
    <3>1. CacheExact'
        BY <2>4, QueueUnchanged DEF CheckKicks
    <3>2. PICK e \in m_lsIdleList :
              /\ victim' = {e.conn}
              /\ silence' = [silence EXCEPT ![e.conn] = now - lastPingTime[e.conn]]
              /\ conn[e.conn] = "open" /\ MustKick(e.conn)
              /\ m_lsIdleList' = m_lsIdleList \ {e}
        BY <2>4 DEF CheckKicks
    <3>3. e.conn \in Conns
        BY <1>0, <3>2 DEF Entries
    <3>4. /\ victim' \in SUBSET Conns /\ m_lsIdleList' \in SUBSET Entries
          /\ silence' \in [Conns -> Int]
        BY <1>0, <3>2, <3>3
    <3> QED
        BY <1>0, <2>4, <3>1, <3>4 DEF CheckKicks, IInv, queueVars
  <2>5. CASE Kick
    <3>1. PICK c \in victim :
              DeleteFromTimerQueue(c) /\ conn' = [conn EXCEPT ![c] = "closed"]
        BY <2>5 DEF Kick
    <3>2. /\ m_timerQueuemap' \in SUBSET Entries /\ IsFiniteSet(m_timerQueuemap')
          /\ m_cur_size_' \in Nat /\ m_timer_value_' \in Nat
          /\ CacheExact'
        BY <1>0, <3>1, DeleteKeeps
    <3> QED
        BY <1>0, <2>5, <3>1, <3>2 DEF Kick, IInv
  <2> QED
      BY <1>6, <2>1, <2>2, <2>3, <2>4, <2>5 DEF ThreadStep
<1>7. CASE StopEvent
    BY <1>0, <1>7, QueueUnchanged DEF StopEvent, IInv, clientVars, queueVars, threadVars
<1>8. CASE JoinAndClear
  <2>1. m_cur_size_' = 0 /\ m_timerQueuemap' = {} /\ UNCHANGED m_timer_value_
      BY <1>8, FS_CardinalityType DEF JoinAndClear, IInv, CacheExact
  <2>2. CacheExact'
      BY <2>1, FS_EmptySet DEF CacheExact
  <2> QED
      BY <1>0, <1>8, <2>1, <2>2, FS_EmptySet DEF JoinAndClear, IInv, clientVars, threadVars
<1>9. CASE UNCHANGED vars
    BY <1>0, <1>9, QueueUnchanged DEF vars, IInv, clientVars, queueVars, threadVars
<1> QED
    BY <1>1, <1>2, <1>3, <1>4, <1>5, <1>6, <1>7, <1>8, <1>9 DEF Next

LEMMA IInvInit == Init => IInv
    BY TimerTimes, FS_EmptySet DEF Init, IInv, TypeOK, Finite, CacheExact

-----------------------------------------------------------------------------
(* The variables of the timer keep their types, whatever p_tmp holds. *)
THEOREM TypeCorrect == Spec => []TypeOK
<1>1. IInv => TypeOK
    BY DEF IInv
<1> QED
    BY <1>1, IInvInit, IInvStep, PTL DEF Spec

(* m_cur_size_ and m_timer_value_, which ServerTimerQueueMonitorThread reads without *)
(* the mutex, are those of the map.                                                  *)
THEOREM CacheIsExact == Spec => []CacheExact
<1>1. IInv => CacheExact
    BY DEF IInv
<1> QED
    BY <1>1, IInvInit, IInvStep, PTL DEF Spec

-----------------------------------------------------------------------------
LEMMA SilentInit == Init => InPast /\ KickedOnlySilent
    BY DEF Init, InPast, KickedOnlySilent

LEMMA SilentStep ==
    IInv /\ InPast /\ KickedOnlySilent /\ [Next]_vars => (InPast /\ KickedOnlySilent)'
<1> SUFFICES ASSUME IInv, InPast, KickedOnlySilent, [Next]_vars
             PROVE  (InPast /\ KickedOnlySilent)'
    OBVIOUS
<1> USE TimerTimes DEF InPast, KickedOnlySilent
<1>0. TypeOK
    BY DEF IInv
<1>1. CASE Tick
    BY <1>0, <1>1 DEF Tick, TypeOK, clientVars, threadVars
<1>2. CASE AddToTimerQueue \/ StopEvent \/ JoinAndClear \/ UNCHANGED vars
    BY <1>2 DEF AddToTimerQueue, StopEvent, JoinAndClear, vars, clientVars, threadVars
<1>3. ASSUME NEW c \in Conns, Accept(c) \/ Ping(c) \/ Leave(c)
      PROVE  (InPast /\ KickedOnlySilent)'
    BY <1>0, <1>3 DEF Accept, Ping, Leave, TypeOK, threadVars
<1>4. CASE ThreadStep
  <2>1. CASE Due
      BY <1>0, <2>1 DEF Due, TypeOK, clientVars
  <2>2. CASE CheckKicks
    <3>1. PICK e \in m_lsIdleList :
              /\ MustKick(e.conn)
              /\ silence' = [silence EXCEPT ![e.conn] = now - lastPingTime[e.conn]]
        BY <2>2 DEF CheckKicks
    <3>2. e.conn \in Conns
        BY <1>0 DEF TypeOK, Entries
    <3>3. ~TimeOutKick => now - lastPingTime[e.conn] > m_iWaitTime * 3 + Grace
        \* the check used cur_time, which is not later than now
        BY <1>0, <3>1, <3>2 DEF MustKick, TypeOK
    <3> QED
        BY <1>0, <2>2, <3>1, <3>2, <3>3 DEF CheckKicks, TypeOK
  <2>3. CASE \/ Lock \/ GetOverTimeTimer \/ ScanEnds \/ NothingExpired
             \/ CheckPasses \/ Kick \/ Checked \/ Exit
      BY <2>3 DEF Lock, GetOverTimeTimer, ScanEnds, NothingExpired, CheckPasses, Kick,
                  Checked, Exit, clientVars
  <2> QED
      BY <1>4, <2>1, <2>2, <2>3 DEF ThreadStep
<1> QED
    BY <1>1, <1>2, <1>3, <1>4 DEF Next

(* procPingTimeOutChecking decides to kick only a client that has been silent for *)
(* three wait times and the grace.                                                *)
THEOREM OnlySilentKicked == Spec => []KickedOnlySilent
<1>1. Init => IInv /\ InPast /\ KickedOnlySilent
    BY IInvInit, SilentInit
<1>2. /\ IInv /\ InPast /\ KickedOnlySilent /\ [Next]_vars
      => (IInv /\ InPast /\ KickedOnlySilent)'
    BY IInvStep, SilentStep
<1> QED
    BY <1>1, <1>2, PTL DEF Spec
-----------------------------------------------------------------------------
Queued == m_timerQueuemap \cup adding

\* Entries are of open connections, and no two are of the same.
EntriesApart ==
    /\ \A d, e \in Queued : d.conn = e.conn => d = e
    /\ \A e \in Queued : conn[e.conn] = "open"

\* A connection whose entry is being added has no other one, anywhere.
AddingNew ==
    \A e \in adding :
        /\ \A d \in m_timerQueuemap \cup m_lsIdleList : d.conn # e.conn
        /\ e.conn \notin victim

\* What the timer thread has at hand was accepted before.
ThreadsOwn ==
    /\ \A e \in m_lsIdleList : conn[e.conn] # "none"
    /\ \A c \in victim : conn[c] # "none"
    /\ \A c, d \in victim : c = d
    /\ thread # "kick" => victim = {}

InTheHand(c) == c \in victim \/ \E e \in m_lsIdleList : e.conn = c
Watched ==
    main # "gone" => \A c \in Conns :
        conn[c] = "open" => (\E e \in Queued : e.conn = c) \/ (TimeOutKick /\ InTheHand(c))

UnderClock == EntriesApart /\ AddingNew /\ ThreadsOwn /\ Watched
-----------------------------------------------------------------------------
(* Steps that leave all of this alone, but perhaps the step of the threads. *)
LEMMA ClockUntouched ==
    ASSUME UnderClock, UNCHANGED <<conn, adding, m_timerQueuemap, m_lsIdleList, victim>>,
           thread' # "kick" => victim = {},
           main' # "gone" => main # "gone"
    PROVE  UnderClock'
    BY DEF UnderClock, EntriesApart, AddingNew, ThreadsOwn, Watched, InTheHand, Queued

(* DeleteFromTimerQueue and the close that follows, of a connection without an *)
(* entry on its way.                                                           *)
LEMMA ClosedWithEntry ==
    ASSUME TypeOK, UnderClock, NEW c \in Conns, conn[c] # "none",
           DeleteFromTimerQueue(c), conn' = [conn EXCEPT ![c] = "closed"],
           \A e \in adding : e.conn # c,
           UNCHANGED <<adding, m_lsIdleList, main>>,
           victim' \subseteq victim, \A d \in victim \ victim' : d = c,
           thread' # "kick" => victim' = {}
    PROVE  UnderClock'
<1>1. m_timerQueuemap' = {e \in m_timerQueuemap : e.conn # c}
    BY DEF DeleteFromTimerQueue, SetQueue
<1>2. Queued' = {e \in Queued : e.conn # c}
    BY <1>1 DEF Queued
<1>3. conn'[c] = "closed" /\ \A d \in Conns : d # c => conn'[d] = conn[d]
    BY DEF TypeOK
<1>4. \A e \in Queued : e.conn \in Conns
    BY DEF TypeOK, Entries, Queued
<1>5. EntriesApart'
    BY <1>2, <1>3, <1>4 DEF UnderClock, EntriesApart
<1>6. AddingNew'
    BY <1>1 DEF UnderClock, AddingNew
<1>7. ThreadsOwn'
    BY <1>3 DEF UnderClock, ThreadsOwn, TypeOK, Entries
<1>8. Watched'
    BY <1>2, <1>3 DEF UnderClock, Watched, InTheHand
<1> QED
    BY <1>5, <1>6, <1>7, <1>8 DEF UnderClock

(* GetOverTimeTimer: the entry goes to the timer thread, and with TimeOutKick only there. *)
LEMMA Expired ==
    ASSUME TypeOK, UnderClock, GetOverTimeTimer
    PROVE  UnderClock'
<1>1. PICK e \in m_timerQueuemap :
          /\ m_timerQueuemap' = (m_timerQueuemap \ {e}) \cup Again(e)
          /\ m_lsIdleList' = m_lsIdleList \cup {e}
    BY DEF GetOverTimeTimer, SetQueue
<1>2. UNCHANGED <<conn, adding, victim, thread, main>>
    BY DEF GetOverTimeTimer, Thread, clientVars
<1>3. e \in Queued /\ e.conn \in Conns
    BY DEF TypeOK, Entries, Queued
<1>4. \A d \in Again(e) : d.conn = e.conn
    BY DEF Again, TypeOK, Entries
<1>5. \A d, f \in Again(e) : d = f
    BY DEF Again
<1>6. ~TimeOutKick => \E d \in Again(e) : TRUE
    BY DEF Again
<1>7. \A d \in Queued' : (d \in Queued /\ d # e) \/ d \in Again(e)
  <2>1. e \notin adding
      BY DEF UnderClock, AddingNew
  <2> QED
      BY <1>1, <1>2, <2>1 DEF Queued
<1>8. \A d \in Queued : d # e => d \in Queued'
    BY <1>1, <1>2 DEF Queued
<1>9. EntriesApart'
    BY <1>2, <1>3, <1>4, <1>5, <1>7 DEF UnderClock, EntriesApart
<1>10. AddingNew'
    BY <1>1, <1>2, <1>4 DEF UnderClock, AddingNew
<1>11. ThreadsOwn'
    BY <1>1, <1>2, <1>3 DEF UnderClock, ThreadsOwn, EntriesApart
<1>12. Watched'
  <2> SUFFICES ASSUME NEW c \in Conns, main # "gone", conn[c] = "open"
               PROVE  (\E d \in Queued' : d.conn = c) \/ (TimeOutKick /\ InTheHand(c)')
      BY <1>2 DEF Watched
  <2>1. CASE c = e.conn
    <3>1. CASE TimeOutKick
        BY <1>1, <2>1, <3>1 DEF InTheHand
    <3>2. CASE ~TimeOutKick
      <4>1. PICK d \in Again(e) : d.conn = c
          BY <1>4, <1>6, <2>1, <3>2
      <4>2. d \in Queued'
          BY <1>1 DEF Queued
      <4> QED
          BY <4>1, <4>2
    <3> QED
        BY <3>1, <3>2
  <2>2. CASE c # e.conn
    <3>1. (\E d \in Queued : d.conn = c) \/ (TimeOutKick /\ InTheHand(c))
        BY DEF UnderClock, Watched
    <3> QED
        BY <1>1, <1>2, <1>8, <2>2, <3>1 DEF InTheHand
  <2> QED
      BY <2>1, <2>2
<1> QED
    BY <1>9, <1>10, <1>11, <1>12 DEF UnderClock

LEMMA UnderClockStep == TypeOK /\ UnderClock /\ [Next]_vars => UnderClock'
<1> SUFFICES ASSUME TypeOK, UnderClock, [Next]_vars PROVE UnderClock'
    OBVIOUS
<1>0. \A e \in m_timerQueuemap \cup adding \cup m_lsIdleList : e.conn \in Conns
    BY DEF TypeOK, Entries
<1>1. thread # "kick" => victim = {}
    BY DEF UnderClock, ThreadsOwn
<1>2. CASE Tick \/ StopEvent \/ UNCHANGED vars
    BY <1>1, <1>2, ClockUntouched
    DEF Tick, StopEvent, vars, clientVars, queueVars, threadVars
<1>3. CASE AddToTimerQueue
  <2>1. m_timerQueuemap' = m_timerQueuemap \cup adding /\ adding' = {}
      BY <1>3 DEF AddToTimerQueue, SetQueue
  <2>2. UNCHANGED <<conn, m_lsIdleList, victim, thread, main>>
      BY <1>3 DEF AddToTimerQueue, clientVars, threadVars
  <2>3. Queued' = Queued
      BY <2>1 DEF Queued
  <2> QED
      BY <2>1, <2>2, <2>3
      DEF UnderClock, EntriesApart, AddingNew, ThreadsOwn, Watched, InTheHand
<1>4. ASSUME NEW c \in Conns, Accept(c) PROVE UnderClock'
  <2> DEFINE new == [conn |-> c, time |-> now + m_iWaitTime]
  <2>1. /\ conn[c] = "none" /\ adding = {} /\ adding' = {new} /\ new.conn = c
        /\ conn' = [conn EXCEPT ![c] = "open"]
        /\ UNCHANGED <<m_timerQueuemap, m_lsIdleList, victim, thread, main>>
      BY <1>4 DEF Accept, queueVars, threadVars
  <2> HIDE DEF new
  <2>2. conn'[c] = "open" /\ \A d \in Conns : d # c => conn'[d] = conn[d]
      BY <2>1 DEF TypeOK
  <2>3. \A e \in m_timerQueuemap : e.conn # c
      BY <2>1 DEF UnderClock, EntriesApart, Queued
  <2>4. (\A e \in m_lsIdleList : e.conn # c) /\ c \notin victim
      BY <2>1 DEF UnderClock, ThreadsOwn
  <2>5. Queued = m_timerQueuemap /\ Queued' = Queued \cup {new}
      BY <2>1 DEF Queued
  <2>6. EntriesApart'
      BY <1>0, <2>1, <2>2, <2>3, <2>5 DEF UnderClock, EntriesApart
  <2>7. AddingNew'
      BY <2>1, <2>3, <2>4 DEF AddingNew
  <2>8. ThreadsOwn'
      BY <1>0, <2>1, <2>2, <2>4 DEF UnderClock, ThreadsOwn, TypeOK
  <2>9. Watched'
      BY <2>1, <2>2, <2>5 DEF UnderClock, Watched, InTheHand
  <2> QED
      BY <2>6, <2>7, <2>8, <2>9 DEF UnderClock
<1>5. ASSUME NEW c \in Conns, Ping(c) PROVE UnderClock'
    BY <1>1, <1>5, ClockUntouched DEF Ping, queueVars, threadVars
<1>6. ASSUME NEW c \in Conns, Leave(c) PROVE UnderClock'
    BY <1>1, <1>6, ClosedWithEntry DEF Leave, threadVars
<1>7. CASE ThreadStep
  <2> USE DEF Thread
  <2>1. CASE Due \/ Lock \/ ScanEnds \/ NothingExpired \/ Checked \/ Exit
      BY <1>1, <2>1, ClockUntouched
      DEF Due, Lock, ScanEnds, NothingExpired, Checked, Exit, clientVars, queueVars
  <2>2. CASE GetOverTimeTimer
      BY <2>2, Expired
  <2>3. CASE CheckPasses
    <3>1. PICK e \in m_lsIdleList :
              /\ conn[e.conn] = "open" => ~MustKick(e.conn)
              /\ m_lsIdleList' = m_lsIdleList \ {e}
        BY <2>3 DEF CheckPasses
    <3>2. UNCHANGED <<conn, adding, m_timerQueuemap, victim, thread, main>>
        BY <2>3 DEF CheckPasses, clientVars, queueVars
    <3>3. TimeOutKick => conn[e.conn] # "open"
        BY <3>1 DEF MustKick
    <3>4. EntriesApart' /\ AddingNew' /\ ThreadsOwn'
        BY <3>1, <3>2 DEF UnderClock, EntriesApart, AddingNew, ThreadsOwn, Queued
    <3>5. Watched'
        BY <3>1, <3>2, <3>3 DEF UnderClock, Watched, InTheHand, Queued
    <3> QED
        BY <3>4, <3>5 DEF UnderClock
  <2>4. CASE CheckKicks
    <3>1. PICK e \in m_lsIdleList :
              /\ victim' = {e.conn} /\ m_lsIdleList' = m_lsIdleList \ {e}
        BY <2>4 DEF CheckKicks
    <3>2. /\ UNCHANGED <<conn, adding, m_timerQueuemap, main>>
          /\ thread = "check" /\ thread' = "kick"
        BY <2>4 DEF CheckKicks, queueVars
    <3>3. EntriesApart' /\ AddingNew' /\ ThreadsOwn'
        BY <3>1, <3>2 DEF UnderClock, EntriesApart, AddingNew, ThreadsOwn, Queued
    <3>4. Watched'
        BY <1>1, <3>1, <3>2 DEF UnderClock, Watched, InTheHand, Queued
    <3> QED
        BY <3>3, <3>4 DEF UnderClock
  <2>5. CASE Kick
    <3>1. PICK c \in victim :
              DeleteFromTimerQueue(c) /\ conn' = [conn EXCEPT ![c] = "closed"]
        BY <2>5 DEF Kick
    <3>2. /\ UNCHANGED <<adding, m_lsIdleList, main>>
          /\ victim' = {} /\ thread' # "kick"
        BY <2>5 DEF Kick
    <3>3. c \in Conns /\ conn[c] # "none" /\ \A e \in adding : e.conn # c
        BY DEF TypeOK, UnderClock, AddingNew, ThreadsOwn
    <3>4. \A d \in victim : d = c
        BY DEF UnderClock, ThreadsOwn
    <3> QED
        BY <3>1, <3>2, <3>3, <3>4, ClosedWithEntry
  <2> QED
      BY <1>7, <2>1, <2>2, <2>3, <2>4, <2>5 DEF ThreadStep
<1>8. CASE JoinAndClear
  <2>1. /\ m_timerQueuemap' = {} /\ main' = "gone" /\ thread = "exited"
        /\ UNCHANGED <<conn, adding, m_lsIdleList, victim, thread>>
      BY <1>8 DEF JoinAndClear, clientVars, threadVars
  <2> QED
      BY <2>1 DEF UnderClock, EntriesApart, AddingNew, ThreadsOwn, Watched, Queued
<1> QED
    BY <1>2, <1>3, <1>4, <1>5, <1>6, <1>7, <1>8 DEF Next

(* AddToTimerQueue, GetOverTimeTimer and zdClosesocketProc together: an open connection *)
(* has exactly one entry, or with TimeOutKick is about to be kicked; a closed one none. *)
THEOREM EveryClientWatched == Spec => []OneEntryEach
<1>1. Init => IInv /\ UnderClock
    BY IInvInit
    DEF Init, UnderClock, EntriesApart, AddingNew, ThreadsOwn, Watched, Queued
<1>2. IInv /\ UnderClock /\ [Next]_vars => (IInv /\ UnderClock)'
    BY IInvStep, UnderClockStep DEF IInv
<1>3. IInv /\ UnderClock => OneEntryEach
  <2> SUFFICES ASSUME IInv, UnderClock, main # "gone", NEW c \in Conns
               PROVE  IF conn[c] = "open"
                      THEN \/ Cardinality(EntriesOf(c)) = 1
                           \/ TimeOutKick /\ EntriesOf(c) = {}
                              /\ c \in victim \cup {e.conn : e \in m_lsIdleList}
                      ELSE EntriesOf(c) = {}
      BY DEF OneEntryEach
  <2>1. \A d, e \in EntriesOf(c) : d = e
      BY DEF UnderClock, EntriesApart, EntriesOf, Queued
  <2>2. conn[c] # "open" => EntriesOf(c) = {}
      BY DEF UnderClock, EntriesApart, EntriesOf, Queued
  <2>3. CASE conn[c] = "open" /\ EntriesOf(c) # {}
    <3>1. PICK e \in EntriesOf(c) : EntriesOf(c) = {e}
        BY <2>1, <2>3
    <3> QED
        BY <2>3, <3>1, FS_Singleton
  <2>4. CASE conn[c] = "open" /\ EntriesOf(c) = {}
      BY <2>4 DEF UnderClock, Watched, InTheHand, EntriesOf, Queued
  <2> QED
      BY <2>2, <2>3, <2>4
<1> QED
    BY <1>1, <1>2, <1>3, PTL DEF Spec
=============================================================================
