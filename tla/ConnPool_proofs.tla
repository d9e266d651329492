---------------------------- MODULE ConnPool_proofs ----------------------------
(***************************************************************************)
(* Proofs about ConnPool for any number of threads, connections, listening *)
(* sockets, clients and descriptors.                                       *)
(*                                                                         *)
(* Four invariants, for more and more calm configurations.  Whatever the   *)
(* switches, the list of all connections is bounded and the count of       *)
(* clients not too high.  Without the flood check, sequence numbers tell   *)
(* clients apart (SeqInv).  Without recycling, a connection that was used  *)
(* is never free again (PoolApart), so several closers lose no socket.     *)
(* With one closer, each connection is in one place (CalmInv), and the     *)
(* descriptors and the count are exact, with or without recycling.         *)
(***************************************************************************)
EXTENDS ConnPool, FiniteSetTheorems, SequenceTheorems, TLAPS

LEMMA RangeTail ==
    ASSUME NEW S, NEW q \in Seq(S), q # <<>>
    PROVE  Head(q) \in Range(q) /\ Range(Tail(q)) \subseteq Range(q)
  BY DEF Range

\* RemoveAt leaves the entries before i where they are and moves the others up.
LEMMA RemoveAtEntries ==
    ASSUME NEW S, NEW q \in Seq(S), NEW i \in DOMAIN q
    PROVE  /\ RemoveAt(q, i) \in Seq(S) /\ Len(RemoveAt(q, i)) = Len(q) - 1
           /\ \A k \in 1 .. Len(q) - 1 :
                  RemoveAt(q, i)[k] = IF k <= i - 1 THEN q[k] ELSE q[k + 1]
  <1> DEFINE a == SubSeq(q, 1, i - 1)
             b == SubSeq(q, i + 1, Len(q))
  <1>1. Len(q) \in Nat /\ i \in 1 .. Len(q)
    OBVIOUS
  <1>2. /\ a \in Seq(S) /\ b \in Seq(S)
        /\ Len(a) = i - 1 /\ \A k \in 1 .. i - 1 : a[k] = q[k]
        /\ Len(b) = Len(q) - i /\ \A k \in 1 .. Len(q) - i : b[k] = q[i + k]
    <2>1. /\ \A k \in 1 .. i - 1 : q[k] \in S
          /\ \A k \in i + 1 .. Len(q) : q[k] \in S
      BY <1>1
    <2>2. /\ a \in Seq(S) /\ Len(a) = i - 1
          /\ \A k \in 1 .. i - 1 : a[k] = q[k]
      BY <1>1, <2>1, SubSeqProperties
    <2>3. /\ b \in Seq(S)
          /\ Len(b) = IF i + 1 <= Len(q) THEN Len(q) - (i + 1) + 1 ELSE 0
          /\ \A k \in 1 .. Len(q) - (i + 1) + 1 : b[k] = q[i + 1 + k - 1]
      BY <1>1, <2>1, SubSeqProperties
    <2> QED BY <1>1, <2>2, <2>3
  <1> HIDE DEF a, b
  <1>3. /\ a \o b \in Seq(S) /\ Len(a \o b) = Len(q) - 1
        /\ \A k \in 1 .. Len(q) - 1 :
              (a \o b)[k] = IF k <= i - 1 THEN a[k] ELSE b[k - (i - 1)]
    <2>1. /\ a \o b \in Seq(S) /\ Len(a \o b) = Len(a) + Len(b)
          /\ \A k \in 1 .. Len(a) + Len(b) :
                (a \o b)[k] = IF k <= Len(a) THEN a[k] ELSE b[k - Len(a)]
      BY <1>2, ConcatProperties
    <2>2. Len(a) = i - 1 /\ Len(a) + Len(b) = Len(q) - 1
      BY <1>1, <1>2
    <2> QED BY <2>1, <2>2
  <1>4. ASSUME NEW k \in 1 .. Len(q) - 1
        PROVE  (a \o b)[k] = IF k <= i - 1 THEN q[k] ELSE q[k + 1]
    <2>1. CASE k <= i - 1
      BY <1>1, <1>2, <1>3, <2>1
    <2>2. CASE ~(k <= i - 1)
      <3>1. k - (i - 1) \in 1 .. Len(q) - i /\ i + (k - (i - 1)) = k + 1
        BY <1>1, <2>2
      <3> QED BY <1>2, <1>3, <2>2, <3>1
    <2> QED BY <2>1, <2>2
  <1>5. RemoveAt(q, i) = a \o b
    BY DEF RemoveAt, a, b
  <1> QED BY <1>3, <1>4, <1>5

LEMMA RangeRemoveAt ==
    ASSUME NEW S, NEW q \in Seq(S), NEW i \in DOMAIN q
    PROVE  RemoveAt(q, i) \in Seq(S) /\ Range(RemoveAt(q, i)) \subseteq Range(q)
  <1> DEFINE r == RemoveAt(q, i)
  <1>1. /\ r \in Seq(S) /\ Len(r) = Len(q) - 1
        /\ \A k \in 1 .. Len(q) - 1 : r[k] = q[k] \/ r[k] = q[k + 1]
    BY RemoveAtEntries
  <1> HIDE DEF r
  <1>2. /\ Len(q) \in Nat /\ DOMAIN q = 1 .. Len(q) /\ DOMAIN r = 1 .. Len(q) - 1
        /\ \A k \in 1 .. Len(q) - 1 : k \in 1 .. Len(q) /\ k + 1 \in 1 .. Len(q)
    BY <1>1
  <1> QED BY <1>1, <1>2 DEF Range, r

LEMMA RangeSubset ==
    ASSUME NEW S, NEW q \in Seq(S)
    PROVE  Range(q) \subseteq S
  BY DEF Range

LEMMA RangeAppend ==
    ASSUME NEW S, NEW q \in Seq(S), NEW e
    PROVE  Range(Append(q, e)) = Range(q) \cup {e}
  <1>1. Len(q) \in Nat /\ DOMAIN q = 1 .. Len(q)
    OBVIOUS
  <1>2. /\ DOMAIN Append(q, e) = 1 .. Len(q) + 1
        /\ \A i \in 1 .. Len(q) : Append(q, e)[i] = q[i]
        /\ Append(q, e)[Len(q) + 1] = e
    BY <1>1
  <1>3. ASSUME NEW x \in Range(q) \cup {e} PROVE x \in Range(Append(q, e))
    <2>1. CASE x = e
      BY <1>1, <1>2, <2>1 DEF Range
    <2>2. CASE x \in Range(q)
      <3>1. PICK i \in 1 .. Len(q) : x = q[i]
        BY <1>1, <2>2 DEF Range
      <3>2. i \in 1 .. Len(q) + 1
        BY <1>1
      <3> QED BY <1>2, <3>1, <3>2 DEF Range
    <2> QED BY <1>3, <2>1, <2>2
  <1>4. ASSUME NEW x \in Range(Append(q, e)) PROVE x \in Range(q) \cup {e}
    <2>1. PICK i \in 1 .. Len(q) + 1 : x = Append(q, e)[i]
      BY <1>2 DEF Range
    <2>2. CASE i = Len(q) + 1
      BY <1>2, <2>1, <2>2
    <2>3. CASE i # Len(q) + 1
      <3>1. i \in 1 .. Len(q)
        BY <1>1, <2>3
      <3> QED BY <1>1, <1>2, <2>1, <3>1 DEF Range
    <2> QED BY <2>2, <2>3
  <1> QED BY <1>3, <1>4
-----------------------------------------------------------------------------
(* The size of the pool. *)

ListBounded == m_connectionList \in Seq(Conns) /\ PoolBound

\* Only accepting lengthens the list, and only below the limit.
LEMMA AcceptBounded ==
    ASSUME ListBounded, NEW l \in Conns, NEW c \in Conns, NEW f \in Fds, AcceptOn(l, c, f)
    PROVE  ListBounded'
  <1>1. CASE m_freeconnectionList # <<>>
    BY <1>1 DEF ListBounded, PoolBound, AcceptOn, Obtains
  <1>2. CASE m_freeconnectionList = <<>>
    <2>1. m_connectionList' = Append(m_connectionList, c)
      BY <1>2 DEF AcceptOn, Obtains
    <2>2. Len(m_freeconnectionList) < m_worker_connections
      BY <1>2, PoolSizes
    <2>3. Len(m_connectionList) <= 5 * m_worker_connections
      BY <2>2, PoolSizes DEF AcceptOn, PoolExhausted, ListBounded
    <2> QED
      BY <2>1, <2>3, PoolSizes DEF ListBounded, PoolBound
  <1> QED BY <1>1, <1>2

LEMMA ListBoundedNext == ListBounded /\ [Next]_vars => ListBounded'
  <1> SUFFICES ASSUME ListBounded, [Next]_vars PROVE ListBounded' OBVIOUS
  <1>1. ASSUME NEW l \in Conns, NEW c \in Conns, NEW f \in Fds,
               Accept(l, c, f) \/ AcceptFails(l, c, f)
        PROVE  ListBounded'
    BY <1>1, AcceptBounded DEF Accept, AcceptFails
  <1>2. CASE UNCHANGED m_connectionList
    BY <1>2 DEF ListBounded, PoolBound
  <1>3. ASSUME NEW p \in Closers, ZdClose(p) PROVE UNCHANGED m_connectionList
    BY <1>3 DEF ZdClose, Unlist, TestFd, CloseFd, ClearFd, Recycle, listVars
  <1>4. ASSUME NEW w \in Workers, Dispatch(w) \/ Finish(w) \/ KickBacklog(w)
        PROVE  UNCHANGED m_connectionList
    BY <1>4 DEF Dispatch, Finish, KickBacklog, listVars
  <1>5. CASE TimerStep \/ RecycleDue \/ UNCHANGED vars
    BY <1>5, <1>2 DEF TimerStep, ScanTimers, TimerPasses, TimerKicks, RecycleDue,
        vars, listVars
  <1>6. ASSUME MainStep,
               ~ \E l, c \in Conns, f \in Fds : Accept(l, c, f) \/ AcceptFails(l, c, f)
        PROVE  UNCHANGED m_connectionList
    BY <1>6 DEF MainStep, EpollWait, AddTimer, CountOnline, AcceptNothing, ReadPart,
        ReadPacket, ReadEnds, ReadFlood, listVars
  <1> QED
    BY <1>1, <1>2, <1>3, <1>4, <1>5, <1>6 DEF Next

\* The pool never holds more than 5 * worker_connections + 1 objects, for any
\* number of clients, threads and closes.
THEOREM PoolIsBounded == Spec => []PoolBound
  <1>1. Init => ListBounded
    <2> SUFFICES ASSUME Init PROVE ListBounded OBVIOUS
    <2>1. m_connectionList = [i \in 1 .. m_worker_connections |-> i]
      BY DEF Init
    <2>2. \A i \in 1 .. m_worker_connections : i \in Conns
      BY PoolSizes, PoolAddresses DEF Conns
    <2>3. m_connectionList \in Seq(Conns) /\ Len(m_connectionList) = m_worker_connections
      BY <2>1, <2>2, PoolSizes
    <2> QED BY <2>3, PoolSizes DEF ListBounded, PoolBound
  <1>2. ListBounded => PoolBound
    BY DEF ListBounded
  <1> QED BY <1>1, <1>2, ListBoundedNext, PTL DEF Spec
-----------------------------------------------------------------------------
(* Types, and which connections the lists, events and tags may name. *)

ListTypes ==
    /\ m_connectionList \in Seq(Conns)
    /\ m_freeconnectionList \in Seq(Conns)
    /\ m_recyconnectionList \in Seq(Conns)
    /\ m_onlineUserCount \in Int

ConnTypes ==
    /\ iCurrsequence \in [Conns -> Nat]
    /\ fd \in [Conns -> {NoFd, ListenFd, GarbageFd} \cup Fds]
    /\ session \in [Conns -> Clients \cup {None}]
    /\ released \in SUBSET Conns /\ flooded \in SUBSET Conns
    /\ \A c \in Conns : fd[c] = ListenFd => c <= Ports
    /\ \A c \in Conns : fd[c] \in Fds => session[c] # None

KernelTypes ==
    /\ sock \in [Fds -> Clients \cup {None}]
    /\ registered \in [Fds -> Conns \cup {None}]
    /\ accepted \in 0 .. MaxClients

MainTypes ==
    /\ m_events \in SUBSET Conns
    /\ main \in {"loop", "timer", "count"}
    /\ newc \in Conns \cup {None}
    /\ main # "loop" => newc # None /\ session[newc] # None

TimerTypes ==
    /\ m_timerQueuemap \in SUBSET Tags /\ m_lsIdleList \in SUBSET Tags
    /\ hung \in BOOLEAN

WorkTypes ==
    /\ inbox \in SUBSET Tags
    /\ job \in [Workers -> SUBSET Tags]

CloseTypes ==
    /\ closing \in [Closers -> {"no", "unlist", "test", "close", "clear", "recycle"}]
    /\ target \in [Closers -> Conns \cup {None}]
    /\ \A p \in Closers : closing[p] # "no" => target[p] # None

Types == /\ ListTypes /\ ConnTypes /\ KernelTypes /\ MainTypes /\ TimerTypes
         /\ WorkTypes /\ CloseTypes

LEMMA TypesGiveTypeOK == Types => TypeOK
  BY DEF Types, ListTypes, ConnTypes, KernelTypes, MainTypes, TimerTypes, WorkTypes,
      CloseTypes, TypeOK

\* What a step does not touch keeps its type.
LEMMA TypesKept ==
    ASSUME Types
    PROVE  /\ UNCHANGED listVars => ListTypes'
           /\ UNCHANGED connVars => ConnTypes'
           /\ UNCHANGED kernelVars => KernelTypes'
           /\ UNCHANGED <<mainVars, session>> => MainTypes'
           /\ UNCHANGED timerVars => TimerTypes'
           /\ UNCHANGED workVars => WorkTypes'
           /\ UNCHANGED closeVars => CloseTypes'
  BY DEF Types, ListTypes, ConnTypes, KernelTypes, MainTypes, TimerTypes, WorkTypes,
      CloseTypes, listVars, connVars, kernelVars, mainVars, timerVars, workVars, closeVars

LEMMA InitTypes == Init => Types
  <1> SUFFICES ASSUME Init PROVE Types OBVIOUS
  <1> USE PoolSizes, PoolAddresses
  <1>1. \A i \in 1 .. m_worker_connections : i \in Conns
    BY DEF Conns
  <1>2. m_connectionList \in Seq(Conns)
    BY <1>1 DEF Init
  <1>3. m_freeconnectionList \in Seq(Conns)
    <2>1. \A i \in 1 .. m_worker_connections - Ports : Ports + i \in Conns
      BY <1>1
    <2> QED BY <2>1 DEF Init
  <1>4. ListTypes
    BY <1>2, <1>3 DEF Init, ListTypes
  <1>5. ConnTypes
    BY DEF Init, ConnTypes, NoFd, ListenFd, GarbageFd, Fds, Conns
  <1>6. KernelTypes /\ MainTypes
    BY DEF Init, KernelTypes, MainTypes
  <1>7. TimerTypes /\ WorkTypes /\ CloseTypes
    BY DEF Init, TimerTypes, WorkTypes, CloseTypes
  <1> QED BY <1>4, <1>5, <1>6, <1>7 DEF Types

\* A step of zdClosesocketProc.
LEMMA ZdCloseTypes ==
    ASSUME Types, NEW p \in Closers, ZdClose(p)
    PROVE  Types'
  <1>1. ASSUME NEW to \in {"unlist", "test", "close", "clear", "recycle"},
               NEW from \in {"unlist", "test", "close", "clear", "recycle"},
               CloseStep(p, from, to), target' = target
        PROVE  CloseTypes'
    BY <1>1 DEF CloseStep, Types, CloseTypes
  <1>2. CASE Unlist(p)
    <2>1. CloseTypes' /\ TimerTypes'
      BY <1>1, <1>2 DEF Unlist, Types, TimerTypes
    <2> QED BY <1>2, <2>1, TypesKept DEF Unlist, Types, connVars
  <1>3. CASE TestFd(p)
    <2>1. CloseTypes'
      BY <1>1, <1>3 DEF TestFd
    <2> QED BY <1>3, <2>1, TypesKept DEF TestFd, Types, connVars
  <1>4. CASE CloseFd(p)
    <2>1. CloseTypes'
      BY <1>1, <1>4 DEF CloseFd
    <2>2. KernelTypes'
      BY <1>4 DEF CloseFd, KernelClose, Types, KernelTypes
    <2> QED BY <1>4, <2>1, <2>2, TypesKept DEF CloseFd, Types, connVars
  <1>5. CASE ClearFd(p)
    <2>1. CloseTypes'
      BY <1>1, <1>5 DEF ClearFd
    <2>2. NoFd # ListenFd /\ NoFd \notin Fds
      BY DEF NoFd, ListenFd, Fds
    <2>3. /\ fd' \in [Conns -> {NoFd, ListenFd, GarbageFd} \cup Fds]
          /\ \A d \in Conns : fd'[d] = fd[d] \/ fd'[d] = NoFd
      BY <1>5 DEF ClearFd, Types, ConnTypes
    <2>4. ConnTypes'
      BY <1>5, <2>2, <2>3 DEF ClearFd, Types, ConnTypes
    <2> QED BY <1>5, <2>1, <2>4, TypesKept DEF ClearFd, Types
  <1>6. CASE Recycle(p)
    <2>1. CloseTypes'
      BY <1>6 DEF Recycle, CloseStep, Types, CloseTypes
    <2>2. target[p] \in Conns
      BY <1>6 DEF Recycle, CloseStep, Types, CloseTypes, None
    <2>3. ListTypes'
      BY <1>6, <2>2 DEF Recycle, Types, ListTypes
    <2>4. ConnTypes'
      BY <1>6, <2>2 DEF Recycle, Types, ConnTypes
    <2> QED BY <1>6, <2>1, <2>3, <2>4, TypesKept DEF Recycle, Types
  <1> QED BY <1>2, <1>3, <1>4, <1>5, <1>6 DEF ZdClose

\* A thread that begins to close a connection.
LEMMA StartCloseTypes ==
    ASSUME Types, NEW p \in Closers, NEW c \in Conns, StartClose(p, c)
    PROVE  CloseTypes'
  BY DEF StartClose, Types, CloseTypes, Conns, None

\* The connection a client is given, and what the two outcomes share.
LEMMA AcceptOnTypes ==
    ASSUME Types, NEW l \in Conns, NEW c \in Conns, NEW f \in Fds, AcceptOn(l, c, f)
    PROVE  /\ fd' \in [Conns -> {NoFd, ListenFd, GarbageFd} \cup Fds]
           /\ session' \in [Conns -> Clients \cup {None}]
           /\ released' \in SUBSET Conns /\ flooded' \in SUBSET Conns
           /\ \A d \in Conns : fd'[d] = ListenFd => d <= Ports
           /\ \A d \in Conns : fd'[d] \in Fds => session'[d] # None
           /\ session'[c] # None
           /\ m_connectionList' \in Seq(Conns)
           /\ FreeLeft \in Seq(Conns)
           /\ m_recyconnectionList' \in Seq(Conns) /\ m_onlineUserCount' \in Int
           /\ accepted' \in 0 .. MaxClients
           /\ m_events' \in SUBSET Conns
           /\ SeqGiven(c) \in Nat
           /\ TimerTypes' /\ WorkTypes' /\ CloseTypes'
  <1>1. accepted + 1 \in Clients /\ accepted + 1 # None /\ f # ListenFd
    BY PoolSizes DEF AcceptOn, Types, KernelTypes, Clients, None, ListenFd, Fds
  <1>2. /\ fd' \in [Conns -> {NoFd, ListenFd, GarbageFd} \cup Fds]
        /\ session' \in [Conns -> Clients \cup {None}]
        /\ \A d \in Conns : d # c => fd'[d] = fd[d] /\ session'[d] = session[d]
        /\ fd'[c] = f /\ session'[c] = accepted + 1
    BY <1>1 DEF AcceptOn, Types, ConnTypes
  <1>3. /\ \A d \in Conns : fd'[d] = ListenFd => d <= Ports
        /\ \A d \in Conns : fd'[d] \in Fds => session'[d] # None
    BY <1>1, <1>2 DEF Types, ConnTypes
  <1>4. m_connectionList' \in Seq(Conns) /\ released' \in SUBSET Conns
    <2>1. m_connectionList' = m_connectionList \/ m_connectionList' = Append(m_connectionList, c)
      BY DEF AcceptOn, Obtains
    <2>2. released' = released \/ released' = released \ {c}
      BY DEF AcceptOn, Obtains
    <2>3. m_connectionList \in Seq(Conns) /\ released \in SUBSET Conns
      BY DEF Types, ListTypes, ConnTypes
    <2>4. m_connectionList' \in Seq(Conns)
      BY <2>1, <2>3
    <2> QED BY <2>2, <2>3, <2>4
  <1>5. FreeLeft \in Seq(Conns)
    BY DEF FreeLeft, Types, ListTypes
  <1>6. SeqGiven(c) \in Nat
    BY DEF SeqGiven, Types, ConnTypes
  <1>7. accepted' \in 0 .. MaxClients
    BY PoolSizes DEF AcceptOn, Types, KernelTypes
  <1>8. m_events' \in SUBSET Conns
    BY DEF AcceptOn, TakeEvent, Types, MainTypes
  <1>9. m_recyconnectionList' \in Seq(Conns) /\ m_onlineUserCount' \in Int
    BY DEF AcceptOn, Types, ListTypes
  <1>10. TimerTypes' /\ WorkTypes' /\ CloseTypes'
    BY TypesKept DEF AcceptOn
  <1>11. flooded' \in SUBSET Conns
    BY DEF AcceptOn, Types, ConnTypes
  <1> QED BY <1>1, <1>2, <1>3, <1>4, <1>5, <1>6, <1>7, <1>8, <1>9, <1>10, <1>11

LEMMA AcceptTypes ==
    ASSUME Types, NEW l \in Conns, NEW c \in Conns, NEW f \in Fds, Accept(l, c, f)
    PROVE  Types'
  <1>1. AcceptOn(l, c, f) /\ accepted + 1 \in Clients
    BY PoolSizes DEF Accept, AcceptOn, Types, KernelTypes, Clients
  <1>2. ListTypes'
    BY <1>1, AcceptOnTypes DEF Accept, ListTypes
  <1>3. iCurrsequence' \in [Conns -> Nat]
    BY <1>1, AcceptOnTypes DEF Accept, Types, ConnTypes
  <1>4. ConnTypes'
    BY <1>1, <1>3, AcceptOnTypes DEF ConnTypes
  <1>5. KernelTypes'
    <2>1. accepted' \in 0 .. MaxClients
      BY <1>1, AcceptOnTypes
    <2> QED BY <1>1, <2>1 DEF Accept, Types, KernelTypes
  <1>6. MainTypes'
    <2>1. m_events' \in SUBSET Conns /\ session'[c] # None
      BY <1>1, AcceptOnTypes
    <2> QED BY <2>1 DEF Accept, MainTypes, Conns, None
  <1> QED BY <1>1, <1>2, <1>4, <1>5, <1>6, AcceptOnTypes DEF Types

LEMMA AcceptFailsTypes ==
    ASSUME Types, NEW l \in Conns, NEW c \in Conns, NEW f \in Fds, AcceptFails(l, c, f)
    PROVE  Types'
  <1>1. AcceptOn(l, c, f)
    BY DEF AcceptFails
  <1>2. ListTypes'
    BY <1>1, AcceptOnTypes DEF AcceptFails, ListTypes
  <1>3. iCurrsequence' \in [Conns -> Nat]
    BY <1>1, AcceptOnTypes DEF AcceptFails, Types, ConnTypes
  <1>4. ConnTypes'
    BY <1>1, <1>3, AcceptOnTypes DEF ConnTypes
  <1>5. KernelTypes'
    BY <1>1, AcceptOnTypes DEF AcceptFails, Types, KernelTypes
  <1>6. MainTypes'
    BY <1>1, AcceptOnTypes DEF AcceptFails, AcceptOn, TakeEvent, MainIdle, Types, MainTypes
  <1> QED BY <1>1, <1>2, <1>4, <1>5, <1>6, AcceptOnTypes DEF Types

\* A tag made from a connection in use names a client.
LEMMA TagType ==
    ASSUME Types, NEW c \in Conns, session[c] # None
    PROVE  Tag(c) \in Tags
  BY DEF Types, ConnTypes, Tag, Tags

\* An event taken changes nothing of the main thread's types.
LEMMA TakeEventTypes ==
    ASSUME Types, NEW c \in Conns, TakeEvent(c), UNCHANGED <<main, newc, session>>
    PROVE  MainTypes'
  BY DEF TakeEvent, Types, MainTypes

LEMMA MainStepTypes ==
    ASSUME Types, MainStep
    PROVE  Types'
  <1>1. CASE EpollWait
    <2>1. m_events' \in SUBSET Conns
      <3>1. PICK E \in SUBSET (ListenConns \cup {registered[f] : f \in Fds}) :
                None \notin E /\ m_events' = E
        BY <1>1 DEF EpollWait
      <3> QED BY <3>1 DEF ListenConns, Types, KernelTypes
    <2>2. MainTypes'
      BY <1>1, <2>1 DEF EpollWait, Types, MainTypes, connVars
    <2> QED BY <1>1, <2>2, TypesKept DEF EpollWait, Types
  <1>2. CASE AddTimer
    <2>1. newc \in Conns /\ session[newc] # None
      BY <1>2 DEF AddTimer, Types, MainTypes
    <2>2. TimerTypes'
      BY <1>2, <2>1, TagType DEF AddTimer, Types, TimerTypes
    <2>3. MainTypes'
      BY <1>2 DEF AddTimer, Types, MainTypes, connVars
    <2> QED BY <1>2, <2>2, <2>3, TypesKept DEF AddTimer, Types
  <1>3. CASE CountOnline
    <2>1. ListTypes' /\ MainTypes'
      BY <1>3 DEF CountOnline, Types, ListTypes, MainTypes
    <2> QED BY <1>3, <2>1, TypesKept DEF CountOnline, Types
  <1>4. ASSUME NEW c \in Conns, AcceptNothing(c) \/ ReadPart(c) PROVE Types'
    <2>1. MainTypes'
      BY <1>4, TakeEventTypes DEF AcceptNothing, ReadPart, connVars
    <2> QED BY <1>4, <2>1, TypesKept DEF AcceptNothing, ReadPart, Types
  <1>5. ASSUME NEW c \in Conns, ReadPacket(c) PROVE Types'
    <2>1. MainTypes'
      BY <1>5, TakeEventTypes DEF ReadPacket, connVars
    <2>2. session[c] # None
      BY <1>5 DEF ReadPacket, Open, Types, ConnTypes
    <2>3. WorkTypes'
      BY <1>5, <2>2, TagType DEF ReadPacket, Types, WorkTypes
    <2> QED BY <1>5, <2>1, <2>3, TypesKept DEF ReadPacket, Types
  <1>6. ASSUME NEW c \in Conns, ReadEnds(c) PROVE Types'
    <2>1. MainTypes'
      BY <1>6, TakeEventTypes DEF ReadEnds, connVars
    <2>2. CloseTypes'
      BY <1>6, StartCloseTypes DEF ReadEnds, Closers
    <2> QED BY <1>6, <2>1, <2>2, TypesKept DEF ReadEnds, Types
  <1>7. ASSUME NEW c \in Conns, ReadFlood(c) PROVE Types'
    <2>1. MainTypes'
      BY <1>7, TakeEventTypes DEF ReadFlood
    <2>2. CloseTypes'
      BY <1>7, StartCloseTypes DEF ReadFlood, Closers
    <2>3. PICK g \in {fd[c], GarbageFd} : fd' = [fd EXCEPT ![c] = g]
      BY <1>7 DEF ReadFlood
    <2>4. /\ g \in {NoFd, ListenFd, GarbageFd} \cup Fds
          /\ fd[c] \in Fds /\ (g = fd[c] \/ g = GarbageFd)
          /\ GarbageFd # ListenFd /\ GarbageFd \notin Fds
      BY <1>7, <2>3, PoolSizes DEF ReadFlood, Open, Types, ConnTypes, GarbageFd, ListenFd, Fds
    <2>5. ConnTypes'
      BY <1>7, <2>3, <2>4 DEF ReadFlood, Types, ConnTypes
    <2> QED BY <1>7, <2>1, <2>2, <2>5, TypesKept DEF ReadFlood, Types
  <1> QED
    BY <1>1, <1>2, <1>3, <1>4, <1>5, <1>6, <1>7, AcceptTypes, AcceptFailsTypes DEF MainStep

LEMMA TimerStepTypes ==
    ASSUME Types, TimerStep
    PROVE  Types'
  <1>1. CASE ScanTimers
    <2>1. TimerTypes'
      BY <1>1 DEF ScanTimers, Types, TimerTypes
    <2> QED BY <1>1, <2>1, TypesKept DEF ScanTimers, Types, connVars
  <1>2. CASE TimerPasses
    <2>1. TimerTypes'
      BY <1>2 DEF TimerPasses, Types, TimerTypes
    <2> QED BY <1>2, <2>1, TypesKept DEF TimerPasses, Types, connVars
  <1>3. CASE TimerKicks
    <2>1. TimerTypes'
      BY <1>3 DEF TimerKicks, Types, TimerTypes
    <2>2. CloseTypes'
      BY <1>3, StartCloseTypes DEF TimerKicks, Types, TimerTypes, Tags, Closers
    <2> QED BY <1>3, <2>1, <2>2, TypesKept DEF TimerKicks, Types, connVars
  <1> QED BY <1>1, <1>2, <1>3 DEF TimerStep

LEMMA WorkerStepTypes ==
    ASSUME Types, NEW w \in Workers, Dispatch(w) \/ Finish(w) \/ KickBacklog(w)
    PROVE  Types'
  <1>1. CASE Dispatch(w)
    <2>1. WorkTypes'
      BY <1>1 DEF Dispatch, Types, WorkTypes
    <2> QED BY <1>1, <2>1, TypesKept DEF Dispatch, Types, connVars
  <1>2. CASE Finish(w)
    <2>1. WorkTypes'
      BY <1>2 DEF Finish, Types, WorkTypes
    <2> QED BY <1>2, <2>1, TypesKept DEF Finish, Types, connVars
  <1>3. CASE KickBacklog(w)
    <2>1. WorkTypes'
      BY <1>3 DEF KickBacklog, Types, WorkTypes
    <2>2. CloseTypes'
      <3>1. PICK m \in job[w] : StartClose(w, m.conn)
        BY <1>3 DEF KickBacklog
      <3>2. m \in Tags /\ w \in Closers
        BY <3>1 DEF Types, WorkTypes, Closers
      <3>3. m.conn \in Conns
        BY <3>2 DEF Tags
      <3> QED BY <3>1, <3>2, <3>3, StartCloseTypes
    <2> QED BY <1>3, <2>1, <2>2, TypesKept DEF KickBacklog, Types, connVars
  <1> QED BY <1>1, <1>2, <1>3

\* The part of RecycleDue that erases entry i.
RecyclesAt(i) ==
    LET c == m_recyconnectionList[i]
    IN  /\ iCurrsequence' = [iCurrsequence EXCEPT ![c] = @ + 1]
        /\ m_freeconnectionList' = Append(m_freeconnectionList, c)
        /\ m_recyconnectionList' = RemoveAt(m_recyconnectionList, i)

LEMMA RecycleDueTypes ==
    ASSUME Types, RecycleDue
    PROVE  Types'
  <1>1. PICK i \in DOMAIN m_recyconnectionList : RecyclesAt(i)
    BY DEF RecycleDue, RecyclesAt
  <1>2. /\ m_recyconnectionList[i] \in Conns
        /\ RemoveAt(m_recyconnectionList, i) \in Seq(Conns)
    BY RangeRemoveAt DEF Types, ListTypes
  <1>3. ListTypes'
    <2>1. m_freeconnectionList' \in Seq(Conns) /\ m_recyconnectionList' \in Seq(Conns)
      BY <1>1, <1>2 DEF RecyclesAt, Types, ListTypes
    <2>2. UNCHANGED <<m_connectionList, m_onlineUserCount>>
      BY DEF RecycleDue
    <2> QED BY <2>1, <2>2 DEF Types, ListTypes
  <1>4. ConnTypes'
    <2>1. UNCHANGED <<fd, session, released, flooded>>
      BY DEF RecycleDue
    <2> QED BY <1>1, <1>2, <2>1 DEF RecyclesAt, Types, ConnTypes
  <1> QED BY <1>3, <1>4, TypesKept DEF RecycleDue, Types

LEMMA NextTypes == Types /\ [Next]_vars => Types'
  <1> SUFFICES ASSUME Types, [Next]_vars PROVE Types' OBVIOUS
  <1>1. CASE UNCHANGED vars
    BY <1>1, TypesKept DEF vars, Types, connVars
  <1> QED
    BY <1>1, MainStepTypes, TimerStepTypes, RecycleDueTypes, WorkerStepTypes, ZdCloseTypes
    DEF Next

\* The state of the connections stays well formed: a connection with a client's
\* descriptor has had a client, and no client's connection looks like a
\* listening one.
THEOREM TypeCorrect == Spec => []TypeOK
  BY InitTypes, NextTypes, TypesGiveTypeOK, PTL DEF Spec
-----------------------------------------------------------------------------
(* Sequence numbers detect stale tags, if the flood check releases nothing. *)

Listed == Range(m_connectionList)

\* Everything that can be handed around is an object of the pool.
Known ==
    /\ Range(m_freeconnectionList) \subseteq Listed
    /\ Range(m_recyconnectionList) \subseteq Listed
    /\ m_events \subseteq Listed
    /\ \A f \in Fds : registered[f] # None => registered[f] \in Listed
    /\ \A c \in Conns : fd[c] # NoFd => c \in Listed
    /\ \A p \in Closers : target[p] # None => target[p] \in Listed
    /\ newc # None => newc \in Listed

\* A tag's sequence number is never ahead of its connection's.
TagRight(tag) ==
    /\ tag.conn \in Listed
    /\ tag.iCurrsequence <= iCurrsequence[tag.conn]
    /\ Fresh(tag) => session[tag.conn] = tag.client

TagsRight == \A tag \in TagsInUse : TagRight(tag)

NothingReleased == released = {}

SeqInv == Types /\ NothingReleased /\ Known /\ TagsRight

LEMMA TagsTyped == Types => TagsInUse \subseteq Tags
  BY DEF Types, TimerTypes, WorkTypes, TagsInUse

\* A step keeps the old tags right if sequence numbers only grow and a
\* connection that keeps its number keeps its client.
LEMMA OldTagsRight ==
    ASSUME SeqInv, Types', Listed \subseteq Listed',
           \A c \in Listed : /\ iCurrsequence'[c] >= iCurrsequence[c]
                             /\ iCurrsequence'[c] = iCurrsequence[c] =>
                                    session'[c] = session[c]
    PROVE  \A tag \in TagsInUse : TagRight(tag)'
  <1> SUFFICES ASSUME NEW tag \in TagsInUse PROVE TagRight(tag)' OBVIOUS
  <1>1. tag.conn \in Conns /\ tag.conn \in Listed /\ tag.iCurrsequence \in Nat
    BY TagsTyped DEF SeqInv, TagsRight, TagRight, Tags
  <1>2. iCurrsequence[tag.conn] \in Nat /\ iCurrsequence'[tag.conn] \in Nat
    BY <1>1 DEF SeqInv, Types, ConnTypes
  <1>3. /\ tag.iCurrsequence <= iCurrsequence[tag.conn]
        /\ tag.iCurrsequence = iCurrsequence[tag.conn] => session[tag.conn] = tag.client
    BY DEF SeqInv, TagsRight, TagRight, Fresh
  <1>4. /\ tag.iCurrsequence <= iCurrsequence'[tag.conn]
        /\ tag.iCurrsequence = iCurrsequence'[tag.conn] => session'[tag.conn] = tag.client
    BY <1>1, <1>2, <1>3
  <1> QED BY <1>1, <1>4 DEF TagRight, Fresh

\* In particular a step that gives no connection away.
LEMMA SameTagsRight ==
    ASSUME SeqInv, Types', UNCHANGED <<iCurrsequence, session, m_connectionList>>,
           TagsInUse' \subseteq TagsInUse
    PROVE  TagsRight'
  <1>1. Listed' = Listed
    BY DEF Listed
  <1>2. \A c \in Listed : iCurrsequence[c] \in Nat
    BY RangeSubset DEF SeqInv, Types, ConnTypes, ListTypes, Listed
  <1>3. \A tag \in TagsInUse : TagRight(tag)'
    BY <1>1, <1>2, OldTagsRight
  <1> QED BY <1>3 DEF TagsRight

\* A tag made now is right.
LEMMA NewTagRight ==
    ASSUME SeqInv, Types', NEW c \in Listed,
           UNCHANGED <<iCurrsequence, session, m_connectionList>>,
           TagsInUse' \subseteq TagsInUse \cup {Tag(c)}
    PROVE  TagsRight'
  <1>1. Listed' = Listed
    BY DEF Listed
  <1>2. \A d \in Listed : iCurrsequence[d] \in Nat
    BY RangeSubset DEF SeqInv, Types, ConnTypes, ListTypes, Listed
  <1>3. \A tag \in TagsInUse : TagRight(tag)'
    BY <1>1, <1>2, OldTagsRight
  <1>4. ASSUME NEW tag, tag = Tag(c) PROVE TagRight(tag)'
    <2>1. tag.conn = c /\ tag.iCurrsequence = iCurrsequence[c] /\ tag.client = session[c]
      BY <1>4 DEF Tag
    <2> QED BY <1>1, <1>2, <2>1 DEF TagRight, Fresh
  <1> QED BY <1>3, <1>4 DEF TagsRight

\* A step of closing, of the timer thread or of a worker, or one that begins a
\* close, keeps Known.
LEMMA SameKnown ==
    ASSUME SeqInv, UNCHANGED <<m_connectionList, m_freeconnectionList, released>>,
           Range(m_recyconnectionList') \subseteq Range(m_recyconnectionList) \cup Listed,
           m_events' \subseteq m_events \cup Listed,
           \A f \in Fds : registered'[f] \in {registered[f], None},
           \A c \in Conns : fd'[c] \in {fd[c], NoFd},
           \A p \in Closers : target'[p] \in {target[p], None} \cup Listed,
           newc' \in {newc, None}
    PROVE  NothingReleased' /\ Known'
  <1>1. Listed' = Listed
    BY DEF Listed
  <1> QED BY <1>1 DEF SeqInv, Known, NothingReleased

LEMMA ZdCloseSeq ==
    ASSUME SeqInv, NEW p \in Closers, ZdClose(p)
    PROVE  SeqInv'
  <1>1. Types'
    BY ZdCloseTypes DEF SeqInv
  <1>2. target \in [Closers -> Conns \cup {None}]
    BY DEF SeqInv, Types, CloseTypes
  <1>3. CASE Unlist(p) \/ TestFd(p) \/ CloseFd(p) \/ ClearFd(p)
    <2>1. /\ UNCHANGED <<listVars, target, mainVars, iCurrsequence, session, released>>
          /\ TagsInUse' \subseteq TagsInUse
      BY <1>3 DEF Unlist, TestFd, CloseFd, ClearFd, TagsInUse, timerVars, workVars, connVars
    <2>2. \A f \in Fds : registered'[f] \in {registered[f], None}
      BY <1>3 DEF Unlist, TestFd, CloseFd, ClearFd, KernelClose, kernelVars
    <2>3. \A c \in Conns : fd'[c] \in {fd[c], NoFd}
      BY <1>3 DEF Unlist, TestFd, CloseFd, ClearFd, connVars, SeqInv, Types, ConnTypes
    <2>4. NothingReleased' /\ Known'
      BY <2>1, <2>2, <2>3, SameKnown DEF listVars, mainVars
    <2>5. TagsRight'
      BY <1>1, <2>1, SameTagsRight DEF listVars
    <2> QED BY <1>1, <2>4, <2>5 DEF SeqInv
  <1>4. CASE Recycle(p)
    <2> DEFINE c == target[p]
    <2>1. c \in Conns /\ c \in Listed
      BY <1>4, <1>2 DEF Recycle, CloseStep, SeqInv, Types, CloseTypes, Known
    <2>2. Range(m_recyconnectionList') = Range(m_recyconnectionList) \cup {c}
      BY <1>4, RangeAppend DEF Recycle, SeqInv, Types, ListTypes
    <2>3. NothingReleased' /\ Known'
      <3>1. \A q \in Closers : target'[q] \in {target[q], None}
        BY <1>4, <1>2 DEF Recycle
      <3> QED
        BY <1>4, <2>1, <2>2, <3>1, SameKnown DEF Recycle, mainVars, kernelVars
    <2>4. /\ Listed' = Listed /\ TagsInUse' = TagsInUse /\ session' = session
          /\ iCurrsequence' = [iCurrsequence EXCEPT ![c] = @ + 1]
      BY <1>4 DEF Recycle, Listed, TagsInUse, timerVars, workVars
    <2>5. \A d \in Listed : d \in Conns /\ iCurrsequence[d] \in Nat
      BY RangeSubset DEF SeqInv, Types, ConnTypes, ListTypes, Listed
    <2>6. \A d \in Listed : /\ iCurrsequence'[d] >= iCurrsequence[d]
                            /\ iCurrsequence'[d] = iCurrsequence[d] => session'[d] = session[d]
      BY <2>4, <2>5 DEF SeqInv, Types, ConnTypes
    <2>7. \A tag \in TagsInUse : TagRight(tag)'
      BY <1>1, <2>4, <2>6, OldTagsRight
    <2> QED BY <1>1, <2>3, <2>4, <2>7 DEF SeqInv, TagsRight
  <1> QED BY <1>3, <1>4 DEF ZdClose

LEMMA RecycleDueSeq ==
    ASSUME SeqInv, RecycleDue
    PROVE  SeqInv'
  <1>0. PICK i \in DOMAIN m_recyconnectionList : RecyclesAt(i)
    BY DEF RecycleDue, RecyclesAt
  <1> DEFINE c == m_recyconnectionList[i]
  <1>1. Types'
    BY RecycleDueTypes DEF SeqInv
  <1>2. /\ c \in Range(m_recyconnectionList)
        /\ Range(m_recyconnectionList') \subseteq Range(m_recyconnectionList)
    <2>1. m_recyconnectionList \in Seq(Conns)
      BY DEF SeqInv, Types, ListTypes
    <2>2. Range(RemoveAt(m_recyconnectionList, i)) \subseteq Range(m_recyconnectionList)
      BY <2>1, RangeRemoveAt
    <2> QED BY <1>0, <2>2 DEF RecyclesAt, Range
  <1>3. Range(m_freeconnectionList') = Range(m_freeconnectionList) \cup {c}
    BY <1>0, RangeAppend DEF RecyclesAt, SeqInv, Types, ListTypes
  <1>4. /\ Listed' = Listed /\ TagsInUse' = TagsInUse /\ session' = session
        /\ iCurrsequence' = [iCurrsequence EXCEPT ![c] = @ + 1]
    <2>1. UNCHANGED <<m_connectionList, session, timerVars, workVars>>
      BY DEF RecycleDue
    <2> QED BY <1>0, <2>1 DEF RecyclesAt, Listed, TagsInUse, timerVars, workVars
  <1>5. NothingReleased' /\ Known'
    <2> HIDE DEF c
    <2> QED BY <1>2, <1>3, <1>4
        DEF RecycleDue, SeqInv, Known, NothingReleased, mainVars, kernelVars, closeVars
  <1>6. \A d \in Listed : d \in Conns /\ iCurrsequence[d] \in Nat
    BY RangeSubset DEF SeqInv, Types, ConnTypes, ListTypes, Listed
  <1>7. \A d \in Listed : /\ iCurrsequence'[d] >= iCurrsequence[d]
                          /\ iCurrsequence'[d] = iCurrsequence[d] => session'[d] = session[d]
    BY <1>4, <1>6 DEF SeqInv, Types, ConnTypes
  <1>8. \A tag \in TagsInUse : TagRight(tag)'
    BY <1>1, <1>4, <1>7, OldTagsRight
  <1> QED BY <1>1, <1>4, <1>5, <1>8 DEF SeqInv, TagsRight

\* The connection given to a client is listed afterwards; if it was before, its
\* sequence number moves on, else no tag names it.
LEMMA ObtainsSeq ==
    ASSUME SeqInv, NEW c \in Conns, Obtains(c)
    PROVE  /\ released' = {}
           /\ Listed' = Listed \cup {c}
           /\ Range(FreeLeft) \subseteq Listed /\ FreeLeft \in Seq(Conns)
           /\ c \in Listed => SeqGiven(c) = iCurrsequence[c] + 1
  <1>1. m_freeconnectionList \in Seq(Conns) /\ m_connectionList \in Seq(Conns)
    BY DEF SeqInv, Types, ListTypes
  <1>2. CASE m_freeconnectionList # <<>>
    <2>1. c = Head(m_freeconnectionList) /\ m_connectionList' = m_connectionList /\ released' = released
      BY <1>2 DEF Obtains
    <2>2. /\ Head(m_freeconnectionList) \in Range(m_freeconnectionList)
          /\ Range(Tail(m_freeconnectionList)) \subseteq Range(m_freeconnectionList)
      BY <1>1, <1>2, RangeTail
    <2> QED
      BY <1>1, <1>2, <2>1, <2>2 DEF SeqInv, Known, NothingReleased, Listed, FreeLeft, SeqGiven
  <1>3. CASE m_freeconnectionList = <<>>
    <2>1. /\ c \notin Range(m_connectionList)
          /\ m_connectionList' = Append(m_connectionList, c)
          /\ released' = {}
      BY <1>3 DEF Obtains, SeqInv, NothingReleased
    <2>2. Range(FreeLeft) = {}
      BY <1>3 DEF FreeLeft, Range
    <2> QED
      BY <1>1, <1>3, <2>1, <2>2, RangeAppend DEF Listed, FreeLeft
  <1> QED BY <1>2, <1>3

\* What the two outcomes of giving c to a client share; n is the sequence
\* number c has afterwards.
LEMMA AcceptOnSeq ==
    ASSUME SeqInv, Types', NEW l \in Conns, NEW c \in Conns, NEW f \in Fds,
           AcceptOn(l, c, f),
           NEW n \in Nat, n >= SeqGiven(c),
           iCurrsequence' = [iCurrsequence EXCEPT ![c] = n],
           \A g \in Fds : registered'[g] \in {registered[g], c},
           newc' \in {newc, c},
           m_freeconnectionList' \in {FreeLeft, Append(FreeLeft, c)}
    PROVE  SeqInv'
  <1>1. /\ released' = {} /\ Listed' = Listed \cup {c}
        /\ Range(FreeLeft) \subseteq Listed /\ FreeLeft \in Seq(Conns)
        /\ c \in Listed => SeqGiven(c) = iCurrsequence[c] + 1
    BY ObtainsSeq DEF AcceptOn
  <1>2. \A d \in Listed : d \in Conns /\ iCurrsequence[d] \in Nat
    BY RangeSubset DEF SeqInv, Types, ConnTypes, ListTypes, Listed
  <1>3. \A d \in Conns : d # c => session'[d] = session[d] /\ fd'[d] = fd[d]
    BY DEF AcceptOn, SeqInv, Types, ConnTypes
  <1>4. /\ TagsInUse' = TagsInUse /\ target' = target
        /\ m_recyconnectionList' = m_recyconnectionList /\ m_events' \subseteq m_events
    BY DEF AcceptOn, TakeEvent, TagsInUse, timerVars, workVars, closeVars
  <1>5. Known'
    <2>1. Range(m_freeconnectionList') \subseteq Listed'
      BY <1>1, RangeAppend
    <2>2. \A d \in Conns : fd'[d] # NoFd => d \in Listed'
      BY <1>1, <1>3 DEF SeqInv, Known
    <2> QED
      BY <1>1, <1>4, <2>1, <2>2 DEF SeqInv, Known
  <1>6. \A d \in Listed : /\ iCurrsequence'[d] >= iCurrsequence[d]
                          /\ iCurrsequence'[d] = iCurrsequence[d] => session'[d] = session[d]
    <2> SUFFICES ASSUME NEW d \in Listed
                 PROVE  /\ iCurrsequence'[d] >= iCurrsequence[d]
                        /\ iCurrsequence'[d] = iCurrsequence[d] => session'[d] = session[d]
      OBVIOUS
    <2>1. CASE d = c
      <3>1. iCurrsequence'[c] = n /\ n > iCurrsequence[c]
        BY <1>1, <1>2, <2>1 DEF SeqInv, Types, ConnTypes
      <3> QED BY <1>2, <2>1, <3>1
    <2>2. CASE d # c
      <3>1. iCurrsequence'[d] = iCurrsequence[d]
        BY <1>2, <2>2 DEF SeqInv, Types, ConnTypes
      <3> QED BY <1>2, <1>3, <2>2, <3>1
    <2> QED BY <2>1, <2>2
  <1>7. \A tag \in TagsInUse : TagRight(tag)'
    BY <1>1, <1>6, OldTagsRight
  <1> QED BY <1>1, <1>4, <1>5, <1>7 DEF SeqInv, TagsRight, NothingReleased

LEMMA AcceptSeq ==
    ASSUME SeqInv, NEW l \in Conns, NEW c \in Conns, NEW f \in Fds, Accept(l, c, f)
    PROVE  SeqInv'
  <1>1. Types' /\ AcceptOn(l, c, f)
    BY AcceptTypes DEF SeqInv, Accept
  <1>2. SeqGiven(c) \in Nat
    BY <1>1, AcceptOnTypes DEF SeqInv
  <1>3. \A g \in Fds : registered'[g] \in {registered[g], c}
    BY DEF Accept, SeqInv, Types, KernelTypes
  <1>4. SeqGiven(c) >= SeqGiven(c)
    BY <1>2
  <1>5. /\ iCurrsequence' = [iCurrsequence EXCEPT ![c] = SeqGiven(c)]
        /\ newc' = c /\ m_freeconnectionList' = FreeLeft
    BY DEF Accept
  <1> QED
    BY <1>1, <1>2, <1>3, <1>4, <1>5, AcceptOnSeq

LEMMA AcceptFailsSeq ==
    ASSUME SeqInv, NEW l \in Conns, NEW c \in Conns, NEW f \in Fds, AcceptFails(l, c, f)
    PROVE  SeqInv'
  <1>1. Types' /\ AcceptOn(l, c, f)
    BY AcceptFailsTypes DEF SeqInv, AcceptFails
  <1>2. SeqGiven(c) \in Nat
    BY <1>1, AcceptOnTypes DEF SeqInv
  <1>3. SeqGiven(c) + 1 \in Nat /\ SeqGiven(c) + 1 >= SeqGiven(c)
    BY <1>2
  <1> QED
    BY <1>1, <1>3, AcceptOnSeq DEF AcceptFails

LEMMA MainStepSeq ==
    ASSUME SeqInv, MainStep, ~FloodEnable
    PROVE  SeqInv'
  <1>1. Types'
    BY MainStepTypes DEF SeqInv
  <1>2. fd \in [Conns -> {NoFd, ListenFd, GarbageFd} \cup Fds] /\ ListenFd # NoFd
    BY DEF SeqInv, Types, ConnTypes, ListenFd, NoFd
  <1>3. CASE EpollWait
    <2>1. m_events' \subseteq Listed
      <3>1. PICK E \in SUBSET (ListenConns \cup {registered[f] : f \in Fds}) :
                None \notin E /\ m_events' = E
        BY <1>3 DEF EpollWait
      <3> QED BY <1>2, <3>1 DEF ListenConns, SeqInv, Known
    <2>2. /\ UNCHANGED <<listVars, connVars, registered, target, newc>>
          /\ TagsInUse' = TagsInUse
      BY <1>3 DEF EpollWait, TagsInUse, timerVars, workVars, kernelVars, closeVars
    <2> QED BY <1>1, <1>2, <2>1, <2>2, SameKnown, SameTagsRight DEF SeqInv, listVars, connVars
  <1>4. CASE AddTimer
    <2>1. newc \in Listed
      BY <1>4 DEF AddTimer, SeqInv, Types, MainTypes, Known
    <2>2. /\ UNCHANGED <<listVars, connVars, registered, target, m_events, newc>>
          /\ TagsInUse' = TagsInUse \cup {Tag(newc)}
      BY <1>4 DEF AddTimer, TagsInUse, workVars, kernelVars, closeVars
    <2> QED BY <1>1, <1>2, <2>1, <2>2, SameKnown, NewTagRight DEF SeqInv, listVars, connVars
  <1>5. CASE CountOnline
    <2>1. /\ UNCHANGED <<m_connectionList, m_freeconnectionList, m_recyconnectionList,
                         connVars, registered, target, m_events>>
          /\ newc' = None /\ TagsInUse' = TagsInUse
      BY <1>5 DEF CountOnline, TagsInUse, workVars, timerVars, kernelVars, closeVars
    <2> QED BY <1>1, <1>2, <2>1, SameKnown, SameTagsRight DEF SeqInv, connVars
  <1>6. ASSUME NEW c \in Conns,
               AcceptNothing(c) \/ ReadPart(c) \/ ReadPacket(c) \/ ReadEnds(c)
        PROVE  SeqInv'
    <2>1. /\ UNCHANGED <<listVars, connVars, registered, newc>>
          /\ m_events' \subseteq m_events /\ c \in Listed
      BY <1>6 DEF AcceptNothing, ReadPart, ReadPacket, ReadEnds, TakeEvent, kernelVars,
          SeqInv, Known
    <2>2. \A p \in Closers : target'[p] \in {target[p], None, c}
      BY <1>6 DEF AcceptNothing, ReadPart, ReadPacket, ReadEnds, StartClose, closeVars,
          SeqInv, Types, CloseTypes
    <2>3. TagsInUse' \subseteq TagsInUse \cup {Tag(c)}
      BY <1>6 DEF AcceptNothing, ReadPart, ReadPacket, ReadEnds, TagsInUse, timerVars, workVars
    <2> QED
      BY <1>1, <1>2, <2>1, <2>2, <2>3, SameKnown, NewTagRight DEF SeqInv, listVars, connVars
  <1> QED
    BY <1>3, <1>4, <1>5, <1>6, AcceptSeq, AcceptFailsSeq DEF MainStep, ReadFlood

\* The timer thread and the workers only pass tags on, and close what they name.
LEMMA OtherStepSeq ==
    ASSUME SeqInv,
           TimerStep \/ \E w \in Workers : Dispatch(w) \/ Finish(w) \/ KickBacklog(w)
    PROVE  SeqInv'
  <1>1. Types'
    BY TimerStepTypes, WorkerStepTypes DEF SeqInv
  <1>2. fd \in [Conns -> {NoFd, ListenFd, GarbageFd} \cup Fds]
    BY DEF SeqInv, Types, ConnTypes
  <1>3. UNCHANGED <<listVars, connVars, mainVars, kernelVars>>
    BY DEF TimerStep, ScanTimers, TimerPasses, TimerKicks, Dispatch, Finish, KickBacklog
  <1>4. \A tag \in TagsInUse : tag.conn \in Listed
    BY DEF SeqInv, TagsRight, TagRight
  <1>5. CASE TimerStep
    <2>1. TagsInUse' \subseteq TagsInUse
      BY <1>5 DEF TimerStep, ScanTimers, TimerPasses, TimerKicks, TagsInUse, workVars
    <2>2. \A p \in Closers : target'[p] \in {target[p]} \cup Listed
      <3>1. target \in [Closers -> Conns \cup {None}]
        BY DEF SeqInv, Types, CloseTypes
      <3>2. CASE ScanTimers \/ TimerPasses
        BY <3>2 DEF ScanTimers, TimerPasses, closeVars
      <3>3. CASE TimerKicks
        <4>1. PICK tag \in m_lsIdleList : StartClose("timer", tag.conn)
          BY <3>3 DEF TimerKicks
        <4>2. tag.conn \in Listed
          BY <1>4, <4>1 DEF TagsInUse
        <4> QED BY <3>1, <4>1, <4>2 DEF StartClose
      <3> QED BY <1>5, <3>2, <3>3 DEF TimerStep
    <2> QED
      BY <1>1, <1>2, <1>3, <2>1, <2>2, SameKnown, SameTagsRight
      DEF SeqInv, listVars, connVars, mainVars, kernelVars
  <1>6. ASSUME NEW w \in Workers, Dispatch(w) \/ Finish(w) \/ KickBacklog(w) PROVE SeqInv'
    <2>1. job \in [Workers -> SUBSET Tags]
      BY DEF SeqInv, Types, WorkTypes
    <2>2. TagsInUse' \subseteq TagsInUse
      <3>1. \A v \in Workers : job'[v] \subseteq job[v] \cup inbox
        BY <1>6, <2>1 DEF Dispatch, Finish, KickBacklog
      <3>2. inbox' \subseteq inbox /\ UNCHANGED timerVars
        BY <1>6 DEF Dispatch, Finish, KickBacklog
      <3> QED BY <3>1, <3>2 DEF TagsInUse, timerVars
    <2>3. \A p \in Closers : target'[p] \in {target[p]} \cup Listed
      <3>1. \A m \in job[w] : m.conn \in Listed
        BY <1>4 DEF TagsInUse
      <3> QED
        BY <1>6, <3>1 DEF Dispatch, Finish, KickBacklog, StartClose, closeVars, SeqInv,
            Types, CloseTypes
    <2> QED
      BY <1>1, <1>2, <1>3, <2>2, <2>3, SameKnown, SameTagsRight
      DEF SeqInv, listVars, connVars, mainVars, kernelVars
  <1> QED BY <1>5, <1>6

LEMMA InitSeq == Init => SeqInv
  <1> SUFFICES ASSUME Init PROVE SeqInv OBVIOUS
  <1> USE PoolSizes, PoolAddresses
  <1>1. Listed = 1 .. m_worker_connections
    BY DEF Init, Listed, Range
  <1>2. Range(m_freeconnectionList) \subseteq Listed /\ Range(m_recyconnectionList) = {}
    BY <1>1 DEF Init, Range
  <1>3. Known
    BY <1>1, <1>2 DEF Init, Known, NoFd, ListenFd, Conns
  <1>4. TagsInUse = {}
    BY DEF Init, TagsInUse
  <1> QED
    BY <1>3, <1>4, InitTypes DEF SeqInv, TagsRight, NothingReleased, Init

\* The comparison of sequence numbers catches every packet and timer entry of
\* an earlier client, however often a connection is reused and closed, as long
\* as the flood check is off (it releases objects that are still in use).
THEOREM StaleNeverFresh ==
    ASSUME ~FloodEnable
    PROVE  Spec => []StaleDetected
  <1>1. SeqInv /\ [Next]_vars => SeqInv'
    <2> SUFFICES ASSUME SeqInv, [Next]_vars PROVE SeqInv' OBVIOUS
    <2>1. CASE UNCHANGED vars
      <3>1. Types' /\ TagsInUse' = TagsInUse
        BY <2>1, NextTypes DEF SeqInv, vars, TagsInUse, timerVars, workVars
      <3>2. \A c \in Conns : fd[c] = fd'[c]
        BY <2>1 DEF vars, connVars
      <3> QED
        BY <2>1, <3>1, <3>2, SameKnown, SameTagsRight
        DEF SeqInv, vars, listVars, connVars, mainVars, kernelVars, closeVars
    <2> QED
      BY <2>1, MainStepSeq, OtherStepSeq, RecycleDueSeq, ZdCloseSeq DEF Next
  <1>2. SeqInv => StaleDetected
    BY DEF SeqInv, TagsRight, TagRight, StaleDetected
  <1> QED BY <1>1, <1>2, InitSeq, PTL DEF Spec
-----------------------------------------------------------------------------
(* The count of clients is never too high, with any switches. *)

\* Closers that have closed the socket, but not yet taken the client off the count.
Debtors == {p \in Closers : closing[p] \in {"clear", "recycle"}}

\* 1 while the main thread has a client that it has not counted yet.
Owed == IF main = "loop" THEN 0 ELSE 1

CountInv ==
    /\ IsFiniteSet(Debtors)
    /\ m_onlineUserCount + Owed <= Cardinality(Online) + Cardinality(Debtors)

LEMMA OnlineFinite == IsFiniteSet(Online) /\ Cardinality(Online) \in Nat
  <1>1. IsFiniteSet(Fds)
    BY PoolSizes, FS_Interval DEF Fds
  <1>2. Online \subseteq Fds
    BY DEF Online
  <1> QED BY <1>1, <1>2, FS_Subset, FS_CardinalityType

\* A step that changes none of the four numbers.
LEMMA CountSame ==
    ASSUME CountInv, UNCHANGED <<m_onlineUserCount, sock, main>>, Debtors' = Debtors
    PROVE  CountInv'
  BY DEF CountInv, Owed, Online

LEMMA StartCloseCount ==
    ASSUME Types, NEW p \in Closers, NEW c, closing[p] = "no", StartClose(p, c)
    PROVE  Debtors' = Debtors
  BY DEF StartClose, Types, CloseTypes, Debtors

LEMMA ZdCloseCount ==
    ASSUME Types, CountInv, NEW p \in Closers, ZdClose(p)
    PROVE  CountInv'
  <1>1. \A q \in Closers : q # p => closing'[q] = closing[q]
    BY DEF ZdClose, Unlist, TestFd, CloseFd, ClearFd, Recycle, CloseStep, Types, CloseTypes
  <1>2. /\ m_onlineUserCount \in Int /\ Owed \in {0, 1}
        /\ Cardinality(Online) \in Nat /\ IsFiniteSet(Debtors) /\ Cardinality(Debtors) \in Nat
        /\ m_onlineUserCount + Owed <= Cardinality(Online) + Cardinality(Debtors)
    BY OnlineFinite, FS_CardinalityType DEF Types, ListTypes, CountInv, Owed
  <1>3. CASE Unlist(p) \/ ClearFd(p) \/ (TestFd(p) /\ closing'[p] = "close")
    <2>1. closing[p] \in {"clear", "recycle"} <=> closing'[p] \in {"clear", "recycle"}
      BY <1>3 DEF Unlist, ClearFd, TestFd, CloseStep, Types, CloseTypes
    <2>2. Debtors' = Debtors
      BY <1>1, <2>1 DEF Debtors
    <2> QED
      BY <1>3, <2>2, CountSame
      DEF Unlist, ClearFd, TestFd, listVars, kernelVars, mainVars
  <1>4. CASE CloseFd(p) \/ (TestFd(p) /\ closing'[p] # "close")
    <2>1. p \notin Debtors /\ Debtors' = Debtors \cup {p}
      BY <1>1, <1>4 DEF CloseFd, TestFd, CloseStep, Types, CloseTypes, Debtors
    <2>2. IsFiniteSet(Debtors') /\ Cardinality(Debtors') = Cardinality(Debtors) + 1
      BY <1>2, <2>1, FS_AddElement
    <2>3. m_onlineUserCount' = m_onlineUserCount /\ Owed' = Owed
      BY <1>4 DEF CloseFd, TestFd, listVars, mainVars, Owed
    <2>4. Cardinality(Online') \in Nat /\ Cardinality(Online') >= Cardinality(Online) - 1
      <3>1. CASE CloseFd(p)
        <4>1. Online' = Online \ {fd[target[p]]}
          BY <3>1 DEF CloseFd, KernelClose, Online
        <4>2. IsFiniteSet(Online)
          BY OnlineFinite
        <4> DEFINE g == fd[target[p]]
        <4>3. Cardinality(Online \ {g}) =
                  IF g \in Online THEN Cardinality(Online) - 1 ELSE Cardinality(Online)
          BY <4>2, FS_RemoveElement
        <4>4. IsFiniteSet(Online') /\ Cardinality(Online') \in Nat
          BY <4>1, <4>2, FS_RemoveElement, FS_CardinalityType
        <4> QED BY <1>2, <4>1, <4>3, <4>4
      <3>2. CASE TestFd(p)
        <4>1. Online' = Online
          BY <3>2 DEF TestFd, kernelVars, Online
        <4> QED BY <1>2, <4>1
      <3> QED BY <1>4, <3>1, <3>2
    <2> QED BY <1>2, <2>2, <2>3, <2>4 DEF CountInv
  <1>5. CASE Recycle(p)
    <2>1. p \in Debtors /\ Debtors' = Debtors \ {p}
      BY <1>1, <1>5 DEF Recycle, CloseStep, Types, CloseTypes, Debtors
    <2>2. IsFiniteSet(Debtors') /\ Cardinality(Debtors') = Cardinality(Debtors) - 1
      BY <1>2, <2>1, FS_RemoveElement
    <2>3. m_onlineUserCount' = m_onlineUserCount - 1 /\ Owed' = Owed /\ Online' = Online
      BY <1>5 DEF Recycle, kernelVars, mainVars, Owed, Online
    <2> QED BY <1>2, <2>2, <2>3 DEF CountInv
  <1> QED BY <1>3, <1>4, <1>5 DEF ZdClose

LEMMA MainStepCount ==
    ASSUME Types, CountInv, MainStep
    PROVE  CountInv'
  <1>0. /\ m_onlineUserCount \in Int /\ main \in {"loop", "timer", "count"}
        /\ Cardinality(Online) \in Nat /\ IsFiniteSet(Debtors) /\ Cardinality(Debtors) \in Nat
        /\ m_onlineUserCount + Owed <= Cardinality(Online) + Cardinality(Debtors)
    BY OnlineFinite, FS_CardinalityType DEF Types, ListTypes, MainTypes, CountInv
  <1>1. CASE EpollWait \/ (\E c \in Conns : AcceptNothing(c) \/ ReadPart(c) \/ ReadPacket(c))
    BY <1>1, CountSame
    DEF EpollWait, AcceptNothing, ReadPart, ReadPacket, listVars, kernelVars, closeVars, Debtors
  <1>2. CASE AddTimer
    BY <1>2 DEF AddTimer, CountInv, Owed, Online, Debtors, listVars, kernelVars, closeVars
  <1>3. CASE CountOnline
    <2>1. Owed = 1 /\ Owed' = 0 /\ m_onlineUserCount' = m_onlineUserCount + 1
      BY <1>3 DEF CountOnline, Owed
    <2>2. Debtors' = Debtors /\ Online' = Online
      BY <1>3 DEF CountOnline, Debtors, Online, closeVars, kernelVars
    <2> QED BY <1>0, <2>1, <2>2 DEF CountInv
  <1>4. ASSUME NEW c \in Conns, ReadEnds(c) \/ ReadFlood(c) PROVE CountInv'
    <2>1. "main" \in Closers /\ closing["main"] = "no" /\ StartClose("main", c)
      BY <1>4 DEF ReadEnds, ReadFlood, TakeEvent, MainIdle, Closers
    <2>2. Debtors' = Debtors
      BY <2>1, StartCloseCount
    <2> QED
      BY <1>4, <2>2, CountSame DEF ReadEnds, ReadFlood, listVars, kernelVars
  <1>5. ASSUME NEW l \in Conns, NEW c \in Conns, NEW f \in Fds, Accept(l, c, f)
        PROVE  CountInv'
    <2>1. main = "loop" /\ main' # "loop" /\ m_onlineUserCount' = m_onlineUserCount
          /\ sock[f] = None /\ sock' = [sock EXCEPT ![f] = accepted + 1]
          /\ Debtors' = Debtors
      BY <1>5 DEF Accept, AcceptOn, TakeEvent, MainIdle, LowestFree, closeVars, Debtors
    <2>2. accepted + 1 # None
      BY PoolSizes DEF Types, KernelTypes, None
    <2>3. f \notin Online /\ Online' = Online \cup {f}
      BY <2>1, <2>2 DEF Online, Types, KernelTypes
    <2>4. Cardinality(Online') = Cardinality(Online) + 1
      BY <2>3, OnlineFinite, FS_AddElement
    <2>5. Owed = 0 /\ Owed' = 1
      BY <2>1 DEF Owed
    <2> QED BY <1>0, <2>1, <2>4, <2>5 DEF CountInv
  <1>6. ASSUME NEW l \in Conns, NEW c \in Conns, NEW f \in Fds, AcceptFails(l, c, f)
        PROVE  CountInv'
    BY <1>6, CountSame DEF AcceptFails, AcceptOn, closeVars, Debtors
  <1> QED BY <1>1, <1>2, <1>3, <1>4, <1>5, <1>6 DEF MainStep

LEMMA OtherStepCount ==
    ASSUME Types, CountInv,
           TimerStep \/ RecycleDue \/ UNCHANGED vars
           \/ \E w \in Workers : Dispatch(w) \/ Finish(w) \/ KickBacklog(w)
    PROVE  CountInv'
  <1>1. UNCHANGED <<m_onlineUserCount, sock, main>>
    BY DEF TimerStep, ScanTimers, TimerPasses, TimerKicks, RecycleDue, Dispatch, Finish,
        KickBacklog, vars, listVars, kernelVars, mainVars
  <1>2. CASE UNCHANGED closeVars
    BY <1>1, <1>2, CountSame DEF closeVars, Debtors
  <1>3. CASE TimerKicks
    <2>1. "timer" \in Closers /\ closing["timer"] = "no" /\ \E c : StartClose("timer", c)
      BY <1>3 DEF TimerKicks, TimerIdle, Closers
    <2> QED BY <1>1, <2>1, StartCloseCount, CountSame
  <1>4. ASSUME NEW w \in Workers, KickBacklog(w) PROVE CountInv'
    <2>1. w \in Closers /\ closing[w] = "no" /\ \E c : StartClose(w, c)
      BY <1>4 DEF KickBacklog, Closers
    <2> QED BY <1>1, <2>1, StartCloseCount, CountSame
  <1> QED
    BY <1>2, <1>3, <1>4
    DEF TimerStep, ScanTimers, TimerPasses, RecycleDue, Dispatch, Finish, vars

\* Between two events the count is not above the number of connected clients, so
\* ngx_event_accept refuses nobody too early, for any number of threads and
\* however often they close a connection.
THEOREM CountAtMostOnline == Spec => []CountNeverHigh
  <1>1. Init => CountInv
    <2> SUFFICES ASSUME Init PROVE CountInv OBVIOUS
    <2>1. Debtors = {} /\ Owed = 0 /\ m_onlineUserCount = 0
      BY DEF Init, Debtors, Owed
    <2>2. IsFiniteSet({}) /\ Cardinality({}) = 0
      BY FS_EmptySet
    <2>3. Cardinality(Online) \in Nat
      BY OnlineFinite
    <2>4. m_onlineUserCount + Owed <= Cardinality(Online) + 0
      BY <2>1, <2>3
    <2> QED BY <2>1, <2>2, <2>4 DEF CountInv
  <1>2. (Types /\ CountInv) /\ [Next]_vars => (Types /\ CountInv)'
    <2> SUFFICES ASSUME Types, CountInv, [Next]_vars PROVE Types' /\ CountInv' OBVIOUS
    <2>1. CountInv'
      BY ZdCloseCount, MainStepCount, OtherStepCount DEF Next
    <2> QED BY <2>1, NextTypes
  <1>3. Types /\ CountInv => CountNeverHigh
    <2> SUFFICES ASSUME Types, CountInv, main = "loop", \A p \in Closers : closing[p] = "no"
                 PROVE  m_onlineUserCount <= Cardinality(Online)
      BY DEF CountNeverHigh
    <2>1. Debtors = {} /\ Owed = 0
      BY DEF Debtors, Owed
    <2>2. Cardinality({}) = 0
      BY FS_EmptySet
    <2>3. m_onlineUserCount + 0 <= Cardinality(Online) + 0 /\ m_onlineUserCount \in Int
      BY <2>1, <2>2 DEF CountInv, Types, ListTypes
    <2> QED BY <2>3, OnlineFinite
  <1> QED BY <1>1, <1>2, <1>3, InitTypes, PTL DEF Spec
-----------------------------------------------------------------------------
(* Where a connection can be, as long as nothing is recycled. *)
\* The connections that a list but the free one, an event, a descriptor, a tag or a
\* thread may name.
Used(c) ==
    \/ fd[c] = ListenFd \/ c \in m_events \/ newc = c
    \/ \E f \in Fds : registered[f] = c
    \/ \E p \in Closers : target[p] = c
    \/ \E tag \in TagsInUse : tag.conn = c

Once(q, c) == \A i, j \in DOMAIN q : q[i] = c /\ q[j] = c => i = j

\* A connection that was used is never free again, unless the flood check released
\* it while it was used.
PoolApart ==
    /\ Range(m_freeconnectionList) \subseteq Range(m_connectionList)
    /\ released \subseteq flooded
    /\ \A c \in Conns : Used(c) =>
          /\ c \in Range(m_connectionList)
          /\ c \in Range(m_freeconnectionList) => c \in flooded
    /\ \A c \in Conns \ flooded : Once(m_freeconnectionList, c)

\* Who clears fd has closed what it held.
ClosedBefore ==
    \A p \in Closers : closing[p] = "clear" /\ target[p] \notin flooded =>
        \A f \in Fds : sock[f] # None => registered[f] # target[p]

ReachInv == PoolApart /\ SocketReachable /\ ClosedBefore

LEMMA OnceAppend ==
    ASSUME NEW S, NEW q \in Seq(S), NEW e, NEW c, Once(q, c), c # e \/ c \notin Range(q)
    PROVE  Once(Append(q, e), c)
  <1>1. /\ Len(q) \in Nat /\ DOMAIN q = 1 .. Len(q)
        /\ DOMAIN Append(q, e) = 1 .. Len(q) + 1
        /\ \A i \in 1 .. Len(q) : Append(q, e)[i] = q[i]
        /\ Append(q, e)[Len(q) + 1] = e
        /\ \A i \in 1 .. Len(q) + 1 : i \in 1 .. Len(q) \/ i = Len(q) + 1
    OBVIOUS
  <1>2. \A i \in 1 .. Len(q) : q[i] = c => c # e
    BY <1>1 DEF Range
  <1> SUFFICES ASSUME NEW i \in 1 .. Len(q) + 1, NEW j \in 1 .. Len(q) + 1,
                      Append(q, e)[i] = c, Append(q, e)[j] = c
               PROVE  i = j
    BY <1>1 DEF Once
  <1>3. CASE i \in 1 .. Len(q) /\ j \in 1 .. Len(q)
    BY <1>1, <1>3 DEF Once
  <1> QED BY <1>1, <1>2, <1>3

LEMMA OnceTail ==
    ASSUME NEW S, NEW q \in Seq(S), q # <<>>, NEW c, Once(q, c)
    PROVE  Once(Tail(q), c) /\ (c = Head(q) => c \notin Range(Tail(q)))
  <1>1. /\ Len(q) \in Nat /\ DOMAIN q = 1 .. Len(q) /\ 1 \in 1 .. Len(q)
        /\ DOMAIN Tail(q) = 1 .. Len(q) - 1
        /\ \A i \in 1 .. Len(q) - 1 : Tail(q)[i] = q[i + 1]
        /\ Head(q) = q[1]
        /\ \A i \in 1 .. Len(q) - 1 : i + 1 \in 1 .. Len(q) /\ i + 1 # 1
        /\ \A i, j \in 1 .. Len(q) - 1 : i + 1 = j + 1 => i = j
    BY HeadTailProperties
  <1>2. Once(Tail(q), c)
    BY <1>1 DEF Once
  <1>3. ASSUME c = Head(q), c \in Range(Tail(q)) PROVE FALSE
    <2>1. PICK i \in 1 .. Len(q) - 1 : q[i + 1] = c
      BY <1>1, <1>3 DEF Range
    <2> QED BY <1>1, <1>3, <2>1 DEF Once
  <1> QED BY <1>2, <1>3

\* A step that names only connections that were used before.
LEMMA ApartKept ==
    ASSUME PoolApart, UNCHANGED <<m_connectionList, m_freeconnectionList>>,
           flooded \subseteq flooded', released' \subseteq flooded',
           \A c \in Conns : Used(c)' => Used(c)
    PROVE  PoolApart'
  BY DEF PoolApart

LEMMA ZdCloseApart ==
    ASSUME Types, PoolApart, NEW p \in Closers, ZdClose(p)
    PROVE  PoolApart'
  <1>1. UNCHANGED <<m_connectionList, m_freeconnectionList, released, flooded, m_events, newc>>
    BY DEF ZdClose, Unlist, TestFd, CloseFd, ClearFd, Recycle, listVars, connVars, mainVars
  <1>2. \A q \in Closers : target'[q] \in {target[q], None}
    BY DEF ZdClose, Unlist, TestFd, CloseFd, ClearFd, Recycle, Types, CloseTypes
  <1>3. \A f \in Fds : registered'[f] \in {registered[f], None}
    BY DEF ZdClose, Unlist, TestFd, CloseFd, ClearFd, Recycle, kernelVars, KernelClose
  <1>4. \A c \in Conns : fd'[c] \in {fd[c], NoFd}
    BY DEF ZdClose, Unlist, TestFd, CloseFd, ClearFd, Recycle, connVars, Types, ConnTypes
  <1>5. TagsInUse' \subseteq TagsInUse
    BY DEF ZdClose, Unlist, TestFd, CloseFd, ClearFd, Recycle, TagsInUse, timerVars, workVars
  <1>6. \A c \in Conns : c # None
    BY DEF Conns, None
  <1>7. \A c \in Conns : Used(c)' => Used(c)
    BY <1>1, <1>2, <1>3, <1>4, <1>5, <1>6 DEF Used, NoFd, ListenFd
  <1> QED BY <1>1, <1>7, ApartKept DEF PoolApart

\* The timer thread and the workers close what a tag names.
LEMMA OtherStepApart ==
    ASSUME Types, PoolApart,
           \/ TimerStep \/ UNCHANGED vars
           \/ \E w \in Workers : Dispatch(w) \/ Finish(w) \/ KickBacklog(w)
    PROVE  PoolApart'
  <1>1. UNCHANGED <<m_connectionList, m_freeconnectionList, released, flooded, m_events, newc,
                    fd, registered>>
    BY DEF TimerStep, ScanTimers, TimerPasses, TimerKicks, Dispatch, Finish, KickBacklog,
        vars, listVars, connVars, mainVars, kernelVars
  <1>2. TagsInUse' \subseteq TagsInUse
    <2>1. CASE TimerStep \/ UNCHANGED vars
      BY <2>1 DEF TimerStep, ScanTimers, TimerPasses, TimerKicks, TagsInUse, vars, workVars,
          timerVars
    <2>2. ASSUME NEW w \in Workers, Dispatch(w) \/ Finish(w) \/ KickBacklog(w)
          PROVE  TagsInUse' \subseteq TagsInUse
      <3>1. \A v \in Workers : job'[v] \subseteq job[v] \cup inbox
        BY <2>2 DEF Dispatch, Finish, KickBacklog, Types, WorkTypes
      <3>2. inbox' \subseteq inbox /\ UNCHANGED timerVars
        BY <2>2 DEF Dispatch, Finish, KickBacklog
      <3> QED BY <3>1, <3>2 DEF TagsInUse, timerVars
    <2> QED BY <2>1, <2>2
  <1>3. \A q \in Closers : \/ target'[q] = target[q]
                           \/ \E tag \in TagsInUse : target'[q] = tag.conn
    <2>1. CASE UNCHANGED closeVars
      BY <2>1 DEF closeVars
    <2>2. CASE TimerKicks
      BY <2>2 DEF TimerKicks, StartClose, TagsInUse, Types, CloseTypes
    <2>3. ASSUME NEW w \in Workers, KickBacklog(w)
          PROVE  \A q \in Closers : \/ target'[q] = target[q]
                                    \/ \E tag \in TagsInUse : target'[q] = tag.conn
      <3>1. PICK m \in job[w] : StartClose(w, m.conn)
        BY <2>3 DEF KickBacklog
      <3>2. m \in TagsInUse
        BY <3>1 DEF TagsInUse
      <3> QED BY <3>1, <3>2 DEF StartClose, Types, CloseTypes
    <2> QED
      BY <2>1, <2>2, <2>3
      DEF TimerStep, ScanTimers, TimerPasses, Dispatch, Finish, vars
  <1>4. \A c \in Conns : Used(c)' => Used(c)
    BY <1>1, <1>2, <1>3 DEF Used
  <1> QED BY <1>1, <1>4, ApartKept DEF PoolApart

\* The steps of the main thread but accepting.
LEMMA MainQuietApart ==
    ASSUME Types, PoolApart,
           \/ EpollWait \/ AddTimer \/ CountOnline
           \/ \E c \in Conns : \/ AcceptNothing(c) \/ ReadPart(c) \/ ReadPacket(c)
                               \/ ReadEnds(c) \/ ReadFlood(c)
    PROVE  PoolApart'
  <1>0. \A c \in Conns : c # None
    BY DEF Conns, None
  <1>1. CASE EpollWait
    <2>1. UNCHANGED <<m_connectionList, m_freeconnectionList, released, flooded, newc,
                      fd, registered, target>> /\ TagsInUse' = TagsInUse
      BY <1>1 DEF EpollWait, listVars, connVars, kernelVars, closeVars, TagsInUse, timerVars, workVars
    <2>2. m_events' \subseteq ListenConns \cup {registered[f] : f \in Fds}
      BY <1>1 DEF EpollWait
    <2>3. \A c \in Conns : Used(c)' => Used(c)
      BY <2>1, <2>2 DEF Used, ListenConns
    <2> QED BY <2>1, <2>3, ApartKept DEF PoolApart
  <1>2. CASE AddTimer \/ CountOnline
    <2>1. UNCHANGED <<m_connectionList, m_freeconnectionList, released, flooded, m_events,
                      fd, registered, target>>
      BY <1>2 DEF AddTimer, CountOnline, listVars, connVars, kernelVars, closeVars
    <2>2. TagsInUse' \subseteq TagsInUse \cup {Tag(newc)}
      BY <1>2 DEF AddTimer, CountOnline, TagsInUse, workVars, timerVars
    <2>3. newc' \in {newc, None} /\ Tag(newc).conn = newc
      BY <1>2 DEF AddTimer, CountOnline, Tag
    <2>4. \A c \in Conns : Used(c)' => Used(c)
      BY <1>0, <2>1, <2>2, <2>3 DEF Used
    <2> QED BY <2>1, <2>4, ApartKept DEF PoolApart
  <1>3. ASSUME NEW c \in Conns,
               AcceptNothing(c) \/ ReadPart(c) \/ ReadPacket(c) \/ ReadEnds(c) \/ ReadFlood(c)
        PROVE  PoolApart'
    <2>1. UNCHANGED <<m_connectionList, m_freeconnectionList, registered, newc>>
      BY <1>3 DEF AcceptNothing, ReadPart, ReadPacket, ReadEnds, ReadFlood, listVars, kernelVars
    <2>2. /\ flooded \subseteq flooded' /\ released' \subseteq flooded'
          /\ c \in m_events /\ m_events' \subseteq m_events
      BY <1>3 DEF AcceptNothing, ReadPart, ReadPacket, ReadEnds, ReadFlood, TakeEvent,
          connVars, PoolApart
    <2>3. \A d \in Conns : fd'[d] = fd[d] \/ (fd'[d] # ListenFd /\ d = c) \/ d = c
      BY <1>3 DEF AcceptNothing, ReadPart, ReadPacket, ReadEnds, ReadFlood, connVars,
          Types, ConnTypes
    <2>4. \A q \in Closers : target'[q] \in {target[q], c}
      BY <1>3 DEF AcceptNothing, ReadPart, ReadPacket, ReadEnds, ReadFlood, StartClose,
          closeVars, Types, CloseTypes
    <2>5. TagsInUse' \subseteq TagsInUse \cup {Tag(c)} /\ Tag(c).conn = c
      BY <1>3 DEF AcceptNothing, ReadPart, ReadPacket, ReadEnds, ReadFlood, TagsInUse,
          timerVars, workVars, Tag
    <2>6. \A d \in Conns : Used(d)' => Used(d)
      BY <2>1, <2>2, <2>3, <2>4, <2>5 DEF Used
    <2> QED BY <2>1, <2>2, <2>6, ApartKept
  <1> QED BY <1>1, <1>2, <1>3

\* ngx_get_connection gives away a connection nobody uses, unless it was flooded.
LEMMA ObtainsUnused ==
    ASSUME Types, PoolApart, NEW c \in Conns, Obtains(c)
    PROVE  /\ Used(c) => c \in flooded
           /\ Range(FreeLeft) \subseteq Range(m_freeconnectionList) /\ FreeLeft \in Seq(Conns)
           /\ Range(m_connectionList') = Range(m_connectionList) \cup {c}
           /\ released' \subseteq flooded
           /\ \A d \in Conns \ flooded : Once(FreeLeft, d)
           /\ c \notin flooded => c \notin Range(FreeLeft)
  <1>0. m_freeconnectionList \in Seq(Conns) /\ m_connectionList \in Seq(Conns)
    BY DEF Types, ListTypes
  <1>1. CASE m_freeconnectionList # <<>>
    <2>1. /\ c = Head(m_freeconnectionList) /\ FreeLeft = Tail(m_freeconnectionList)
          /\ UNCHANGED <<m_connectionList, released>>
      BY <1>1 DEF Obtains, FreeLeft
    <2>2. /\ c \in Range(m_freeconnectionList)
          /\ Range(FreeLeft) \subseteq Range(m_freeconnectionList) /\ FreeLeft \in Seq(Conns)
      BY <1>0, <1>1, <2>1, RangeTail
    <2>3. \A d \in Conns \ flooded :
              Once(FreeLeft, d) /\ (d = c => d \notin Range(FreeLeft))
      BY <1>0, <1>1, <2>1, OnceTail DEF PoolApart
    <2> QED BY <2>1, <2>2, <2>3 DEF PoolApart
  <1>2. CASE m_freeconnectionList = <<>>
    <2>1. /\ c \in released \/ c \notin Range(m_connectionList)
          /\ m_connectionList' = Append(m_connectionList, c)
          /\ released' = released \ {c} /\ FreeLeft = <<>>
      BY <1>2 DEF Obtains, FreeLeft
    <2>2. Range(m_connectionList') = Range(m_connectionList) \cup {c}
      BY <1>0, <2>1, RangeAppend
    <2>3. Range(FreeLeft) = {} /\ FreeLeft \in Seq(Conns) /\ \A d : Once(FreeLeft, d)
      BY <2>1 DEF Range, Once
    <2> QED BY <2>1, <2>2, <2>3 DEF PoolApart
  <1> QED BY <1>1, <1>2

LEMMA AcceptApart ==
    ASSUME Types, PoolApart, NEW l \in Conns, NEW c \in Conns, NEW f \in Fds,
           Accept(l, c, f) \/ AcceptFails(l, c, f)
    PROVE  PoolApart'
  <1>0. AcceptOn(l, c, f) /\ Obtains(c)
    BY DEF Accept, AcceptFails, AcceptOn
  <1>1. /\ Used(c) => c \in flooded
        /\ Range(FreeLeft) \subseteq Range(m_freeconnectionList) /\ FreeLeft \in Seq(Conns)
        /\ Range(m_connectionList') = Range(m_connectionList) \cup {c}
        /\ released' \subseteq flooded
        /\ \A d \in Conns \ flooded : Once(FreeLeft, d)
        /\ c \notin flooded => c \notin Range(FreeLeft)
    BY <1>0, ObtainsUnused
  <1>2. /\ flooded' = flooded /\ m_events' \subseteq m_events /\ target' = target
        /\ TagsInUse' = TagsInUse
        /\ \A d \in Conns : d # c => fd'[d] = fd[d]
        /\ fd'[c] # ListenFd
    BY <1>0 DEF AcceptOn, TakeEvent, closeVars, TagsInUse, timerVars, workVars, Types,
        ConnTypes, Fds, ListenFd
  <1>3. \A g \in Fds : registered'[g] \in {registered[g], c}
    BY DEF Accept, AcceptFails, Types, KernelTypes
  <1>4. newc' \in {newc, c}
    BY DEF Accept, AcceptFails
  <1>5. \A d \in Conns : d # c /\ Used(d)' => Used(d)
    BY <1>2, <1>3, <1>4 DEF Used
  <1>6. CASE Accept(l, c, f)
    <2>1. m_freeconnectionList' = FreeLeft
      BY <1>6 DEF Accept
    <2>2. Range(m_freeconnectionList') \subseteq Range(m_connectionList')
      BY <1>1, <2>1 DEF PoolApart
    <2>3. \A d \in Conns : Used(d)' => /\ d \in Range(m_connectionList')
                                       /\ d \in Range(m_freeconnectionList') => d \in flooded
      BY <1>1, <1>5, <2>1 DEF PoolApart
    <2> QED BY <1>1, <1>2, <2>1, <2>2, <2>3 DEF PoolApart
  <1>7. CASE AcceptFails(l, c, f)
    <2>1. /\ m_freeconnectionList' = Append(FreeLeft, c)
          /\ registered' = registered /\ newc' = newc
      BY <1>7 DEF AcceptFails
    <2>2. Range(m_freeconnectionList') = Range(FreeLeft) \cup {c}
      BY <1>1, <2>1, RangeAppend
    <2>3. Used(c)' => Used(c)
      BY <1>2, <2>1 DEF Used
    <2>4. \A d \in Conns : Used(d)' => /\ d \in Range(m_connectionList')
                                       /\ d \in Range(m_freeconnectionList') => d \in flooded
      BY <1>1, <1>5, <2>2, <2>3 DEF PoolApart
    <2>5. \A d \in Conns \ flooded : Once(m_freeconnectionList', d)
      BY <1>1, <2>1, OnceAppend
    <2> QED BY <1>1, <1>2, <2>2, <2>4, <2>5 DEF PoolApart
  <1> QED BY <1>6, <1>7
\* A descriptor that is open, and watched for a connection the flood check left alone.
Watches(f, c) == sock[f] # None /\ registered[f] = c /\ c \notin flooded

\* The same two properties, connection by connection.
LEMMA WatchedIsHeld ==
    ASSUME Types
    PROVE  /\ SocketReachable <=>
                  \A f \in Fds, c \in Conns \cup {None} : Watches(f, c) =>
                      c \in Conns /\ fd[c] = f /\ session[c] = sock[f]
           /\ ClosedBefore <=>
                  \A p \in Closers, f \in Fds : ~(closing[p] = "clear" /\ Watches(f, target[p]))
  BY DEF SocketReachable, ClosedBefore, Watches, Types, KernelTypes, CloseTypes

\* A step that opens no descriptor and touches only connections that are flooded, or
\* that no descriptor watches.
LEMMA ReachKept ==
    ASSUME Types, Types', SocketReachable, ClosedBefore,
           \A f \in Fds, c \in Conns : Watches(f, c)' =>
               Watches(f, c) /\ fd'[c] = fd[c] /\ session'[c] = session[c] /\ sock'[f] = sock[f],
           \A f \in Fds : ~Watches(f, None)' \/ Watches(f, None),
           \A p \in Closers : closing'[p] = "clear" => closing[p] = "clear" /\ target'[p] = target[p]
    PROVE  SocketReachable' /\ ClosedBefore'
  <1>1. ASSUME NEW f \in Fds, NEW c \in Conns \cup {None}, Watches(f, c)'
        PROVE  c \in Conns /\ fd'[c] = f /\ session'[c] = sock'[f] /\ Watches(f, c)
    BY <1>1, WatchedIsHeld
  <1>2. SocketReachable'
    BY <1>1, WatchedIsHeld DEF SocketReachable, Watches, Types, KernelTypes
  <1>3. ASSUME NEW p \in Closers, NEW f \in Fds, closing'[p] = "clear", Watches(f, target[p])'
        PROVE  FALSE
    <2>1. closing[p] = "clear" /\ target'[p] = target[p] /\ target[p] \in Conns \cup {None}
      BY <1>3 DEF Types, CloseTypes
    <2>2. Watches(f, target[p])
      BY <1>1, <1>3, <2>1
    <2> QED BY <2>1, <2>2, WatchedIsHeld
  <1>4. ClosedBefore'
    BY <1>3 DEF ClosedBefore, Watches
  <1> QED BY <1>2, <1>4

LEMMA ZdCloseReach ==
    ASSUME Types, Types', SocketReachable, ClosedBefore, NEW p \in Closers, ZdClose(p)
    PROVE  SocketReachable' /\ ClosedBefore'
  <1>1. \A q \in Closers : q # p => closing'[q] = closing[q] /\ target'[q] = target[q]
    BY DEF ZdClose, Unlist, TestFd, CloseFd, ClearFd, Recycle, CloseStep, Types, CloseTypes
  <1>2. session' = session /\ flooded' = flooded
    BY DEF ZdClose, Unlist, TestFd, CloseFd, ClearFd, Recycle, connVars
  <1>3. CASE Unlist(p) \/ TestFd(p) \/ Recycle(p)
    <2>1. UNCHANGED <<fd, sock, registered>> /\ closing'[p] # "clear"
      BY <1>3 DEF Unlist, TestFd, Recycle, CloseStep, connVars, kernelVars, Types, CloseTypes
    <2> QED BY <1>1, <1>2, <2>1, ReachKept DEF Watches
  <1>4. CASE CloseFd(p)
    <2> DEFINE g == fd[target[p]]
    <2>1. /\ fd' = fd /\ target' = target
          /\ \A f \in Fds : sock'[f] # None => /\ f # g
                                               /\ sock'[f] = sock[f] /\ registered'[f] = registered[f]
      BY <1>4 DEF CloseFd, KernelClose, connVars, None
    <2> HIDE DEF g
    <2>2. ASSUME NEW f \in Fds, NEW c \in Conns \cup {None}, Watches(f, c)'
          PROVE  Watches(f, c) /\ f # g /\ sock'[f] = sock[f] /\ c \in Conns /\ fd[c] = f
                 /\ session[c] = sock[f]
      <3>1. Watches(f, c)
        BY <1>2, <2>1, <2>2 DEF Watches
      <3> QED BY <2>1, <2>2, <3>1, WatchedIsHeld DEF Watches
    <2>3. SocketReachable'
      BY <1>2, <2>1, <2>2, WatchedIsHeld DEF SocketReachable, Watches, Types, KernelTypes
    <2>4. ASSUME NEW q \in Closers, NEW f \in Fds, closing'[q] = "clear", Watches(f, target[q])'
          PROVE  FALSE
      <3>0. target'[q] = target[q] /\ target[q] \in Conns \cup {None}
        BY <2>1 DEF Types, CloseTypes
      <3>1. Watches(f, target[q]) /\ fd[target[q]] = f /\ f # g
        BY <2>2, <2>4, <3>0
      <3>2. CASE q = p
        BY <3>1, <3>2 DEF g
      <3>3. CASE q # p
        BY <1>1, <2>4, <3>1, <3>3, WatchedIsHeld
      <3> QED BY <3>2, <3>3
    <2> QED BY <2>3, <2>4 DEF ClosedBefore, Watches
  <1>5. CASE ClearFd(p)
    <2>1. /\ closing[p] = "clear" /\ closing'[p] = "recycle"
          /\ UNCHANGED <<sock, registered, target>>
          /\ \A c \in Conns : c # target[p] => fd'[c] = fd[c]
      BY <1>5 DEF ClearFd, CloseStep, kernelVars, Types, CloseTypes, ConnTypes
    <2>2. \A f \in Fds : ~Watches(f, target[p])
      BY <2>1, WatchedIsHeld
    <2>3. \A f \in Fds : \A c : Watches(f, c)' <=> Watches(f, c)
      BY <1>2, <2>1 DEF Watches
    <2> QED BY <1>1, <1>2, <2>1, <2>2, <2>3, ReachKept
  <1> QED BY <1>3, <1>4, <1>5 DEF ZdClose

LEMMA AcceptReach ==
    ASSUME Types, Types', PoolApart, SocketReachable, ClosedBefore,
           NEW l \in Conns, NEW c \in Conns, NEW f \in Fds, Accept(l, c, f) \/ AcceptFails(l, c, f)
    PROVE  SocketReachable' /\ ClosedBefore'
  <1>0. AcceptOn(l, c, f) /\ Obtains(c)
    BY DEF Accept, AcceptFails, AcceptOn
  <1>1. Used(c) => c \in flooded
    BY <1>0, ObtainsUnused
  <1>2. \A g \in Fds : ~Watches(g, c)
    BY <1>1 DEF Used, Watches
  <1>3. \A p \in Closers : target[p] = c => c \in flooded
    BY <1>1 DEF Used
  <1>4. /\ closing' = closing /\ target' = target /\ flooded' = flooded
        /\ \A d \in Conns : d # c => fd'[d] = fd[d] /\ session'[d] = session[d]
        /\ fd'[c] = f /\ session'[c] = accepted + 1
    BY <1>0 DEF AcceptOn, closeVars, Types, ConnTypes
  <1>5. CASE AcceptFails(l, c, f)
    <2>1. \A g \in Fds : \A d : Watches(g, d)' <=> Watches(g, d)
      BY <1>4, <1>5 DEF AcceptFails, Watches
    <2>2. sock' = sock
      BY <1>5 DEF AcceptFails
    <2> QED BY <1>2, <1>4, <2>1, <2>2, ReachKept
  <1>6. CASE Accept(l, c, f)
    <2>1. /\ \A g \in Fds : g # f => sock'[g] = sock[g] /\ registered'[g] = registered[g]
          /\ sock'[f] = accepted + 1 /\ registered'[f] = c
      BY <1>6 DEF Accept, Types, KernelTypes
    <2>2. ASSUME NEW g \in Fds, NEW d \in Conns \cup {None}, Watches(g, d)', g # f
          PROVE  Watches(g, d) /\ d # c /\ d \in Conns /\ fd'[d] = g /\ session'[d] = sock'[g]
      <3>1. Watches(g, d) /\ sock'[g] = sock[g]
        BY <1>4, <2>1, <2>2 DEF Watches
      <3>2. d # c /\ d \in Conns /\ fd[d] = g /\ session[d] = sock[g]
        BY <1>2, <3>1, WatchedIsHeld
      <3> QED BY <1>4, <3>1, <3>2
    <2>3. ASSUME NEW g \in Fds, sock'[g] # None, registered'[g] \notin flooded'
          PROVE  \E d \in Conns : registered'[g] = d /\ fd'[d] = g /\ session'[d] = sock'[g]
      <3>1. CASE g = f
        BY <1>4, <2>1, <3>1
      <3>2. CASE g # f
        BY <2>2, <2>3, <3>2 DEF Watches, Types, KernelTypes
      <3> QED BY <3>1, <3>2
    <2>4. ASSUME NEW p \in Closers, NEW g \in Fds, closing'[p] = "clear", Watches(g, target[p])'
          PROVE  FALSE
      <3>1. target'[p] = target[p] /\ target[p] \in Conns \cup {None} /\ closing[p] = "clear"
        BY <1>4, <2>4 DEF Types, CloseTypes
      <3>2. CASE g = f
        BY <1>3, <1>4, <2>1, <2>4, <3>1, <3>2 DEF Watches
      <3>3. CASE g # f
        BY <2>2, <2>4, <3>1, <3>3, WatchedIsHeld
      <3> QED BY <3>2, <3>3
    <2> QED BY <2>3, <2>4 DEF SocketReachable, ClosedBefore, Watches
  <1> QED BY <1>5, <1>6

LEMMA QuietReach ==
    ASSUME Types, Types', PoolApart, SocketReachable, ClosedBefore,
           \/ EpollWait \/ AddTimer \/ CountOnline
           \/ \E c \in Conns : \/ AcceptNothing(c) \/ ReadPart(c) \/ ReadPacket(c)
                               \/ ReadEnds(c) \/ ReadFlood(c)
           \/ TimerStep \/ UNCHANGED vars
           \/ \E w \in Workers : Dispatch(w) \/ Finish(w) \/ KickBacklog(w)
    PROVE  SocketReachable' /\ ClosedBefore'
  <1>1. UNCHANGED <<sock, registered, session>>
    BY DEF EpollWait, AddTimer, CountOnline, AcceptNothing, ReadPart, ReadPacket, ReadEnds,
        ReadFlood, TimerStep, ScanTimers, TimerPasses, TimerKicks, Dispatch, Finish,
        KickBacklog, vars, connVars, kernelVars
  <1>2. \A p \in Closers : closing'[p] = "clear" => closing[p] = "clear" /\ target'[p] = target[p]
    <2>1. ASSUME NEW q \in Closers, NEW c, StartClose(q, c)
          PROVE  \A p \in Closers :
                     closing'[p] = "clear" => closing[p] = "clear" /\ target'[p] = target[p]
      BY <2>1 DEF StartClose, Types, CloseTypes
    <2>2. \/ UNCHANGED closeVars
          \/ \E q \in Closers : \E c : StartClose(q, c)
      BY DEF EpollWait, AddTimer, CountOnline, AcceptNothing, ReadPart, ReadPacket, ReadEnds,
          ReadFlood, TimerStep, ScanTimers, TimerPasses, TimerKicks, Dispatch, Finish,
          KickBacklog, vars, Closers
    <2> QED BY <2>1, <2>2 DEF closeVars
  <1>3. /\ flooded \subseteq flooded'
        /\ \A c \in Conns : c \notin flooded' => fd'[c] = fd[c]
    <2>1. CASE UNCHANGED connVars
      BY <2>1 DEF connVars
    <2>2. ASSUME NEW c \in Conns, ReadFlood(c)
          PROVE  /\ flooded \subseteq flooded'
                 /\ \A d \in Conns : d \notin flooded' => fd'[d] = fd[d]
      <3>1. flooded' = flooded \cup {c} /\ \E g : fd' = [fd EXCEPT ![c] = g]
        BY <2>2 DEF ReadFlood
      <3> QED BY <3>1 DEF Types, ConnTypes
    <2> QED
      BY <2>1, <2>2
      DEF EpollWait, AddTimer, CountOnline, AcceptNothing, ReadPart, ReadPacket, ReadEnds,
          TimerStep, ScanTimers, TimerPasses, TimerKicks, Dispatch, Finish, KickBacklog, vars
  <1> QED BY <1>1, <1>2, <1>3, ReachKept DEF Watches

LEMMA InitApart == Init => PoolApart
  <1> SUFFICES ASSUME Init PROVE PoolApart OBVIOUS
  <1> USE PoolSizes, PoolAddresses
  <1>1. /\ Range(m_freeconnectionList) \subseteq Ports + 1 .. m_worker_connections
        /\ Range(m_connectionList) = 1 .. m_worker_connections
        /\ Ports + 1 .. m_worker_connections \subseteq 1 .. m_worker_connections
        /\ 1 .. Ports \subseteq 1 .. m_worker_connections
        /\ \A c \in 1 .. Ports : c \notin Ports + 1 .. m_worker_connections
    BY DEF Init, Range
  <1>2. \A c \in Conns : Used(c) => c \in 1 .. Ports
    BY DEF Init, Used, TagsInUse, Conns, None, ListenFd, NoFd
  <1>3. \A c : Once(m_freeconnectionList, c)
    BY DEF Init, Once
  <1> QED BY <1>1, <1>2, <1>3 DEF Init, PoolApart

\* No open socket is lost: whoever closes what, in whatever order, epoll still hands
\* out the connection that holds it, unless the flood check released that connection.
\* Initialize_subproc does not create the recycling thread, which is the assumption.
THEOREM NoSocketLost ==
    ASSUME ~RecyThread
    PROVE  Spec => []SocketReachable
  <1>1. Init => ReachInv
    <2> SUFFICES ASSUME Init PROVE ReachInv OBVIOUS
    <2> QED BY InitApart DEF ReachInv, Init, SocketReachable, ClosedBefore
  <1>2. (Types /\ ReachInv) /\ [Next]_vars => (Types /\ ReachInv)'
    <2> SUFFICES ASSUME Types, ReachInv, [Next]_vars PROVE Types' /\ ReachInv' OBVIOUS
    <2>1. Types' /\ ~RecycleDue
      BY NextTypes DEF RecycleDue
    <2>2. PoolApart'
      BY <2>1, ZdCloseApart, OtherStepApart, MainQuietApart, AcceptApart
      DEF Next, MainStep, ReachInv
    <2>3. SocketReachable' /\ ClosedBefore'
      BY <2>1, ZdCloseReach, AcceptReach, QuietReach DEF Next, MainStep, ReachInv
    <2> QED BY <2>1, <2>2, <2>3 DEF ReachInv
  <1>3. ReachInv => SocketReachable
    BY DEF ReachInv
  <1> QED BY <1>1, <1>2, <1>3, InitTypes, PTL DEF Spec
-----------------------------------------------------------------------------
(* Several closers, but nothing is recycled and nothing released: what was used is never *)
(* free again.                                                                           *)

\* What waits to be recycled was used, and is not free.
RecyApart ==
    \A c \in Range(m_recyconnectionList) :
        c \in Range(m_connectionList) /\ c \notin Range(m_freeconnectionList)

ApartInv == PoolApart /\ flooded = {} /\ RecyApart

LEMMA ApartStep ==
    ASSUME ~RecyThread, ~FloodEnable, Types, ApartInv, [Next]_vars
    PROVE  ApartInv'
  <1>1. PoolApart'
    <2>1. ~RecycleDue
      BY DEF RecycleDue
    <2> QED
      BY <2>1, ZdCloseApart, OtherStepApart, MainQuietApart, AcceptApart
      DEF Next, MainStep, ApartInv
  <1>2. CASE UNCHANGED <<flooded, m_connectionList, m_freeconnectionList, m_recyconnectionList>>
    BY <1>1, <1>2 DEF ApartInv, RecyApart
  <1>3. ASSUME NEW p \in Closers, Recycle(p) PROVE ApartInv'
    <2> DEFINE c == target[p]
    <2>1. c \in Conns /\ m_recyconnectionList \in Seq(Conns)
      BY <1>3 DEF Recycle, CloseStep, Types, CloseTypes, ListTypes
    <2>2. c \in Range(m_connectionList) /\ c \notin Range(m_freeconnectionList)
      BY <2>1 DEF ApartInv, PoolApart, Used
    <2>3. Range(m_recyconnectionList') = Range(m_recyconnectionList) \cup {c}
      BY <1>3, <2>1, RangeAppend DEF Recycle
    <2> HIDE DEF c
    <2>4. UNCHANGED <<flooded, m_connectionList, m_freeconnectionList>>
      BY <1>3 DEF Recycle
    <2> QED BY <1>1, <2>2, <2>3, <2>4 DEF ApartInv, RecyApart
  <1>4. ASSUME NEW l \in Conns, NEW c \in Conns, NEW f \in Fds,
               Accept(l, c, f) \/ AcceptFails(l, c, f)
        PROVE  ApartInv'
    <2>1. AcceptOn(l, c, f) /\ Obtains(c)
      BY <1>4 DEF Accept, AcceptFails, AcceptOn
    <2>2. UNCHANGED <<flooded, m_recyconnectionList>>
      BY <2>1 DEF AcceptOn
    <2>3. /\ Range(FreeLeft) \subseteq Range(m_freeconnectionList) /\ FreeLeft \in Seq(Conns)
          /\ Range(m_connectionList') = Range(m_connectionList) \cup {c}
      BY <2>1, ObtainsUnused DEF ApartInv
    <2>4. Range(m_freeconnectionList') \subseteq Range(FreeLeft) \cup {c}
      BY <1>4, <2>3, RangeAppend DEF Accept, AcceptFails
    <2>5. c \notin Range(m_recyconnectionList)
      <3>1. CASE m_freeconnectionList # <<>>
        <4>1. c \in Range(m_freeconnectionList)
          BY <2>1, <3>1 DEF Obtains, Types, ListTypes, Range
        <4> QED BY <4>1 DEF ApartInv, RecyApart
      <3>2. CASE m_freeconnectionList = <<>>
        <4>1. c \notin Range(m_connectionList)
          BY <2>1, <3>2 DEF Obtains, ApartInv, PoolApart
        <4> QED BY <4>1 DEF ApartInv, RecyApart
      <3> QED BY <3>1, <3>2
    <2> QED BY <1>1, <2>2, <2>3, <2>4, <2>5 DEF ApartInv, RecyApart
  <1>5. ASSUME NEW p \in Closers, ZdClose(p), ~Recycle(p) PROVE ApartInv'
    BY <1>2, <1>5 DEF ZdClose, Unlist, TestFd, CloseFd, ClearFd, listVars, connVars
  <1>6. CASE TimerStep \/ \E w \in Workers : Dispatch(w) \/ Finish(w) \/ KickBacklog(w)
    BY <1>2, <1>6
    DEF TimerStep, ScanTimers, TimerPasses, TimerKicks, Dispatch, Finish, KickBacklog,
        listVars, connVars
  <1>7. CASE EpollWait \/ AddTimer \/ CountOnline
    BY <1>2, <1>7 DEF EpollWait, AddTimer, CountOnline, listVars, connVars
  <1>8. ASSUME NEW c \in Conns,
               AcceptNothing(c) \/ ReadPart(c) \/ ReadPacket(c) \/ ReadEnds(c)
        PROVE  ApartInv'
    BY <1>2, <1>8 DEF AcceptNothing, ReadPart, ReadPacket, ReadEnds, listVars, connVars
  <1> QED
    BY <1>2, <1>3, <1>4, <1>5, <1>6, <1>7, <1>8
    DEF Next, MainStep, ReadFlood, RecycleDue, vars, listVars, connVars

\* A connection on the free list is idle however many threads close connections, and
\* however often one of them is closed, as long as neither the recycling thread runs
\* nor the flood check releases connections (the worker starts no recycling thread).
THEOREM FreeUntilUsed ==
    ASSUME ~RecyThread, ~FloodEnable
    PROVE  Spec => []FreeConnsIdle
  <1>1. Init => ApartInv
    <2> SUFFICES ASSUME Init PROVE ApartInv OBVIOUS
    <2>1. PoolApart
      BY InitApart
    <2>2. Range(<<>>) = {}
      BY DEF Range
    <2> QED BY <2>1, <2>2 DEF Init, ApartInv, RecyApart
  <1>2. (Types /\ ApartInv) /\ [Next]_vars => (Types /\ ApartInv)'
    BY ApartStep, NextTypes
  <1>3. Types /\ ApartInv => FreeConnsIdle
    <2> SUFFICES ASSUME Types, ApartInv PROVE FreeConnsIdle OBVIOUS
    <2>1. m_freeconnectionList \in Seq(Conns)
      BY DEF Types, ListTypes
    <2>2. \A i \in DOMAIN m_freeconnectionList : m_freeconnectionList[i] \in Conns
      BY <2>1
    <2>3. IsInjective(m_freeconnectionList)
      BY <2>2 DEF IsInjective, ApartInv, PoolApart, Once
    <2>4. ASSUME NEW c \in Range(m_freeconnectionList)
          PROVE  ~Used(c) /\ c \notin Range(m_recyconnectionList)
      <3>1. c \in Conns
        BY <2>1, RangeSubset
      <3> QED BY <3>1 DEF ApartInv, PoolApart, RecyApart
    <2> QED BY <2>3, <2>4 DEF FreeConnsIdle, Used, ClosingConns
  <1> QED BY <1>1, <1>2, <1>3, InitTypes, PTL DEF Spec
-----------------------------------------------------------------------------
(* One closer: neither the timer thread nor a worker closes, and the flood check is *)
(* off.  The pool then recycles safely, whether the recycling thread runs or not.   *)

\* The main thread is the only one that closes: no kickTime timer and no flood check,
\* which is what ReadConf takes when nginx.conf does not switch them on, and no client
\* that leaves more than 400 replies unsent.  With two closers the theorems below are
\* false: both may close one connection (TestFd before the other's ClearFd).
OneCloser == ~TimerEnable /\ ~FloodEnable /\ ~SendBacklog

Busy == target["main"]

OnlyMainCloses ==
    /\ m_timerQueuemap = {} /\ m_lsIdleList = {}
    /\ main \in {"loop", "count"}
    /\ main = "count" => closing["main"] = "no"
    /\ \A p \in Closers \ {"main"} : closing[p] = "no" /\ target[p] = None
    /\ closing["main"] = "no" <=> Busy = None

NoFreshTag(c) == \A tag \in TagsInUse : tag.conn = c => ~Fresh(tag)

Idle(c) ==
    /\ c \notin Range(m_recyconnectionList) /\ c \notin m_events
    /\ c # Busy /\ fd[c] # ListenFd
    /\ \A f \in Fds : registered[f] # c

\* A connection of the free list is there once, and named by nothing else.
FreeIdle ==
    \A c \in Conns : /\ Once(m_freeconnectionList, c)
                     /\ c \in Range(m_freeconnectionList) => Idle(c) /\ NoFreshTag(c)

\* One that waits to be recycled is there once, and its socket is closed.
RecyIdle ==
    \A c \in Conns : /\ Once(m_recyconnectionList, c)
                     /\ c \in Range(m_recyconnectionList) =>
                            c # Busy /\ fd[c] = NoFd /\ c \notin m_events

HoldsOwn(c) == fd[c] \in Fds /\ registered[fd[c]] = c

\* The open descriptors are the watched ones, each for the connection that holds it.
WatchedOwn ==
    \A f \in Fds : /\ sock[f] # None <=> registered[f] # None
                   /\ registered[f] # None =>
                          /\ fd[registered[f]] = f
                          /\ session[registered[f]] = sock[f]

HeldWatched ==
    \A c \in Conns : \/ fd[c] \notin Fds \/ registered[fd[c]] = c
                     \/ c \in Range(m_freeconnectionList)
                     \/ c = Busy /\ closing["main"] = "clear"

EventsOwn == \A c \in m_events : c # Busy /\ (fd[c] = ListenFd \/ HoldsOwn(c))

\* How far the main thread is with the connection it closes.
BusyOwn ==
    /\ closing["main"] \in {"unlist", "test", "close"} => HoldsOwn(Busy)
    /\ closing["main"] = "clear" => /\ fd[Busy] \in Fds
                                    /\ \A f \in Fds : registered[f] # Busy
    /\ closing["main"] = "recycle" => fd[Busy] = NoFd

Refunded == IF closing["main"] \in {"clear", "recycle"} THEN 1 ELSE 0

\* The count is exact, but for a client that is just coming or going.
CountExact ==
    /\ Cardinality(Online) + Refunded = m_onlineUserCount + Owed
    /\ AdmissionLimit

PlaceInv == FreeIdle /\ RecyIdle /\ WatchedOwn /\ HeldWatched /\ EventsOwn /\ BusyOwn
CalmInv == SeqInv /\ OnlyMainCloses /\ PlaceInv /\ CountExact

LEMMA CalmTypes ==
    ASSUME CalmInv
    PROVE  /\ Types /\ SeqInv /\ PlaceInv /\ OnlyMainCloses
           /\ FreeIdle /\ RecyIdle /\ WatchedOwn /\ HeldWatched /\ EventsOwn /\ BusyOwn
           /\ m_freeconnectionList \in Seq(Conns) /\ m_recyconnectionList \in Seq(Conns)
           /\ "main" \in Closers
           /\ \A c \in Conns : c # None
           /\ NoFd # ListenFd /\ NoFd \notin Fds /\ ListenFd \notin Fds
  BY DEF CalmInv, SeqInv, Types, ListTypes, PlaceInv, Closers, Conns, None, NoFd, ListenFd, Fds

\* A step that moves no connection: events and tags may come from connections that
\* are listening or watched.
LEMMA QuietPlace ==
    ASSUME CalmInv, UNCHANGED <<connVars, kernelVars, closeVars,
                                m_freeconnectionList, m_recyconnectionList>>,
           \/ m_events' \subseteq m_events
           \/ /\ Busy = None /\ None \notin m_events'
              /\ m_events' \subseteq ListenConns \cup {registered[f] : f \in Fds},
           TagsInUse' \subseteq TagsInUse \cup {Tag(c) : c \in m_events}
    PROVE  PlaceInv'
  <1>0. UNCHANGED <<iCurrsequence, fd, session, sock, registered, closing, target, Busy>>
    BY DEF connVars, kernelVars, closeVars, Busy
  <1>1. ASSUME NEW c \in m_events', c \notin m_events
        PROVE  c # Busy /\ (fd[c] = ListenFd \/ HoldsOwn(c))
               /\ (fd[c] = ListenFd \/ \E f \in Fds : registered[f] = c)
    <2>1. c # None /\ Busy = None /\ c \in ListenConns \cup {registered[f] : f \in Fds}
      BY <1>1
    <2>2. CASE c \in ListenConns
      BY <2>1, <2>2 DEF ListenConns
    <2>3. ASSUME NEW f \in Fds, c = registered[f]
          PROVE  HoldsOwn(c)
      BY <2>1, <2>3, CalmTypes DEF WatchedOwn, HoldsOwn
    <2> QED BY <2>1, <2>2, <2>3
  <1>2. ASSUME NEW c \in Conns, c \in Range(m_freeconnectionList)
        PROVE  Idle(c)' /\ NoFreshTag(c)'
    <2>1. Idle(c) /\ NoFreshTag(c)
      BY <1>2, CalmTypes DEF FreeIdle
    <2>2. c \notin m_events'
      BY <1>1, <2>1 DEF Idle
    <2>3. NoFreshTag(c)'
      BY <1>0, <2>1 DEF NoFreshTag, Idle, Fresh, Tag
    <2> QED BY <1>0, <2>1, <2>2, <2>3 DEF Idle
  <1>3. FreeIdle'
    BY <1>2, CalmTypes DEF FreeIdle
  <1>4. RecyIdle'
    <2>1. ASSUME NEW c \in Conns, c \in Range(m_recyconnectionList) PROVE c \notin m_events'
      BY <1>1, <2>1, CalmTypes DEF RecyIdle, HoldsOwn
    <2> QED BY <1>0, <2>1, CalmTypes DEF RecyIdle
  <1>5. EventsOwn'
    BY <1>0, <1>1, CalmTypes DEF EventsOwn, HoldsOwn
  <1>6. WatchedOwn' /\ HeldWatched' /\ BusyOwn'
    BY <1>0, CalmTypes DEF WatchedOwn, HeldWatched, BusyOwn, HoldsOwn
  <1> QED BY <1>3, <1>4, <1>5, <1>6 DEF PlaceInv

\* The main thread begins to close the connection of an event.
LEMMA ReadEndsPlace ==
    ASSUME CalmInv, NEW c \in Conns, ReadEnds(c)
    PROVE  PlaceInv'
  <1>0. /\ UNCHANGED <<connVars, listVars, kernelVars, timerVars, workVars>>
        /\ c \in m_events /\ m_events' = m_events \ {c} /\ fd[c] # ListenFd
        /\ closing["main"] = "no" /\ closing'["main"] = "unlist" /\ Busy' = c
    BY CalmTypes
    DEF ReadEnds, TakeEvent, MainIdle, StartClose, Busy, Types, CloseTypes, ListenConns
  <1>1. /\ UNCHANGED <<iCurrsequence, fd, session, sock, registered, TagsInUse,
                       m_freeconnectionList, m_recyconnectionList>>
    BY <1>0 DEF connVars, listVars, kernelVars, timerVars, workVars, TagsInUse
  <1>2. HoldsOwn(c)
    BY <1>0, CalmTypes DEF EventsOwn
  <1>3. FreeIdle'
    <2>1. ASSUME NEW d \in Conns, d \in Range(m_freeconnectionList)
          PROVE  Idle(d)' /\ NoFreshTag(d)'
      BY <1>0, <1>1, <2>1, CalmTypes DEF FreeIdle, Idle, NoFreshTag, Fresh
    <2> QED BY <1>1, <2>1, CalmTypes DEF FreeIdle
  <1>4. RecyIdle'
    BY <1>0, <1>1, CalmTypes DEF RecyIdle
  <1>5. WatchedOwn' /\ HeldWatched'
    BY <1>0, <1>1, CalmTypes DEF WatchedOwn, HeldWatched
  <1>6. EventsOwn' /\ BusyOwn'
    BY <1>0, <1>1, <1>2, CalmTypes DEF EventsOwn, BusyOwn, HoldsOwn
  <1> QED BY <1>3, <1>4, <1>5, <1>6 DEF PlaceInv
\* A step of the main thread's close, up to the recycle list.
LEMMA ZdClosePlace ==
    ASSUME CalmInv,
           Unlist("main") \/ TestFd("main") \/ CloseFd("main") \/ ClearFd("main")
    PROVE  PlaceInv'
  <1>0. /\ UNCHANGED <<iCurrsequence, session, m_freeconnectionList, m_recyconnectionList,
                       m_events, target, Busy>>
        /\ TagsInUse' \subseteq TagsInUse
        /\ Busy \in Conns
    BY CalmTypes
    DEF Unlist, TestFd, CloseFd, ClearFd, CloseStep, connVars, listVars, mainVars, timerVars,
        workVars, TagsInUse, Busy, OnlyMainCloses, Types, CloseTypes
  <1>1. /\ \A c \in Conns : c # Busy => fd'[c] = fd[c]
        /\ fd'[Busy] \in {fd[Busy], NoFd}
    BY <1>0 DEF Unlist, TestFd, CloseFd, ClearFd, connVars, Busy, CalmInv, SeqInv, Types, ConnTypes
  <1>2. \A f \in Fds : registered'[f] \in {registered[f], None}
    BY DEF Unlist, TestFd, CloseFd, ClearFd, kernelVars, KernelClose
  <1>3. FreeIdle'
    <2>1. ASSUME NEW c \in Conns, c \in Range(m_freeconnectionList)
          PROVE  Idle(c)' /\ NoFreshTag(c)'
      <3>1. Idle(c) /\ NoFreshTag(c) /\ c # None
        BY <2>1, CalmTypes DEF FreeIdle
      <3>2. Idle(c)'
        BY <1>0, <1>1, <1>2, <3>1 DEF Idle
      <3>3. NoFreshTag(c)'
        BY <1>0, <3>1 DEF NoFreshTag, Fresh
      <3> QED BY <3>2, <3>3
    <2> QED BY <1>0, <2>1, CalmTypes DEF FreeIdle
  <1>4. RecyIdle'
    BY <1>0, <1>1, CalmTypes DEF RecyIdle
  <1>5. \A c \in m_events : c \in Conns /\ c # Busy
    BY CalmTypes DEF EventsOwn, Types, MainTypes
  <1>6. CASE Unlist("main") \/ TestFd("main")
    <2>1. UNCHANGED <<fd, sock, registered>>
      BY <1>6 DEF Unlist, TestFd, connVars, kernelVars
    <2>2. closing["main"] \in {"unlist", "test"} /\ closing'["main"] \in {"test", "close"}
      BY <1>6, CalmTypes
      DEF Unlist, TestFd, CloseStep, Types, CloseTypes, BusyOwn, HoldsOwn, Busy
    <2> QED
      BY <1>0, <1>3, <1>4, <2>1, <2>2, CalmTypes
      DEF PlaceInv, WatchedOwn, HeldWatched, EventsOwn, BusyOwn, HoldsOwn
  <1>7. CASE CloseFd("main")
    <2> DEFINE g == fd[Busy]
    <2>1. /\ closing["main"] = "close" /\ closing'["main"] = "clear" /\ fd' = fd
          /\ \A f \in Fds : /\ f # g => sock'[f] = sock[f] /\ registered'[f] = registered[f]
                            /\ f = g => sock'[f] = None /\ registered'[f] = None
      BY <1>7, CalmTypes
      DEF CloseFd, CloseStep, KernelClose, connVars, Busy, Types, CloseTypes
    <2>2. g \in Fds /\ registered[g] = Busy
      BY <2>1, CalmTypes DEF BusyOwn, HoldsOwn
    <2>3. \A f \in Fds : registered[f] = Busy => f = g
      BY <1>0, CalmTypes DEF WatchedOwn
    <2> HIDE DEF g
    <2>4. WatchedOwn'
      BY <1>0, <2>1, CalmTypes DEF WatchedOwn
    <2>5. HeldWatched'
      <3>1. ASSUME NEW c \in Conns, c # Busy, fd[c] \in Fds, registered[fd[c]] = c
            PROVE  registered'[fd[c]] = c
        BY <2>1, <2>2, <3>1
      <3> QED BY <1>0, <2>1, <3>1, CalmTypes DEF HeldWatched
    <2>6. EventsOwn'
      BY <1>0, <1>5, <2>1, <2>2, CalmTypes DEF EventsOwn, HoldsOwn
    <2>7. BusyOwn'
      <3>1. fd'[Busy'] \in Fds
        BY <1>0, <2>1, <2>2 DEF g
      <3>2. \A f \in Fds : registered'[f] # Busy'
        BY <1>0, <2>1, <2>3, CalmTypes
      <3> QED BY <2>1, <3>1, <3>2 DEF BusyOwn
    <2> QED BY <1>3, <1>4, <2>4, <2>5, <2>6, <2>7 DEF PlaceInv
  <1>8. CASE ClearFd("main")
    <2>1. /\ closing["main"] = "clear" /\ closing'["main"] = "recycle"
          /\ UNCHANGED <<sock, registered>> /\ fd'[Busy] = NoFd
      BY <1>0, <1>8, CalmTypes
      DEF ClearFd, CloseStep, kernelVars, Busy, Types, CloseTypes, ConnTypes
    <2>2. \A f \in Fds : registered[f] # Busy
      BY <2>1, CalmTypes DEF BusyOwn
    <2>3. WatchedOwn'
      <3>1. \A f \in Fds : registered[f] # None => registered[f] \in Conns
        BY CalmTypes DEF Types, KernelTypes
      <3> QED BY <1>0, <1>1, <2>1, <2>2, <3>1, CalmTypes DEF WatchedOwn
    <2>4. HeldWatched'
      BY <1>0, <1>1, <2>1, CalmTypes DEF HeldWatched
    <2>5. EventsOwn' /\ BusyOwn'
      BY <1>0, <1>1, <1>5, <2>1, CalmTypes DEF EventsOwn, BusyOwn, HoldsOwn
    <2> QED BY <1>3, <1>4, <2>3, <2>4, <2>5 DEF PlaceInv
  <1> QED BY <1>6, <1>7, <1>8

LEMMA RecyclePlace ==
    ASSUME CalmInv, Recycle("main")
    PROVE  PlaceInv'
  <1>0. /\ UNCHANGED <<fd, session, sock, registered, m_freeconnectionList, m_events, TagsInUse>>
        /\ Busy \in Conns /\ closing["main"] = "recycle"
        /\ closing'["main"] = "no" /\ Busy' = None
        /\ m_recyconnectionList' = Append(m_recyconnectionList, Busy)
        /\ \A c \in Conns : c # Busy => iCurrsequence'[c] = iCurrsequence[c]
    BY CalmTypes
    DEF Recycle, CloseStep, kernelVars, mainVars, timerVars, workVars, TagsInUse, Busy,
        OnlyMainCloses, Types, CloseTypes, ConnTypes
  <1>1. Range(m_recyconnectionList') = Range(m_recyconnectionList) \cup {Busy}
    BY <1>0, CalmTypes, RangeAppend
  <1>2. Busy \notin Range(m_recyconnectionList) /\ Busy \notin Range(m_freeconnectionList)
    BY <1>0, CalmTypes DEF RecyIdle, FreeIdle, Idle
  <1>3. FreeIdle'
    <2>1. ASSUME NEW c \in Conns, c \in Range(m_freeconnectionList)
          PROVE  Idle(c)' /\ NoFreshTag(c)'
      <3>1. Idle(c) /\ NoFreshTag(c) /\ c # None /\ c # Busy
        BY <1>2, <2>1, CalmTypes DEF FreeIdle
      <3>2. Idle(c)'
        BY <1>0, <1>1, <3>1 DEF Idle
      <3>3. NoFreshTag(c)'
        BY <1>0, <3>1 DEF NoFreshTag, Fresh
      <3> QED BY <3>2, <3>3
    <2> QED BY <1>0, <2>1, CalmTypes DEF FreeIdle
  <1>4. RecyIdle'
    <2>1. \A c \in Conns : Once(m_recyconnectionList', c)
      BY <1>0, <1>2, CalmTypes, OnceAppend DEF RecyIdle
    <2>2. \A c \in Range(m_recyconnectionList') : c # Busy' => fd'[c] = NoFd /\ c \notin m_events'
      <3>1. fd[Busy] = NoFd /\ Busy \notin m_events
        BY <1>0, CalmTypes DEF BusyOwn, EventsOwn
      <3>2. \A c \in Range(m_recyconnectionList) : c \in Conns
        BY CalmTypes, RangeSubset
      <3> QED BY <1>0, <1>1, <3>1, <3>2, CalmTypes DEF RecyIdle
    <2> QED BY <1>0, <2>1, <2>2, CalmTypes DEF RecyIdle
  <1>5. WatchedOwn' /\ BusyOwn'
    BY <1>0, CalmTypes DEF WatchedOwn, BusyOwn
  <1>6. HeldWatched'
    BY <1>0, CalmTypes DEF HeldWatched
  <1>7. EventsOwn'
    <2>1. \A c \in m_events : c # None
      BY CalmTypes DEF Types, MainTypes
    <2> QED BY <1>0, <2>1, CalmTypes DEF EventsOwn, HoldsOwn
  <1> QED BY <1>3, <1>4, <1>5, <1>6, <1>7 DEF PlaceInv

LEMMA OnceRemoveAt ==
    ASSUME NEW S, NEW q \in Seq(S), NEW i \in DOMAIN q, NEW c, Once(q, c)
    PROVE  Once(RemoveAt(q, i), c) /\ (c = q[i] => c \notin Range(RemoveAt(q, i)))
  <1> DEFINE r == RemoveAt(q, i)
             at(k) == IF k <= i - 1 THEN k ELSE k + 1
  <1>1. /\ r \in Seq(S) /\ Len(r) = Len(q) - 1
        /\ \A k \in 1 .. Len(q) - 1 : r[k] = q[at(k)]
    BY RemoveAtEntries
  <1> HIDE DEF r
  <1>2. /\ Len(q) \in Nat /\ DOMAIN q = 1 .. Len(q) /\ i \in 1 .. Len(q)
        /\ DOMAIN r = 1 .. Len(q) - 1
        /\ \A k \in 1 .. Len(q) - 1 : at(k) \in 1 .. Len(q) /\ at(k) # i
        /\ \A k, m \in 1 .. Len(q) - 1 : at(k) = at(m) => k = m
    BY <1>1
  <1> HIDE DEF at
  <1>3. Once(r, c)
    BY <1>1, <1>2 DEF Once
  <1>4. ASSUME c = q[i], c \in Range(r) PROVE FALSE
    <2>1. PICK k \in 1 .. Len(q) - 1 : r[k] = c
      BY <1>2, <1>4 DEF Range
    <2> QED BY <1>1, <1>2, <1>4, <2>1 DEF Once
  <1> QED BY <1>3, <1>4 DEF r

\* The recycling thread gives a connection back.
LEMMA RecycleDuePlace ==
    ASSUME CalmInv, RecycleDue
    PROVE  PlaceInv'
  <1>0. PICK i \in DOMAIN m_recyconnectionList : RecyclesAt(i)
    BY DEF RecycleDue, RecyclesAt
  <1>1. PICK c \in Conns : c = m_recyconnectionList[i] /\ c \in Range(m_recyconnectionList)
    BY CalmTypes DEF Range
  <1>2. /\ UNCHANGED <<fd, session, sock, registered, closing, Busy, m_events, TagsInUse>>
        /\ m_freeconnectionList' = Append(m_freeconnectionList, c)
        /\ m_recyconnectionList' = RemoveAt(m_recyconnectionList, i)
        /\ iCurrsequence' = [iCurrsequence EXCEPT ![c] = @ + 1]
    <2>1. UNCHANGED <<fd, session, kernelVars, mainVars, timerVars, workVars, closeVars>>
      BY DEF RecycleDue
    <2> QED
      BY <1>0, <1>1, <2>1
      DEF RecyclesAt, kernelVars, mainVars, timerVars, workVars, closeVars, TagsInUse, Busy
  <1>3. /\ Range(m_recyconnectionList') \subseteq Range(m_recyconnectionList)
        /\ \A d \in Conns : Once(m_recyconnectionList', d)
        /\ c \notin Range(m_recyconnectionList')
    BY <1>1, <1>2, CalmTypes, RangeRemoveAt, OnceRemoveAt DEF RecyIdle
  <1>4. Range(m_freeconnectionList') = Range(m_freeconnectionList) \cup {c}
    BY <1>2, CalmTypes, RangeAppend
  <1>5. c # Busy /\ fd[c] = NoFd /\ c \notin m_events /\ c \notin Range(m_freeconnectionList)
    BY <1>1, CalmTypes DEF RecyIdle, FreeIdle, Idle
  <1>6. \A d \in Conns : d # c => iCurrsequence'[d] = iCurrsequence[d]
    BY <1>2, CalmTypes DEF Types, ConnTypes
  <1>7. Idle(c)' /\ NoFreshTag(c)'
    <2>1. \A f \in Fds : registered[f] # c
      BY <1>1, <1>5, CalmTypes DEF WatchedOwn
    <2>2. Idle(c)'
      BY <1>2, <1>3, <1>5, <2>1, CalmTypes DEF Idle
    <2>3. ASSUME NEW tag \in TagsInUse, tag.conn = c PROVE tag.iCurrsequence # iCurrsequence'[c]
      <3>1. tag.iCurrsequence <= iCurrsequence[c] /\ tag.iCurrsequence \in Nat
        BY <2>3, CalmTypes, TagsTyped DEF SeqInv, TagsRight, TagRight, Tags
      <3>2. iCurrsequence[c] \in Nat /\ iCurrsequence'[c] = iCurrsequence[c] + 1
        BY <1>1, <1>2, CalmTypes DEF Types, ConnTypes
      <3> QED BY <3>1, <3>2
    <2> QED BY <1>2, <2>2, <2>3 DEF NoFreshTag, Fresh
  <1>8. FreeIdle'
    <2>1. \A d \in Conns : Once(m_freeconnectionList', d)
      BY <1>2, <1>5, CalmTypes, OnceAppend DEF FreeIdle
    <2>2. ASSUME NEW d \in Conns, d \in Range(m_freeconnectionList), d # c
          PROVE  Idle(d)' /\ NoFreshTag(d)'
      <3>1. Idle(d) /\ NoFreshTag(d)
        BY <2>2, CalmTypes DEF FreeIdle
      <3>2. Idle(d)'
        BY <1>2, <1>3, <3>1 DEF Idle
      <3>3. NoFreshTag(d)'
        BY <1>2, <1>6, <2>2, <3>1 DEF NoFreshTag, Fresh
      <3> QED BY <3>2, <3>3
    <2> QED BY <1>4, <1>7, <2>1, <2>2 DEF FreeIdle
  <1>9. RecyIdle'
    BY <1>2, <1>3, CalmTypes DEF RecyIdle
  <1>10. WatchedOwn' /\ HeldWatched' /\ EventsOwn' /\ BusyOwn'
    BY <1>2, <1>4, CalmTypes DEF WatchedOwn, HeldWatched, EventsOwn, BusyOwn, HoldsOwn
  <1> QED BY <1>8, <1>9, <1>10 DEF PlaceInv
LEMMA RangeHeadTail ==
    ASSUME NEW S, NEW q \in Seq(S), q # <<>>
    PROVE  Range(q) \subseteq Range(Tail(q)) \cup {Head(q)}
  <1>1. /\ Len(q) \in Nat /\ DOMAIN q = 1 .. Len(q) /\ Head(q) = q[1]
        /\ DOMAIN Tail(q) = 1 .. Len(q) - 1
        /\ \A i \in 1 .. Len(q) - 1 : Tail(q)[i] = q[i + 1]
        /\ \A i \in 1 .. Len(q) : i # 1 => i - 1 \in 1 .. Len(q) - 1 /\ (i - 1) + 1 = i
    BY HeadTailProperties
  <1> SUFFICES ASSUME NEW i \in 1 .. Len(q) PROVE q[i] \in Range(Tail(q)) \cup {Head(q)}
    BY <1>1 DEF Range
  <1>2. CASE i # 1
    <2>1. i - 1 \in DOMAIN Tail(q) /\ Tail(q)[i - 1] = q[i]
      BY <1>1, <1>2
    <2> QED BY <2>1 DEF Range
  <1> QED BY <1>1, <1>2

\* ngx_get_connection gives away a connection that nothing names.
LEMMA ObtainsIdle ==
    ASSUME CalmInv, MainIdle, NEW c \in Conns, Obtains(c)
    PROVE  /\ Idle(c) /\ NoFreshTag(c)
           /\ FreeLeft \in Seq(Conns)
           /\ Range(FreeLeft) \subseteq Range(m_freeconnectionList)
           /\ Range(m_freeconnectionList) \subseteq Range(FreeLeft) \cup {c}
           /\ c \notin Range(FreeLeft)
           /\ \A d \in Conns : Once(FreeLeft, d)
  <1>0. Busy = None
    BY CalmTypes DEF MainIdle, OnlyMainCloses
  <1>1. CASE m_freeconnectionList # <<>>
    <2>1. c = Head(m_freeconnectionList) /\ FreeLeft = Tail(m_freeconnectionList)
      BY <1>1 DEF Obtains, FreeLeft
    <2>2. /\ c \in Range(m_freeconnectionList)
          /\ Range(FreeLeft) \subseteq Range(m_freeconnectionList) /\ FreeLeft \in Seq(Conns)
          /\ Range(m_freeconnectionList) \subseteq Range(FreeLeft) \cup {c}
      BY <1>1, <2>1, CalmTypes, RangeTail, RangeHeadTail
    <2>3. \A d \in Conns : Once(FreeLeft, d) /\ (d = c => d \notin Range(FreeLeft))
      BY <1>1, <2>1, CalmTypes, OnceTail DEF FreeIdle
    <2> QED BY <2>2, <2>3, CalmTypes DEF FreeIdle
  <1>2. CASE m_freeconnectionList = <<>>
    <2>1. c \notin Listed /\ FreeLeft = <<>>
      BY <1>2, CalmTypes DEF Obtains, FreeLeft, SeqInv, NothingReleased, Listed
    <2>2. Idle(c)
      BY <1>0, <2>1, CalmTypes DEF Idle, SeqInv, Known
    <2>3. NoFreshTag(c)
      BY <2>1, CalmTypes DEF NoFreshTag, SeqInv, TagsRight, TagRight
    <2>4. /\ Range(FreeLeft) = {} /\ Range(m_freeconnectionList) = {}
          /\ FreeLeft \in Seq(Conns) /\ \A d : Once(FreeLeft, d)
      BY <1>2, <2>1 DEF Range, Once
    <2> QED BY <2>2, <2>3, <2>4
  <1> QED BY <1>1, <1>2

\* What both outcomes of an accept leave to the other connections.
LEMMA AcceptOthers ==
    ASSUME CalmInv, NEW l \in Conns, NEW c \in Conns, NEW f \in Fds, AcceptOn(l, c, f),
           Range(m_freeconnectionList') \subseteq Range(m_freeconnectionList) \cup {c},
           \A d \in Conns : d # c => iCurrsequence'[d] = iCurrsequence[d],
           \A g \in Fds : registered'[g] \in {registered[g], c}
    PROVE  /\ \A d \in Conns : d # c /\ d \in Range(m_freeconnectionList') =>
                                   Idle(d)' /\ NoFreshTag(d)'
           /\ RecyIdle'
           /\ Idle(c) /\ Busy = None /\ Busy' = None /\ BusyOwn'
           /\ closing["main"] = "no" /\ closing'["main"] = "no"
           /\ \A d \in Conns : d # c => fd'[d] = fd[d] /\ session'[d] = session[d]
           /\ fd'[c] = f /\ session'[c] = accepted + 1 /\ accepted + 1 # None
           /\ sock[f] = None /\ registered[f] = None
           /\ m_events' \subseteq m_events
  <1>0. /\ MainIdle /\ Obtains(c) /\ m_events' \subseteq m_events
        /\ UNCHANGED <<m_recyconnectionList, timerVars, workVars, closeVars>>
    BY DEF AcceptOn, TakeEvent
  <1>1. TagsInUse' = TagsInUse /\ closing' = closing /\ Busy' = Busy
    BY <1>0 DEF TagsInUse, timerVars, workVars, closeVars, Busy
  <1>2. closing["main"] = "no" /\ Busy = None /\ Idle(c)
    BY <1>0, CalmTypes, ObtainsIdle DEF MainIdle, OnlyMainCloses
  <1>3. /\ \A d \in Conns : d # c => fd'[d] = fd[d] /\ session'[d] = session[d]
        /\ fd'[c] = f /\ session'[c] = accepted + 1 /\ sock[f] = None
    BY CalmTypes DEF AcceptOn, LowestFree, Types, ConnTypes
  <1>4. accepted + 1 # None
    BY CalmTypes, PoolSizes DEF Types, KernelTypes, None
  <1>5. registered[f] = None
    BY <1>3, CalmTypes DEF WatchedOwn
  <1>6. ASSUME NEW d \in Conns, d # c, d \in Range(m_freeconnectionList')
        PROVE  Idle(d)' /\ NoFreshTag(d)'
    <2>1. Idle(d) /\ NoFreshTag(d)
      BY <1>6, CalmTypes DEF FreeIdle
    <2>2. Idle(d)'
      BY <1>0, <1>1, <1>3, <1>6, <2>1 DEF Idle
    <2>3. NoFreshTag(d)'
      BY <1>1, <1>6, <2>1 DEF NoFreshTag, Fresh
    <2> QED BY <2>2, <2>3
  <1>7. RecyIdle'
    BY <1>0, <1>1, <1>2, <1>3, CalmTypes DEF RecyIdle, Idle
  <1>8. BusyOwn'
    BY <1>1, <1>2 DEF BusyOwn
  <1> QED BY <1>0, <1>1, <1>2, <1>3, <1>4, <1>5, <1>6, <1>7, <1>8

LEMMA AcceptPlace ==
    ASSUME CalmInv, NEW l \in Conns, NEW c \in Conns, NEW f \in Fds, Accept(l, c, f)
    PROVE  PlaceInv'
  <1>0. /\ AcceptOn(l, c, f) /\ m_freeconnectionList' = FreeLeft
        /\ \A d \in Conns : d # c => iCurrsequence'[d] = iCurrsequence[d]
        /\ \A g \in Fds : g # f => registered'[g] = registered[g] /\ sock'[g] = sock[g]
        /\ registered'[f] = c /\ sock'[f] = accepted + 1
    BY CalmTypes DEF Accept, Types, ConnTypes, KernelTypes
  <1>1. /\ Range(FreeLeft) \subseteq Range(m_freeconnectionList)
        /\ Range(m_freeconnectionList) \subseteq Range(FreeLeft) \cup {c}
        /\ c \notin Range(FreeLeft) /\ \A d \in Conns : Once(FreeLeft, d)
    BY <1>0, ObtainsIdle DEF AcceptOn, TakeEvent
  <1>2. /\ \A d \in Conns : d # c /\ d \in Range(m_freeconnectionList') =>
                                Idle(d)' /\ NoFreshTag(d)'
        /\ RecyIdle'
        /\ Idle(c) /\ Busy = None /\ Busy' = None /\ BusyOwn'
        /\ closing["main"] = "no" /\ closing'["main"] = "no"
        /\ \A d \in Conns : d # c => fd'[d] = fd[d] /\ session'[d] = session[d]
        /\ fd'[c] = f /\ session'[c] = accepted + 1 /\ accepted + 1 # None
        /\ sock[f] = None /\ registered[f] = None
        /\ m_events' \subseteq m_events
    BY <1>0, <1>1, AcceptOthers
  <1>3. FreeIdle'
    BY <1>0, <1>1, <1>2 DEF FreeIdle
  <1>4. WatchedOwn'
    <2>1. \A g \in Fds : registered[g] # None => registered[g] \in Conns
      BY CalmTypes DEF Types, KernelTypes
    <2> QED BY <1>0, <1>2, <2>1, CalmTypes DEF WatchedOwn, Idle
  <1>5. HeldWatched'
    <2>1. ASSUME NEW d \in Conns, d # c, fd[d] \in Fds, d \notin Range(FreeLeft)
          PROVE  registered'[fd[d]] = d
      <3>1. registered[fd[d]] = d
        BY <1>1, <1>2, <2>1, CalmTypes DEF HeldWatched
      <3> QED BY <1>0, <1>2, <2>1, <3>1, CalmTypes
    <2> QED BY <1>0, <1>2, <2>1 DEF HeldWatched
  <1>6. EventsOwn'
    <2>1. ASSUME NEW d \in m_events'
          PROVE  d # Busy' /\ (fd'[d] = ListenFd \/ HoldsOwn(d)')
      <3>1. d \in Conns /\ d # c /\ d # None /\ (fd[d] = ListenFd \/ HoldsOwn(d))
        BY <1>2, <2>1, CalmTypes DEF EventsOwn, Idle, Types, MainTypes
      <3>2. fd'[d] = fd[d]
        BY <1>2, <3>1
      <3>3. HoldsOwn(d) => fd[d] # f
        BY <1>2, <3>1 DEF HoldsOwn
      <3> QED BY <1>0, <1>2, <3>1, <3>2, <3>3 DEF HoldsOwn
    <2> QED BY <2>1 DEF EventsOwn
  <1> QED BY <1>2, <1>3, <1>4, <1>5, <1>6 DEF PlaceInv

LEMMA AcceptFailsPlace ==
    ASSUME CalmInv, NEW l \in Conns, NEW c \in Conns, NEW f \in Fds, AcceptFails(l, c, f)
    PROVE  PlaceInv'
  <1>0. /\ AcceptOn(l, c, f) /\ m_freeconnectionList' = Append(FreeLeft, c)
        /\ \A d \in Conns : d # c => iCurrsequence'[d] = iCurrsequence[d]
        /\ iCurrsequence'[c] = SeqGiven(c) + 1
        /\ UNCHANGED <<sock, registered>>
    BY CalmTypes DEF AcceptFails, Types, ConnTypes, KernelTypes
  <1>1. /\ Range(FreeLeft) \subseteq Range(m_freeconnectionList) /\ FreeLeft \in Seq(Conns)
        /\ Range(m_freeconnectionList) \subseteq Range(FreeLeft) \cup {c}
        /\ c \notin Range(FreeLeft) /\ \A d \in Conns : Once(FreeLeft, d)
    BY <1>0, ObtainsIdle DEF AcceptOn, TakeEvent
  <1>2. Range(m_freeconnectionList') = Range(FreeLeft) \cup {c}
    BY <1>0, <1>1, RangeAppend
  <1>3. /\ \A d \in Conns : d # c /\ d \in Range(m_freeconnectionList') =>
                                Idle(d)' /\ NoFreshTag(d)'
        /\ RecyIdle'
        /\ Idle(c) /\ Busy = None /\ Busy' = None /\ BusyOwn'
        /\ closing["main"] = "no" /\ closing'["main"] = "no"
        /\ \A d \in Conns : d # c => fd'[d] = fd[d] /\ session'[d] = session[d]
        /\ fd'[c] = f /\ session'[c] = accepted + 1 /\ accepted + 1 # None
        /\ sock[f] = None /\ registered[f] = None
        /\ m_events' \subseteq m_events
    BY <1>0, <1>1, <1>2, AcceptOthers
  <1>4. Idle(c)'
    BY <1>0, <1>3, CalmTypes DEF Idle, AcceptOn
  <1>5. NoFreshTag(c)'
    <2>1. TagsInUse' = TagsInUse
      BY <1>0 DEF AcceptOn, TagsInUse, timerVars, workVars
    <2>2. ASSUME NEW tag \in TagsInUse, tag.conn = c PROVE tag.iCurrsequence # iCurrsequence'[c]
      <3>1. /\ tag.iCurrsequence <= iCurrsequence[c] /\ tag.iCurrsequence \in Nat
            /\ c \in Listed
        BY <2>2, CalmTypes, TagsTyped DEF SeqInv, TagsRight, TagRight, Tags
      <3>2. SeqGiven(c) = iCurrsequence[c] + 1 /\ iCurrsequence[c] \in Nat
        BY <1>0, <3>1, CalmTypes, ObtainsSeq DEF AcceptOn, Types, ConnTypes
      <3> QED BY <1>0, <3>1, <3>2
    <2> QED BY <2>1, <2>2 DEF NoFreshTag, Fresh
  <1>6. FreeIdle'
    <2>1. \A d \in Conns : Once(m_freeconnectionList', d)
      BY <1>0, <1>1, OnceAppend
    <2> QED BY <1>3, <1>4, <1>5, <2>1 DEF FreeIdle
  <1>7. WatchedOwn'
    <2>1. \A g \in Fds : registered[g] # None => registered[g] \in Conns
      BY CalmTypes DEF Types, KernelTypes
    <2> QED BY <1>0, <1>3, <2>1, CalmTypes DEF WatchedOwn, Idle
  <1>8. HeldWatched'
    <2>1. \A d \in Conns : d \notin Range(m_freeconnectionList') =>
              d # c /\ d \notin Range(m_freeconnectionList)
      BY <1>1, <1>2
    <2> QED BY <1>0, <1>3, <2>1, CalmTypes DEF HeldWatched
  <1>9. EventsOwn'
    <2>1. \A d \in m_events : d \in Conns /\ d # c /\ d # None
      BY <1>3, CalmTypes DEF Idle, Types, MainTypes
    <2> QED BY <1>0, <1>3, <2>1, CalmTypes DEF EventsOwn, HoldsOwn
  <1> QED BY <1>3, <1>6, <1>7, <1>8, <1>9 DEF PlaceInv
LEMMA CloseByMain ==
    ASSUME CalmInv, NEW p \in Closers, ZdClose(p)
    PROVE  p = "main"
  BY CalmTypes DEF ZdClose, Unlist, TestFd, CloseFd, ClearFd, Recycle, CloseStep, OnlyMainCloses

LEMMA ZdCloseCalm ==
    ASSUME CalmInv, ZdClose("main")
    PROVE  CalmInv'
  <1>1. SeqInv' /\ Types'
    BY CalmTypes, ZdCloseSeq DEF SeqInv
  <1>2. PlaceInv'
    BY ZdClosePlace, RecyclePlace DEF ZdClose
  <1>3. /\ \A q \in Closers \ {"main"} : closing'[q] = closing[q] /\ target'[q] = target[q]
        /\ main' = main /\ closing["main"] # "no"
        /\ m_timerQueuemap' \subseteq m_timerQueuemap /\ m_lsIdleList' = m_lsIdleList
    BY CalmTypes
    DEF ZdClose, Unlist, TestFd, CloseFd, ClearFd, Recycle, CloseStep, mainVars, timerVars,
        Types, CloseTypes
  <1>4. closing'["main"] = "no" <=> Busy' = None
    <2>1. CASE Recycle("main")
      BY <2>1, CalmTypes DEF Recycle, CloseStep, Busy, Types, CloseTypes
    <2>2. CASE ~Recycle("main")
      <3>1. Busy' = Busy /\ closing'["main"] # "no"
        BY <2>2, CalmTypes
        DEF ZdClose, Unlist, TestFd, CloseFd, ClearFd, CloseStep, Busy, Types, CloseTypes
      <3> QED BY <1>3, <3>1, CalmTypes DEF OnlyMainCloses
    <2> QED BY <2>1, <2>2
  <1>5. OnlyMainCloses'
    BY <1>3, <1>4, CalmTypes DEF OnlyMainCloses
  <1>6. /\ Cardinality(Online) + Refunded = m_onlineUserCount + Owed
        /\ Cardinality(Online) <= m_worker_connections
        /\ Owed = 0 /\ Owed' = 0 /\ m_onlineUserCount \in Int /\ Cardinality(Online) \in Nat
    BY <1>3, CalmTypes, OnlineFinite
    DEF CalmInv, CountExact, AdmissionLimit, OnlyMainCloses, Owed, Types, ListTypes
  <1>7. CountExact'
    <2>1. CASE Unlist("main") \/ TestFd("main") \/ ClearFd("main")
      <3>1. UNCHANGED <<m_onlineUserCount, sock>>
        BY <2>1 DEF Unlist, TestFd, ClearFd, listVars, kernelVars
      <3>2. Refunded' = Refunded
        <4>1. \/ closing["main"] \in {"unlist", "test"} /\ closing'["main"] \in {"test", "close"}
              \/ closing["main"] = "clear" /\ closing'["main"] = "recycle"
          BY <2>1, CalmTypes
          DEF Unlist, TestFd, ClearFd, CloseStep, Types, CloseTypes, BusyOwn, HoldsOwn, Busy
        <4> QED BY <4>1 DEF Refunded
      <3> QED BY <1>6, <3>1, <3>2 DEF CountExact, AdmissionLimit, Online
    <2>2. CASE CloseFd("main")
      <3> DEFINE g == fd[Busy]
      <3>1. /\ Refunded = 0 /\ Refunded' = 1 /\ m_onlineUserCount' = m_onlineUserCount
            /\ Online' = Online \ {g}
        BY <2>2, CalmTypes
        DEF CloseFd, CloseStep, KernelClose, Refunded, listVars, Online, Busy, Types, CloseTypes
      <3>2. g \in Online
        <4>1. HoldsOwn(Busy) /\ Busy # None
          BY <1>3, <2>2, CalmTypes DEF CloseFd, CloseStep, BusyOwn, OnlyMainCloses
        <4> QED BY <4>1, CalmTypes DEF HoldsOwn, WatchedOwn, Online
      <3> HIDE DEF g
      <3>3. Cardinality(Online') = Cardinality(Online) - 1
        BY <3>1, <3>2, OnlineFinite, FS_RemoveElement
      <3> QED BY <1>6, <3>1, <3>3, PoolSizes DEF CountExact, AdmissionLimit
    <2>3. CASE Recycle("main")
      <3>1. /\ Refunded = 1 /\ Refunded' = 0 /\ m_onlineUserCount' = m_onlineUserCount - 1
            /\ Online' = Online
        BY <2>3, CalmTypes
        DEF Recycle, CloseStep, Refunded, kernelVars, Online, Types, CloseTypes
      <3> QED BY <1>6, <3>1 DEF CountExact, AdmissionLimit
    <2> QED BY <2>1, <2>2, <2>3 DEF ZdClose
  <1> QED BY <1>1, <1>2, <1>5, <1>7 DEF CalmInv

\* The steps that neither accept nor close.
LEMMA QuietCalm ==
    ASSUME CalmInv, SeqInv', PlaceInv', UNCHANGED <<sock, m_timerQueuemap, m_lsIdleList>>,
           \/ UNCHANGED <<main, m_onlineUserCount>>
           \/ /\ main = "count" /\ main' = "loop"
              /\ m_onlineUserCount' = m_onlineUserCount + 1,
           \/ UNCHANGED closeVars
           \/ /\ main = "loop" /\ closing["main"] = "no"
              /\ \E c \in Conns : StartClose("main", c)
    PROVE  CalmInv'
  <1>1. OnlyMainCloses' /\ Refunded' = Refunded
    <2>1. CASE UNCHANGED closeVars
      BY <2>1, CalmTypes DEF OnlyMainCloses, closeVars, Busy, Refunded
    <2>2. ASSUME NEW c \in Conns, StartClose("main", c), main = "loop", closing["main"] = "no"
          PROVE  OnlyMainCloses' /\ Refunded' = Refunded
      BY <2>2, CalmTypes DEF OnlyMainCloses, StartClose, Busy, Types, CloseTypes, Refunded
    <2> QED BY <2>1, <2>2
  <1>2. CountExact'
    <2>1. Online' = Online
      BY DEF Online
    <2>2. CASE UNCHANGED <<main, m_onlineUserCount>>
      BY <1>1, <2>1, <2>2 DEF CountExact, AdmissionLimit, CalmInv, Owed
    <2>3. CASE main = "count" /\ main' = "loop" /\ m_onlineUserCount' = m_onlineUserCount + 1
      <3>1. m_onlineUserCount \in Int /\ Owed = 1 /\ Owed' = 0
        BY <2>3, CalmTypes DEF Types, ListTypes, Owed
      <3> QED BY <1>1, <2>1, <2>3, <3>1 DEF CountExact, AdmissionLimit, CalmInv
    <2> QED BY <2>2, <2>3
  <1> QED BY <1>1, <1>2 DEF CalmInv

LEMMA AcceptCalm ==
    ASSUME CalmInv, NEW l \in Conns, NEW c \in Conns, NEW f \in Fds, OneCloser,
           Accept(l, c, f) \/ AcceptFails(l, c, f)
    PROVE  CalmInv'
  <1>0. /\ SeqInv' /\ PlaceInv' /\ AcceptOn(l, c, f)
        /\ UNCHANGED <<timerVars, closeVars, m_onlineUserCount>>
    BY CalmTypes, AcceptSeq, AcceptFailsSeq, AcceptPlace, AcceptFailsPlace
    DEF Accept, AcceptFails, AcceptOn
  <1>1. CASE AcceptFails(l, c, f)
    BY <1>0, <1>1, QuietCalm DEF AcceptFails, timerVars
  <1>2. CASE Accept(l, c, f)
    <2>1. /\ main = "loop" /\ main' = "count" /\ closing["main"] = "no"
          /\ sock[f] = None /\ sock' = [sock EXCEPT ![f] = accepted + 1]
          /\ m_onlineUserCount < m_worker_connections /\ m_onlineUserCount \in Int
          /\ accepted + 1 # None
      BY <1>0, <1>2, CalmTypes, PoolSizes
      DEF Accept, AcceptOn, TakeEvent, MainIdle, LowestFree, TooManyClients, OneCloser,
          Types, ListTypes, KernelTypes, None
    <2>2. OnlyMainCloses'
      BY <1>0, <2>1, CalmTypes DEF OnlyMainCloses, timerVars, closeVars, Busy
    <2>3. f \notin Online /\ Online' = Online \cup {f}
      BY <2>1, CalmTypes DEF Online, Types, KernelTypes
    <2>4. Cardinality(Online') = Cardinality(Online) + 1
      BY <2>3, OnlineFinite, FS_AddElement
    <2>5. Refunded = 0 /\ Refunded' = 0 /\ Owed = 0 /\ Owed' = 1
      BY <1>0, <2>1 DEF Refunded, Owed, closeVars
    <2>6. Cardinality(Online) = m_onlineUserCount
      BY <2>1, <2>5, OnlineFinite DEF CalmInv, CountExact
    <2>7. CountExact'
      BY <1>0, <2>1, <2>4, <2>5, <2>6, PoolSizes DEF CountExact, AdmissionLimit
    <2> QED BY <1>0, <2>2, <2>7 DEF CalmInv
  <1> QED BY <1>1, <1>2

LEMMA CalmNext ==
    ASSUME CalmInv, OneCloser, [Next]_vars
    PROVE  CalmInv'
  <1>1. SeqInv'
    <2>1. CASE UNCHANGED vars
      <3>1. Types' /\ TagsInUse' = TagsInUse
        BY <2>1, NextTypes, CalmTypes DEF vars, TagsInUse, timerVars, workVars
      <3>2. \A c \in Conns : fd[c] = fd'[c]
        BY <2>1 DEF vars, connVars
      <3> QED
        BY <2>1, <3>1, <3>2, SameKnown, SameTagsRight, CalmTypes
        DEF SeqInv, vars, listVars, connVars, mainVars, kernelVars, closeVars
    <2> QED
      BY <2>1, MainStepSeq, OtherStepSeq, RecycleDueSeq, ZdCloseSeq, CalmTypes
      DEF Next, OneCloser
  <1>2. ASSUME UNCHANGED <<connVars, kernelVars, closeVars, m_freeconnectionList,
                           m_recyconnectionList, m_timerQueuemap, m_lsIdleList>>,
               \/ m_events' \subseteq m_events
               \/ /\ Busy = None /\ None \notin m_events'
                  /\ m_events' \subseteq ListenConns \cup {registered[f] : f \in Fds},
               TagsInUse' \subseteq TagsInUse \cup {Tag(c) : c \in m_events},
               \/ UNCHANGED <<main, m_onlineUserCount>>
               \/ /\ main = "count" /\ main' = "loop"
                  /\ m_onlineUserCount' = m_onlineUserCount + 1
        PROVE  CalmInv'
    BY <1>1, <1>2, QuietPlace, QuietCalm DEF kernelVars
  <1>3. CASE EpollWait
    <2>1. /\ Busy = None /\ None \notin m_events'
          /\ m_events' \subseteq ListenConns \cup {registered[f] : f \in Fds}
      BY <1>3, CalmTypes DEF EpollWait, MainIdle, OnlyMainCloses
    <2> QED
      BY <1>2, <1>3, <2>1
      DEF EpollWait, listVars, timerVars, TagsInUse, workVars
  <1>4. CASE CountOnline
    BY <1>2, <1>4 DEF CountOnline, TagsInUse, workVars, timerVars
  <1>5. ASSUME NEW c \in Conns, AcceptNothing(c) \/ ReadPart(c) \/ ReadPacket(c)
        PROVE  CalmInv'
    <2>1. m_events' \subseteq m_events /\ c \in m_events
      BY <1>5 DEF AcceptNothing, ReadPart, ReadPacket, TakeEvent
    <2>2. TagsInUse' \subseteq TagsInUse \cup {Tag(c)}
      BY <1>5 DEF AcceptNothing, ReadPart, ReadPacket, TagsInUse, timerVars, workVars
    <2> QED
      BY <1>2, <1>5, <2>1, <2>2
      DEF AcceptNothing, ReadPart, ReadPacket, listVars, timerVars
  <1>6. ASSUME NEW c \in Conns, ReadEnds(c) PROVE CalmInv'
    <2>1. /\ main = "loop" /\ closing["main"] = "no" /\ StartClose("main", c)
          /\ UNCHANGED <<sock, m_timerQueuemap, m_lsIdleList, main, m_onlineUserCount>>
      BY <1>6 DEF ReadEnds, TakeEvent, MainIdle, kernelVars, timerVars, listVars
    <2> QED BY <1>1, <1>6, <2>1, ReadEndsPlace, QuietCalm
  <1>7. ASSUME NEW w \in Workers, Dispatch(w) \/ Finish(w) PROVE CalmInv'
    <2>1. TagsInUse' \subseteq TagsInUse
      <3>1. \A v \in Workers : job'[v] \subseteq job[v] \cup inbox
        BY <1>7, CalmTypes DEF Dispatch, Finish, Types, WorkTypes
      <3>2. inbox' \subseteq inbox /\ UNCHANGED timerVars
        BY <1>7 DEF Dispatch, Finish
      <3> QED BY <3>1, <3>2 DEF TagsInUse, timerVars
    <2> QED
      BY <1>2, <1>7, <2>1 DEF Dispatch, Finish, listVars, mainVars, timerVars
  <1>8. CASE UNCHANGED vars
    BY <1>2, <1>8 DEF vars, listVars, mainVars, timerVars, TagsInUse, workVars
  <1>9. CASE RecycleDue
    <2>1. UNCHANGED <<sock, m_timerQueuemap, m_lsIdleList, main, m_onlineUserCount, closeVars>>
      BY <1>9 DEF RecycleDue, kernelVars, timerVars, mainVars
    <2> QED BY <1>1, <1>9, <2>1, RecycleDuePlace, QuietCalm
  <1>10. ASSUME NEW p \in Closers, ZdClose(p) PROVE CalmInv'
    BY <1>10, CloseByMain, ZdCloseCalm
  <1>11. ~AddTimer /\ ~TimerStep
    BY CalmTypes
    DEF AddTimer, TimerStep, ScanTimers, TimerPasses, TimerKicks, TimerIdle, OnlyMainCloses,
        OneCloser
  <1>12. \A c \in Conns : ~ReadFlood(c)
    BY DEF ReadFlood, OneCloser
  <1>13. \A w \in Workers : ~KickBacklog(w)
    BY DEF KickBacklog, OneCloser
  <1> QED
    BY <1>3, <1>4, <1>5, <1>6, <1>7, <1>8, <1>9, <1>10, <1>11, <1>12, <1>13, AcceptCalm
    DEF Next, MainStep

LEMMA InitCalm == Init => CalmInv
  <1> SUFFICES ASSUME Init PROVE CalmInv OBVIOUS
  <1> USE PoolSizes, PoolAddresses
  <1>1. /\ Range(m_freeconnectionList) \subseteq Ports + 1 .. m_worker_connections
        /\ Range(m_recyconnectionList) = {} /\ TagsInUse = {}
    BY DEF Init, Range, TagsInUse
  <1>2. \A c : Once(m_freeconnectionList, c) /\ Once(m_recyconnectionList, c)
    BY DEF Init, Once
  <1>3. "main" \in Closers /\ Busy = None
    BY DEF Init, Closers, Busy
  <1>4. FreeIdle
    <2>1. ASSUME NEW c \in Conns, c \in Range(m_freeconnectionList)
          PROVE  Idle(c) /\ NoFreshTag(c)
      BY <1>1, <1>3, <2>1, SMTT(30) DEF Init, Idle, NoFreshTag, Conns, None, NoFd, ListenFd
    <2> QED BY <1>2, <2>1 DEF FreeIdle
  <1>5. RecyIdle /\ WatchedOwn /\ EventsOwn /\ BusyOwn
    BY <1>1, <1>2, <1>3 DEF Init, RecyIdle, WatchedOwn, EventsOwn, BusyOwn
  <1>6. HeldWatched
    BY DEF Init, HeldWatched, Fds, ListenFd, NoFd
  <1>7. OnlyMainCloses
    BY <1>3 DEF Init, OnlyMainCloses
  <1>8. CountExact
    <2>1. Online = {} /\ Refunded = 0 /\ Owed = 0 /\ m_onlineUserCount = 0
      BY <1>3 DEF Init, Online, Refunded, Owed
    <2>2. Cardinality({}) = 0
      BY FS_EmptySet
    <2> QED BY <2>1, <2>2 DEF CountExact, AdmissionLimit
  <1> QED BY <1>4, <1>5, <1>6, <1>7, <1>8, InitSeq DEF CalmInv, PlaceInv

LEMMA CalmHolds ==
    ASSUME OneCloser
    PROVE  Spec => []CalmInv
  <1>1. CalmInv /\ [Next]_vars => CalmInv'
    BY CalmNext
  <1> QED BY <1>1, InitCalm, PTL DEF Spec

\* As long as one thread closes, a connection on the free list is there once, is in no
\* other list and in no thread's hands, watched by no descriptor and named by no fresh
\* tag: inRecyConnectQueue and ServerRecyConnectionThread never free it twice or early.
THEOREM FreeMeansIdle ==
    ASSUME OneCloser
    PROVE  Spec => []FreeConnsIdle
  <1>1. CalmInv => FreeConnsIdle
    <2> SUFFICES ASSUME CalmInv PROVE FreeConnsIdle OBVIOUS
    <2>1. \A i \in DOMAIN m_freeconnectionList : m_freeconnectionList[i] \in Conns
      BY CalmTypes
    <2>2. IsInjective(m_freeconnectionList)
      BY <2>1, CalmTypes DEF IsInjective, FreeIdle, Once
    <2>3. ASSUME NEW c \in Range(m_freeconnectionList)
          PROVE  c \in Conns /\ Idle(c) /\ NoFreshTag(c) /\ c \notin ClosingConns
      <3>1. c \in Conns
        BY CalmTypes, RangeSubset
      <3>2. Idle(c) /\ NoFreshTag(c) /\ c # None
        BY <3>1, CalmTypes DEF FreeIdle
      <3> QED BY <3>1, <3>2, CalmTypes DEF ClosingConns, Idle, Busy, OnlyMainCloses
    <2> QED BY <2>2, <2>3 DEF FreeConnsIdle, Idle, NoFreshTag
  <1> QED BY <1>1, CalmHolds, PTL

\* As long as one thread closes, the descriptor in a connection that is in use is the
\* socket of its own client: close, recycling and a failed epoll_ctl never leave a
\* connection with a descriptor that the kernel gave to someone else.
THEOREM DescriptorIsOwn ==
    ASSUME OneCloser
    PROVE  Spec => []FdIsOwn
  <1>1. CalmInv => FdIsOwn
    <2> SUFFICES ASSUME CalmInv, NEW c \in Conns, fd[c] \in Fds, c \notin ClosingConns,
                        c \notin Range(m_freeconnectionList)
                 PROVE  sock[fd[c]] = session[c]
      BY DEF FdIsOwn
    <2>1. c # Busy
      BY CalmTypes DEF ClosingConns, Busy
    <2>2. registered[fd[c]] = c
      BY <2>1, CalmTypes DEF HeldWatched
    <2> QED BY <2>2, CalmTypes DEF WatchedOwn
  <1> QED BY <1>1, CalmHolds, PTL

\* As long as one thread closes, at most worker_connections clients are connected.
THEOREM AtMostWorkerConnections ==
    ASSUME OneCloser
    PROVE  Spec => []AdmissionLimit
  <1>1. CalmInv => AdmissionLimit
    BY DEF CalmInv, CountExact
  <1> QED BY <1>1, CalmHolds, PTL
=============================================================================
