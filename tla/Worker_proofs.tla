----------------------------- MODULE Worker_proofs -----------------------------
(***************************************************************************)
(* Proofs about Worker, for any number of pool threads, connections,       *)
(* clients and packets, with and without the recycling thread.             *)
(*                                                                         *)
(* That nobody waits in a circle follows from where each thread can be     *)
(* when it owns a mutex (Owners): who owns a logicPorcMutex waits at most  *)
(* for m_sendMessageQueueMutex or later ones, who owns that one waits at   *)
(* most for m_timequeueMutex or m_recyconnqueueMutex, and who owns one of  *)
(* these waits for nothing.                                                *)
(*                                                                         *)
(* That a reply goes to its own client needs to know where a connection    *)
(* can be while tags of former clients are under way: the sequence number  *)
(* tells them apart (TagFits), a connection is in one list once and never  *)
(* open meanwhile (ListsApart), and who closes one closes it for the       *)
(* client that has it (ClosersKnow), unless two threads closed it at once. *)
(***************************************************************************)
EXTENDS Worker, FiniteSetTheorems, SequenceTheorems, TLAPS

TagSet == [conn : Conns, iCurrsequence : Nat, client : Nat]

\* Where the threads can be.
Places ==
    /\ DOMAIN pc = Threads
    /\ \A w \in Workers : pc[w] \in {"loop", "logic", "send", "close", "recycle", "unlock"}
    /\ pc[Main] \in {"loop", "addTimer", "close", "recycle"}
    /\ pc[Timer] \in {"loop", "hung", "close", "recycle"}
    /\ pc[Sender] \in {"loop", "pass", "sendproc"}
    /\ pc[Recycler] \in {"loop", "recycling"}

\* What a thread has in its hands.
WorkTyped ==
    /\ DOMAIN work = Threads
    /\ \A t \in Threads : IF t = Main /\ pc[t] = "addTimer"
                          THEN work[t] \in SUBSET [conn : Conns]
                          ELSE work[t] \in SUBSET TagSet

DataTyped ==
    /\ iCurrsequence \in [Conns -> Nat] /\ iSendCount \in [Conns -> Int]
    /\ open \in SUBSET Conns /\ m_connectionList \in SUBSET Conns
    /\ m_freeconnectionList \in Seq(Conns) /\ m_recyconnectionList \in Seq(Conns)
    /\ m_MsgRecvQueue \in Seq(TagSet) /\ m_MsgSendQueue \in Seq(TagSet)
    /\ m_timerQueuemap \in SUBSET TagSet /\ m_lsIdleList \in SUBSET TagSet
    /\ clients \in Nat /\ client \in [Conns -> Nat]
    /\ gone \in SUBSET Nat /\ twice \in SUBSET Conns

Types == Places /\ WorkTyped /\ DataTyped

\* Who can own a mutex, and where it is then.
Owners ==
    /\ owner \in [Mutexes -> Threads \cup {Nobody}]
    /\ \A c \in Conns : owner[c] # Nobody =>
          owner[c] \in Workers /\ pc[owner[c]] \in {"send", "close", "recycle", "unlock"}
    /\ owner[SendMutex] # Nobody =>
          \/ /\ owner[SendMutex] \in Workers
             /\ pc[owner[SendMutex]] \in {"close", "recycle", "unlock"}
          \/ owner[SendMutex] = Sender /\ pc[Sender] \in {"pass", "sendproc"}
    /\ owner[TimeMutex] # Nobody => owner[TimeMutex] = Timer /\ pc[Timer] = "hung"
    /\ owner[RecyMutex] # Nobody =>
          owner[RecyMutex] = Recycler /\ pc[Recycler] = "recycling"

-----------------------------------------------------------------------------
In(q, c) == c \in Range(q)
Once(q, c) == \A i, j \in DOMAIN q : q[i] = c /\ q[j] = c => i = j

\* A tag with the sequence number of its connection has its client too; clients
\* have numbers of their own.
TagFits(p) ==
    /\ p.conn \in m_connectionList /\ client[p.conn] # 0
    /\ p.iCurrsequence <= iCurrsequence[p.conn]
    /\ Current(p) => p.client = client[p.conn]
    /\ p.client \in 1 .. clients
    /\ \A d \in Conns : client[d] = p.client => d = p.conn

Tagging(t) == ~(t = Main /\ pc[t] = "addTimer")

\* The tags there are: of packets, replies, entries, and in the hands of threads.
UnderWay(p) ==
    \/ In(m_MsgRecvQueue, p) \/ In(m_MsgSendQueue, p)
    \/ p \in m_timerQueuemap \/ p \in m_lsIdleList
    \/ \E t \in Threads : Tagging(t) /\ p \in work[t]

AllTagsFit == \A p : UnderWay(p) => TagFits(p)

\* A thread has one thing in its hands; ngx_event_accept has the new connection.
HandsKnown ==
    /\ \A t \in Threads : \A p, q \in work[t] : p = q
    /\ ~Tagging(Main) => \A p \in work[Main] : p.conn \in m_connectionList /\ client[p.conn] # 0

\* Clients and the connections they have or had last.
ClientsKnown ==
    /\ \A c \in Conns : client[c] \in 0 .. clients
    /\ \A c, d \in Conns : client[c] = client[d] /\ client[c] # 0 => c = d
    /\ \A c \in open : client[c] # 0 /\ c \in m_connectionList
    /\ \A c \in Conns : In(m_freeconnectionList, c) \/ In(m_recyconnectionList, c) =>
          c \in m_connectionList
    /\ gone \in SUBSET (1 .. clients)

\* A connection that nobody closed twice is in one list at most, and then not open.
ListsApart ==
    \A c \in Conns \ twice :
        /\ Once(m_freeconnectionList, c) /\ Once(m_recyconnectionList, c)
        /\ ~(In(m_freeconnectionList, c) /\ In(m_recyconnectionList, c))
        /\ In(m_freeconnectionList, c) \/ In(m_recyconnectionList, c) =>
              client[c] \in gone \cup {0} /\ c \notin open
        /\ c \in open => client[c] \notin gone

\* Who closes a connection first for its client finds it in no list.
Closes(t, p) == pc[t] \in {"close", "recycle"} /\ p \in work[t]
First(p) == p.conn \notin twice /\ p.client \notin gone
Unlisted(p) ==
    /\ p.client = client[p.conn]
    /\ ~In(m_freeconnectionList, p.conn) /\ ~In(m_recyconnectionList, p.conn)
ClosersKnow ==
    \A t \in Threads : \A p \in work[t] : Closes(t, p) /\ First(p) =>
        Unlisted(p) /\ (pc[t] = "recycle" => p.conn \notin open)

\* The connection of a packet or reply that is not stale is not free, nor that of
\* the reply that is being sent.
Answered(p) ==
    \/ In(m_MsgRecvQueue, p) \/ In(m_MsgSendQueue, p)
    \/ \E w \in Workers : pc[w] \in {"logic", "send"} /\ p \in work[w]
NotFree(p) == Current(p) /\ p.conn \notin twice => ~In(m_freeconnectionList, p.conn)
AnswersKept == \A p : Answered(p) => NotFree(p)
SentKept ==
    \A r \in work[Sender] : r.conn \notin twice =>
        r.client = client[r.conn] /\ ~In(m_freeconnectionList, r.conn)

Kept ==
    /\ AllTagsFit /\ HandsKnown /\ ClientsKnown /\ ListsApart /\ ClosersKnow
    /\ AnswersKept /\ SentKept

\* The replies that are queued for a client: never more than its connection counts.
IsFor(r, c, k) == r.conn = c /\ r.client = k
PlacesFor(q, c, k) == {i \in DOMAIN q : IsFor(q[i], c, k)}
Covered(c) == iSendCount[c] >= Cardinality(PlacesFor(m_MsgSendQueue, c, client[c]))
CoveredAll == \A c \in Conns : Covered(c)

-----------------------------------------------------------------------------
(* The threads and the mutexes are told apart. *)

LEMMA AtMostFour ==
    ASSUME NEW a, NEW b, NEW c, NEW d, NEW S, S \subseteq {a, b, c, d}
    PROVE  IsFiniteSet(S) /\ Cardinality(S) <= 4
<1>1. IsFiniteSet({a}) /\ Cardinality({a}) = 1
    BY FS_Singleton
<1>2. IsFiniteSet({a} \cup {b}) /\ Cardinality({a} \cup {b}) \in 1 .. 2
    BY <1>1, FS_AddElement
<1>3. /\ IsFiniteSet(({a} \cup {b}) \cup {c})
      /\ Cardinality(({a} \cup {b}) \cup {c}) \in 1 .. 3
    BY <1>2, FS_AddElement
<1>4. /\ IsFiniteSet((({a} \cup {b}) \cup {c}) \cup {d})
      /\ Cardinality((({a} \cup {b}) \cup {c}) \cup {d}) \in 1 .. 4
    BY <1>3, FS_AddElement
<1>5. (({a} \cup {b}) \cup {c}) \cup {d} = {a, b, c, d}
    OBVIOUS
<1>6. IsFiniteSet({a, b, c, d}) /\ Cardinality({a, b, c, d}) \in 1 .. 4
    BY <1>4, <1>5
<1>7. IsFiniteSet(S) /\ Cardinality(S) <= Cardinality({a, b, c, d})
    BY <1>6, FS_Subset
<1>8. Cardinality(S) \in Nat
    BY <1>7, FS_CardinalityType
<1> QED
    BY <1>6, <1>7, <1>8

LEMMA ThreadsDiffer ==
    /\ {Main, Timer, Sender, Recycler, Nobody} \cap Workers = {}
    /\ Main \notin {Timer, Sender, Recycler, Nobody}
    /\ Timer \notin {Main, Sender, Recycler, Nobody}
    /\ Sender \notin {Main, Timer, Recycler, Nobody}
    /\ Recycler \notin {Main, Timer, Sender, Nobody}
    /\ Nobody \notin Threads
<1> DEFINE S == {Main, Timer, Sender, Recycler, Nobody} \ Workers
<1>1. Cardinality(S) = 5
    BY WorkerThreads
<1>2. ASSUME NEW a, NEW b, NEW c, NEW d, S \subseteq {a, b, c, d}
      PROVE  FALSE
  <2> HIDE DEF S
  <2>1. Cardinality(S) <= 4
      BY <1>2, AtMostFour
  <2> QED
      BY <1>1, <2>1
<1>3. ~(S \subseteq {Timer, Sender, Recycler, Nobody})
    BY <1>2
<1>4. ~(S \subseteq {Main, Sender, Recycler, Nobody})
    BY <1>2
<1>5. ~(S \subseteq {Main, Timer, Recycler, Nobody})
    BY <1>2
<1>6. ~(S \subseteq {Main, Timer, Sender, Nobody})
    BY <1>2
<1>7. ~(S \subseteq {Main, Timer, Sender, Recycler})
    BY <1>2
<1> QED
    BY <1>3, <1>4, <1>5, <1>6, <1>7 DEF Threads

LEMMA MutexesDiffer ==
    /\ SendMutex \in Mutexes /\ TimeMutex \in Mutexes /\ RecyMutex \in Mutexes
    /\ SendMutex # TimeMutex /\ SendMutex # RecyMutex /\ TimeMutex # RecyMutex
    /\ \A c \in Conns : c \in Mutexes /\ c \notin {SendMutex, TimeMutex, RecyMutex}
    BY WorkerMutexes DEF Mutexes, SendMutex, TimeMutex, RecyMutex

LEMMA ThreadNames ==
    /\ \A w \in Workers : w \in Threads
    /\ Main \in Threads /\ Timer \in Threads /\ Sender \in Threads /\ Recycler \in Threads
    BY DEF Threads

-----------------------------------------------------------------------------
(* Sequences: what Append, Tail and RemoveAt leave in its place. *)

LEMMA AppendedAt ==
    ASSUME NEW S, NEW q \in Seq(S), NEW r \in S
    PROVE  /\ Append(q, r) \in Seq(S)
           /\ Len(q) \in Nat /\ DOMAIN q = 1 .. Len(q)
           /\ DOMAIN Append(q, r) = 1 .. Len(q) + 1
           /\ \A i \in 1 .. Len(q) : Append(q, r)[i] = q[i]
           /\ Append(q, r)[Len(q) + 1] = r
    BY AppendProperties

LEMMA TailAt ==
    ASSUME NEW S, NEW q \in Seq(S), q # <<>>
    PROVE  /\ Tail(q) \in Seq(S) /\ Head(q) \in S
           /\ Len(q) \in Nat /\ Len(q) >= 1 /\ DOMAIN q = 1 .. Len(q)
           /\ DOMAIN Tail(q) = 1 .. Len(q) - 1
           /\ \A i \in 1 .. Len(q) - 1 : Tail(q)[i] = q[i + 1]
           /\ Head(q) = q[1]
    BY HeadTailProperties

LEMMA RemovedAt ==
    ASSUME NEW S, NEW q \in Seq(S), NEW i \in DOMAIN q
    PROVE  /\ RemoveAt(q, i) \in Seq(S)
           /\ Len(q) \in Nat /\ DOMAIN q = 1 .. Len(q)
           /\ DOMAIN RemoveAt(q, i) = 1 .. Len(q) - 1
           /\ \A k \in 1 .. Len(q) - 1 :
                 RemoveAt(q, i)[k] = IF k < i THEN q[k] ELSE q[k + 1]
<1> DEFINE a == SubSeq(q, 1, i - 1)
           b == SubSeq(q, i + 1, Len(q))
<1>1. Len(q) \in Nat /\ DOMAIN q = 1 .. Len(q) /\ i \in 1 .. Len(q)
    OBVIOUS
<1>2. /\ \A k \in 1 .. i - 1 : q[k] \in S
      /\ \A k \in i + 1 .. Len(q) : q[k] \in S
    BY <1>1
<1>3. a \in Seq(S) /\ Len(a) = i - 1 /\ \A k \in 1 .. i - 1 : a[k] = q[k]
    BY <1>1, <1>2, SubSeqProperties
<1>4. /\ b \in Seq(S)
      /\ Len(b) = IF i + 1 <= Len(q) THEN Len(q) - (i + 1) + 1 ELSE 0
      /\ \A k \in 1 .. Len(q) - (i + 1) + 1 : b[k] = q[i + 1 + k - 1]
    BY <1>1, <1>2, SubSeqProperties
<1>5. Len(b) = Len(q) - i /\ \A k \in 1 .. Len(q) - i : b[k] = q[i + k]
    BY <1>1, <1>4
<1>6. RemoveAt(q, i) = a \o b
    BY DEF RemoveAt
<1> HIDE DEF a, b
<1>7. /\ a \o b \in Seq(S) /\ Len(a \o b) = Len(a) + Len(b)
      /\ \A k \in 1 .. Len(a) + Len(b) :
            (a \o b)[k] = IF k <= Len(a) THEN a[k] ELSE b[k - Len(a)]
    BY <1>3, <1>4, ConcatProperties
<1>8. Len(a) + Len(b) = Len(q) - 1
    BY <1>1, <1>3, <1>5
<1>9. DOMAIN (a \o b) = 1 .. Len(q) - 1
    BY <1>7, <1>8
<1>10. ASSUME NEW k \in 1 .. Len(q) - 1
       PROVE  (a \o b)[k] = IF k < i THEN q[k] ELSE q[k + 1]
  <2>1. (a \o b)[k] = IF k <= i - 1 THEN a[k] ELSE b[k - (i - 1)]
      BY <1>3, <1>7, <1>8
  <2>2. CASE k < i
    <3>1. k <= i - 1 /\ k \in 1 .. i - 1
        BY <1>1, <2>2
    <3> QED
        BY <1>3, <2>1, <2>2, <3>1
  <2>3. CASE ~(k < i)
    <3>1. ~(k <= i - 1) /\ k - (i - 1) \in 1 .. Len(q) - i /\ i + (k - (i - 1)) = k + 1
        BY <1>1, <2>3
    <3> QED
        BY <1>5, <2>1, <2>3, <3>1
  <2> QED
      BY <2>2, <2>3
<1> QED
    BY <1>1, <1>6, <1>7, <1>9, <1>10

(* What is in a list after it, and whether once. *)
LEMMA AppendIn ==
    ASSUME NEW S, NEW q \in Seq(S), NEW r \in S
    PROVE  /\ \A c : In(Append(q, r), c) => In(q, c) \/ c = r
           /\ In(Append(q, r), r) /\ \A c : In(q, c) => In(Append(q, r), c)
           /\ \A c : Once(q, c) /\ (c # r \/ ~In(q, c)) => Once(Append(q, r), c)
<1>0. /\ Len(q) \in Nat /\ DOMAIN q = 1 .. Len(q)
      /\ \A i \in 1 .. Len(q) + 1 : i \in 1 .. Len(q) \/ i = Len(q) + 1
      /\ \A i \in 1 .. Len(q) : i \in 1 .. Len(q) + 1
      /\ Len(q) + 1 \in 1 .. Len(q) + 1
    OBVIOUS
<1>1. ASSUME NEW c, In(Append(q, r), c) PROVE In(q, c) \/ c = r
  <2>1. PICK i \in 1 .. Len(q) + 1 : Append(q, r)[i] = c
      BY <1>1, AppendedAt DEF In, Range
  <2> QED
      BY <1>0, <2>1, AppendedAt DEF In, Range
<1>2. In(Append(q, r), r)
    BY <1>0, AppendedAt DEF In, Range
<1>3. ASSUME NEW c, In(q, c) PROVE In(Append(q, r), c)
  <2>1. PICK i \in 1 .. Len(q) : q[i] = c
      BY <1>0, <1>3 DEF In, Range
  <2>2. Append(q, r)[i] = c /\ i \in DOMAIN Append(q, r)
      BY <1>0, <2>1, AppendedAt
  <2> QED
      BY <2>2 DEF In, Range
<1>4. ASSUME NEW c, Once(q, c), c # r \/ ~In(q, c) PROVE Once(Append(q, r), c)
  <2> SUFFICES ASSUME NEW i \in 1 .. Len(q) + 1, NEW j \in 1 .. Len(q) + 1,
                      Append(q, r)[i] = c, Append(q, r)[j] = c
               PROVE  i = j
      BY AppendedAt DEF Once
  <2>1. \A k \in 1 .. Len(q) : q[k] = c => c # r
      BY <1>0, <1>4 DEF In, Range
  <2>2. CASE i \in 1 .. Len(q) /\ j \in 1 .. Len(q)
      BY <1>0, <1>4, <2>2, AppendedAt DEF Once
  <2> QED
      BY <1>0, <2>1, <2>2, AppendedAt
<1> QED
    BY <1>1, <1>2, <1>3, <1>4

LEMMA TailIn ==
    ASSUME NEW S, NEW q \in Seq(S), q # <<>>
    PROVE  /\ In(q, Head(q)) /\ \A c : In(Tail(q), c) => In(q, c)
           /\ \A c : Once(q, c) => Once(Tail(q), c)
           /\ Once(q, Head(q)) => ~In(Tail(q), Head(q))
<1>0. /\ Len(q) \in Nat /\ DOMAIN q = 1 .. Len(q) /\ 1 \in 1 .. Len(q)
      /\ \A i \in 1 .. Len(q) - 1 : i + 1 \in 1 .. Len(q) /\ i + 1 # 1
      /\ \A i, j \in 1 .. Len(q) - 1 : i + 1 = j + 1 => i = j
    BY TailAt
<1>1. In(q, Head(q))
    BY <1>0, TailAt DEF In, Range
<1>2. ASSUME NEW c, In(Tail(q), c)
      PROVE  \E i \in 1 .. Len(q) : i # 1 /\ q[i] = c
  <2>1. PICK i \in 1 .. Len(q) - 1 : Tail(q)[i] = c
      BY <1>2, TailAt DEF In, Range
  <2> QED
      BY <1>0, <2>1, TailAt
<1>3. \A c : In(Tail(q), c) => In(q, c)
    BY <1>0, <1>2 DEF In, Range
<1>4. ASSUME NEW c, Once(q, c) PROVE Once(Tail(q), c)
    BY <1>0, <1>4, TailAt DEF Once
<1>5. Once(q, Head(q)) => ~In(Tail(q), Head(q))
    BY <1>0, <1>2, TailAt DEF Once
<1> QED
    BY <1>1, <1>3, <1>4, <1>5

LEMMA RemovedIn ==
    ASSUME NEW S, NEW q \in Seq(S), NEW i \in DOMAIN q
    PROVE  /\ In(q, q[i]) /\ \A c : In(RemoveAt(q, i), c) => In(q, c)
           /\ \A c : Once(q, c) => Once(RemoveAt(q, i), c)
           /\ Once(q, q[i]) => ~In(RemoveAt(q, i), q[i])
<1> DEFINE Old(k) == IF k < i THEN k ELSE k + 1
<1>0. /\ Len(q) \in Nat /\ DOMAIN q = 1 .. Len(q) /\ i \in 1 .. Len(q)
      /\ DOMAIN RemoveAt(q, i) = 1 .. Len(q) - 1
    BY RemovedAt
<1>1. /\ \A k \in 1 .. Len(q) - 1 : Old(k) \in 1 .. Len(q) /\ Old(k) # i
      /\ \A j, k \in 1 .. Len(q) - 1 : Old(j) = Old(k) => j = k
    BY <1>0
<1>2. \A k \in 1 .. Len(q) - 1 : RemoveAt(q, i)[k] = q[Old(k)]
    BY RemovedAt
<1> HIDE DEF Old
<1>3. ASSUME NEW c, In(RemoveAt(q, i), c)
      PROVE  \E k \in 1 .. Len(q) : k # i /\ q[k] = c
  <2>1. PICK k \in 1 .. Len(q) - 1 : RemoveAt(q, i)[k] = c
      BY <1>0, <1>3 DEF In, Range
  <2> QED
      BY <1>1, <1>2, <2>1
<1>4. In(q, q[i]) /\ \A c : In(RemoveAt(q, i), c) => In(q, c)
    BY <1>0, <1>3 DEF In, Range
<1>5. ASSUME NEW c, Once(q, c) PROVE Once(RemoveAt(q, i), c)
    BY <1>0, <1>1, <1>2, <1>5 DEF Once
<1>6. Once(q, q[i]) => ~In(RemoveAt(q, i), q[i])
    BY <1>0, <1>3 DEF Once
<1> QED
    BY <1>4, <1>5, <1>6

-----------------------------------------------------------------------------
(* Types *)

LEMMA FreeListPrepared ==
    Init => /\ m_freeconnectionList \in [1 .. Cardinality(Prepared) -> Prepared]
            /\ \A c \in Prepared : \E i \in DOMAIN m_freeconnectionList : m_freeconnectionList[i] = c
            /\ IsFiniteSet(Prepared) /\ Cardinality(Prepared) \in Nat
<1> SUFFICES ASSUME Init PROVE
        /\ m_freeconnectionList \in [1 .. Cardinality(Prepared) -> Prepared]
        /\ \A c \in Prepared : \E i \in DOMAIN m_freeconnectionList : m_freeconnectionList[i] = c
        /\ IsFiniteSet(Prepared) /\ Cardinality(Prepared) \in Nat
    OBVIOUS
<1>1. IsFiniteSet(Conns) /\ Prepared \subseteq Conns
    BY WorkerThreads
<1>2. IsFiniteSet(Prepared)
    BY <1>1, FS_Subset
<1>3. PICK n \in Nat : ExistsBijection(1 .. n, Prepared)
    BY <1>2, FS_NatBijection
<1>4. Cardinality(Prepared) = n
    BY <1>2, <1>3, FS_CountingElements
<1>5. PICK f \in Bijection(1 .. n, Prepared) : TRUE
    BY <1>3 DEF ExistsBijection
<1>6. /\ f \in [1 .. n -> Prepared]
      /\ \A c \in Prepared : \E i \in DOMAIN f : f[i] = c
    BY <1>5 DEF Bijection, Surjection, Injection, IsInjective
<1> QED
    BY <1>2, <1>3, <1>4, <1>6 DEF Init

LEMMA TypesInit == Init => Types
<1> SUFFICES ASSUME Init PROVE Types
    OBVIOUS
<1>1. Places
    BY ThreadNames DEF Places, Init
<1>2. WorkTyped
    BY DEF WorkTyped, Init
<1>3. m_freeconnectionList \in Seq(Conns)
    BY FreeListPrepared, WorkerThreads
<1>4. DataTyped
    BY <1>3, WorkerThreads DEF DataTyped, Init
<1> QED
    BY <1>1, <1>2, <1>4 DEF Types

LEMMA ClosingTypes ==
    ASSUME Types, NEW t \in Workers \cup {Main, Timer}, Closing(t)
    PROVE  Types'
<1>0. t \in Threads /\ t # Sender /\ t # Recycler
    BY ThreadsDiffer DEF Threads
<1>1. CASE CloseSocket(t)
  <2>1. Places'
      BY <1>0, <1>1, ThreadsDiffer, ThreadNames DEF Types, Places, CloseSocket, Goes
  <2>2. WorkTyped'
      BY <1>0, <1>1, ThreadsDiffer, ThreadNames DEF Types, Places, WorkTyped, CloseSocket, Goes
  <2>3. DataTyped'
      BY <1>1 DEF Types, DataTyped, CloseSocket, listVars, queueVars, clientVars
  <2> QED
      BY <2>1, <2>2, <2>3 DEF Types
<1>2. CASE CloseRecycle(t)
  <2>1. Places'
      BY <1>0, <1>2, ThreadsDiffer, ThreadNames DEF Types, Places, CloseRecycle, Goes
  <2>2. WorkTyped'
      BY <1>0, <1>2, ThreadsDiffer, ThreadNames
      DEF Types, Places, WorkTyped, CloseRecycle, Goes, Drops
  <2>3. PICK p \in work[t] :
          /\ iCurrsequence' = [iCurrsequence EXCEPT ![p.conn] = @ + 1]
          /\ m_recyconnectionList' = Append(m_recyconnectionList, p.conn)
          /\ gone' = gone \cup {p.client}
          /\ twice' = IF p.client \in gone THEN twice \cup {p.conn} ELSE twice
      BY <1>2 DEF CloseRecycle
  <2>4. p \in TagSet
      BY <1>0, <1>2, ThreadsDiffer DEF Types, WorkTyped, CloseRecycle, Goes
  <2>5. p.conn \in Conns /\ p.client \in Nat
      BY <2>4 DEF TagSet
  <2>6. iCurrsequence' \in [Conns -> Nat]
      BY <2>3, <2>5 DEF Types, DataTyped
  <2>7. m_recyconnectionList' \in Seq(Conns)
      BY <2>3, <2>5, AppendedAt DEF Types, DataTyped
  <2>8. gone' \in SUBSET Nat /\ twice' \in SUBSET Conns
      BY <2>3, <2>5 DEF Types, DataTyped
  <2>9. DataTyped'
      BY <1>2, <2>6, <2>7, <2>8 DEF Types, DataTyped, CloseRecycle, queueVars, timerVars
  <2> QED
      BY <2>1, <2>2, <2>9 DEF Types
<1> QED
    BY <1>1, <1>2 DEF Closing

LEMMA AddTimerTypes ==
    ASSUME Types, AddTimer
    PROVE  Types'
<1>1. Places' /\ WorkTyped'
    BY ThreadsDiffer, ThreadNames DEF Types, Places, WorkTyped, AddTimer, Goes, Drops
<1>2. PICK p \in work[Main] : m_timerQueuemap' = m_timerQueuemap \cup {Tagged(p.conn)}
    BY DEF AddTimer
<1>3. p.conn \in Conns
    BY ThreadNames DEF Types, WorkTyped, AddTimer, Goes
<1>4. Tagged(p.conn) \in TagSet
    BY <1>3 DEF Tagged, TagSet, Types, DataTyped
<1>5. DataTyped'
    BY <1>2, <1>4 DEF Types, DataTyped, AddTimer, connVars, listVars, queueVars, clientVars
<1> QED
    BY <1>1, <1>5 DEF Types

LEMMA MainTypes ==
    ASSUME Types, NEW c \in Conns, Accept(c) \/ Read(c) \/ Leave(c)
    PROVE  Types'
<1>1. c \in Conns /\ iCurrsequence[c] \in Nat /\ client[c] \in Nat
    BY DEF Types, DataTyped
<1>2. Tagged(c) \in TagSet
    BY <1>1 DEF Tagged, TagSet
<1>4. CASE Accept(c)
  <2>0. Places'
      BY <1>4, ThreadsDiffer, ThreadNames DEF Types, Places, Accept, Goes
  <2>1. WorkTyped'
      BY <1>4, ThreadsDiffer, ThreadNames DEF Types, Places, WorkTyped, Accept, Goes, Holds
  <2>2. m_freeconnectionList' \in Seq(Conns) /\ m_connectionList' \in SUBSET Conns
    <3>1. m_freeconnectionList \in Seq(Conns) /\ m_connectionList \in SUBSET Conns
        BY DEF Types, DataTyped
    <3>2. m_freeconnectionList # <<>> => Tail(m_freeconnectionList) \in Seq(Conns)
        BY <3>1, TailAt
    <3> QED
        BY <1>4, <3>1, <3>2 DEF Accept
  <2>3. /\ iCurrsequence' \in [Conns -> Nat] /\ iSendCount' \in [Conns -> Int]
        /\ client' \in [Conns -> Nat] /\ clients' \in Nat
      BY <1>4 DEF Types, DataTyped, Accept
  <2>4. DataTyped'
      BY <1>4, <2>2, <2>3 DEF Types, DataTyped, Accept, queueVars, timerVars
  <2> QED
      BY <2>0, <2>1, <2>4 DEF Types
<1>5. CASE Read(c)
  <2>1. Places' /\ WorkTyped'
      BY <1>5 DEF Types, Places, WorkTyped, Read
  <2>2. DataTyped'
      BY <1>2, <1>5 DEF Types, DataTyped, Read, connVars, listVars, timerVars, clientVars
  <2> QED
      BY <2>1, <2>2 DEF Types
<1>6. CASE Leave(c)
  <2>1. Places' /\ WorkTyped'
      BY <1>2, <1>6, ThreadsDiffer, ThreadNames DEF Types, Places, WorkTyped, Leave, Goes, Holds
  <2>2. DataTyped'
      BY <1>6 DEF Types, DataTyped, Leave, connVars, listVars, queueVars, timerVars, clientVars
  <2> QED
      BY <2>1, <2>2 DEF Types
<1> QED
    BY <1>4, <1>5, <1>6

LEMMA WorkerTypes ==
    ASSUME Types, NEW w \in Workers,
           Take(w) \/ Handle(w) \/ Queue(w) \/ CutOff(w) \/ Return(w)
    PROVE  Types'
<1>0. w \in Threads /\ w \notin {Main, Timer, Sender, Recycler}
    BY ThreadsDiffer DEF Threads
<1>1. work[w] \in SUBSET TagSet
    BY <1>0 DEF Types, WorkTyped
<1>2. CASE Take(w)
  <2>1. Head(m_MsgRecvQueue) \in TagSet /\ m_MsgRecvQueue' \in Seq(TagSet)
      BY <1>2, TailAt DEF Types, DataTyped, Take
  <2>2. Places' /\ WorkTyped'
      BY <1>0, <1>2, <2>1, ThreadsDiffer, ThreadNames
      DEF Types, Places, WorkTyped, Take, Goes, Holds
  <2>3. DataTyped'
      BY <1>2, <2>1 DEF Types, DataTyped, Take, connVars, listVars, timerVars, clientVars
  <2> QED
      BY <2>2, <2>3 DEF Types
<1>3. CASE Handle(w)
  <2>1. Places' /\ WorkTyped'
      BY <1>0, <1>3, ThreadsDiffer, ThreadNames DEF Types, Places, WorkTyped, Handle, Goes
  <2>2. DataTyped'
      BY <1>3 DEF Types, DataTyped, Handle, connVars, listVars, queueVars, timerVars, clientVars
  <2> QED
      BY <2>1, <2>2 DEF Types
<1>4. CASE Queue(w)
  <2>1. Places' /\ WorkTyped'
      BY <1>0, <1>4, ThreadsDiffer, ThreadNames DEF Types, Places, WorkTyped, Queue, Goes, Drops
  <2>2. PICK p \in work[w] :
          /\ iSendCount' = [iSendCount EXCEPT ![p.conn] = @ + 1]
          /\ m_MsgSendQueue' = Append(m_MsgSendQueue, p)
      BY <1>4 DEF Queue
  <2>3. p \in TagSet /\ p.conn \in Conns
      BY <1>1 DEF TagSet
  <2>4. iSendCount' \in [Conns -> Int]
      BY <2>2, <2>3 DEF Types, DataTyped
  <2>5. m_MsgSendQueue' \in Seq(TagSet)
      BY <2>2, <2>3, AppendedAt DEF Types, DataTyped
  <2>6. DataTyped'
      BY <1>4, <2>4, <2>5 DEF Types, DataTyped, Queue, listVars, timerVars, clientVars
  <2> QED
      BY <2>1, <2>6 DEF Types
<1>5. CASE CutOff(w)
  <2>1. PICK p \in work[w] : Holds(w, Tagged(p.conn))
      BY <1>5 DEF CutOff
  <2>2. p.conn \in Conns
      BY <1>1 DEF TagSet
  <2>3. Tagged(p.conn) \in TagSet
      BY <2>2 DEF Tagged, TagSet, Types, DataTyped
  <2>4. Places' /\ WorkTyped'
      BY <1>0, <1>5, <2>1, <2>3, ThreadsDiffer, ThreadNames
      DEF Types, Places, WorkTyped, CutOff, Goes, Holds
  <2>5. DataTyped'
      BY <1>5 DEF Types, DataTyped, CutOff, connVars, listVars, queueVars, timerVars, clientVars
  <2> QED
      BY <2>4, <2>5 DEF Types
<1>6. CASE Return(w)
  <2>1. Places' /\ WorkTyped'
      BY <1>0, <1>6, ThreadsDiffer, ThreadNames DEF Types, Places, WorkTyped, Return, Goes
  <2>2. DataTyped'
      BY <1>6 DEF Types, DataTyped, Return, connVars, listVars, queueVars, timerVars, clientVars
  <2> QED
      BY <2>1, <2>2 DEF Types
<1> QED
    BY <1>2, <1>3, <1>4, <1>5, <1>6

LEMMA TimerTypes ==
    ASSUME Types, Scan \/ Hang \/ Check
    PROVE  Types'
<1>1. CASE Scan \/ Hang
  <2>1. Places' /\ WorkTyped'
      BY <1>1, ThreadsDiffer, ThreadNames DEF Types, Places, WorkTyped, Scan, Hang, Goes
  <2>2. DataTyped'
      BY <1>1 DEF Types, DataTyped, Scan, Hang, connVars, listVars, queueVars, timerVars, clientVars
  <2> QED
      BY <2>1, <2>2 DEF Types
<1>2. CASE Check
  <2>1. PICK e \in m_lsIdleList :
          /\ m_lsIdleList' = m_lsIdleList \ {e}
          /\ \/ UNCHANGED <<pc, work>>
             \/ Current(e) /\ Goes(Timer, "loop", "close") /\ Holds(Timer, e)
      BY <1>2 DEF Check
  <2>2. e \in TagSet
      BY DEF Types, DataTyped
  <2>3. Places' /\ WorkTyped'
      BY <2>1, <2>2, ThreadsDiffer, ThreadNames DEF Types, Places, WorkTyped, Goes, Holds
  <2>4. DataTyped'
      BY <1>2, <2>1 DEF Types, DataTyped, Check, connVars, listVars, queueVars, clientVars
  <2> QED
      BY <2>3, <2>4 DEF Types
<1> QED
    BY <1>1, <1>2

LEMMA SenderTypes ==
    ASSUME Types, SenderStep
    PROVE  Types'
<1>1. m_MsgSendQueue # <<>> =>
          Head(m_MsgSendQueue) \in TagSet /\ Tail(m_MsgSendQueue) \in Seq(TagSet)
    BY TailAt DEF Types, DataTyped
<1>2. Places' /\ WorkTyped'
    BY <1>1, ThreadsDiffer, ThreadNames
    DEF Types, Places, WorkTyped, SenderStep, StartPass, EraseStale, Send, Sent, EndPass,
        Goes, Holds, Drops
<1>3. iSendCount' \in [Conns -> Int]
  <2>1. CASE Send
    <3>1. /\ iSendCount' = [iSendCount EXCEPT ![Head(m_MsgSendQueue).conn] = @ - 1]
          /\ Head(m_MsgSendQueue).conn \in Conns
        BY <1>1, <2>1 DEF Send, TagSet
    <3> QED
        BY <3>1 DEF Types, DataTyped
  <2>2. CASE StartPass \/ EraseStale \/ Sent \/ EndPass
      BY <2>2 DEF Types, DataTyped, StartPass, EraseStale, Sent, EndPass, connVars
  <2> QED
      BY <2>1, <2>2 DEF SenderStep
<1>4. m_MsgSendQueue' \in Seq(TagSet)
    BY <1>1 DEF Types, DataTyped, SenderStep, StartPass, EraseStale, Send, Sent, EndPass,
        queueVars
<1>5. DataTyped'
    BY <1>3, <1>4 DEF Types, DataTyped, SenderStep, StartPass, EraseStale, Send, Sent, EndPass,
        connVars, listVars, queueVars, timerVars, clientVars
<1> QED
    BY <1>2, <1>5 DEF Types

LEMMA RecyclerTypes ==
    ASSUME Types, RecyclerStep
    PROVE  Types'
<1>1. CASE StartRecycling \/ EndRecycling
  <2>1. Places' /\ WorkTyped'
      BY <1>1, ThreadsDiffer, ThreadNames
      DEF Types, Places, WorkTyped, StartRecycling, EndRecycling, Goes
  <2>2. DataTyped'
      BY <1>1 DEF Types, DataTyped, StartRecycling, EndRecycling,
          connVars, listVars, queueVars, timerVars, clientVars
  <2> QED
      BY <2>1, <2>2 DEF Types
<1>2. CASE Recycle
  <2>1. PICK i \in DOMAIN m_recyconnectionList : Freed(i)
      BY <1>2 DEF Recycle
  <2>2. /\ m_recyconnectionList[i] \in Conns
        /\ RemoveAt(m_recyconnectionList, i) \in Seq(Conns)
      BY RemovedAt DEF Types, DataTyped
  <2>3. Places' /\ WorkTyped'
      BY <1>2 DEF Types, Places, WorkTyped, Recycle
  <2>4. iCurrsequence' \in [Conns -> Nat]
      BY <2>1, <2>2, SMTT(30) DEF Types, DataTyped, Freed
  <2>5. m_freeconnectionList' \in Seq(Conns) /\ m_recyconnectionList' \in Seq(Conns)
      BY <2>1, <2>2, AppendedAt DEF Types, DataTyped, Freed
  <2>6. DataTyped'
      BY <1>2, <2>4, <2>5 DEF Types, DataTyped, Recycle, queueVars, timerVars, clientVars
  <2> QED
      BY <2>3, <2>6 DEF Types
<1> QED
    BY <1>1, <1>2 DEF RecyclerStep

(* The steps of Next, by who takes them: every lemma below is used through this one. *)
LEMMA StepCases ==
    ASSUME [Next]_vars
    PROVE  \/ \E t \in Workers \cup {Main, Timer} : Closing(t)
           \/ AddTimer
           \/ \E c \in Conns : Accept(c) \/ Read(c) \/ Leave(c)
           \/ \E w \in Workers : Take(w) \/ Handle(w) \/ Queue(w) \/ CutOff(w) \/ Return(w)
           \/ Scan \/ Hang \/ Check
           \/ SenderStep
           \/ RecyclerStep
           \/ UNCHANGED vars
    BY DEF Next, MainStep, TimerStep, WorkerStep

LEMMA TypesStep == Types /\ [Next]_vars => Types'
<1> SUFFICES ASSUME Types, [Next]_vars PROVE Types'
    OBVIOUS
<1>1. CASE \E t \in Workers \cup {Main, Timer} : Closing(t)
    BY <1>1, ClosingTypes
<1>2. CASE \E c \in Conns : Accept(c) \/ Read(c) \/ Leave(c)
    BY <1>2, MainTypes
<1>3. CASE AddTimer
    BY <1>3, AddTimerTypes
<1>4. CASE \E w \in Workers : Take(w) \/ Handle(w) \/ Queue(w) \/ CutOff(w) \/ Return(w)
    BY <1>4, WorkerTypes
<1>5. CASE Scan \/ Hang \/ Check
    BY <1>5, TimerTypes
<1>6. CASE SenderStep
    BY <1>6, SenderTypes
<1>7. CASE RecyclerStep
    BY <1>7, RecyclerTypes
<1>8. CASE UNCHANGED vars
    BY <1>8 DEF Types, Places, WorkTyped, DataTyped, vars, connVars, listVars, queueVars,
        timerVars, clientVars
<1> QED
    BY <1>1, <1>2, <1>3, <1>4, <1>5, <1>6, <1>7, <1>8, StepCases

-----------------------------------------------------------------------------
(* Who owns a mutex. *)

LEMMA OwnersInit == Init => Owners
    BY MutexesDiffer DEF Init, Owners

LEMMA ClosingOwners ==
    ASSUME Types, Owners, NEW t \in Workers \cup {Main, Timer}, Closing(t)
    PROVE  Owners'
<1>1. CASE CloseSocket(t)
    BY <1>1, ThreadsDiffer, ThreadNames, MutexesDiffer
    DEF Types, Places, Owners, CloseSocket, Goes
<1>2. CASE CloseRecycle(t)
    BY <1>2, ThreadsDiffer, ThreadNames, MutexesDiffer
    DEF Types, Places, Owners, CloseRecycle, Goes
<1> QED
    BY <1>1, <1>2 DEF Closing

LEMMA MainOwners ==
    ASSUME Types, Owners, NEW c, AddTimer \/ Accept(c) \/ Read(c) \/ Leave(c)
    PROVE  Owners'
<1>1. owner' = owner
    BY DEF AddTimer, Accept, Read, Leave
<1>2. DOMAIN pc' = DOMAIN pc /\ \A t \in Threads : t # Main => pc'[t] = pc[t]
    BY ThreadNames DEF AddTimer, Accept, Read, Leave, Goes, Types, Places
<1> QED
    BY <1>1, <1>2, ThreadsDiffer, ThreadNames, MutexesDiffer DEF Owners, Types, Places

LEMMA WorkerOwners ==
    ASSUME Types, Owners, NEW w \in Workers,
           Take(w) \/ Handle(w) \/ Queue(w) \/ CutOff(w) \/ Return(w)
    PROVE  Owners'
<1>0. w \in Threads /\ w \notin {Main, Timer, Sender, Recycler, Nobody}
    BY ThreadsDiffer DEF Threads
<1>1. CASE Take(w)
    BY <1>0, <1>1, ThreadsDiffer, ThreadNames, MutexesDiffer
    DEF Types, Places, Owners, Take, Goes
<1>2. CASE Handle(w)
  <2>1. PICK p \in work[w] : Locks(w, p.conn)
      BY <1>2 DEF Handle
  <2>2. p.conn \in Conns
      BY <1>0 DEF Types, WorkTyped, TagSet
  <2> QED
      BY <1>0, <1>2, <2>1, <2>2, ThreadsDiffer, ThreadNames, MutexesDiffer
      DEF Types, Places, Owners, Handle, Goes, Locks
<1>3. CASE Queue(w)
    BY <1>0, <1>3, ThreadsDiffer, ThreadNames, MutexesDiffer
    DEF Types, Places, Owners, Queue, Goes, Unlocks
<1>4. CASE CutOff(w)
    BY <1>0, <1>4, ThreadsDiffer, ThreadNames, MutexesDiffer
    DEF Types, Places, Owners, CutOff, Goes, Locks
<1>5. CASE Return(w)
    BY <1>0, <1>5, ThreadsDiffer, ThreadNames, MutexesDiffer
    DEF Types, Places, Owners, Return, Goes, Unlocks
<1> QED
    BY <1>1, <1>2, <1>3, <1>4, <1>5

LEMMA OtherOwners ==
    ASSUME Types, Owners,
           Scan \/ Hang \/ Check \/ SenderStep \/ RecyclerStep \/ UNCHANGED vars
    PROVE  Owners'
<1>1. CASE Scan \/ Hang \/ Check
    BY <1>1, ThreadsDiffer, ThreadNames, MutexesDiffer
    DEF Types, Places, Owners, Scan, Hang, Check, Goes, Locks
<1>2. CASE StartPass
    BY <1>2, ThreadsDiffer, ThreadNames, MutexesDiffer
    DEF Types, Places, Owners, StartPass, Goes, Locks
<1>3. CASE EraseStale \/ Send \/ Sent
    BY <1>3, ThreadsDiffer, ThreadNames, MutexesDiffer
    DEF Types, Places, Owners, EraseStale, Send, Sent, Goes
<1>4. CASE EndPass
    BY <1>4, ThreadsDiffer, ThreadNames, MutexesDiffer
    DEF Types, Places, Owners, EndPass, Goes, Unlocks
<1>5. CASE StartRecycling
    BY <1>5, ThreadsDiffer, ThreadNames, MutexesDiffer
    DEF Types, Places, Owners, StartRecycling, Goes, Locks
<1>6. CASE Recycle
    BY <1>6 DEF Owners, Recycle
<1>7. CASE EndRecycling
    BY <1>7, ThreadsDiffer, ThreadNames, MutexesDiffer
    DEF Types, Places, Owners, EndRecycling, Goes, Unlocks
<1>8. CASE UNCHANGED vars
    BY <1>8 DEF Owners, vars
<1> QED
    BY <1>1, <1>2, <1>3, <1>4, <1>5, <1>6, <1>7, <1>8 DEF SenderStep, RecyclerStep

LEMMA OwnersStep == Types /\ Owners /\ [Next]_vars => Owners'
<1> SUFFICES ASSUME Types, Owners, [Next]_vars PROVE Owners'
    OBVIOUS
<1>1. CASE \E t \in Workers \cup {Main, Timer} : Closing(t)
    BY <1>1, ClosingOwners
<1>2. CASE \E c \in Conns : Accept(c) \/ Read(c) \/ Leave(c)
    BY <1>2, MainOwners
<1>3. CASE AddTimer
    BY <1>3, MainOwners
<1>4. CASE \E w \in Workers : Take(w) \/ Handle(w) \/ Queue(w) \/ CutOff(w) \/ Return(w)
    BY <1>4, WorkerOwners
<1> QED
    BY <1>1, <1>2, <1>3, <1>4, OtherOwners, StepCases

(* How long the chain of threads is that a thread can wait for: none, ... *)
Waiter(t) ==
    IF pc[t] = "logic" THEN 3
    ELSE IF pc[t] = "send" \/ (t = Sender /\ pc[t] = "loop") THEN 2
    ELSE IF pc[t] \in {"close", "recycle", "addTimer"} \/ (t \in {Recycler, Timer} /\ pc[t] = "loop")
    THEN 1 ELSE 0

(* A thread waits for threads with a shorter chain only. *)
LEMMA WaitsDown ==
    ASSUME Types, Owners, NEW t \in Threads, NEW u \in WaitsFor(t)
    PROVE  u \in Threads /\ Waiter(u) < Waiter(t)
<1>1. PICK m \in Wants(t) : u = owner[m] /\ u # Nobody
    BY DEF WaitsFor
<1>2. CASE pc[t] = "logic"
  <2>1. t \in Workers
      BY <1>2, ThreadsDiffer DEF Types, Places, Threads
  <2>2. Wants(t) = {p.conn : p \in work[t]}
      BY <1>2 DEF Wants
  <2>3. work[t] \in SUBSET TagSet
      BY <2>1, ThreadsDiffer DEF Types, WorkTyped, Threads
  <2>4. m \in Conns
      BY <1>1, <2>2, <2>3 DEF TagSet
  <2>5. u \in Workers /\ pc[u] \in {"send", "close", "recycle", "unlock"}
      BY <1>1, <2>4 DEF Owners
  <2>6. Waiter(t) = 3 /\ Waiter(u) \in {0, 1, 2}
      BY <1>2, <2>5 DEF Waiter
  <2> QED
      BY <2>5, <2>6, ThreadNames
<1>3. CASE m = SendMutex /\ (pc[t] = "send" \/ (t = Sender /\ pc[t] = "loop"))
  <2>1. u = owner[SendMutex] /\ u # Nobody
      BY <1>1, <1>3
  <2>2. \/ u \in Workers /\ pc[u] \in {"close", "recycle", "unlock"}
        \/ u = Sender /\ pc[u] \in {"pass", "sendproc"}
      BY <2>1 DEF Owners
  <2>3. Waiter(t) = 2 /\ Waiter(u) \in {0, 1}
      BY <1>3, <2>2, ThreadsDiffer DEF Waiter
  <2> QED
      BY <2>2, <2>3, ThreadNames
<1>4. CASE /\ m \in {TimeMutex, RecyMutex} /\ pc[t] # "logic" /\ pc[t] # "send" /\ t # Sender
           /\ \/ pc[t] \in {"close", "recycle", "addTimer"}
              \/ t \in {Recycler, Timer} /\ pc[t] = "loop"
  <2>1. \/ u = Timer /\ pc[u] = "hung"
        \/ u = Recycler /\ pc[u] = "recycling"
      BY <1>1, <1>4 DEF Owners
  <2>2. Waiter(t) = 1 /\ Waiter(u) = 0
      BY <1>4, <2>1, ThreadsDiffer DEF Waiter
  <2> QED
      BY <2>1, <2>2, ThreadNames
<1> QED
    BY <1>1, <1>2, <1>3, <1>4, ThreadsDiffer DEF Wants, Types, Places

(* Of some threads one has the shortest chain, and waits for no other of them. *)
LEMMA NobodyInACircle == Types /\ Owners => NoCircularWait
<1> SUFFICES ASSUME Types, Owners, NEW S \in (SUBSET Threads) \ {{}}
             PROVE  \E t \in S : WaitsFor(t) \cap S = {}
    BY DEF NoCircularWait
<1>1. \A t \in S : Waiter(t) \in {0, 1, 2, 3}
    BY DEF Waiter
<1>2. \A t \in S : \A u \in WaitsFor(t) \cap S : Waiter(u) < Waiter(t)
    BY WaitsDown
<1>3. CASE \E t \in S : Waiter(t) = 0
    BY <1>1, <1>2, <1>3
<1>4. CASE (\A t \in S : Waiter(t) # 0) /\ \E t \in S : Waiter(t) = 1
    BY <1>1, <1>2, <1>4
<1>5. CASE (\A t \in S : Waiter(t) \notin {0, 1}) /\ \E t \in S : Waiter(t) = 2
    BY <1>1, <1>2, <1>5
<1>6. CASE \A t \in S : Waiter(t) \notin {0, 1, 2}
  <2>1. PICK t \in S : TRUE
      OBVIOUS
  <2>2. Waiter(t) = 3
      BY <1>1, <1>6, <2>1
  <2>3. \A u \in WaitsFor(t) \cap S : FALSE
      BY <1>1, <1>2, <1>6, <2>1, <2>2
  <2> QED
      BY <2>1, <2>3
<1> QED
    BY <1>3, <1>4, <1>5, <1>6

(* No threads wait for one another in a circle, whoever closes a connection       *)
(* (zdClosesocketProc from inside msgSend, ngx_c_socket.cpp:325).                 *)
THEOREM NobodyWaitsInACircle == Spec => []NoCircularWait
<1>1. Init => Types /\ Owners
    BY TypesInit, OwnersInit
<1>2. (Types /\ Owners) /\ [Next]_vars => (Types /\ Owners)'
    BY TypesStep, OwnersStep
<1> QED
    BY <1>1, <1>2, NobodyInACircle, PTL DEF Spec

(* Every thread stays where its code can be, with what it can have in its hands, and *)
(* the data that the threads share keep their types (_include/ngx_c_socket.h).       *)
THEOREM TypeCorrect == Spec => []Types
<1>1. Types /\ [Next]_vars => Types'
    BY TypesStep
<1> QED
    BY <1>1, TypesInit, PTL DEF Spec

-----------------------------------------------------------------------------
(* Whose client a tag is. *)

LEMMA InTyped ==
    ASSUME NEW S, NEW q \in Seq(S), NEW c, In(q, c)
    PROVE  c \in S
    BY DEF In, Range

LEMMA TagTyped ==
    ASSUME Types, NEW p, UnderWay(p)
    PROVE  p \in TagSet /\ p.conn \in Conns /\ p.iCurrsequence \in Nat /\ p.client \in Nat
<1>1. p \in TagSet
  <2>1. CASE In(m_MsgRecvQueue, p) \/ In(m_MsgSendQueue, p)
      BY <2>1, InTyped DEF Types, DataTyped
  <2>2. CASE p \in m_timerQueuemap \/ p \in m_lsIdleList
      BY <2>2 DEF Types, DataTyped
  <2>3. CASE \E t \in Threads : Tagging(t) /\ p \in work[t]
      BY <2>3 DEF Types, WorkTyped, Tagging
  <2> QED
      BY <2>1, <2>2, <2>3 DEF UnderWay
<1> QED
    BY <1>1 DEF TagSet

\* What most steps leave alone: which client has which connection, and the lists.
core == <<iCurrsequence, client, clients, listVars, gone, twice>>

\* A tag made now.
New(p) == \E c \in m_connectionList : client[c] # 0 /\ p = Tagged(c)

LEMMA NewFits ==
    ASSUME Types, ClientsKnown, NEW p, New(p)
    PROVE  TagFits(p)
<1>1. PICK c \in m_connectionList : client[c] # 0 /\ p = Tagged(c)
    BY DEF New
<1>2. c \in Conns /\ client[c] \in Nat /\ iCurrsequence[c] \in Nat /\ clients \in Nat
    BY DEF Types, DataTyped
<1>3. p.conn = c /\ p.client = client[c] /\ p.iCurrsequence = iCurrsequence[c]
    BY <1>1 DEF Tagged
<1>4. client[c] \in 1 .. clients
    BY <1>1, <1>2 DEF ClientsKnown
<1>5. \A d \in Conns : client[d] = client[c] => d = c
    BY <1>1, <1>2 DEF ClientsKnown
<1> QED
    BY <1>1, <1>2, <1>3, <1>4, <1>5 DEF TagFits

(* A step that leaves core alone makes no tag but of connections in use. *)
LEMMA QuietKept ==
    ASSUME Types, Kept, UNCHANGED core, open' \subseteq open,
           \A p : UnderWay(p)' => UnderWay(p) \/ New(p),
           \A p : Answered(p)' => Answered(p) \/ \E c \in open : p = Tagged(c)
    PROVE  AllTagsFit' /\ ClientsKnown' /\ ListsApart' /\ AnswersKept'
<1>1. \A p : TagFits(p) => TagFits(p)'
    BY DEF TagFits, Current, core, listVars
<1>2. AllTagsFit'
    BY <1>1, NewFits DEF Kept, AllTagsFit
<1>3. ClientsKnown'
    BY DEF Kept, ClientsKnown, core, listVars
<1>4. ListsApart'
    BY DEF Kept, ListsApart, core, listVars
<1>5. \A p : NotFree(p) => NotFree(p)'
    BY DEF NotFree, Current, core, listVars
<1>6. ASSUME NEW c \in open PROVE NotFree(Tagged(c))
  <2>1. Tagged(c).conn = c /\ c \in Conns
      BY DEF Tagged, Types, DataTyped
  <2> QED
      BY <2>1 DEF NotFree, Kept, ListsApart
<1>7. AnswersKept'
    BY <1>5, <1>6 DEF Kept, AnswersKept
<1> QED
    BY <1>2, <1>3, <1>4, <1>7

(* An open connection, and that of a tag, are in use: a tag can be made. *)
LEMMA OpenNew ==
    ASSUME Types, ClientsKnown, NEW c \in open
    PROVE  New(Tagged(c))
    BY DEF ClientsKnown, New

LEMMA AgainNew ==
    ASSUME Types, AllTagsFit, NEW p, UnderWay(p)
    PROVE  New(Tagged(p.conn))
    BY DEF AllTagsFit, TagFits, New

(* Who starts to close a connection, with a tag made now or not stale, finds it in *)
(* no list.                                                                        *)
LEMMA StartsFirst ==
    ASSUME Types, Kept, NEW p, TagFits(p), Current(p), p.conn \in Conns, First(p)
    PROVE  Unlisted(p)
<1>1. p.client = client[p.conn] /\ client[p.conn] # 0 /\ client[p.conn] \notin gone
    BY DEF TagFits, First
<1>2. ~In(m_freeconnectionList, p.conn) /\ ~In(m_recyconnectionList, p.conn)
    BY <1>1 DEF Kept, ListsApart, First
<1> QED
    BY <1>1, <1>2 DEF Unlisted

(* Others close as before. *)
LEMMA ClosersGoOn ==
    ASSUME Types, Kept, UNCHANGED core, open' \subseteq open,
           \A t \in Threads : \A p \in work'[t] : Closes(t, p)' /\ First(p) =>
               \/ Closes(t, p) /\ (pc'[t] = "recycle" => pc[t] = "recycle" \/ p.conn \notin open')
               \/ pc'[t] # "recycle" /\ Unlisted(p)
    PROVE  ClosersKnow'
<1>1. \A p : (First(p)' <=> First(p)) /\ (Unlisted(p)' <=> Unlisted(p))
    BY DEF First, Unlisted, core, listVars
<1> SUFFICES ASSUME NEW t \in Threads, NEW p \in work'[t], Closes(t, p)', First(p)
             PROVE  Unlisted(p) /\ (pc'[t] = "recycle" => p.conn \notin open')
    BY <1>1 DEF ClosersKnow
<1>2. Closes(t, p) => p \in work[t]
    BY DEF Closes
<1> QED
    BY <1>2 DEF Kept, ClosersKnow

(* All that a step has to show which leaves core alone. *)
NoOtherTags == \A p : UnderWay(p)' => UnderWay(p) \/ New(p)
NoOtherAnswers == \A p : Answered(p)' => Answered(p) \/ \E c \in open : p = Tagged(c)
NoOtherClosers ==
    \A t \in Threads : \A p \in work'[t] : Closes(t, p)' /\ First(p) =>
        \/ Closes(t, p) /\ (pc'[t] = "recycle" => pc[t] = "recycle" \/ p.conn \notin open')
        \/ pc'[t] # "recycle" /\ Unlisted(p)
NoOtherSent ==
    \A r \in work'[Sender] : r \in work[Sender] \/ (In(m_MsgSendQueue, r) /\ Current(r))

LEMMA QuietStep ==
    ASSUME Types, Kept, UNCHANGED core, open' \subseteq open, HandsKnown',
           NoOtherTags, NoOtherAnswers, NoOtherClosers, NoOtherSent
    PROVE  Kept'
<1>1. AllTagsFit' /\ ClientsKnown' /\ ListsApart' /\ AnswersKept'
    BY QuietKept DEF NoOtherTags, NoOtherAnswers
<1>2. ClosersKnow'
    BY ClosersGoOn DEF NoOtherClosers
<1>3. ASSUME NEW r, In(m_MsgSendQueue, r), Current(r), r.conn \notin twice
      PROVE  r.client = client[r.conn] /\ ~In(m_freeconnectionList, r.conn)
  <2>1. TagFits(r)
      BY <1>3 DEF Kept, AllTagsFit, UnderWay
  <2>2. NotFree(r)
      BY <1>3 DEF Kept, AnswersKept, Answered
  <2> QED
      BY <1>3, <2>1, <2>2 DEF TagFits, NotFree
<1>4. SentKept'
    BY <1>3 DEF Kept, SentKept, core, listVars, NoOtherSent
<1> QED
    BY <1>1, <1>2, <1>4 DEF Kept

LEMMA CloseSocketKept ==
    ASSUME Types, Kept, NEW t \in Workers \cup {Main, Timer}, CloseSocket(t)
    PROVE  Kept'
<1>0. t \in Threads /\ t # Sender
    BY ThreadsDiffer DEF Threads
<1>1. UNCHANGED core /\ open' \subseteq open /\ work' = work
    BY DEF CloseSocket, core, clientVars
<1>2. /\ pc[t] = "close" /\ pc'[t] = "recycle"
      /\ \A u \in Threads : u # t => pc'[u] = pc[u]
    BY <1>0 DEF CloseSocket, Goes, Types, Places
<1>3. HandsKnown'
    BY <1>1, <1>2, ThreadNames DEF Kept, HandsKnown, Tagging, core, listVars
<1>4. NoOtherTags
    BY <1>1, <1>2, ThreadNames DEF NoOtherTags, UnderWay, Tagging, CloseSocket, queueVars
<1>5. NoOtherAnswers
    BY <1>1, <1>2, ThreadNames DEF NoOtherAnswers, Answered, CloseSocket, queueVars
<1>6. \A p \in work[t] : p.conn \notin open'
    BY <1>0 DEF CloseSocket, Kept, HandsKnown
<1>7. NoOtherClosers
    BY <1>1, <1>2, <1>6 DEF NoOtherClosers, Closes
<1> QED
    BY <1>1, <1>3, <1>4, <1>5, <1>7, QuietStep DEF NoOtherSent

LEMMA AddTimerKept ==
    ASSUME Types, Kept, AddTimer
    PROVE  Kept'
<1>1. UNCHANGED core /\ open' = open
    BY DEF AddTimer, core, connVars, clientVars
<1>2. /\ pc[Main] = "addTimer" /\ pc'[Main] = "loop" /\ work'[Main] = {}
      /\ \A u \in Threads : u # Main => pc'[u] = pc[u] /\ work'[u] = work[u]
    BY ThreadNames DEF AddTimer, Goes, Drops, Types, Places, WorkTyped
<1>3. PICK q \in work[Main] : m_timerQueuemap' = m_timerQueuemap \cup {Tagged(q.conn)}
    BY DEF AddTimer
<1>4. New(Tagged(q.conn))
    BY <1>2, <1>3 DEF Kept, HandsKnown, Tagging, New
<1>5. HandsKnown'
    BY <1>1, <1>2, ThreadNames DEF Kept, HandsKnown, Tagging
<1>6. NoOtherTags
    BY <1>2, <1>3, <1>4, ThreadsDiffer, ThreadNames DEF NoOtherTags, UnderWay, Tagging, AddTimer, queueVars
<1>7. NoOtherAnswers
    BY <1>2, ThreadsDiffer, ThreadNames DEF NoOtherAnswers, Answered, AddTimer, queueVars
<1>8. NoOtherClosers
    BY <1>2 DEF NoOtherClosers, Closes
<1>9. NoOtherSent
    BY <1>2, ThreadsDiffer, ThreadNames DEF NoOtherSent
<1> QED
    BY <1>1, <1>5, <1>6, <1>7, <1>8, <1>9, QuietStep

LEMMA ReadKept ==
    ASSUME Types, Kept, NEW c \in Conns, Read(c)
    PROVE  Kept'
<1>1. UNCHANGED core /\ open' = open /\ pc' = pc /\ work' = work
    BY DEF Read, core, connVars, clientVars
<1>2. c \in open /\ Tagged(c) \in TagSet
    BY DEF Read, Tagged, TagSet, Types, DataTyped
<1>3. \A p : In(m_MsgRecvQueue', p) => In(m_MsgRecvQueue, p) \/ p = Tagged(c)
    BY <1>2, AppendIn DEF Read, Types, DataTyped
<1>4. New(Tagged(c))
    BY <1>2, OpenNew DEF Kept
<1>5. HandsKnown'
    BY <1>1 DEF Kept, HandsKnown, Tagging, core, listVars
<1>6. NoOtherTags
    BY <1>1, <1>3, <1>4 DEF NoOtherTags, UnderWay, Tagging, Read, timerVars
<1>7. NoOtherAnswers
    BY <1>1, <1>2, <1>3 DEF NoOtherAnswers, Answered, Read
<1>8. NoOtherClosers
    BY <1>1 DEF NoOtherClosers, Closes
<1> QED
    BY <1>1, <1>5, <1>6, <1>7, <1>8, QuietStep DEF NoOtherSent

LEMMA LeaveKept ==
    ASSUME Types, Kept, NEW c \in Conns, Leave(c)
    PROVE  Kept'
<1>1. UNCHANGED core /\ open' = open
    BY DEF Leave, core, connVars, clientVars
<1>2. /\ pc[Main] = "loop" /\ pc'[Main] = "close" /\ work'[Main] = {Tagged(c)}
      /\ \A u \in Threads : u # Main => pc'[u] = pc[u] /\ work'[u] = work[u]
    BY ThreadNames DEF Leave, Goes, Holds, Types, Places, WorkTyped
<1>3. c \in open /\ New(Tagged(c))
    BY OpenNew DEF Leave, Kept
<1>4. HandsKnown'
    BY <1>1, <1>2, ThreadNames DEF Kept, HandsKnown, Tagging
<1>5. NoOtherTags
    BY <1>2, <1>3, ThreadsDiffer, ThreadNames DEF NoOtherTags, UnderWay, Tagging, Leave, queueVars, timerVars
<1>6. NoOtherAnswers
    BY <1>2, ThreadsDiffer, ThreadNames DEF NoOtherAnswers, Answered, Leave, queueVars
<1>7. First(Tagged(c)) => Unlisted(Tagged(c))
  <2>1. TagFits(Tagged(c)) /\ Current(Tagged(c)) /\ Tagged(c).conn \in Conns
      BY <1>3, NewFits DEF Kept, Current, Tagged
  <2> QED
      BY <2>1, StartsFirst
<1>8. NoOtherClosers
    BY <1>2, <1>7 DEF NoOtherClosers, Closes
<1>9. NoOtherSent
    BY <1>2, ThreadsDiffer, ThreadNames DEF NoOtherSent
<1> QED
    BY <1>1, <1>4, <1>5, <1>6, <1>8, <1>9, QuietStep

LEMMA TakeKept ==
    ASSUME Types, Kept, NEW w \in Workers, Take(w)
    PROVE  Kept'
<1> DEFINE h == Head(m_MsgRecvQueue)
<1>0. w \in Threads /\ w \notin {Main, Timer, Sender, Recycler}
    BY ThreadsDiffer DEF Threads
<1>1. UNCHANGED core /\ open' = open
    BY DEF Take, core, connVars, clientVars
<1>2. /\ In(m_MsgRecvQueue, h)
      /\ \A p : In(m_MsgRecvQueue', p) => In(m_MsgRecvQueue, p)
    BY TailIn DEF Take, Types, DataTyped
<1>3. /\ \A u \in Threads : u # w => pc'[u] = pc[u] /\ work'[u] = work[u]
      /\ \/ pc'[w] = "logic" /\ work'[w] = {h}
         \/ pc'[w] = "loop" /\ work'[w] = work[w]
    BY <1>0 DEF Take, Goes, Holds, Types, Places, WorkTyped
<1> HIDE DEF h
<1>4. HandsKnown'
    BY <1>0, <1>1, <1>3, ThreadNames DEF Kept, HandsKnown, Tagging, core, listVars
<1>5. NoOtherTags
    BY <1>0, <1>2, <1>3, ThreadNames DEF NoOtherTags, UnderWay, Tagging, Take, timerVars
<1>6. NoOtherAnswers
    BY <1>0, <1>2, <1>3, ThreadNames DEF NoOtherAnswers, Answered, Take
<1>7. NoOtherClosers
    BY <1>3 DEF NoOtherClosers, Closes
<1>8. NoOtherSent
    BY <1>0, <1>3, ThreadNames DEF NoOtherSent
<1> QED
    BY <1>1, <1>4, <1>5, <1>6, <1>7, <1>8, QuietStep

LEMMA HandleKept ==
    ASSUME Types, Kept, NEW w \in Workers, Handle(w)
    PROVE  Kept'
<1>0. w \in Threads /\ w \notin {Main, Timer, Sender, Recycler}
    BY ThreadsDiffer DEF Threads
<1>1. UNCHANGED core /\ open' = open /\ work' = work
    BY DEF Handle, core, connVars, clientVars
<1>2. /\ pc[w] = "logic" /\ pc'[w] = "send"
      /\ \A u \in Threads : u # w => pc'[u] = pc[u]
    BY <1>0 DEF Handle, Goes, Types, Places
<1>3. HandsKnown'
    BY <1>0, <1>1, <1>2, ThreadNames DEF Kept, HandsKnown, Tagging, core, listVars
<1>4. NoOtherTags
    BY <1>0, <1>1, <1>2, ThreadNames DEF NoOtherTags, UnderWay, Tagging, Handle, queueVars, timerVars
<1>5. NoOtherAnswers
    BY <1>0, <1>1, <1>2, ThreadNames DEF NoOtherAnswers, Answered, Handle, queueVars
<1>6. NoOtherClosers
    BY <1>1, <1>2 DEF NoOtherClosers, Closes
<1>7. NoOtherSent
    BY <1>1 DEF NoOtherSent
<1> QED
    BY <1>1, <1>3, <1>4, <1>5, <1>6, <1>7, QuietStep

LEMMA QueueKept ==
    ASSUME Types, Kept, NEW w \in Workers, Queue(w)
    PROVE  Kept'
<1>0. w \in Threads /\ w \notin {Main, Timer, Sender, Recycler}
    BY ThreadsDiffer DEF Threads
<1>1. UNCHANGED core /\ open' = open
    BY DEF Queue, core, clientVars
<1>2. /\ pc[w] = "send" /\ pc'[w] = "loop" /\ work'[w] = {}
      /\ \A u \in Threads : u # w => pc'[u] = pc[u] /\ work'[u] = work[u]
    BY <1>0 DEF Queue, Goes, Drops, Types, Places, WorkTyped
<1>3. PICK q \in work[w] : m_MsgSendQueue' = Append(m_MsgSendQueue, q)
    BY DEF Queue
<1>4. q \in TagSet
    BY <1>0 DEF Types, WorkTyped
<1>5. \A p : In(m_MsgSendQueue', p) => In(m_MsgSendQueue, p) \/ p = q
    BY <1>3, <1>4, AppendIn DEF Types, DataTyped
<1>6. HandsKnown'
    BY <1>0, <1>1, <1>2, ThreadNames DEF Kept, HandsKnown, Tagging, core, listVars
<1>7. UnderWay(q) /\ Answered(q)
    BY <1>0, <1>2, <1>3 DEF UnderWay, Tagging, Answered
<1>8. NoOtherTags
    BY <1>0, <1>2, <1>5, <1>7, ThreadNames DEF NoOtherTags, UnderWay, Tagging, Queue, timerVars
<1>9. NoOtherAnswers
    BY <1>0, <1>2, <1>5, <1>7, ThreadNames DEF NoOtherAnswers, Answered, Queue
<1>10. NoOtherClosers
    BY <1>2 DEF NoOtherClosers, Closes
<1>11. NoOtherSent
    BY <1>0, <1>2, ThreadNames DEF NoOtherSent
<1> QED
    BY <1>1, <1>6, <1>8, <1>9, <1>10, <1>11, QuietStep

LEMMA CutOffKept ==
    ASSUME Types, Kept, NEW w \in Workers, CutOff(w)
    PROVE  Kept'
<1>0. w \in Threads /\ w \notin {Main, Timer, Sender, Recycler}
    BY ThreadsDiffer DEF Threads
<1>1. UNCHANGED core /\ open' = open
    BY DEF CutOff, core, connVars, clientVars
<1>2. PICK q \in work[w] : Holds(w, Tagged(q.conn))
    BY DEF CutOff
<1>3. /\ pc[w] = "send" /\ pc'[w] = "close" /\ work'[w] = {Tagged(q.conn)}
      /\ \A u \in Threads : u # w => pc'[u] = pc[u] /\ work'[u] = work[u]
    BY <1>0, <1>2 DEF CutOff, Goes, Holds, Types, Places, WorkTyped
<1>4. UnderWay(q)
    BY <1>0, <1>2 DEF UnderWay, Tagging
<1>5. New(Tagged(q.conn)) /\ q.conn \in Conns
    BY <1>4, AgainNew, TagTyped DEF Kept
<1>6. HandsKnown'
    BY <1>0, <1>1, <1>3, ThreadNames DEF Kept, HandsKnown, Tagging, core, listVars
<1>7. NoOtherTags
    BY <1>0, <1>3, <1>5, ThreadNames
    DEF NoOtherTags, UnderWay, Tagging, CutOff, queueVars, timerVars
<1>8. NoOtherAnswers
    BY <1>0, <1>3, ThreadNames DEF NoOtherAnswers, Answered, CutOff, queueVars
<1>9. First(Tagged(q.conn)) => Unlisted(Tagged(q.conn))
  <2>1. /\ TagFits(Tagged(q.conn)) /\ Current(Tagged(q.conn))
        /\ Tagged(q.conn).conn \in Conns
      BY <1>5, NewFits DEF Kept, Current, Tagged
  <2> QED
      BY <2>1, StartsFirst
<1>10. NoOtherClosers
    BY <1>3, <1>9 DEF NoOtherClosers, Closes
<1>11. NoOtherSent
    BY <1>0, <1>3, ThreadNames DEF NoOtherSent
<1> QED
    BY <1>1, <1>6, <1>7, <1>8, <1>10, <1>11, QuietStep

LEMMA ReturnKept ==
    ASSUME Types, Kept, NEW w \in Workers, Return(w)
    PROVE  Kept'
<1>0. w \in Threads /\ w \notin {Main, Timer, Sender, Recycler}
    BY ThreadsDiffer DEF Threads
<1>1. UNCHANGED core /\ open' = open /\ work' = work
    BY DEF Return, core, connVars, clientVars
<1>2. pc'[w] = "loop" /\ \A u \in Threads : u # w => pc'[u] = pc[u]
    BY <1>0 DEF Return, Goes, Types, Places
<1>3. HandsKnown'
    BY <1>0, <1>1, <1>2, ThreadNames DEF Kept, HandsKnown, Tagging, core, listVars
<1>4. NoOtherTags
    BY <1>0, <1>1, <1>2, ThreadNames DEF NoOtherTags, UnderWay, Tagging, Return, queueVars, timerVars
<1>5. NoOtherAnswers
    BY <1>0, <1>1, <1>2, ThreadNames DEF NoOtherAnswers, Answered, Return, queueVars
<1>6. NoOtherClosers
    BY <1>1, <1>2 DEF NoOtherClosers, Closes
<1>7. NoOtherSent
    BY <1>1 DEF NoOtherSent
<1> QED
    BY <1>1, <1>3, <1>4, <1>5, <1>6, <1>7, QuietStep

LEMMA TimerKept ==
    ASSUME Types, Kept, Scan \/ Hang \/ Check
    PROVE  Kept'
<1>1. UNCHANGED core /\ open' = open
    BY DEF Scan, Hang, Check, core, connVars, clientVars
<1>2. /\ \A u \in Threads : u # Timer => pc'[u] = pc[u] /\ work'[u] = work[u]
      /\ m_timerQueuemap' = m_timerQueuemap /\ UNCHANGED queueVars
      /\ \A e \in m_lsIdleList' : e \in m_timerQueuemap \cup m_lsIdleList
    BY ThreadNames DEF Scan, Hang, Check, Goes, Holds, Types, Places, WorkTyped, timerVars
<1>3. \/ pc'[Timer] # "close" /\ pc'[Timer] # "recycle" /\ work'[Timer] = work[Timer]
      \/ pc'[Timer] = pc[Timer] /\ work'[Timer] = work[Timer]
      \/ /\ pc'[Timer] = "close"
         /\ \E e \in m_lsIdleList : Current(e) /\ work'[Timer] = {e}
    BY ThreadNames DEF Scan, Hang, Check, Goes, Holds, Types, Places, WorkTyped
<1>4. HandsKnown'
    BY <1>1, <1>2, <1>3, ThreadsDiffer, ThreadNames DEF Kept, HandsKnown, Tagging, core, listVars
<1>5. NoOtherTags
    BY <1>2, <1>3, ThreadsDiffer, ThreadNames DEF NoOtherTags, UnderWay, Tagging, queueVars
<1>6. NoOtherAnswers
    BY <1>2, ThreadsDiffer, ThreadNames DEF NoOtherAnswers, Answered, queueVars
<1>7. \A e \in m_lsIdleList : Current(e) /\ First(e) => Unlisted(e)
  <2> SUFFICES ASSUME NEW e \in m_lsIdleList, Current(e), First(e) PROVE Unlisted(e)
      OBVIOUS
  <2>1. UnderWay(e)
      BY DEF UnderWay
  <2>2. TagFits(e) /\ e.conn \in Conns
      BY <2>1, TagTyped DEF Kept, AllTagsFit
  <2> QED
      BY <2>2, StartsFirst
<1>8. NoOtherClosers
    BY <1>2, <1>3, <1>7 DEF NoOtherClosers, Closes
<1>9. NoOtherSent
    BY <1>2, ThreadsDiffer, ThreadNames DEF NoOtherSent
<1> QED
    BY <1>1, <1>4, <1>5, <1>6, <1>8, <1>9, QuietStep

LEMMA SenderKept ==
    ASSUME Types, Kept, SenderStep
    PROVE  Kept'
<1> DEFINE h == Head(m_MsgSendQueue)
<1>1. UNCHANGED core /\ open' = open
    BY DEF SenderStep, StartPass, EraseStale, Send, Sent, EndPass, core, connVars, clientVars
<1>2. m_MsgSendQueue # <<>> =>
          /\ In(m_MsgSendQueue, h)
          /\ \A p : In(Tail(m_MsgSendQueue), p) => In(m_MsgSendQueue, p)
    BY TailIn DEF Types, DataTyped
<1>3. /\ \A u \in Threads : u # Sender => pc'[u] = pc[u] /\ work'[u] = work[u]
      /\ m_MsgRecvQueue' = m_MsgRecvQueue /\ UNCHANGED timerVars
      /\ \/ m_MsgSendQueue' = m_MsgSendQueue
         \/ m_MsgSendQueue # <<>> /\ m_MsgSendQueue' = Tail(m_MsgSendQueue)
      /\ \/ work'[Sender] \in {work[Sender], {}}
         \/ work'[Sender] = {h} /\ m_MsgSendQueue # <<>> /\ Current(h)
    BY ThreadNames
    DEF SenderStep, StartPass, EraseStale, Send, Sent, EndPass, Goes, Holds, Drops,
        Types, Places, WorkTyped, queueVars
<1>4. pc'[Sender] \in {"loop", "pass", "sendproc"}
    BY TypesStep, SenderTypes DEF Types, Places
<1> HIDE DEF h
<1>5. \A p : In(m_MsgSendQueue', p) => In(m_MsgSendQueue, p)
    BY <1>2, <1>3
<1>6. \A p \in work'[Sender] : p \in work[Sender] \/ (In(m_MsgSendQueue, p) /\ Current(p))
    BY <1>2, <1>3
<1>7. HandsKnown'
    BY <1>1, <1>3, ThreadsDiffer, ThreadNames DEF Kept, HandsKnown, Tagging, core, listVars
<1>8. NoOtherTags
    BY <1>3, <1>5, <1>6, ThreadsDiffer, ThreadNames DEF NoOtherTags, UnderWay, Tagging, timerVars
<1>9. NoOtherAnswers
    BY <1>3, <1>5, ThreadsDiffer, ThreadNames DEF NoOtherAnswers, Answered
<1>10. NoOtherClosers
    BY <1>3, <1>4 DEF NoOtherClosers, Closes
<1>11. NoOtherSent
    BY <1>6 DEF NoOtherSent
<1> QED
    BY <1>1, <1>7, <1>8, <1>9, <1>10, <1>11, QuietStep

LEMMA IdleKept ==
    ASSUME Types, Kept, StartRecycling \/ EndRecycling \/ UNCHANGED vars
    PROVE  Kept'
<1>1. UNCHANGED core /\ open' = open /\ work' = work /\ UNCHANGED <<queueVars, timerVars>>
    BY DEF StartRecycling, EndRecycling, vars, core, connVars, clientVars
<1>2. /\ \A u \in Threads : u # Recycler => pc'[u] = pc[u]
      /\ pc'[Recycler] = pc[Recycler] \/ pc'[Recycler] \in {"loop", "recycling"}
    BY ThreadNames DEF StartRecycling, EndRecycling, Goes, Types, Places, vars
<1>3. HandsKnown'
    BY <1>1, <1>2, ThreadsDiffer, ThreadNames DEF Kept, HandsKnown, Tagging, core, listVars
<1>4. NoOtherTags
    BY <1>1, <1>2, ThreadsDiffer, ThreadNames DEF NoOtherTags, UnderWay, Tagging, queueVars, timerVars
<1>5. NoOtherAnswers
    BY <1>1, <1>2, ThreadsDiffer, ThreadNames DEF NoOtherAnswers, Answered, queueVars
<1>6. NoOtherClosers
    BY <1>1, <1>2 DEF NoOtherClosers, Closes
<1>7. NoOtherSent
    BY <1>1 DEF NoOtherSent
<1> QED
    BY <1>1, <1>3, <1>4, <1>5, <1>6, <1>7, QuietStep

(* A connection given to a new client: all tags of it are stale, and nobody has it. *)
LEMMA AcceptKept ==
    ASSUME Types, Kept, NEW c \in Conns, Accept(c)
    PROVE  Kept'
<1>0. /\ m_freeconnectionList \in Seq(Conns) /\ m_recyconnectionList \in Seq(Conns)
      /\ clients \in Nat /\ \A d \in Conns : client[d] \in Nat /\ iCurrsequence[d] \in Nat
      /\ open \subseteq Conns /\ m_connectionList \subseteq Conns
    BY DEF Types, DataTyped
<1>1. /\ clients' = clients + 1 /\ open' = open \cup {c}
      /\ UNCHANGED <<m_recyconnectionList, gone, twice, queueVars, timerVars>>
      /\ client'[c] = clients + 1 /\ iCurrsequence'[c] = iCurrsequence[c] + 1
      /\ \A d \in Conns : d # c => client'[d] = client[d] /\ iCurrsequence'[d] = iCurrsequence[d]
    BY <1>0 DEF Accept, Types, DataTyped
<1>2. /\ pc[Main] = "loop" /\ pc'[Main] = "addTimer" /\ work'[Main] = {[conn |-> c]}
      /\ \A u \in Threads : u # Main => pc'[u] = pc[u] /\ work'[u] = work[u]
    BY ThreadNames DEF Accept, Goes, Holds, Types, Places, WorkTyped
<1>3. In(m_freeconnectionList, c) \/ c \notin m_connectionList
    BY <1>0, TailIn DEF Accept
<1>4. /\ \A d : In(m_freeconnectionList', d) => In(m_freeconnectionList, d)
      /\ \A d : Once(m_freeconnectionList, d) => Once(m_freeconnectionList', d)
    BY <1>0, TailIn DEF Accept
<1>5. m_connectionList \subseteq m_connectionList' /\ c \in m_connectionList'
  <2>1. CASE m_freeconnectionList # <<>> /\ c = Head(m_freeconnectionList) /\ UNCHANGED m_connectionList
      BY <1>0, <2>1, TailIn DEF Kept, ClientsKnown
  <2>2. CASE m_connectionList' = m_connectionList \cup {c}
      BY <2>2
  <2> QED
      BY <2>1, <2>2 DEF Accept
<1>6. c \notin twice => ~In(m_freeconnectionList', c) /\ ~In(m_recyconnectionList, c)
  <2> SUFFICES ASSUME c \notin twice
               PROVE  ~In(m_freeconnectionList', c) /\ ~In(m_recyconnectionList, c)
      OBVIOUS
  <2>1. CASE /\ m_freeconnectionList # <<>> /\ c = Head(m_freeconnectionList)
             /\ m_freeconnectionList' = Tail(m_freeconnectionList)
    <3>1. Once(m_freeconnectionList, c) /\ In(m_freeconnectionList, c)
        BY <1>0, <2>1, TailIn DEF Kept, ListsApart
    <3>2. ~In(m_freeconnectionList', c)
        BY <1>0, <2>1, <3>1, TailIn
    <3> QED
        BY <3>1, <3>2 DEF Kept, ListsApart
  <2>2. CASE c \notin m_connectionList
      BY <1>4, <2>2 DEF Kept, ClientsKnown
  <2> QED
      BY <2>1, <2>2 DEF Accept
<1>7. \A p : UnderWay(p)' => UnderWay(p)
    BY <1>1, <1>2, ThreadsDiffer, ThreadNames DEF UnderWay, Tagging, queueVars, timerVars
<1>8. \A p : Answered(p)' => Answered(p)
    BY <1>1, <1>2, ThreadsDiffer, ThreadNames DEF Answered, queueVars
<1>9. ASSUME NEW p, UnderWay(p)
      PROVE  TagFits(p)' /\ (p.conn = c => ~Current(p)')
  <2>1. TagFits(p) /\ p.conn \in Conns /\ p.iCurrsequence \in Nat /\ p.client \in Nat
      BY <1>9, TagTyped DEF Kept, AllTagsFit
  <2>2. p.client \in 1 .. clients
      BY <2>1 DEF TagFits
  <2>3. p.client \in 1 .. clients' /\ p.client # clients + 1
      BY <1>0, <1>1, <2>2
  <2>4. CASE p.conn = c
    <3>1. p.iCurrsequence <= iCurrsequence[c] /\ iCurrsequence[c] \in Nat
        BY <1>0, <2>1, <2>4 DEF TagFits
    <3>2. p.iCurrsequence <= iCurrsequence'[c] /\ p.iCurrsequence # iCurrsequence'[c]
        BY <1>1, <2>1, <3>1
    <3>3. client'[c] # 0
        BY <1>0, <1>1
    <3>4. \A d \in Conns : client'[d] = p.client => d = p.conn
        BY <1>1, <2>1, <2>3 DEF TagFits
    <3> QED
        BY <1>5, <2>1, <2>3, <2>4, <3>2, <3>3, <3>4 DEF TagFits, Current
  <2>5. CASE p.conn # c
    <3>1. client'[p.conn] = client[p.conn] /\ iCurrsequence'[p.conn] = iCurrsequence[p.conn]
        BY <1>1, <2>1, <2>5
    <3>2. \A d \in Conns : client'[d] = p.client => d = p.conn
        BY <1>1, <2>1, <2>3 DEF TagFits
    <3> QED
        BY <1>5, <2>1, <2>3, <2>5, <3>1, <3>2 DEF TagFits, Current
  <2> QED
      BY <2>4, <2>5
<1>10. AllTagsFit'
    BY <1>7, <1>9 DEF AllTagsFit
<1>11. HandsKnown'
  <2>1. \A p \in work'[Main] : p.conn = c
      BY <1>2
  <2>2. client'[c] # 0
      BY <1>0, <1>1
  <2> QED
      BY <1>2, <1>5, <2>1, <2>2 DEF Kept, HandsKnown
<1>12. ClientsKnown'
  <2>1. \A d \in Conns : client'[d] \in 0 .. clients'
      BY <1>0, <1>1 DEF Kept, ClientsKnown
  <2>2. \A d \in Conns : d # c => client'[d] # client'[c]
      BY <1>0, <1>1 DEF Kept, ClientsKnown
  <2>3. \A d, e \in Conns : client'[d] = client'[e] /\ client'[d] # 0 => d = e
      BY <1>1, <2>2 DEF Kept, ClientsKnown
  <2>4. \A d \in open' : client'[d] # 0 /\ d \in m_connectionList'
      BY <1>0, <1>1, <1>5 DEF Kept, ClientsKnown
  <2>5. \A d \in Conns : In(m_freeconnectionList', d) \/ In(m_recyconnectionList', d) =>
            d \in m_connectionList'
      BY <1>1, <1>4, <1>5 DEF Kept, ClientsKnown
  <2>6. gone' \in SUBSET (1 .. clients')
      BY <1>0, <1>1 DEF Kept, ClientsKnown
  <2> QED
      BY <2>1, <2>3, <2>4, <2>5, <2>6 DEF ClientsKnown
<1>13. ListsApart'
  <2>1. client'[c] \notin gone
      BY <1>0, <1>1 DEF Kept, ClientsKnown
  <2> SUFFICES ASSUME NEW d \in Conns \ twice
               PROVE  /\ Once(m_freeconnectionList', d) /\ Once(m_recyconnectionList, d)
                      /\ ~(In(m_freeconnectionList', d) /\ In(m_recyconnectionList, d))
                      /\ In(m_freeconnectionList', d) \/ In(m_recyconnectionList, d) =>
                            client'[d] \in gone \cup {0} /\ d \notin open'
                      /\ d \in open' => client'[d] \notin gone
      BY <1>1 DEF ListsApart
  <2>2. Once(m_freeconnectionList', d) /\ Once(m_recyconnectionList, d)
      BY <1>4 DEF Kept, ListsApart
  <2>3. CASE d = c
      BY <1>6, <2>1, <2>2, <2>3
  <2>4. CASE d # c
      BY <1>1, <1>4, <2>2, <2>4 DEF Kept, ListsApart
  <2> QED
      BY <2>3, <2>4
<1>14. ClosersKnow'
  <2> SUFFICES ASSUME NEW t \in Threads, NEW p \in work'[t], Closes(t, p)', First(p)'
               PROVE  Unlisted(p)' /\ (pc'[t] = "recycle" => p.conn \notin open')
      BY DEF ClosersKnow
  <2>1. t # Main /\ pc'[t] = pc[t] /\ work'[t] = work[t]
      BY <1>2 DEF Closes
  <2>2. Closes(t, p) /\ First(p) /\ p \in work[t]
      BY <1>1, <2>1 DEF Closes, First
  <2>3. Unlisted(p) /\ (pc[t] = "recycle" => p.conn \notin open)
      BY <2>2 DEF Kept, ClosersKnow
  <2>4. UnderWay(p)
      BY <2>1, <2>2 DEF UnderWay, Tagging
  <2>5. p.conn \in m_connectionList /\ p.conn \in Conns
      BY <2>4, TagTyped DEF Kept, AllTagsFit, TagFits
  <2>6. p.conn # c
      BY <1>3, <2>3, <2>5 DEF Unlisted
  <2> QED
      BY <1>1, <1>4, <2>1, <2>3, <2>5, <2>6 DEF Unlisted
<1>15. AnswersKept'
  <2> SUFFICES ASSUME NEW p, Answered(p) PROVE NotFree(p)'
      BY <1>8 DEF AnswersKept
  <2>1. UnderWay(p)
      BY ThreadsDiffer, ThreadNames DEF Answered, UnderWay, Tagging
  <2>2. NotFree(p) /\ p.conn \in Conns
      BY <2>1, TagTyped DEF Kept, AnswersKept
  <2>3. CASE p.conn = c
      BY <1>9, <2>1, <2>3 DEF NotFree
  <2>4. CASE p.conn # c
      BY <1>1, <1>4, <2>2, <2>4 DEF NotFree, Current
  <2> QED
      BY <2>3, <2>4
<1>16. SentKept'
  <2> SUFFICES ASSUME NEW r \in work[Sender], r.conn \notin twice
               PROVE  r.client = client'[r.conn] /\ ~In(m_freeconnectionList', r.conn)
      BY <1>1, <1>2, ThreadsDiffer, ThreadNames DEF SentKept
  <2>1. r.client = client[r.conn] /\ ~In(m_freeconnectionList, r.conn)
      BY DEF Kept, SentKept
  <2>2. UnderWay(r)
      BY ThreadsDiffer, ThreadNames DEF UnderWay, Tagging
  <2>3. r.conn \in m_connectionList /\ r.conn \in Conns
      BY <2>2, TagTyped DEF Kept, AllTagsFit, TagFits
  <2>4. r.conn # c
      BY <1>3, <2>1, <2>3
  <2> QED
      BY <1>1, <1>4, <2>1, <2>3, <2>4
<1> QED
    BY <1>10, <1>11, <1>12, <1>13, <1>14, <1>15, <1>16 DEF Kept

(* inRecyConnectQueue: the first to close a connection for its client puts it into *)
(* the list once; a second one is in twice.                                        *)
LEMMA CloseRecycleKept ==
    ASSUME Types, Kept, NEW t \in Workers \cup {Main, Timer}, CloseRecycle(t)
    PROVE  Kept'
<1>t. t \in Threads /\ t # Sender
    BY ThreadsDiffer DEF Threads
<1>0. /\ m_freeconnectionList \in Seq(Conns) /\ m_recyconnectionList \in Seq(Conns)
      /\ \A d \in Conns : iCurrsequence[d] \in Nat
    BY DEF Types, DataTyped
<1>1. PICK p \in work[t] :
          /\ iCurrsequence' = [iCurrsequence EXCEPT ![p.conn] = @ + 1]
          /\ m_recyconnectionList' = Append(m_recyconnectionList, p.conn)
          /\ gone' = gone \cup {p.client}
          /\ twice' = IF p.client \in gone THEN twice \cup {p.conn} ELSE twice
    BY DEF CloseRecycle
<1>2. /\ pc[t] = "recycle" /\ pc'[t] \in {"unlock", "loop"} /\ work'[t] = {}
      /\ \A u \in Threads : u # t => pc'[u] = pc[u] /\ work'[u] = work[u]
      /\ UNCHANGED <<open, m_connectionList, m_freeconnectionList, queueVars, timerVars,
                     clients, client>>
    BY <1>t DEF CloseRecycle, Goes, Drops, Types, Places, WorkTyped
<1>3. UnderWay(p)
    BY <1>t, <1>1, <1>2 DEF UnderWay, Tagging
<1>4. TagFits(p) /\ p.conn \in Conns /\ p.client \in Nat
    BY <1>3, TagTyped DEF Kept, AllTagsFit
<1>5. /\ iCurrsequence'[p.conn] = iCurrsequence[p.conn] + 1
      /\ \A d \in Conns : d # p.conn => iCurrsequence'[d] = iCurrsequence[d]
    BY <1>1, <1>4 DEF Types, DataTyped
<1>6. /\ \A d : In(m_recyconnectionList', d) => In(m_recyconnectionList, d) \/ d = p.conn
      /\ \A d : /\ Once(m_recyconnectionList, d)
                /\ d # p.conn \/ ~In(m_recyconnectionList, d)
                => Once(m_recyconnectionList', d)
    BY <1>0, <1>1, <1>4, AppendIn
<1>7. /\ gone \subseteq gone' /\ twice \subseteq twice'
      /\ \A d : d \notin twice' => d \notin twice
    BY <1>1
\* The first to close it knows it.
<1>8. p.conn \notin twice' =>
          p.client \notin gone /\ Unlisted(p) /\ p.conn \notin open
    BY <1>t, <1>1, <1>2 DEF Kept, ClosersKnow, Closes, First
<1>9. \A q : UnderWay(q)' => UnderWay(q)
    BY <1>t, <1>2 DEF UnderWay, Tagging, queueVars, timerVars
<1>10. \A q : Answered(q)' => Answered(q)
    BY <1>t, <1>2, ThreadNames DEF Answered, queueVars
<1>11. ASSUME NEW q, UnderWay(q)
       PROVE  TagFits(q)' /\ (q.conn = p.conn => ~Current(q)') /\ q.conn \in Conns
  <2>1. TagFits(q) /\ q.conn \in Conns /\ q.iCurrsequence \in Nat
      BY <1>11, TagTyped DEF Kept, AllTagsFit
  <2>2. /\ q.iCurrsequence <= iCurrsequence'[q.conn]
        /\ q.conn = p.conn => q.iCurrsequence # iCurrsequence'[q.conn]
      BY <1>0, <1>5, <2>1 DEF TagFits
  <2> QED
      BY <1>2, <1>5, <2>1, <2>2 DEF TagFits, Current
<1>12. AllTagsFit'
    BY <1>9, <1>11 DEF AllTagsFit
<1>13. HandsKnown'
    BY <1>t, <1>2, ThreadNames DEF Kept, HandsKnown, Tagging
<1>14. ClientsKnown'
    BY <1>1, <1>2, <1>4, <1>6 DEF Kept, ClientsKnown, TagFits
<1>15. ListsApart'
  <2> SUFFICES ASSUME NEW d \in Conns \ twice'
               PROVE  /\ Once(m_freeconnectionList, d) /\ Once(m_recyconnectionList', d)
                      /\ ~(In(m_freeconnectionList, d) /\ In(m_recyconnectionList', d))
                      /\ In(m_freeconnectionList, d) \/ In(m_recyconnectionList', d) =>
                            client[d] \in gone' \cup {0} /\ d \notin open
                      /\ d \in open => client[d] \notin gone'
      BY <1>2 DEF ListsApart
  <2>1. d \in Conns \ twice
      BY <1>7
  <2>2. CASE d = p.conn
      BY <1>1, <1>6, <1>8, <2>1, <2>2 DEF Kept, ListsApart, Unlisted
  <2>3. CASE d # p.conn
    <3>1. client[d] # p.client
        BY <1>4, <2>3 DEF TagFits
    <3> QED
        BY <1>1, <1>6, <2>1, <2>3, <3>1 DEF Kept, ListsApart
  <2> QED
      BY <2>2, <2>3
<1>16. ClosersKnow'
  <2> SUFFICES ASSUME NEW u \in Threads, NEW q \in work'[u], Closes(u, q)', First(q)'
               PROVE  Unlisted(q)' /\ (pc'[u] = "recycle" => q.conn \notin open')
      BY DEF ClosersKnow
  <2>1. u # t /\ pc'[u] = pc[u] /\ work'[u] = work[u]
      BY <1>2 DEF Closes
  <2>2. Closes(u, q) /\ First(q) /\ q \in work[u] /\ q.client # p.client /\ q.conn \notin twice'
      BY <1>1, <1>7, <2>1 DEF Closes, First
  <2>3. Unlisted(q) /\ (pc[u] = "recycle" => q.conn \notin open)
      BY <2>2 DEF Kept, ClosersKnow
  <2>4. q.conn # p.conn
      BY <1>8, <2>2, <2>3 DEF Unlisted
  <2> QED
      BY <1>2, <1>6, <2>1, <2>3, <2>4 DEF Unlisted
<1>17. AnswersKept'
  <2> SUFFICES ASSUME NEW q, Answered(q) PROVE NotFree(q)'
      BY <1>10 DEF AnswersKept
  <2>1. UnderWay(q)
      BY ThreadsDiffer, ThreadNames DEF Answered, UnderWay, Tagging
  <2>2. NotFree(q)
      BY DEF Kept, AnswersKept
  <2> QED
      BY <1>2, <1>5, <1>7, <1>11, <2>1, <2>2 DEF NotFree, Current
<1>18. SentKept'
    BY <1>t, <1>2, <1>7, ThreadNames DEF Kept, SentKept
<1> QED
    BY <1>12, <1>13, <1>14, <1>15, <1>16, <1>17, <1>18 DEF Kept

(* ngx_free_connection and PutOneToFree: tags of the connection get stale, and no *)
(* reply is being sent to it.                                                     *)
LEMMA RecycleKept ==
    ASSUME Types, Kept, Recycle
    PROVE  Kept'
<1>0. /\ m_freeconnectionList \in Seq(Conns) /\ m_recyconnectionList \in Seq(Conns)
      /\ \A d \in Conns : iCurrsequence[d] \in Nat
    BY DEF Types, DataTyped
<1>1. PICK i \in DOMAIN m_recyconnectionList :
          (\A r \in work[Sender] : r.conn # m_recyconnectionList[i]) /\ Freed(i)
    BY DEF Recycle
<1> DEFINE c == m_recyconnectionList[i]
<1>2. /\ m_freeconnectionList' = Append(m_freeconnectionList, c)
      /\ iCurrsequence' = [iCurrsequence EXCEPT ![c] = @ + 1]
      /\ m_recyconnectionList' = RemoveAt(m_recyconnectionList, i)
      /\ \A r \in work[Sender] : r.conn # c
    BY <1>1 DEF Freed
<1>3. In(m_recyconnectionList, c) /\ c \in Conns
    BY <1>0, <1>1, RemovedIn
<1>4. /\ \A d : In(m_recyconnectionList', d) => In(m_recyconnectionList, d)
      /\ \A d : Once(m_recyconnectionList, d) => Once(m_recyconnectionList', d)
      /\ Once(m_recyconnectionList, c) => ~In(m_recyconnectionList', c)
    BY <1>0, <1>1, <1>2, RemovedIn
<1> HIDE DEF c
<1>5. UNCHANGED <<pc, work, open, m_connectionList, queueVars, timerVars, clients, client, gone, twice>>
    BY DEF Recycle, clientVars
<1>6. /\ \A d : In(m_freeconnectionList', d) => In(m_freeconnectionList, d) \/ d = c
      /\ \A d : /\ Once(m_freeconnectionList, d)
                /\ d # c \/ ~In(m_freeconnectionList, d)
                => Once(m_freeconnectionList', d)
    BY <1>0, <1>2, <1>3, AppendIn
<1>7. /\ iCurrsequence'[c] = iCurrsequence[c] + 1
      /\ \A d \in Conns : d # c => iCurrsequence'[d] = iCurrsequence[d]
    BY <1>2, <1>3 DEF Types, DataTyped
<1>8. \A q : (UnderWay(q)' => UnderWay(q)) /\ (Answered(q)' => Answered(q))
    BY <1>5 DEF UnderWay, Answered, Tagging, queueVars, timerVars
<1>9. ASSUME NEW q, UnderWay(q)
      PROVE  TagFits(q)' /\ (q.conn = c => ~Current(q)') /\ q.conn \in Conns
  <2>1. TagFits(q) /\ q.conn \in Conns /\ q.iCurrsequence \in Nat
      BY <1>9, TagTyped DEF Kept, AllTagsFit
  <2>2. /\ q.iCurrsequence <= iCurrsequence'[q.conn]
        /\ q.conn = c => q.iCurrsequence # iCurrsequence'[q.conn]
      BY <1>0, <1>7, <2>1 DEF TagFits
  <2> QED
      BY <1>5, <1>7, <2>1, <2>2 DEF TagFits, Current
<1>10. AllTagsFit'
    BY <1>8, <1>9 DEF AllTagsFit
<1>11. HandsKnown'
    BY <1>5 DEF Kept, HandsKnown, Tagging
<1>12. ClientsKnown'
    BY <1>3, <1>4, <1>5, <1>6 DEF Kept, ClientsKnown
<1>13. ListsApart'
  <2> SUFFICES ASSUME NEW d \in Conns \ twice
               PROVE  /\ Once(m_freeconnectionList', d) /\ Once(m_recyconnectionList', d)
                      /\ ~(In(m_freeconnectionList', d) /\ In(m_recyconnectionList', d))
                      /\ In(m_freeconnectionList', d) \/ In(m_recyconnectionList', d) =>
                            client[d] \in gone \cup {0} /\ d \notin open
                      /\ d \in open => client[d] \notin gone
      BY <1>5 DEF ListsApart
  <2>1. CASE d = c
      BY <1>3, <1>4, <1>6, <2>1 DEF Kept, ListsApart
  <2>2. CASE d # c
      BY <1>4, <1>6, <2>2 DEF Kept, ListsApart
  <2> QED
      BY <2>1, <2>2
<1>14. ClosersKnow'
  <2> SUFFICES ASSUME NEW u \in Threads, NEW q \in work'[u], Closes(u, q)', First(q)'
               PROVE  Unlisted(q)' /\ (pc'[u] = "recycle" => q.conn \notin open')
      BY DEF ClosersKnow
  <2>1. Closes(u, q) /\ First(q) /\ q \in work[u]
      BY <1>5 DEF Closes, First
  <2>2. Unlisted(q) /\ (pc[u] = "recycle" => q.conn \notin open)
      BY <2>1 DEF Kept, ClosersKnow
  <2>3. q.conn # c
      BY <1>3, <2>2 DEF Unlisted
  <2> QED
      BY <1>4, <1>5, <1>6, <2>2, <2>3 DEF Unlisted
<1>15. AnswersKept'
  <2> SUFFICES ASSUME NEW q, Answered(q) PROVE NotFree(q)'
      BY <1>8 DEF AnswersKept
  <2>1. UnderWay(q)
      BY ThreadsDiffer, ThreadNames DEF Answered, UnderWay, Tagging
  <2>2. NotFree(q)
      BY DEF Kept, AnswersKept
  <2> QED
      BY <1>5, <1>6, <1>7, <1>9, <2>1, <2>2 DEF NotFree, Current
<1>16. SentKept'
    BY <1>2, <1>5, <1>6 DEF Kept, SentKept
<1> QED
    BY <1>10, <1>11, <1>12, <1>13, <1>14, <1>15, <1>16 DEF Kept

LEMMA KeptInit == Init => Kept
<1> SUFFICES ASSUME Init PROVE Kept
    OBVIOUS
<1> DEFINE n == Cardinality(Prepared)
           f == m_freeconnectionList
<1>1. /\ f \in [1 .. n -> Prepared] /\ \A c \in Prepared : \E i \in 1 .. n : f[i] = c
      /\ IsFiniteSet(Prepared) /\ n \in Nat
    BY FreeListPrepared
<1>2. IsFiniteSet(1 .. n) /\ Cardinality(1 .. n) = n
    BY <1>1, FS_Interval
<1>3. f \in Surjection(1 .. n, Prepared)
    BY <1>1 DEF Surjection
<1>4. f \in Injection(1 .. n, Prepared)
    BY <1>1, <1>2, <1>3, FS_SurjSameCardinalityImpliesInj
<1>5. \A c : Once(f, c)
    BY <1>4 DEF Injection, IsInjective, Once
<1>6. \A c : In(f, c) => c \in Prepared
    BY <1>1 DEF In, Range
<1> HIDE DEF f, n
<1>7. \A c : ~In(<<>>, c) /\ Once(<<>>, c)
    BY DEF In, Range, Once
<1>8. /\ m_recyconnectionList = <<>> /\ m_MsgRecvQueue = <<>> /\ m_MsgSendQueue = <<>>
      /\ m_timerQueuemap = {} /\ m_lsIdleList = {} /\ \A t \in Threads : work[t] = {}
      /\ m_connectionList = Prepared /\ open = {} /\ gone = {} /\ twice = {} /\ clients = 0
      /\ \A c \in Conns : client[c] = 0
    BY DEF Init
<1>9. \A p : ~UnderWay(p)
    BY <1>7, <1>8 DEF UnderWay
<1>10. \A p : ~Answered(p)
    BY <1>7, <1>8, ThreadNames DEF Answered
<1>11. AllTagsFit /\ AnswersKept
    BY <1>9, <1>10 DEF AllTagsFit, AnswersKept
<1>12. HandsKnown /\ ClosersKnow /\ SentKept
    BY <1>8, ThreadNames DEF HandsKnown, ClosersKnow, SentKept
<1>13. ClientsKnown
    BY <1>6, <1>7, <1>8 DEF ClientsKnown, f
<1>14. ListsApart
    BY <1>5, <1>7, <1>8 DEF ListsApart, f
<1> QED
    BY <1>11, <1>12, <1>13, <1>14 DEF Kept

LEMMA KeptStep == Types /\ Kept /\ [Next]_vars => Kept'
<1> SUFFICES ASSUME Types, Kept, [Next]_vars PROVE Kept'
    OBVIOUS
<1>1. CASE \E t \in Workers \cup {Main, Timer} : Closing(t)
    BY <1>1, CloseSocketKept, CloseRecycleKept DEF Closing
<1>2. CASE \E c \in Conns : Accept(c) \/ Read(c) \/ Leave(c)
    BY <1>2, AcceptKept, ReadKept, LeaveKept
<1>3. CASE AddTimer
    BY <1>3, AddTimerKept
<1>4. CASE \E w \in Workers : Take(w) \/ Handle(w) \/ Queue(w) \/ CutOff(w) \/ Return(w)
    BY <1>4, TakeKept, HandleKept, QueueKept, CutOffKept, ReturnKept
<1>5. CASE Scan \/ Hang \/ Check
    BY <1>5, TimerKept
<1>6. CASE SenderStep
    BY <1>6, SenderKept
<1>7. CASE RecyclerStep
    BY <1>7, RecycleKept, IdleKept DEF RecyclerStep
<1>8. CASE UNCHANGED vars
    BY <1>8, IdleKept
<1> QED
    BY <1>1, <1>2, <1>3, <1>4, <1>5, <1>6, <1>7, <1>8, StepCases

(* A reply's bytes go to the client whose packet it answers, unless two threads  *)
(* closed its connection at the same time (ServerSendQueueThread,                *)
(* ngx_c_socket.cpp:620).                                                        *)
THEOREM ReplyToItsClient == Spec => []RightClient
<1>1. Init => Types /\ Kept
    BY TypesInit, KeptInit
<1>2. (Types /\ Kept) /\ [Next]_vars => (Types /\ Kept)'
    BY TypesStep, KeptStep
<1>3. Types /\ Kept => RightClient
    BY DEF Kept, SentKept, RightClient
<1> QED
    BY <1>1, <1>2, <1>3, PTL DEF Spec

-----------------------------------------------------------------------------
(* How many replies are queued for a client. *)

(* There are only so many places. *)
LEMMA PlacesFinite ==
    ASSUME NEW q \in Seq(TagSet), NEW c, NEW k
    PROVE  IsFiniteSet(PlacesFor(q, c, k)) /\ Cardinality(PlacesFor(q, c, k)) \in Nat
<1>1. IsFiniteSet(1 .. Len(q))
    BY FS_Interval
<1>2. PlacesFor(q, c, k) \in SUBSET (1 .. Len(q))
    BY DEF PlacesFor
<1> QED
    BY <1>1, <1>2, FS_Subset, FS_CardinalityType

(* One reply more, or one less, is queued for its connection only. *)
LEMMA AppendCounted ==
    ASSUME NEW q \in Seq(TagSet), NEW r \in TagSet, NEW c, NEW k
    PROVE  /\ Cardinality(PlacesFor(q, c, k)) \in Nat
           /\ Cardinality(PlacesFor(Append(q, r), c, k)) =
                  Cardinality(PlacesFor(q, c, k)) + IF IsFor(r, c, k) THEN 1 ELSE 0
<1>0. Len(q) \in Nat /\ DOMAIN q = 1 .. Len(q)
    OBVIOUS
<1>1. IsFiniteSet(PlacesFor(q, c, k)) /\ Cardinality(PlacesFor(q, c, k)) \in Nat
    BY PlacesFinite
<1>2. Len(q) + 1 \notin PlacesFor(q, c, k)
    BY <1>0 DEF PlacesFor
<1>3. 1 .. Len(q) + 1 = (1 .. Len(q)) \cup {Len(q) + 1}
    BY <1>0
<1>4. PlacesFor(Append(q, r), c, k) =
          IF IsFor(r, c, k) THEN PlacesFor(q, c, k) \cup {Len(q) + 1} ELSE PlacesFor(q, c, k)
  <2> DEFINE p == Append(q, r)
             n == Len(q) + 1
  <2>1. /\ DOMAIN p = (1 .. Len(q)) \cup {n}
        /\ p[n] = r /\ \A i \in 1 .. Len(q) : p[i] = q[i]
      BY <1>3, AppendedAt
  <2> HIDE DEF p, n
  <2>2. PlacesFor(p, c, k) = IF IsFor(r, c, k) THEN PlacesFor(q, c, k) \cup {n} ELSE PlacesFor(q, c, k)
      BY <1>0, <2>1 DEF PlacesFor
  <2> QED
      BY <2>2 DEF p, n
<1>5. CASE IsFor(r, c, k)
  <2>1. Cardinality(PlacesFor(q, c, k) \cup {Len(q) + 1}) = Cardinality(PlacesFor(q, c, k)) + 1
      BY <1>1, <1>2, FS_AddElement
  <2> QED
      BY <1>1, <1>4, <1>5, <2>1
<1>6. CASE ~IsFor(r, c, k)
    BY <1>1, <1>4, <1>6
<1> QED
    BY <1>5, <1>6

LEMMA TailCounted ==
    ASSUME NEW q \in Seq(TagSet), q # <<>>, NEW c, NEW k
    PROVE  /\ Cardinality(PlacesFor(q, c, k)) \in Nat
           /\ Cardinality(PlacesFor(Tail(q), c, k)) =
                  Cardinality(PlacesFor(q, c, k)) - IF IsFor(Head(q), c, k) THEN 1 ELSE 0
<1> DEFINE later == PlacesFor(q, c, k) \ {1}
           f == [i \in later |-> i - 1]
<1>0. Len(q) \in Nat /\ DOMAIN q = 1 .. Len(q) /\ Len(q) >= 1
    BY TailAt
<1>1. IsFiniteSet(PlacesFor(q, c, k)) /\ Cardinality(PlacesFor(q, c, k)) \in Nat
    BY PlacesFinite
<1>2. 1 \in PlacesFor(q, c, k) <=> IsFor(Head(q), c, k)
    BY <1>0, TailAt DEF PlacesFor
<1>3. /\ IsFiniteSet(later)
      /\ Cardinality(later) =
            Cardinality(PlacesFor(q, c, k)) - IF IsFor(Head(q), c, k) THEN 1 ELSE 0
    BY <1>1, <1>2, FS_RemoveElement
<1>4. \A i \in 2 .. Len(q) : i - 1 \in 1 .. Len(q) - 1 /\ (i - 1) + 1 = i
    BY <1>0
<1>5. \A i \in 1 .. Len(q) - 1 : i + 1 \in 2 .. Len(q) /\ (i + 1) - 1 = i
    BY <1>0
<1>6. \A i \in later : i \in 2 .. Len(q) /\ IsFor(q[i], c, k)
    BY <1>0 DEF PlacesFor
<1>7. \A i \in 2 .. Len(q) : IsFor(q[i], c, k) => i \in later
    BY <1>0 DEF PlacesFor
<1> HIDE DEF later
<1>8. f \in [later -> PlacesFor(Tail(q), c, k)]
  <2> SUFFICES ASSUME NEW i \in later PROVE i - 1 \in PlacesFor(Tail(q), c, k)
      OBVIOUS
  <2>1. Tail(q)[i - 1] = q[i] /\ i - 1 \in DOMAIN Tail(q)
      BY <1>4, <1>6, TailAt
  <2> QED
      BY <1>6, <2>1 DEF PlacesFor
<1>9. \A i, j \in later : f[i] = f[j] => i = j
    BY <1>4, <1>6
<1>10. ASSUME NEW j \in PlacesFor(Tail(q), c, k) PROVE \E i \in later : f[i] = j
  <2>1. j \in 1 .. Len(q) - 1 /\ IsFor(Tail(q)[j], c, k)
      BY TailAt DEF PlacesFor
  <2>2. j + 1 \in later /\ (j + 1) - 1 = j
      BY <1>5, <1>7, <2>1, TailAt
  <2> QED
      BY <2>2
<1>11. f \in Bijection(later, PlacesFor(Tail(q), c, k))
    BY <1>8, <1>9, <1>10 DEF Bijection, Injection, IsInjective, Surjection
<1> QED
    BY <1>1, <1>3, <1>11, FS_Bijection DEF ExistsBijection

LEMMA CoveredQueue ==
    ASSUME Types, Kept, CoveredAll, NEW w \in Workers, Queue(w)
    PROVE  CoveredAll'
<1>0. w \in Threads /\ w \notin {Main, Timer, Sender, Recycler}
    BY ThreadsDiffer DEF Threads
<1>1. PICK p \in work[w] :
          /\ iSendCount' = [iSendCount EXCEPT ![p.conn] = @ + 1]
          /\ m_MsgSendQueue' = Append(m_MsgSendQueue, p)
    BY DEF Queue
<1>2. p \in TagSet /\ p.conn \in Conns
    BY <1>0 DEF Types, WorkTyped, TagSet
<1>3. client' = client
    BY DEF Queue, clientVars
<1> SUFFICES ASSUME NEW c \in Conns PROVE Covered(c)'
    BY DEF CoveredAll
<1> DEFINE n == Cardinality(PlacesFor(m_MsgSendQueue, c, client[c]))
           m == Cardinality(PlacesFor(m_MsgSendQueue', c, client[c]))
<1>4. n \in Nat /\ m = n + IF IsFor(p, c, client[c]) THEN 1 ELSE 0
    BY <1>1, <1>2, AppendCounted DEF Types, DataTyped
<1>5. iSendCount[c] \in Int /\ iSendCount[c] >= n
    BY DEF CoveredAll, Covered, Types, DataTyped
<1>6. Covered(c)' <=> iSendCount'[c] >= m
    BY <1>3 DEF Covered
<1> HIDE DEF n, m
<1>7. CASE p.conn = c
  <2>1. iSendCount'[c] = iSendCount[c] + 1
      BY <1>1, <1>7 DEF Types, DataTyped
  <2>2. m = n + 1 \/ m = n
      BY <1>4
  <2> QED
      BY <1>4, <1>5, <1>6, <2>1, <2>2
<1>8. CASE p.conn # c
  <2>1. iSendCount'[c] = iSendCount[c] /\ m = n
      BY <1>1, <1>2, <1>4, <1>8 DEF Types, DataTyped, IsFor
  <2> QED
      BY <1>5, <1>6, <2>1
<1> QED
    BY <1>7, <1>8

LEMMA CoveredSender ==
    ASSUME Types, Kept, CoveredAll, SenderStep
    PROVE  CoveredAll'
<1>1. client' = client
    BY DEF SenderStep, StartPass, EraseStale, Send, Sent, EndPass, clientVars
<1>2. CASE StartPass \/ Sent \/ EndPass
    BY <1>1, <1>2 DEF StartPass, Sent, EndPass, connVars, queueVars, CoveredAll, Covered
<1>3. CASE EraseStale \/ Send
  <2> DEFINE h == Head(m_MsgSendQueue)
  <2>1. m_MsgSendQueue # <<>> /\ m_MsgSendQueue' = Tail(m_MsgSendQueue)
      BY <1>3 DEF EraseStale, Send
  <2>0. m_MsgSendQueue \in Seq(TagSet) /\ h \in TagSet
      BY <2>1, TailAt DEF Types, DataTyped
  <2>2. m_MsgSendQueue \in Seq(TagSet) /\ h \in TagSet /\ h.conn \in Conns
      BY <2>0 DEF TagSet
  <2>3. In(m_MsgSendQueue, h)
      BY <2>1, <2>2, TailIn
  <2>4. TagFits(h)
      BY <2>3 DEF Kept, AllTagsFit, UnderWay
  <2> SUFFICES ASSUME NEW c \in Conns PROVE Covered(c)'
      BY DEF CoveredAll
  <2> DEFINE n == Cardinality(PlacesFor(m_MsgSendQueue, c, client[c]))
             m == Cardinality(PlacesFor(m_MsgSendQueue', c, client[c]))
  <2>5. n \in Nat /\ m = n - IF IsFor(h, c, client[c]) THEN 1 ELSE 0
      BY <2>1, <2>2, TailCounted
  <2>6. iSendCount[c] \in Int /\ iSendCount[c] >= n
      BY DEF CoveredAll, Covered, Types, DataTyped
  <2>7. Covered(c)' <=> iSendCount'[c] >= m
      BY <1>1 DEF Covered
  <2>8. m = n \/ m = n - 1
      BY <2>5
  <2>9. CASE EraseStale
    <3>1. iSendCount' = iSendCount
        BY <2>9 DEF EraseStale, connVars
    <3> HIDE DEF n, m
    <3> QED
        BY <2>5, <2>6, <2>7, <2>8, <3>1
  <2>10. CASE Send
    <3>1. iSendCount' = [iSendCount EXCEPT ![h.conn] = @ - 1] /\ Current(h)
        BY <2>10 DEF Send
    <3> HIDE DEF n, m, h
    <3>2. CASE h.conn = c
      <4>1. iSendCount'[c] = iSendCount[c] - 1
          BY <3>1, <3>2 DEF Types, DataTyped
      <4>2. IsFor(h, c, client[c])
          BY <2>4, <3>1, <3>2 DEF TagFits, IsFor
      <4>3. m = n - 1
          BY <2>5, <4>2
      <4> QED
          BY <2>5, <2>6, <2>7, <4>1, <4>3
    <3>3. CASE h.conn # c
      <4>1. iSendCount'[c] = iSendCount[c]
          BY <2>2, <3>1, <3>3 DEF Types, DataTyped
      <4> QED
          BY <2>5, <2>6, <2>7, <2>8, <4>1
    <3> QED
        BY <3>2, <3>3
  <2> QED
      BY <1>3, <2>9, <2>10
<1> QED
    BY <1>2, <1>3 DEF SenderStep

(* ngx_get_connection sets the count to 0 for a client that has no replies yet. *)
LEMMA CoveredAccept ==
    ASSUME Types, Kept, CoveredAll, NEW c \in Conns, Accept(c)
    PROVE  CoveredAll'
<1>1. /\ m_MsgSendQueue' = m_MsgSendQueue
      /\ iSendCount'[c] = 0 /\ client'[c] = clients + 1
      /\ \A d \in Conns : d # c => iSendCount'[d] = iSendCount[d] /\ client'[d] = client[d]
    BY DEF Accept, queueVars, Types, DataTyped
<1>2. ASSUME NEW i \in DOMAIN m_MsgSendQueue PROVE m_MsgSendQueue[i].client # clients + 1
  <2>1. In(m_MsgSendQueue, m_MsgSendQueue[i])
      BY DEF In, Range
  <2>2. m_MsgSendQueue[i].client \in 1 .. clients /\ clients \in Nat
      BY <2>1 DEF Kept, AllTagsFit, UnderWay, TagFits, Types, DataTyped
  <2> QED
      BY <2>2
<1>3. PlacesFor(m_MsgSendQueue, c, clients + 1) = {}
    BY <1>2 DEF PlacesFor, IsFor
<1>4. Covered(c)'
  <2>1. Cardinality({}) = 0
      BY FS_EmptySet
  <2> QED
      BY <1>1, <1>3, <2>1 DEF Covered
<1>5. ASSUME NEW d \in Conns, d # c PROVE Covered(d)'
    BY <1>1, <1>5 DEF Covered, CoveredAll
<1> QED
    BY <1>4, <1>5 DEF CoveredAll

LEMMA CoveredStep == Types /\ Kept /\ CoveredAll /\ [Next]_vars => CoveredAll'
<1> SUFFICES ASSUME Types, Kept, CoveredAll, [Next]_vars PROVE CoveredAll'
    OBVIOUS
<1>0. UNCHANGED <<iSendCount, client, m_MsgSendQueue>> => CoveredAll'
    BY DEF CoveredAll, Covered
<1>1. CASE \E t \in Workers \cup {Main, Timer} : Closing(t)
    BY <1>0, <1>1 DEF Closing, CloseSocket, CloseRecycle, queueVars, clientVars
<1>2. CASE \E c \in Conns : Accept(c) \/ Read(c) \/ Leave(c)
    BY <1>0, <1>2, CoveredAccept DEF Read, Leave, connVars, queueVars, clientVars
<1>3. CASE AddTimer
    BY <1>0, <1>3 DEF AddTimer, connVars, queueVars, clientVars
<1>4. CASE \E w \in Workers : Take(w) \/ Handle(w) \/ Queue(w) \/ CutOff(w) \/ Return(w)
    BY <1>0, <1>4, CoveredQueue DEF Take, Handle, CutOff, Return, connVars, queueVars, clientVars
<1>5. CASE Scan \/ Hang \/ Check
    BY <1>0, <1>5 DEF Scan, Hang, Check, connVars, queueVars, clientVars
<1>6. CASE SenderStep
    BY <1>6, CoveredSender
<1>7. CASE RecyclerStep
    BY <1>0, <1>7
    DEF RecyclerStep, StartRecycling, Recycle, EndRecycling, connVars, queueVars, clientVars
<1>8. CASE UNCHANGED vars
    BY <1>0, <1>8 DEF vars, connVars, queueVars, clientVars
<1> QED
    BY <1>1, <1>2, <1>3, <1>4, <1>5, <1>6, <1>7, <1>8, StepCases

LEMMA CoveredInit == Init => CoveredAll
<1> SUFFICES ASSUME Init, NEW c \in Conns PROVE Covered(c)
    BY DEF CoveredAll
<1>1. m_MsgSendQueue = <<>> /\ iSendCount[c] = 0
    BY DEF Init
<1>2. PlacesFor(m_MsgSendQueue, c, client[c]) = {}
    BY <1>1 DEF PlacesFor
<1>3. Cardinality({}) = 0
    BY FS_EmptySet
<1> QED
    BY <1>1, <1>2, <1>3 DEF Covered

(* The count that msgSend limits (iSendCount, ngx_c_socket.cpp:320) is never lower *)
(* than the replies queued for the present client of the connection.               *)
THEOREM NoBacklogHidden == Spec => []BacklogCovered
<1>1. Init => Types /\ Kept /\ CoveredAll
    BY TypesInit, KeptInit, CoveredInit
<1>2. (Types /\ Kept /\ CoveredAll) /\ [Next]_vars => (Types /\ Kept /\ CoveredAll)'
    BY TypesStep, KeptStep, CoveredStep
<1>3. Types /\ CoveredAll => BacklogCovered
    BY DEF Types, DataTyped, CoveredAll, Covered, PlacesFor, IsFor, BacklogCovered
<1> QED
    BY <1>1, <1>2, <1>3, PTL DEF Spec
=============================================================================
