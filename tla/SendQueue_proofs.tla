---------------------------- MODULE SendQueue_proofs ----------------------------
(***************************************************************************)
(* Proofs about SendQueue, for all limits, clients and workers.  That no   *)
(* post is lost needs that the counter, which the send thread reads        *)
(* without the mutex, is the length of the queue (Counted): else the       *)
(* thread could go back to sleep on a zero that is wrong.  That no reply   *)
(* is lost or released twice is the same as that each is in exactly one    *)
(* place, which needs that nobody holds two (OnePlace).  That the backlog  *)
(* is what is queued needs that a reply is stale only for a connection     *)
(* that was closed (Fresh): those the send thread erases uncounted.        *)
(***************************************************************************)
EXTENDS SendQueue, SequenceTheorems, FiniteSetTheorems, TLAPS

Counted ==
    /\ m_MsgSendQueue \in Seq(Replies)
    /\ m_semEventSendQueue \in Nat
    /\ main # "gone" => m_iSendMsgQueueCount = Len(m_MsgSendQueue)
    /\ main = "gone" => m_MsgSendQueue = <<>> /\ sender = "exited"

HandsTyped ==
    /\ made \in Nat
    /\ iCurrsequence \in [Conns -> Nat]
    /\ reply \in [Workers -> SUBSET Replies]
    /\ main # "run" => \A w \in Workers : reply[w] = {}

IInv == Counted /\ HandsTyped /\ NoPostLost

-----------------------------------------------------------------------------
(* What erasing the head does to the queue and its counter. *)
LEMMA HeadErased ==
    ASSUME NEW q \in Seq(Replies), q # <<>>
    PROVE  /\ Tail(q) \in Seq(Replies)
           /\ Len(Tail(q)) = Len(q) - 1
    BY HeadTailProperties

(* Appending a reply. *)
LEMMA ReplyAppended ==
    ASSUME NEW q \in Seq(Replies), NEW r \in Replies
    PROVE  /\ Append(q, r) \in Seq(Replies)
           /\ Len(Append(q, r)) = Len(q) + 1
    BY AppendProperties

LEMMA HandsStep == HandsTyped /\ [Next]_vars => HandsTyped'
<1> SUFFICES ASSUME HandsTyped, [Next]_vars PROVE HandsTyped'
    OBVIOUS
<1> USE DEF HandsTyped
<1>1. ASSUME NEW c \in Conns, Close(c) PROVE HandsTyped'
    BY <1>1 DEF Close
<1>2. ASSUME NEW w \in Workers, NEW c \in Conns, Handle(w, c) PROVE HandsTyped'
  <2>1. made + 1 \in 1 .. MaxReplies
      BY <1>2, SendLimits DEF Handle
  <2>2. [id |-> made + 1, conn |-> c, iCurrsequence |-> iCurrsequence[c]] \in Replies
      BY <2>1 DEF Replies
  <2> QED
      BY <1>2, <2>1, <2>2 DEF Handle, connVars
<1>3. ASSUME NEW w \in Workers, WorkerStep(w) PROVE HandsTyped'
  <2>1. CASE DropReply(w)
      BY <2>1 DEF DropReply, MsgSend, Discard, connVars
  <2>2. CASE CutOff(w)
      BY <2>2 DEF CutOff, MsgSend, Discard, Replies
  <2>3. CASE Queue(w)
      BY <2>3 DEF Queue, MsgSend
  <2> QED
      BY <1>3, <2>1, <2>2, <2>3 DEF WorkerStep
<1>4. CASE SenderStep
    BY <1>4 DEF SenderStep, SemWait, Exit, NothingQueued, StartPass, EraseStale, Send,
                SendFails, EndPass, connVars
<1>5. CASE StopEvent \/ PostStop \/ JoinAndClear
    BY <1>5 DEF StopEvent, PostStop, JoinAndClear, MainMoves, connVars
<1>6. CASE UNCHANGED vars
    BY <1>6 DEF vars, connVars
<1> QED
    BY <1>1, <1>2, <1>3, <1>4, <1>5, <1>6 DEF Next

LEMMA CountedStep == Counted /\ HandsTyped /\ [Next]_vars => Counted'
<1> SUFFICES ASSUME Counted, HandsTyped, [Next]_vars PROVE Counted'
    OBVIOUS
<1> USE DEF Counted
<1>1. ASSUME NEW c \in Conns, Close(c) PROVE Counted'
    BY <1>1 DEF Close, queueVars
<1>2. ASSUME NEW w \in Workers, NEW c \in Conns, Handle(w, c) PROVE Counted'
    BY <1>2 DEF Handle, queueVars
<1>3. ASSUME NEW w \in Workers, WorkerStep(w) PROVE Counted'
  <2>1. CASE DropReply(w)
      BY <2>1 DEF DropReply, Discard, queueVars
  <2>2. CASE CutOff(w)
      BY <2>2 DEF CutOff, Discard, queueVars
  <2>3. CASE Queue(w)
    <3>1. PICK r \in reply[w] :
              /\ MsgSend(w, r)
              /\ m_MsgSendQueue' = Append(m_MsgSendQueue, r)
              /\ m_iSendMsgQueueCount' = m_iSendMsgQueueCount + 1
              /\ m_semEventSendQueue' = m_semEventSendQueue + 1
              /\ main' = main /\ sender' = sender
        BY <2>3 DEF Queue
    <3>2. r \in Replies
        BY <3>1 DEF HandsTyped
    <3>3. main # "gone"
        \* no handler is left with a reply when the shutdown starts
        BY <3>1 DEF HandsTyped
    <3> QED
        BY <3>1, <3>2, <3>3, ReplyAppended
  <2> QED
      BY <1>3, <2>1, <2>2, <2>3 DEF WorkerStep
<1>4. CASE SenderStep
  <2>1. CASE SemWait
      BY <2>1 DEF SemWait, Sender, queueVars
  <2>2. CASE Exit \/ NothingQueued \/ StartPass
      BY <2>2 DEF Exit, NothingQueued, StartPass, Sender, queueVars
  <2>3. CASE EraseStale
      BY <2>3, HeadErased DEF EraseStale, Sender, EraseHead
  <2>4. CASE Send
      BY <2>4, HeadErased DEF Send, Sender, EraseHead
  <2>5. CASE SendFails \/ EndPass
      BY <2>5 DEF SendFails, EndPass, Sender, queueVars
  <2> QED
      BY <1>4, <2>1, <2>2, <2>3, <2>4, <2>5 DEF SenderStep
<1>5. CASE StopEvent \/ PostStop
    BY <1>5 DEF StopEvent, PostStop, MainMoves, queueVars
<1>6. CASE JoinAndClear
    BY <1>6 DEF JoinAndClear, MainMoves
<1>7. CASE UNCHANGED vars
    BY <1>7 DEF vars, queueVars
<1> QED
    BY <1>1, <1>2, <1>3, <1>4, <1>5, <1>6, <1>7 DEF Next

LEMMA PostStep == IInv /\ [Next]_vars => NoPostLost'
<1> SUFFICES ASSUME IInv, [Next]_vars PROVE NoPostLost'
    OBVIOUS
<1> USE DEF IInv, Counted, NoPostLost
<1>1. ASSUME NEW c \in Conns, Close(c) PROVE NoPostLost'
    BY <1>1 DEF Close, queueVars
<1>2. ASSUME NEW w \in Workers, NEW c \in Conns, Handle(w, c) PROVE NoPostLost'
    BY <1>2 DEF Handle, queueVars
<1>3. ASSUME NEW w \in Workers, WorkerStep(w) PROVE NoPostLost'
  <2>1. CASE DropReply(w)
      BY <2>1 DEF DropReply, Discard, queueVars
  <2>2. CASE CutOff(w)
      BY <2>2 DEF CutOff, Discard, queueVars
  <2>3. CASE Queue(w)
      BY <2>3 DEF Queue
  <2> QED
      BY <1>3, <2>1, <2>2, <2>3 DEF WorkerStep
<1>4. CASE SenderStep
  <2>1. CASE SemWait \/ Exit \/ StartPass \/ EraseStale \/ Send \/ SendFails
      BY <2>1 DEF SemWait, Exit, StartPass, EraseStale, Send, SendFails, Sender
  <2>2. CASE NothingQueued
    \* The counter was zero, so the queue is empty.
    <3>1. m_iSendMsgQueueCount = Len(m_MsgSendQueue) /\ m_iSendMsgQueueCount <= 0
        BY <2>2 DEF NothingQueued, Sender
    <3>2. m_MsgSendQueue = <<>>
        BY <3>1
    <3> QED
        BY <2>2, <3>2 DEF NothingQueued, queueVars
  <2>3. CASE EndPass
      BY <2>3 DEF EndPass, queueVars
  <2> QED
      BY <1>4, <2>1, <2>2, <2>3 DEF SenderStep
<1>5. CASE StopEvent \/ PostStop
    BY <1>5 DEF StopEvent, PostStop, queueVars
<1>6. CASE JoinAndClear
    BY <1>6 DEF JoinAndClear
<1>7. CASE UNCHANGED vars
    BY <1>7 DEF vars, queueVars
<1> QED
    BY <1>1, <1>2, <1>3, <1>4, <1>5, <1>6, <1>7 DEF Next

(* The types; the counters stay within the limits msgSend tests. *)
LEMMA TypeStep == TypeOK /\ Counted /\ HandsTyped /\ [Next]_vars => TypeOK'
<1> SUFFICES ASSUME TypeOK, Counted, HandsTyped, [Next]_vars PROVE TypeOK'
    OBVIOUS
<1> USE SendLimits DEF TypeOK
<1>0. made + 1 \in Nat /\ made + 1 > 0
    BY DEF HandsTyped
<1>1. ASSUME NEW c \in Conns, Close(c) PROVE TypeOK'
    BY <1>1 DEF Close, queueVars
<1>2. ASSUME NEW w \in Workers, NEW c \in Conns, Handle(w, c) PROVE TypeOK'
  <2>1. made + 1 \in 1 .. MaxReplies
      BY <1>0, <1>2 DEF Handle
  <2>2. [id |-> made + 1, conn |-> c, iCurrsequence |-> iCurrsequence[c]] \in Replies
      BY <2>1 DEF Replies
  <2>3. reply' \in [Workers -> SUBSET Replies] /\ made' \in 0 .. MaxReplies
      BY <1>2, <2>1, <2>2 DEF Handle
  <2> QED
      BY <1>2, <2>3 DEF Handle, connVars, queueVars
<1>3. ASSUME NEW w \in Workers, NEW r \in reply[w] PROVE r \in Replies
    BY <1>3
<1>4. ASSUME NEW w \in Workers, DropReply(w) PROVE TypeOK'
  <2>1. PICK r \in reply[w] : MsgSend(w, r) /\ Discard(r)
      BY <1>4 DEF DropReply
  <2>2. r.id \in 1 .. MaxReplies
      BY <1>3, <2>1 DEF Replies
  <2>3. reply' \in [Workers -> SUBSET Replies] /\ freed' \in SUBSET (1 .. MaxReplies)
      BY <2>1, <2>2 DEF MsgSend, Discard
  <2> QED
      BY <1>4, <2>1, <2>3 DEF DropReply, Discard, connVars, queueVars
<1>5. ASSUME NEW w \in Workers, CutOff(w) PROVE TypeOK'
  <2>1. PICK r \in reply[w] :
            /\ MsgSend(w, r) /\ Discard(r)
            /\ iCurrsequence' = [iCurrsequence EXCEPT ![r.conn] = @ + 1]
            /\ cut' = cut \cup {r.conn}
            /\ UNCHANGED iSendCount
      BY <1>5 DEF CutOff
  <2>2. r.id \in 1 .. MaxReplies /\ r.conn \in Conns
      BY <1>3, <2>1 DEF Replies
  <2>3. reply' \in [Workers -> SUBSET Replies] /\ freed' \in SUBSET (1 .. MaxReplies)
      BY <2>1, <2>2 DEF MsgSend, Discard
  <2>4. iCurrsequence' \in [Conns -> Nat] /\ cut' \in SUBSET Conns
      BY <2>1, <2>2
  <2> QED
      BY <2>1, <2>3, <2>4 DEF Discard, queueVars
<1>6. ASSUME NEW w \in Workers, Queue(w) PROVE TypeOK'
  <2>1. PICK r \in reply[w] :
            /\ MsgSend(w, r)
            /\ ~QueueFull /\ ~Backlog(r.conn)
            /\ iSendCount' = [iSendCount EXCEPT ![r.conn] = @ + 1]
            /\ m_MsgSendQueue' = Append(m_MsgSendQueue, r)
            /\ m_iSendMsgQueueCount' = m_iSendMsgQueueCount + 1
            /\ m_semEventSendQueue' = m_semEventSendQueue + 1
            /\ UNCHANGED <<iCurrsequence, m_iDiscardSendPkgCount, psendMemPointer,
                           sender, made, freed, cut, unsent, main>>
      BY <1>6 DEF Queue
  <2>2. r \in Replies /\ r.conn \in Conns
      BY <1>3, <2>1 DEF Replies
  <2>3. m_MsgSendQueue' \in Seq(Replies)
      BY <2>1, <2>2, ReplyAppended
  <2>4. iSendCount' \in [Conns -> Int] /\ \A c \in Conns : iSendCount'[c] <= MaxPending + 1
      BY <2>1, <2>2 DEF Backlog
  <2>5. m_iSendMsgQueueCount' \in 0 .. MaxQueue + 1 /\ m_semEventSendQueue' \in Nat
      BY <2>1 DEF QueueFull
  <2> QED
      BY <2>1, <2>3, <2>4, <2>5 DEF MsgSend
<1>7. CASE SenderStep
  <2> USE DEF Sender
  <2>1. CASE SemWait
      BY <2>1 DEF SemWait, connVars, queueVars
  <2>2. CASE Exit \/ NothingQueued \/ StartPass \/ EndPass
      BY <2>2 DEF Exit, NothingQueued, StartPass, EndPass, connVars, queueVars
  <2>3. ASSUME EraseHead, sender = "pass"
        PROVE  /\ m_MsgSendQueue' \in Seq(Replies)
               /\ m_iSendMsgQueueCount' \in 0 .. MaxQueue + 1
               /\ Head(m_MsgSendQueue) \in Replies
    <3>1. m_iSendMsgQueueCount = Len(m_MsgSendQueue) /\ Len(m_MsgSendQueue) > 0
        BY <2>3 DEF EraseHead, Counted
    <3> QED
        BY <2>3, <3>1, HeadErased DEF EraseHead
  <2>4. CASE EraseStale
      BY <2>3, <2>4 DEF EraseStale, Replies, connVars
  <2>5. CASE Send
    <3>1. iSendCount' \in [Conns -> Int] /\ \A c \in Conns : iSendCount'[c] <= MaxPending + 1
        BY <2>3, <2>5 DEF Send, Replies
    <3> QED
        BY <2>3, <2>5, <3>1 DEF Send
  <2>6. CASE SendFails
    <3>1. freed' \in SUBSET (1 .. MaxReplies) /\ unsent' \in SUBSET (1 .. MaxReplies)
        BY <2>6 DEF SendFails, Replies
    <3> QED
        BY <2>6, <3>1 DEF SendFails, connVars, queueVars
  <2> QED
      BY <1>7, <2>1, <2>2, <2>4, <2>5, <2>6 DEF SenderStep
<1>8. CASE StopEvent \/ PostStop
  <2>1. m_semEventSendQueue' \in Nat /\ main' \in {"run", "stop", "join", "gone"}
      BY <1>8 DEF StopEvent, PostStop, MainMoves
  <2>2. UNCHANGED <<connVars, queueVars, m_iDiscardSendPkgCount, psendMemPointer,
                    sender, reply, made, freed, cut, unsent>>
      BY <1>8 DEF StopEvent, PostStop
  <2> QED
      BY <2>1, <2>2 DEF connVars, queueVars
<1>9. CASE JoinAndClear
  <2>1. \A i \in DOMAIN m_MsgSendQueue : m_MsgSendQueue[i] \in Replies
      OBVIOUS
  <2>2. {m_MsgSendQueue[i].id : i \in DOMAIN m_MsgSendQueue} \subseteq 1 .. MaxReplies
      BY <2>1 DEF Replies
  <2>3. freed' \in SUBSET (1 .. MaxReplies)
      BY <1>9, <2>2 DEF JoinAndClear
  <2>4. m_MsgSendQueue' \in Seq(Replies)
      BY <1>9 DEF JoinAndClear
  <2> QED
      BY <1>9, <2>3, <2>4 DEF JoinAndClear, MainMoves, connVars
<1>10. CASE UNCHANGED vars
    BY <1>10 DEF vars, connVars, queueVars
<1> QED
    BY <1>1, <1>2, <1>4, <1>5, <1>6, <1>7, <1>8, <1>9, <1>10 DEF Next, WorkerStep

-----------------------------------------------------------------------------
(* msgSend and ServerSendQueueThread keep every variable in its type, and the *)
(* two counters msgSend limits at most one above their limits.                *)
THEOREM TypeCorrect == Spec => []TypeOK
<1>1. Init => TypeOK /\ Counted /\ HandsTyped
    BY SendLimits DEF Init, TypeOK, Counted, HandsTyped
<1>2. TypeOK /\ Counted /\ HandsTyped /\ [Next]_vars => (TypeOK /\ Counted /\ HandsTyped)'
    BY TypeStep, CountedStep, HandsStep
<1> QED
    BY <1>1, <1>2, PTL DEF Spec

(* msgSend and ServerSendQueueThread: while replies wait, the send thread is *)
(* awake or the semaphore will wake it.                                      *)
THEOREM PostsAreKept == Spec => []NoPostLost
<1>1. Init => IInv
    BY DEF Init, IInv, Counted, HandsTyped, NoPostLost
<1>2. IInv /\ [Next]_vars => IInv'
    BY HandsStep, CountedStep, PostStep DEF IInv
<1>3. IInv => NoPostLost
    BY DEF IInv
<1> QED
    BY <1>1, <1>2, <1>3, PTL DEF Spec
-----------------------------------------------------------------------------
(* The replies of a queue: their numbers, and the places of a connection's. *)

IdsOf(q) == {q[i].id : i \in DOMAIN q}
Distinct(q) == \A i, j \in DOMAIN q : q[i].id = q[j].id => i = j
PlacesOf(q, c) == {i \in DOMAIN q : q[i].conn = c}

\* The queue, by position.
LEMMA AppendedAt ==
    ASSUME NEW q \in Seq(Replies), NEW r \in Replies
    PROVE  /\ DOMAIN Append(q, r) = 1 .. Len(q) + 1
           /\ \A i \in 1 .. Len(q) : Append(q, r)[i] = q[i]
           /\ Append(q, r)[Len(q) + 1] = r
    BY AppendProperties

LEMMA TailAt ==
    ASSUME NEW q \in Seq(Replies), q # <<>>
    PROVE  /\ Len(q) >= 1 /\ DOMAIN Tail(q) = 1 .. Len(q) - 1
           /\ \A i \in 1 .. Len(q) - 1 : Tail(q)[i] = q[i + 1]
           /\ Head(q) = q[1]
    BY HeadTailProperties

(* msgSend appends a reply that was not in the queue. *)
LEMMA AppendIds ==
    ASSUME NEW q \in Seq(Replies), NEW r \in Replies
    PROVE  /\ IdsOf(Append(q, r)) = IdsOf(q) \cup {r.id}
           /\ Distinct(q) /\ r.id \notin IdsOf(q) => Distinct(Append(q, r))
<1>0. Len(q) \in Nat /\ DOMAIN q = 1 .. Len(q)
    OBVIOUS
<1>1. ASSUME NEW i \in 1 .. Len(q) + 1
      PROVE  i \in 1 .. Len(q) \/ i = Len(q) + 1
    BY <1>0
<1>2. IdsOf(Append(q, r)) \subseteq IdsOf(q) \cup {r.id}
    BY <1>0, <1>1, AppendedAt DEF IdsOf
<1>3. IdsOf(q) \cup {r.id} \subseteq IdsOf(Append(q, r))
  <2>1. \A i \in 1 .. Len(q) : i \in 1 .. Len(q) + 1
      BY <1>0
  <2>2. Len(q) + 1 \in 1 .. Len(q) + 1
      BY <1>0
  <2>3. IdsOf(q) \subseteq IdsOf(Append(q, r))
    <3> SUFFICES ASSUME NEW i \in 1 .. Len(q) PROVE q[i].id \in IdsOf(Append(q, r))
        BY <1>0 DEF IdsOf
    <3>1. Append(q, r)[i] = q[i] /\ i \in DOMAIN Append(q, r)
        BY <2>1, AppendedAt
    <3> QED
        BY <3>1 DEF IdsOf
  <2>4. Append(q, r)[Len(q) + 1] = r /\ Len(q) + 1 \in DOMAIN Append(q, r)
      BY <2>2, AppendedAt
  <2>5. r.id \in IdsOf(Append(q, r))
      BY <2>4 DEF IdsOf
  <2> QED
      BY <2>3, <2>5
<1>4. ASSUME Distinct(q), r.id \notin IdsOf(q) PROVE Distinct(Append(q, r))
  <2> SUFFICES ASSUME NEW i \in 1 .. Len(q) + 1, NEW j \in 1 .. Len(q) + 1,
                      Append(q, r)[i].id = Append(q, r)[j].id
               PROVE  i = j
      BY AppendedAt DEF Distinct
  <2>1. \A k \in 1 .. Len(q) : Append(q, r)[k].id # r.id
      BY <1>0, <1>4, AppendedAt DEF IdsOf
  <2>2. CASE i \in 1 .. Len(q) /\ j \in 1 .. Len(q)
      BY <1>0, <1>4, <2>2, AppendedAt DEF Distinct
  <2> QED
      BY <1>1, <2>1, <2>2, AppendedAt
<1> QED
    BY <1>2, <1>3, <1>4

(* The send thread takes the first. *)
LEMMA TailIds ==
    ASSUME NEW q \in Seq(Replies), q # <<>>, Distinct(q)
    PROVE  /\ Distinct(Tail(q))
           /\ IdsOf(q) = IdsOf(Tail(q)) \cup {Head(q).id}
           /\ Head(q).id \notin IdsOf(Tail(q))
<1>0. Len(q) \in Nat /\ DOMAIN q = 1 .. Len(q)
    OBVIOUS
<1>1. \A i \in 1 .. Len(q) - 1 : i + 1 \in 1 .. Len(q) /\ i + 1 # 1
    BY <1>0
<1>2. \A i \in 1 .. Len(q) : i = 1 \/ (i - 1 \in 1 .. Len(q) - 1 /\ (i - 1) + 1 = i)
    BY <1>0
<1>3. 1 \in 1 .. Len(q)
    BY <1>0, TailAt
<1>4. Distinct(Tail(q))
  <2> SUFFICES ASSUME NEW i \in 1 .. Len(q) - 1, NEW j \in 1 .. Len(q) - 1,
                      Tail(q)[i].id = Tail(q)[j].id
               PROVE  i = j
      BY TailAt DEF Distinct
  <2>1. q[i + 1].id = q[j + 1].id
      BY TailAt
  <2>2. i + 1 = j + 1
      BY <1>0, <1>1, <2>1 DEF Distinct
  <2> QED
      BY <2>2
<1>5. IdsOf(q) \subseteq IdsOf(Tail(q)) \cup {Head(q).id}
  <2> SUFFICES ASSUME NEW i \in 1 .. Len(q), i # 1 PROVE q[i].id \in IdsOf(Tail(q))
      BY <1>0, TailAt DEF IdsOf
  <2>1. Tail(q)[i - 1] = q[i] /\ i - 1 \in DOMAIN Tail(q)
      BY <1>2, TailAt
  <2> QED
      BY <2>1 DEF IdsOf
<1>6. IdsOf(Tail(q)) \subseteq IdsOf(q) /\ Head(q).id \in IdsOf(q)
    BY <1>0, <1>1, <1>3, TailAt DEF IdsOf
<1>7. Head(q).id \notin IdsOf(Tail(q))
    BY <1>0, <1>1, <1>3, TailAt DEF IdsOf, Distinct
<1> QED
    BY <1>4, <1>5, <1>6, <1>7

(* Replies with numbers of their own are as many as the numbers. *)
LEMMA IdsCounted ==
    ASSUME NEW q \in Seq(Replies), Distinct(q)
    PROVE  Cardinality(IdsOf(q)) = Len(q)
<1> DEFINE f == [i \in 1 .. Len(q) |-> q[i].id]
<1>0. Len(q) \in Nat /\ DOMAIN q = 1 .. Len(q)
    OBVIOUS
<1>1. f \in Bijection(1 .. Len(q), IdsOf(q))
  <2>1. f \in Injection(1 .. Len(q), IdsOf(q))
      BY <1>0 DEF Injection, IsInjective, IdsOf, Distinct
  <2>2. f \in Surjection(1 .. Len(q), IdsOf(q))
      BY <1>0 DEF Surjection, IdsOf
  <2> QED
      BY <2>1, <2>2 DEF Bijection
<1> QED
    BY <1>0, <1>1, FS_CountingElements DEF ExistsBijection

(* There are only so many places. *)
LEMMA PlacesFinite ==
    ASSUME NEW q \in Seq(Replies), NEW c
    PROVE  IsFiniteSet(PlacesOf(q, c)) /\ Cardinality(PlacesOf(q, c)) \in Nat
<1>1. IsFiniteSet(1 .. Len(q))
    BY FS_Interval
<1>2. PlacesOf(q, c) \in SUBSET (1 .. Len(q))
    BY DEF PlacesOf
<1> QED
    BY <1>1, <1>2, FS_Subset, FS_CardinalityType

(* One reply more, or one less, is queued for its connection only. *)
LEMMA AppendCounted ==
    ASSUME NEW q \in Seq(Replies), NEW r \in Replies, NEW c
    PROVE  /\ Cardinality(PlacesOf(q, c)) \in Nat
           /\ Cardinality(PlacesOf(Append(q, r), c)) =
                  Cardinality(PlacesOf(q, c)) + IF r.conn = c THEN 1 ELSE 0
<1>0. Len(q) \in Nat /\ DOMAIN q = 1 .. Len(q)
    OBVIOUS
<1>1. IsFiniteSet(PlacesOf(q, c)) /\ Cardinality(PlacesOf(q, c)) \in Nat
    BY PlacesFinite
<1>2. Len(q) + 1 \notin PlacesOf(q, c)
    BY <1>0 DEF PlacesOf
<1>3. 1 .. Len(q) + 1 = (1 .. Len(q)) \cup {Len(q) + 1}
    BY <1>0
<1>4. PlacesOf(Append(q, r), c) =
          IF r.conn = c THEN PlacesOf(q, c) \cup {Len(q) + 1} ELSE PlacesOf(q, c)
  <2> DEFINE p == Append(q, r)
             n == Len(q) + 1
  <2>1. /\ DOMAIN p = (1 .. Len(q)) \cup {n}
        /\ p[n] = r /\ \A i \in 1 .. Len(q) : p[i] = q[i]
      BY <1>3, AppendedAt
  <2> HIDE DEF p, n
  <2>2. PlacesOf(p, c) = IF r.conn = c THEN PlacesOf(q, c) \cup {n} ELSE PlacesOf(q, c)
      BY <1>0, <2>1 DEF PlacesOf
  <2> QED
      BY <2>2 DEF p, n
<1>5. CASE r.conn = c
  <2>1. Cardinality(PlacesOf(q, c) \cup {Len(q) + 1}) = Cardinality(PlacesOf(q, c)) + 1
      BY <1>1, <1>2, FS_AddElement
  <2> QED
      BY <1>1, <1>4, <1>5, <2>1
<1>6. CASE r.conn # c
    BY <1>1, <1>4, <1>6
<1> QED
    BY <1>5, <1>6

LEMMA TailCounted ==
    ASSUME NEW q \in Seq(Replies), q # <<>>, NEW c
    PROVE  /\ Cardinality(PlacesOf(q, c)) \in Nat
           /\ Cardinality(PlacesOf(Tail(q), c)) =
                  Cardinality(PlacesOf(q, c)) - IF Head(q).conn = c THEN 1 ELSE 0
<1> DEFINE later == PlacesOf(q, c) \ {1}
           f == [i \in later |-> i - 1]
<1>0. Len(q) \in Nat /\ DOMAIN q = 1 .. Len(q) /\ Len(q) >= 1
    BY TailAt
<1>1. IsFiniteSet(PlacesOf(q, c)) /\ Cardinality(PlacesOf(q, c)) \in Nat
    BY PlacesFinite
<1>2. 1 \in PlacesOf(q, c) <=> Head(q).conn = c
    BY <1>0, TailAt DEF PlacesOf
<1>3. /\ IsFiniteSet(later)
      /\ Cardinality(later) =
            Cardinality(PlacesOf(q, c)) - IF Head(q).conn = c THEN 1 ELSE 0
    BY <1>1, <1>2, FS_RemoveElement
<1>4. \A i \in 2 .. Len(q) : i - 1 \in 1 .. Len(q) - 1 /\ (i - 1) + 1 = i
    BY <1>0
<1>5. \A i \in 1 .. Len(q) - 1 : i + 1 \in 2 .. Len(q) /\ (i + 1) - 1 = i
    BY <1>0
<1>6. \A i \in later : i \in 2 .. Len(q) /\ q[i].conn = c
    BY <1>0 DEF PlacesOf
<1>7. \A i \in 2 .. Len(q) : q[i].conn = c => i \in later
    BY <1>0 DEF PlacesOf
<1> HIDE DEF later
<1>8. f \in [later -> PlacesOf(Tail(q), c)]
  <2> SUFFICES ASSUME NEW i \in later PROVE i - 1 \in PlacesOf(Tail(q), c)
      OBVIOUS
  <2>1. Tail(q)[i - 1] = q[i] /\ i - 1 \in DOMAIN Tail(q)
      BY <1>4, <1>6, TailAt
  <2> QED
      BY <1>6, <2>1 DEF PlacesOf
<1>9. \A i, j \in later : f[i] = f[j] => i = j
    BY <1>4, <1>6
<1>10. ASSUME NEW k \in PlacesOf(Tail(q), c) PROVE \E i \in later : f[i] = k
  <2>1. k \in 1 .. Len(q) - 1 /\ Tail(q)[k].conn = c
      BY TailAt DEF PlacesOf
  <2>2. k + 1 \in later /\ (k + 1) - 1 = k
      BY <1>5, <1>7, <2>1, TailAt
  <2> QED
      BY <2>2
<1>11. f \in Bijection(later, PlacesOf(Tail(q), c))
    BY <1>8, <1>9, <1>10 DEF Bijection, Injection, IsInjective, Surjection
<1> QED
    BY <1>1, <1>3, <1>11, FS_Bijection DEF ExistsBijection
\* Nobody holds two replies, and the numbers tell the replies apart.
HeldOnce ==
    /\ \A w \in Workers : \A r, s \in reply[w] : r = s
    /\ \A v, w \in Workers : \A r \in reply[v], s \in reply[w] : r.id = s.id => v = w
    /\ \A r, s \in psendMemPointer : r = s
    /\ sender # "send" => psendMemPointer = {}
    /\ Distinct(m_MsgSendQueue)

SendingIds == {r.id : r \in psendMemPointer}
WaitingIds == {r.id : r \in UNION {reply[w] : w \in Workers}}

\* Every reply made is in exactly one place.
OnePlace ==
    LET queued == IdsOf(m_MsgSendQueue)
    IN  /\ queued \cap SendingIds = {} /\ queued \cap WaitingIds = {}
        /\ SendingIds \cap WaitingIds = {}
        /\ (queued \cup SendingIds \cup WaitingIds) \cap freed = {}
        /\ queued \cup SendingIds \cup WaitingIds \cup freed = 1 .. made

\* Replies are made for open connections only: one that is stale, and which the
\* send thread erases without counting it off, was made before a close.
Fresh ==
    /\ \A w \in Workers : \A r \in reply[w] : r.iCurrsequence = 0
    /\ \A i \in DOMAIN m_MsgSendQueue : m_MsgSendQueue[i].iCurrsequence = 0

-----------------------------------------------------------------------------
(* A worker lets its only reply go. *)
LEMMA HandsEmptied ==
    ASSUME HandsTyped, HeldOnce, NEW w \in Workers, NEW r \in reply[w], MsgSend(w, r)
    PROVE  /\ r \in Replies /\ r.id \in WaitingIds
           /\ WaitingIds' = WaitingIds \ {r.id}
           /\ \A v \in Workers : \A s \in reply'[v] : v # w /\ s \in reply[v]
<1>1. reply' = [reply EXCEPT ![w] = {}] /\ reply \in [Workers -> SUBSET Replies]
    BY DEF MsgSend, HandsTyped
<1>2. \A v \in Workers : \A s \in reply'[v] : v # w /\ s \in reply[v]
    BY <1>1
<1>3. \A v \in Workers : v # w => reply'[v] = reply[v]
    BY <1>1
<1>4. \A v \in Workers : \A s \in reply[v] : v # w => s.id # r.id
    BY DEF HeldOnce
<1>5. \A s \in reply[w] : s = r
    BY DEF HeldOnce
<1>6. r.id \in WaitingIds
    BY DEF WaitingIds
<1>7. WaitingIds' \subseteq WaitingIds \ {r.id}
    BY <1>2, <1>4 DEF WaitingIds
<1>8. WaitingIds \ {r.id} \subseteq WaitingIds'
    BY <1>3, <1>5 DEF WaitingIds
<1> QED
    BY <1>1, <1>2, <1>6, <1>7, <1>8

LEMMA HeldStep ==
    Counted /\ HandsTyped /\ HeldOnce /\ OnePlace /\ [Next]_vars => HeldOnce'
<1> SUFFICES ASSUME Counted, HandsTyped, HeldOnce, OnePlace, [Next]_vars PROVE HeldOnce'
    OBVIOUS
<1>1. CASE UNCHANGED <<reply, psendMemPointer, sender, m_MsgSendQueue>>
    BY <1>1 DEF HeldOnce, Distinct
<1>2. ASSUME NEW c \in Conns, Close(c) PROVE HeldOnce'
    BY <1>1, <1>2 DEF Close, queueVars
<1>3. ASSUME NEW w \in Workers, NEW c \in Conns, Handle(w, c) PROVE HeldOnce'
  <2> DEFINE new == [id |-> made + 1, conn |-> c, iCurrsequence |-> iCurrsequence[c]]
  <2>1. reply' = [reply EXCEPT ![w] = {new}] /\ new.id = made + 1
      BY <1>3 DEF Handle
  <2>2. \A v \in Workers : \A r \in reply[v] : r.id \in 1 .. made
      BY DEF OnePlace, WaitingIds
  <2>3. made + 1 \notin 1 .. made
      BY DEF HandsTyped
  <2> HIDE DEF new
  <2>4. /\ \A v \in Workers : v # w => reply'[v] = reply[v]
        /\ reply'[w] = {new}
      BY <2>1 DEF HandsTyped
  <2>5. UNCHANGED <<psendMemPointer, sender, m_MsgSendQueue>>
      BY <1>3 DEF Handle, queueVars
  <2>6. /\ \A v \in Workers : \A r, s \in reply'[v] : r = s
        /\ \A u, v \in Workers : \A r \in reply'[u], s \in reply'[v] : r.id = s.id => u = v
      BY <2>1, <2>2, <2>3, <2>4 DEF HeldOnce
  <2> QED
      BY <2>5, <2>6 DEF HeldOnce, Distinct
<1>4. ASSUME NEW w \in Workers, NEW r \in reply[w], MsgSend(w, r),
             UNCHANGED <<psendMemPointer, sender, m_MsgSendQueue>>
      PROVE  HeldOnce'
    BY <1>4, HandsEmptied DEF HeldOnce, Distinct
<1>5. ASSUME NEW w \in Workers, WorkerStep(w) PROVE HeldOnce'
  <2>1. CASE DropReply(w) \/ CutOff(w)
      BY <1>4, <2>1 DEF DropReply, CutOff, Discard, queueVars
  <2>2. CASE Queue(w)
    <3>1. PICK r \in reply[w] :
              /\ MsgSend(w, r)
              /\ m_MsgSendQueue' = Append(m_MsgSendQueue, r)
              /\ UNCHANGED <<psendMemPointer, sender>>
        BY <2>2 DEF Queue
    <3>2. r \in Replies /\ r.id \notin IdsOf(m_MsgSendQueue)
        BY <3>1, HandsEmptied DEF OnePlace
    <3>3. Distinct(m_MsgSendQueue')
        BY <3>1, <3>2, AppendIds DEF Counted, HeldOnce
    <3> QED
        BY <3>1, <3>3, HandsEmptied DEF HeldOnce
  <2> QED
      BY <1>5, <2>1, <2>2 DEF WorkerStep
<1>6. CASE SenderStep
  <2> USE DEF Sender
  <2>1. CASE SemWait \/ Exit \/ NothingQueued \/ StartPass \/ EndPass
      BY <2>1 DEF SemWait, Exit, NothingQueued, StartPass, EndPass, queueVars, HeldOnce,
                  Distinct
  <2>2. CASE SendFails
      BY <2>2 DEF SendFails, queueVars, HeldOnce, Distinct
  <2>3. ASSUME EraseHead PROVE Distinct(m_MsgSendQueue')
      BY <2>3, TailIds DEF EraseHead, Counted, HeldOnce
  <2>4. CASE EraseStale
      BY <2>3, <2>4 DEF EraseStale, HeldOnce
  <2>5. CASE Send
      BY <2>3, <2>5 DEF Send, HeldOnce
  <2> QED
      BY <1>6, <2>1, <2>2, <2>4, <2>5 DEF SenderStep
<1>7. CASE StopEvent \/ PostStop
    BY <1>1, <1>7 DEF StopEvent, PostStop, queueVars
<1>8. CASE JoinAndClear
    BY <1>8 DEF JoinAndClear, HeldOnce, Distinct
<1>9. CASE UNCHANGED vars
    BY <1>1, <1>9 DEF vars, queueVars
<1> QED
    BY <1>2, <1>3, <1>5, <1>6, <1>7, <1>8, <1>9 DEF Next

(* Every step moves at most one reply from its place to the next. *)
LEMMA PlaceStep ==
    Counted /\ HandsTyped /\ HeldOnce /\ OnePlace /\ [Next]_vars => OnePlace'
<1> SUFFICES ASSUME Counted, HandsTyped, HeldOnce, OnePlace, [Next]_vars PROVE OnePlace'
    OBVIOUS
<1> DEFINE Q == IdsOf(m_MsgSendQueue)
<1>1. CASE UNCHANGED <<reply, psendMemPointer, m_MsgSendQueue, freed, made>>
  <2>1. Q' = Q /\ SendingIds' = SendingIds /\ WaitingIds' = WaitingIds
      BY <1>1 DEF IdsOf, SendingIds, WaitingIds
  <2> QED
      BY <1>1, <2>1 DEF OnePlace
<1>2. ASSUME NEW c \in Conns, Close(c) PROVE OnePlace'
    BY <1>1, <1>2 DEF Close, queueVars
<1>3. ASSUME NEW w \in Workers, NEW c \in Conns, Handle(w, c) PROVE OnePlace'
  <2> DEFINE new == [id |-> made + 1, conn |-> c, iCurrsequence |-> iCurrsequence[c]]
  <2>1. reply' = [reply EXCEPT ![w] = {new}] /\ new.id = made + 1
      BY <1>3 DEF Handle
  <2> HIDE DEF new
  <2>2. reply[w] = {} /\ made' = made + 1
      BY <1>3 DEF Handle
  <2>3. WaitingIds' = WaitingIds \cup {made + 1}
    <3>1. /\ \A v \in Workers : v # w => reply'[v] = reply[v]
          /\ \A r \in reply'[w] : r.id = made + 1
          /\ \E r \in reply'[w] : r.id = made + 1
        BY <2>1 DEF HandsTyped
    <3>2. WaitingIds' \subseteq WaitingIds \cup {made + 1}
        BY <3>1 DEF WaitingIds
    <3>3. WaitingIds \cup {made + 1} \subseteq WaitingIds'
        BY <2>2, <3>1 DEF WaitingIds
    <3> QED
        BY <3>2, <3>3
  <2>4. Q' = Q /\ SendingIds' = SendingIds /\ freed' = freed
      BY <1>3 DEF Handle, queueVars, IdsOf, SendingIds
  <2>5. 1 .. made' = (1 .. made) \cup {made + 1} /\ made + 1 \notin 1 .. made
      BY <2>2 DEF HandsTyped
  <2> QED
      BY <2>3, <2>4, <2>5 DEF OnePlace
<1>4. ASSUME NEW w \in Workers, NEW r \in reply[w], MsgSend(w, r), Discard(r)
      PROVE  OnePlace'
  <2>1. WaitingIds' = WaitingIds \ {r.id} /\ r.id \in WaitingIds
      BY <1>4, HandsEmptied
  <2>2. freed' = freed \cup {r.id} /\ Q' = Q /\ SendingIds' = SendingIds /\ made' = made
      BY <1>4 DEF Discard, queueVars, IdsOf, SendingIds
  <2> QED
      BY <2>1, <2>2 DEF OnePlace
<1>5. ASSUME NEW w \in Workers, WorkerStep(w) PROVE OnePlace'
  <2>1. CASE DropReply(w) \/ CutOff(w)
      BY <1>4, <2>1 DEF DropReply, CutOff
  <2>2. CASE Queue(w)
    <3>1. PICK r \in reply[w] :
              /\ MsgSend(w, r)
              /\ m_MsgSendQueue' = Append(m_MsgSendQueue, r)
              /\ UNCHANGED <<psendMemPointer, freed, made>>
        BY <2>2 DEF Queue
    <3>2. /\ r \in Replies /\ r.id \in WaitingIds
          /\ WaitingIds' = WaitingIds \ {r.id}
        BY <3>1, HandsEmptied
    <3>3. Q' = Q \cup {r.id}
        BY <3>1, <3>2, AppendIds DEF Counted
    <3>4. SendingIds' = SendingIds
        BY <3>1 DEF SendingIds
    <3> QED
        BY <3>1, <3>2, <3>3, <3>4 DEF OnePlace
  <2> QED
      BY <1>5, <2>1, <2>2 DEF WorkerStep
<1>6. CASE SenderStep
  <2> USE DEF Sender
  <2>1. CASE SemWait \/ Exit \/ NothingQueued \/ StartPass \/ EndPass
      BY <1>1, <2>1 DEF SemWait, Exit, NothingQueued, StartPass, EndPass, queueVars
  <2>2. ASSUME EraseHead
        PROVE  Q = Q' \cup {Head(m_MsgSendQueue).id} /\ Head(m_MsgSendQueue).id \notin Q'
      BY <2>2, TailIds DEF EraseHead, Counted, HeldOnce
  <2>3. CASE EraseStale
    <3>1. /\ WaitingIds' = WaitingIds /\ SendingIds' = SendingIds /\ made' = made
          /\ freed' = freed \cup {Head(m_MsgSendQueue).id}
        BY <2>3 DEF EraseStale, WaitingIds, SendingIds
    <3> QED
        BY <2>2, <2>3, <3>1 DEF EraseStale, OnePlace
  <2>4. CASE Send
    <3>1. SendingIds = {} /\ SendingIds' = {Head(m_MsgSendQueue).id}
        BY <2>4 DEF Send, SendingIds, HeldOnce
    <3>2. WaitingIds' = WaitingIds /\ freed' = freed /\ made' = made
        BY <2>4 DEF Send, WaitingIds
    <3> QED
        BY <2>2, <2>4, <3>1, <3>2 DEF Send, OnePlace
  <2>5. CASE SendFails
    <3>1. PICK r \in psendMemPointer : freed' = freed \cup {r.id}
        BY <2>5 DEF SendFails
    <3>2. SendingIds = {r.id}
        BY <3>1 DEF SendingIds, HeldOnce
    <3>3. SendingIds' = {} /\ WaitingIds' = WaitingIds /\ Q' = Q /\ made' = made
        BY <2>5 DEF SendFails, SendingIds, WaitingIds, IdsOf, queueVars
    <3> QED
        BY <3>1, <3>2, <3>3 DEF OnePlace
  <2> QED
      BY <1>6, <2>1, <2>3, <2>4, <2>5 DEF SenderStep
<1>7. CASE StopEvent \/ PostStop
    BY <1>1, <1>7 DEF StopEvent, PostStop, queueVars
<1>8. CASE JoinAndClear
  <2>1. freed' = freed \cup Q /\ Q' = {}
      BY <1>8 DEF JoinAndClear, IdsOf
  <2>2. WaitingIds' = WaitingIds /\ SendingIds' = SendingIds /\ made' = made
      BY <1>8 DEF JoinAndClear, WaitingIds, SendingIds
  <2> QED
      BY <2>1, <2>2 DEF OnePlace
<1>9. CASE UNCHANGED vars
    BY <1>1, <1>9 DEF vars, queueVars
<1> QED
    BY <1>2, <1>3, <1>5, <1>6, <1>7, <1>8, <1>9 DEF Next

PlaceInv == Counted /\ HandsTyped /\ HeldOnce /\ OnePlace

(* msgSend, ServerSendQueueThread and clearMsgSendQueue: the memory of every reply *)
(* is released once, by whoever has it last.                                       *)
THEOREM NoReplyLost == Spec => []RepliesAccounted
<1>1. Init => PlaceInv
  <2> SUFFICES ASSUME Init PROVE PlaceInv
      OBVIOUS
  <2>1. /\ m_MsgSendQueue = <<>> /\ psendMemPointer = {} /\ freed = {} /\ made = 0
        /\ reply = [w \in Workers |-> {}]
      BY DEF Init
  <2>2. IdsOf(m_MsgSendQueue) = {} /\ SendingIds = {} /\ WaitingIds = {}
      BY <2>1 DEF IdsOf, SendingIds, WaitingIds
  <2> QED
      BY <2>1, <2>2 DEF Init, PlaceInv, Counted, HandsTyped, HeldOnce, OnePlace, Distinct
<1>2. PlaceInv /\ [Next]_vars => PlaceInv'
    BY HandsStep, CountedStep, HeldStep, PlaceStep DEF PlaceInv
<1>3. PlaceInv => RepliesAccounted
  <2> SUFFICES ASSUME PlaceInv PROVE RepliesAccounted
      OBVIOUS
  <2>1. Cardinality(IdsOf(m_MsgSendQueue)) = Len(m_MsgSendQueue)
      BY IdsCounted DEF PlaceInv, Counted, HeldOnce
  <2> QED
      BY <2>1 DEF PlaceInv, OnePlace, RepliesAccounted, InHands, IdsOf, SendingIds, WaitingIds
<1> QED
    BY <1>1, <1>2, <1>3, PTL DEF Spec
-----------------------------------------------------------------------------
LEMMA FreshStep == Counted /\ HandsTyped /\ Fresh /\ [Next]_vars => Fresh'
<1> SUFFICES ASSUME Counted, HandsTyped, Fresh, [Next]_vars PROVE Fresh'
    OBVIOUS
<1>1. CASE UNCHANGED <<reply, m_MsgSendQueue>>
    BY <1>1 DEF Fresh
<1>2. ASSUME NEW c \in Conns, Close(c) PROVE Fresh'
    BY <1>1, <1>2 DEF Close, queueVars
<1>3. ASSUME NEW w \in Workers, NEW c \in Conns, Handle(w, c) PROVE Fresh'
  <2> DEFINE new == [id |-> made + 1, conn |-> c, iCurrsequence |-> iCurrsequence[c]]
  <2>1. reply' = [reply EXCEPT ![w] = {new}] /\ new.iCurrsequence = 0
      BY <1>3 DEF Handle, IsOpen
  <2> HIDE DEF new
  <2> QED
      BY <1>3, <2>1 DEF Handle, Fresh, HandsTyped, queueVars
<1>4. ASSUME NEW w \in Workers, NEW r \in reply[w], MsgSend(w, r)
      PROVE  /\ r \in Replies /\ r.iCurrsequence = 0
             /\ \A v \in Workers : \A s \in reply'[v] : s.iCurrsequence = 0
    BY <1>4 DEF MsgSend, HandsTyped, Fresh
<1>5. ASSUME NEW w \in Workers, WorkerStep(w) PROVE Fresh'
  <2>1. CASE DropReply(w) \/ CutOff(w)
      BY <1>4, <2>1 DEF DropReply, CutOff, Discard, queueVars, Fresh
  <2>2. CASE Queue(w)
    <3>1. PICK r \in reply[w] :
              MsgSend(w, r) /\ m_MsgSendQueue' = Append(m_MsgSendQueue, r)
        BY <2>2 DEF Queue
    <3>2. /\ r \in Replies /\ r.iCurrsequence = 0
          /\ \A v \in Workers : \A s \in reply'[v] : s.iCurrsequence = 0
        BY <1>4, <3>1
    <3>3. DOMAIN m_MsgSendQueue' = (1 .. Len(m_MsgSendQueue)) \cup {Len(m_MsgSendQueue) + 1}
        BY <3>1, <3>2, AppendedAt DEF Counted
    <3>4. \A i \in DOMAIN m_MsgSendQueue' : m_MsgSendQueue'[i].iCurrsequence = 0
        BY <3>1, <3>2, <3>3, AppendedAt DEF Counted, Fresh
    <3> QED
        BY <3>2, <3>4 DEF Fresh
  <2> QED
      BY <1>5, <2>1, <2>2 DEF WorkerStep
<1>6. CASE SenderStep
  <2>1. CASE SemWait \/ Exit \/ NothingQueued \/ StartPass \/ EndPass \/ SendFails
      BY <1>1, <2>1
      DEF SemWait, Exit, NothingQueued, StartPass, EndPass, SendFails, queueVars
  <2>2. ASSUME EraseHead
        PROVE  \A i \in DOMAIN m_MsgSendQueue' : m_MsgSendQueue'[i].iCurrsequence = 0
    <3>1. \A i \in 1 .. Len(m_MsgSendQueue) - 1 : i + 1 \in DOMAIN m_MsgSendQueue
        BY DEF Counted
    <3> QED
        BY <2>2, <3>1, TailAt DEF EraseHead, Counted, Fresh
  <2>3. CASE EraseStale \/ Send
      BY <2>2, <2>3 DEF EraseStale, Send, Fresh
  <2> QED
      BY <1>6, <2>1, <2>3 DEF SenderStep
<1>7. CASE StopEvent \/ PostStop
    BY <1>1, <1>7 DEF StopEvent, PostStop, queueVars
<1>8. CASE JoinAndClear
    BY <1>8 DEF JoinAndClear, Fresh
<1>9. CASE UNCHANGED vars
    BY <1>1, <1>9 DEF vars, queueVars
<1> QED
    BY <1>2, <1>3, <1>5, <1>6, <1>7, <1>8, <1>9 DEF Next

(* What is counted for a connection changes with what is queued for it. *)
QueuedFor(c) == Cardinality(PlacesOf(m_MsgSendQueue, c))

BacklogInv ==
    /\ Counted /\ HandsTyped /\ Fresh
    /\ iSendCount \in [Conns -> Int]
    /\ BacklogExact

LEMMA BacklogStep == BacklogInv /\ [Next]_vars => BacklogInv'
<1> SUFFICES ASSUME BacklogInv, [Next]_vars PROVE BacklogInv'
    OBVIOUS
<1>0. Counted' /\ HandsTyped' /\ Fresh'
    BY CountedStep, HandsStep, FreshStep DEF BacklogInv
<1>01. BacklogExact <=>
          (main # "gone" =>
              \A c \in Conns : iCurrsequence[c] = 0 => iSendCount[c] = QueuedFor(c))
    BY DEF BacklogExact, IsOpen, Queued, PlacesOf, QueuedFor
<1>02. BacklogExact' <=>
          (main' # "gone" =>
              \A c \in Conns : iCurrsequence'[c] = 0 => iSendCount'[c] = QueuedFor(c)')
    BY DEF BacklogExact, IsOpen, Queued, PlacesOf, QueuedFor
<1>03. iCurrsequence \in [Conns -> Nat] /\ m_MsgSendQueue \in Seq(Replies)
    BY DEF BacklogInv, HandsTyped, Counted
<1>1. ASSUME UNCHANGED <<iSendCount, m_MsgSendQueue>>,
             main' # "gone" => main # "gone",
             \A c \in Conns : iCurrsequence'[c] = 0 => iCurrsequence[c] = 0
      PROVE  BacklogInv'
  <2>1. \A c \in Conns : QueuedFor(c)' = QueuedFor(c)
      BY <1>1 DEF QueuedFor, PlacesOf
  <2> QED
      BY <1>0, <1>01, <1>02, <1>1, <2>1 DEF BacklogInv
<1>2. ASSUME NEW c \in Conns, Close(c) PROVE BacklogInv'
  <2>1. iCurrsequence' = [iCurrsequence EXCEPT ![c] = @ + 1]
      BY <1>2 DEF Close
  <2>2. \A d \in Conns : iCurrsequence'[d] = 0 => iCurrsequence[d] = 0
      BY <1>03, <2>1
  <2> QED
      BY <1>1, <1>2, <2>2 DEF Close, queueVars
<1>3. ASSUME NEW w \in Workers, NEW c \in Conns, Handle(w, c) PROVE BacklogInv'
    BY <1>1, <1>3 DEF Handle, queueVars, connVars
<1>4. ASSUME NEW w \in Workers, WorkerStep(w) PROVE BacklogInv'
  <2>1. CASE DropReply(w)
      BY <1>1, <2>1 DEF DropReply, Discard, queueVars, connVars
  <2>2. CASE CutOff(w)
    <3>1. PICK r \in reply[w] :
              /\ MsgSend(w, r) /\ Discard(r)
              /\ iCurrsequence' = [iCurrsequence EXCEPT ![r.conn] = @ + 1]
              /\ UNCHANGED iSendCount
        BY <2>2 DEF CutOff
    <3>2. \A d \in Conns : iCurrsequence'[d] = 0 => iCurrsequence[d] = 0
        BY <1>03, <3>1
    <3> QED
        BY <1>1, <3>1, <3>2 DEF Discard, queueVars
  <2>3. CASE Queue(w)
    <3>1. PICK r \in reply[w] :
              /\ MsgSend(w, r)
              /\ iSendCount' = [iSendCount EXCEPT ![r.conn] = @ + 1]
              /\ m_MsgSendQueue' = Append(m_MsgSendQueue, r)
              /\ UNCHANGED <<iCurrsequence, main>>
        BY <2>3 DEF Queue
    <3>2. r \in Replies /\ r.conn \in Conns
        BY <3>1 DEF BacklogInv, HandsTyped, Replies
    <3>3. \A c \in Conns :
              QueuedFor(c) \in Nat /\ QueuedFor(c)' = QueuedFor(c) + IF r.conn = c THEN 1 ELSE 0
        BY <1>03, <3>1, <3>2, AppendCounted DEF QueuedFor
    <3>4. \A c \in Conns : iSendCount'[c] = iSendCount[c] + IF r.conn = c THEN 1 ELSE 0
        BY <3>1, <3>2 DEF BacklogInv
    <3> QED
        BY <1>0, <1>01, <1>02, <3>1, <3>2, <3>3, <3>4 DEF BacklogInv
  <2> QED
      BY <1>4, <2>1, <2>2, <2>3 DEF WorkerStep
<1>5. CASE SenderStep
  <2>1. CASE SemWait \/ Exit \/ NothingQueued \/ StartPass \/ EndPass \/ SendFails
      BY <1>1, <2>1
      DEF SemWait, Exit, NothingQueued, StartPass, EndPass, SendFails, queueVars, connVars
  <2>2. ASSUME EraseHead
        PROVE  /\ \A c \in Conns :
                     /\ QueuedFor(c) \in Nat
                     /\ QueuedFor(c)' =
                          QueuedFor(c) - IF Head(m_MsgSendQueue).conn = c THEN 1 ELSE 0
               /\ Head(m_MsgSendQueue) \in Replies
               /\ Head(m_MsgSendQueue).iCurrsequence = 0
    <3>1. m_MsgSendQueue # <<>> /\ m_MsgSendQueue' = Tail(m_MsgSendQueue)
        BY <2>2 DEF EraseHead
    <3>2. Head(m_MsgSendQueue) = m_MsgSendQueue[1] /\ 1 \in DOMAIN m_MsgSendQueue
        BY <1>03, <3>1
    <3> QED
        BY <1>03, <3>1, <3>2, TailCounted DEF QueuedFor, BacklogInv, Fresh
  <2>3. CASE EraseStale
    <3>1. iCurrsequence[Head(m_MsgSendQueue).conn] # 0
        \* a stale reply: its connection is not open
        BY <2>2, <2>3 DEF EraseStale, Stale
    <3>2. UNCHANGED <<iCurrsequence, iSendCount, main>>
        BY <2>3 DEF EraseStale, connVars
    <3>3. \A c \in Conns : iCurrsequence[c] = 0 => QueuedFor(c)' = QueuedFor(c)
        BY <2>2, <2>3, <3>1 DEF EraseStale
    <3> QED
        BY <1>0, <1>01, <1>02, <3>2, <3>3 DEF BacklogInv
  <2>4. CASE Send
    <3>1. /\ iSendCount' = [iSendCount EXCEPT ![Head(m_MsgSendQueue).conn] = @ - 1]
          /\ UNCHANGED <<iCurrsequence, main>>
        BY <2>4 DEF Send
    <3>2. \A c \in Conns :
              iSendCount'[c] = iSendCount[c] - IF Head(m_MsgSendQueue).conn = c THEN 1 ELSE 0
        BY <2>2, <2>4, <3>1 DEF BacklogInv, Send, Replies
    <3>3. iSendCount' \in [Conns -> Int]
        BY <2>2, <2>4, <3>1 DEF BacklogInv, Send, Replies
    <3> QED
        BY <1>0, <1>01, <1>02, <2>2, <2>4, <3>1, <3>2, <3>3 DEF BacklogInv, Send
  <2> QED
      BY <1>5, <2>1, <2>3, <2>4 DEF SenderStep
<1>6. CASE StopEvent \/ PostStop
    BY <1>1, <1>6 DEF StopEvent, PostStop, MainMoves, queueVars, connVars
<1>7. CASE JoinAndClear
    BY <1>0, <1>7 DEF JoinAndClear, MainMoves, connVars, BacklogInv, BacklogExact
<1>8. CASE UNCHANGED vars
    BY <1>1, <1>8 DEF vars, queueVars, connVars
<1> QED
    BY <1>2, <1>3, <1>4, <1>5, <1>6, <1>7, <1>8 DEF Next

(* msgSend cuts a client off only for replies that are really queued for it. *)
THEOREM BacklogIsQueued == Spec => []BacklogExact
<1>1. Init => BacklogInv
  <2> SUFFICES ASSUME Init PROVE BacklogInv
      OBVIOUS
  <2>1. m_MsgSendQueue = <<>> /\ iSendCount = [c \in Conns |-> 0]
      BY DEF Init
  <2>2. \A c \in Conns : Queued(c) = {}
      BY <2>1 DEF Queued
  <2>3. BacklogExact
      BY <2>1, <2>2, FS_EmptySet DEF BacklogExact
  <2> QED
      BY <2>1, <2>3 DEF Init, BacklogInv, Counted, HandsTyped, Fresh
<1>2. BacklogInv => BacklogExact
    BY DEF BacklogInv
<1> QED
    BY <1>1, <1>2, BacklogStep, PTL DEF Spec
=============================================================================
