------------------------------ MODULE Calls_proofs ------------------------------
(***************************************************************************)
(* Proofs about Calls: what a function returns is what it promises, for    *)
(* all arguments that the program can call it with.                        *)
(***************************************************************************)
EXTENDS Calls, SequenceTheorems, FiniteSetTheorems, WellFoundedInduction, TLAPS

\* The call is one of those of Init.
Asked ==
    \/ \E b \in Buffers : call = [fn |-> "Get_CRC", buffer |-> b]
    \/ \E p \in Packets : call = [fn |-> "threadRecvProcFunc", packet |-> p]
    \/ \E f \in Files, n \in Names : call = [fn |-> "GetString", file |-> f, name |-> n]
    \/ \E f \in Files, n \in Names :
         call = [fn |-> "GetIntDefault", file |-> f, name |-> n]
    \/ \E f \in Formats, r \in Rooms : call = [fn |-> "ngx_vslprintf", fmt |-> f, room |-> r]
    \/ \E log \in Logs, v \in Levels, t \in Messages, e \in ErrLengths :
         call = [fn |-> "ngx_log_error_core", log |-> log, level |-> v, text |-> t, err |-> e]
    \/ \E log \in Logs, t \in Messages, e \in ErrLengths :
         call = [fn |-> "ngx_log_stderr", log |-> log, text |-> t, err |-> e]
    \/ \E fd \in {-1, STDERR_FILENO + 1}, v \in Levels, t \in Messages, e \in ErrLengths \ {0} :
         call = [fn |-> "ngx_log_init", fd |-> fd, level |-> v, text |-> t, err |-> e]
    \/ \E a \in Arguments, e \in Environments :
         call = [fn |-> "ngx_setproctitle", argv |-> a, env |-> e]

Answer(fn, r) == call.fn = fn => result = <<r>>

\* A result is what the called function returns.
Answered ==
    result # <<>> =>
        /\ Answer("Get_CRC", Get_CRC(call.buffer))
        /\ Answer("threadRecvProcFunc", threadRecvProcFunc(call.packet))
        /\ Answer("GetString", GetString(Load(call.file), call.name))
        /\ Answer("GetIntDefault", GetIntDefault(Load(call.file), call.name, -1))
        /\ Answer("ngx_vslprintf", ngx_vslprintf(call.fmt, call.room))
        /\ Answer("ngx_log_error_core",
                  ngx_log_error_core(call.log, call.level, call.text, call.err))
        /\ Answer("ngx_log_stderr", ngx_log_stderr(call.log, call.text, call.err))
        /\ Answer("ngx_log_init", ngx_log_init(call.level, call.fd, call.text, call.err))
        /\ Answer("ngx_setproctitle", Titles(call.argv, call.env))

LEMMA CallsAnswer == Spec => [](Asked /\ Answered)
  <1>1. Init => Asked /\ Answered
    BY DEF Init, Asked, Answered
  <1>2. Asked /\ Answered /\ [Next]_vars => (Asked /\ Answered)'
    <2> SUFFICES ASSUME Asked, Answered, [Next]_vars PROVE Asked' /\ Answered' OBVIOUS
    <2>1. call' = call
      BY DEF Next, vars, Returns, CallChecksum, CallHandler, CallString, CallInt, CallPrintf,
             CallLog, CallStderr, CallInit, CallTitles
    <2>2. Asked'
      BY <2>1 DEF Asked
    <2>3. Answered'
      <3>1. CASE UNCHANGED vars
        BY <3>1 DEF Answered, Answer, vars
      <3>2. CASE CallChecksum
        BY <3>2 DEF CallChecksum, Returns, Answered, Answer
      <3>3. CASE CallHandler
        BY <3>3 DEF CallHandler, Returns, Answered, Answer
      <3>4. CASE CallString
        BY <3>4 DEF CallString, Returns, Answered, Answer
      <3>5. CASE CallInt
        BY <3>5 DEF CallInt, Returns, Answered, Answer
      <3>6. CASE CallPrintf
        BY <3>6 DEF CallPrintf, Returns, Answered, Answer
      <3>7. CASE CallLog
        BY <3>7 DEF CallLog, Returns, Answered, Answer
      <3>8. CASE CallStderr
        BY <3>8 DEF CallStderr, Returns, Answered, Answer
      <3>9. CASE CallInit
        BY <3>9 DEF CallInit, Returns, Answered, Answer
      <3>10. CASE CallTitles
        BY <3>10 DEF CallTitles, Returns, Answered, Answer
      <3> QED BY <3>1, <3>2, <3>3, <3>4, <3>5, <3>6, <3>7, <3>8, <3>9, <3>10 DEF Next
    <2> QED BY <2>2, <2>3
  <1> QED BY <1>1, <1>2, PTL DEF Spec

-----------------------------------------------------------------------------
(* The handlers. *)

\* What ProperAnswered says of a packet and the result.
Right(p, r) ==
    /\ r.pings = (Proper(p) /\ p.msgCode = _CMD_PING)
    /\ Len(r.replies) = IF Proper(p) THEN 1 ELSE 0
    /\ \A i \in DOMAIN r.replies :
          /\ r.replies[i].msgCode = p.msgCode
          /\ r.replies[i].body \in BodyOf(p.msgCode)
          /\ r.replies[i].pkgLen = r.replies[i].body + m_iLenPkgHeader

LEMMA Bodies ==
    /\ BodyOf(0) = {0} /\ BodyOf(5) = {100} /\ BodyOf(6) = {96}
    /\ \A code : code \notin {0, 5, 6} => BodyOf(code) = {}
  BY DEF BodyOf, _CMD_PING, _CMD_REGISTER, _CMD_LOGIN, SizeofRegister, SizeofLogin

LEMMA NotAnswered ==
    ASSUME NEW p, NEW r, ~Proper(p), r.pings = FALSE, r.replies = <<>>
    PROVE  Right(p, r)
  <1>1. Len(r.replies) = 0 /\ DOMAIN r.replies = {}
    OBVIOUS
  <1>2. r.pings = (Proper(p) /\ p.msgCode = _CMD_PING)
    <2>1. (Proper(p) /\ p.msgCode = _CMD_PING) = FALSE
      OBVIOUS
    <2> QED BY <2>1
  <1> QED BY <1>1, <1>2 DEF Right

LEMMA OneAnswer ==
    ASSUME NEW p, NEW r, NEW n \in Nat, Proper(p), r.replies = <<Reply(p.msgCode, n)>>,
           BodyOf(p.msgCode) = {n}, r.pings = (p.msgCode = _CMD_PING)
    PROVE  Right(p, r)
  <1>1. /\ Len(r.replies) = 1 /\ DOMAIN r.replies = {1}
        /\ r.replies[1] = Reply(p.msgCode, n)
    OBVIOUS
  <1>2. r.pings = (Proper(p) /\ p.msgCode = _CMD_PING)
    <2>1. (Proper(p) /\ p.msgCode = _CMD_PING) = (p.msgCode = _CMD_PING)
      OBVIOUS
    <2> QED BY <2>1
  <1>3. \A i \in DOMAIN r.replies :
           /\ r.replies[i].msgCode = p.msgCode
           /\ r.replies[i].body \in BodyOf(p.msgCode)
           /\ r.replies[i].pkgLen = r.replies[i].body + m_iLenPkgHeader
    BY <1>1 DEF Reply, m_iLenPkgHeader
  <1> QED BY <1>1, <1>2, <1>3 DEF Right

LEMMA HandlerAnswers ==
    ASSUME NEW p \in Packets
    PROVE  Right(p, threadRecvProcFunc(p))
  <1> SUFFICES ASSUME NEW r, r = threadRecvProcFunc(p) PROVE Right(p, r)
    OBVIOUS
  <1>1. /\ p \in [pkgLen : Nat, msgCode : Nat, crc32 : Nat, sum : Nat, current : BOOLEAN]
        /\ p.pkgLen >= 8 /\ (p.pkgLen = 8 => p.sum = 0)
    BY CallsOfPackets DEF m_iLenPkgHeader
  <1> DEFINE Good == ChecksumGood(p) /\ p.current /\ p.msgCode < 7
  <1>2. Proper(p) => ChecksumGood(p) /\ p.current /\ p.msgCode \in {0, 5, 6}
    <2> SUFFICES ASSUME Proper(p) PROVE ChecksumGood(p) /\ p.msgCode \in {0, 5, 6}
      BY DEF Proper
    <2>1. p.msgCode \in {0, 5, 6} /\ BodyLength(p) \in {0, 96, 100}
      BY Bodies DEF Proper
    <2>2. p.crc32 = IF BodyLength(p) = 0 THEN 0 ELSE p.sum
      BY DEF Proper
    <2> QED BY <1>1, <2>1, <2>2
            DEF ChecksumGood, HasNoBody, BodyLength, m_iLenPkgHeader, m_iLenMsgHeader
  <1>3. ASSUME ChecksumGood(p), p.current
        PROVE  Proper(p) <=> /\ p.pkgLen # m_iLenMsgHeader
                             /\ BodyLength(p) \in BodyOf(p.msgCode)
    <2>1. p.pkgLen = 16 => BodyLength(p) = 8
      BY DEF BodyLength, m_iLenPkgHeader
    <2>2. p.pkgLen # 16 => p.crc32 = p.sum
      BY <1>3 DEF ChecksumGood, HasNoBody, m_iLenMsgHeader
    <2>3. BodyLength(p) = 0 <=> p.pkgLen = 8
      BY <1>1 DEF BodyLength, m_iLenPkgHeader
    <2>4. 8 \notin BodyOf(p.msgCode)
      BY Bodies
    <2> QED BY <1>1, <1>3, <2>1, <2>2, <2>3, <2>4 DEF Proper, m_iLenMsgHeader
  <1>4. CASE ~ChecksumGood(p) \/ ~p.current \/ p.msgCode >= 7
    <2>1. r = Nothing
      BY <1>4 DEF threadRecvProcFunc, AUTH_TOTAL_COMMANDS
    <2>2. ~Proper(p)
      BY <1>1, <1>2, <1>4
    <2>3. r.pings = FALSE /\ r.replies = <<>>
      BY <2>1 DEF Nothing
    <2> QED BY <2>2, <2>3, NotAnswered
  <1>5. CASE Good /\ p.msgCode \notin {0, 5, 6}
    <2>1. p.msgCode \in 0 .. 6
      BY <1>1, <1>5
    <2>2. statusHandler[p.msgCode] = "NULL"
      BY <2>1, <1>5 DEF statusHandler, AUTH_TOTAL_COMMANDS
    <2>3. r = Nothing
      BY <1>1, <1>5, <2>2 DEF threadRecvProcFunc, AUTH_TOTAL_COMMANDS
    <2>4. r.pings = FALSE /\ r.replies = <<>> /\ ~Proper(p)
      BY <2>3, <1>2, <1>5 DEF Nothing
    <2> QED BY <2>4, NotAnswered
  <1>6. CASE Good /\ p.msgCode = 0
    <2>1. statusHandler[0] = "_HandlePing"
      BY DEF statusHandler, AUTH_TOTAL_COMMANDS
    <2>2. r = _HandlePing(p)
      BY <2>1, <1>6 DEF threadRecvProcFunc, AUTH_TOTAL_COMMANDS
    <2>3. Proper(p) <=> BodyLength(p) = 0
      BY <1>1, <1>3, <1>6, Bodies DEF BodyLength, m_iLenPkgHeader, m_iLenMsgHeader
    <2>4. CASE Proper(p)
      <3>1. r = [calls |-> "_HandlePing", pings |-> TRUE, replies |-> <<Reply(p.msgCode, 0)>>]
        BY <2>2, <2>3, <2>4, <1>6 DEF _HandlePing, NoBodyPkg, _CMD_PING
      <3>2. r.pings = (p.msgCode = _CMD_PING)
        <4>1. r.pings = TRUE /\ (p.msgCode = _CMD_PING) = TRUE
          BY <3>1, <1>6 DEF _CMD_PING
        <4> QED BY <4>1
      <3>3. r.replies = <<Reply(p.msgCode, 0)>> /\ BodyOf(p.msgCode) = {0}
        BY <3>1, <1>6, Bodies
      <3> QED BY <3>2, <3>3, <2>4, OneAnswer
    <2>5. CASE ~Proper(p)
      <3>1. r = Rejected("_HandlePing")
        BY <2>2, <2>3, <2>5 DEF _HandlePing
      <3>2. r.pings = FALSE /\ r.replies = <<>>
        BY <3>1 DEF Rejected, Nothing
      <3> QED BY <3>2, <2>5, NotAnswered
    <2> QED BY <2>4, <2>5
  <1>7. ASSUME NEW h, NEW code \in {5, 6}, NEW n \in Nat, Good, p.msgCode = code,
               BodyOf(code) = {n}, r = Answers(h, p, code, n)
        PROVE  Right(p, r)
    <2>1. Proper(p) <=> ~(HasNoBody(p) \/ BodyLength(p) # n)
      BY <1>3, <1>7 DEF HasNoBody
    <2>2. CASE Proper(p)
      <3>1. r = [calls |-> h, pings |-> FALSE, replies |-> <<Reply(p.msgCode, n)>>]
        BY <2>1, <2>2, <1>7 DEF Answers
      <3>2. r.pings = (p.msgCode = _CMD_PING)
        <4>1. r.pings = FALSE
          BY <3>1
        <4>2. (p.msgCode = _CMD_PING) = FALSE
          BY <1>7 DEF _CMD_PING
        <4> QED BY <4>1, <4>2
      <3>3. r.replies = <<Reply(p.msgCode, n)>>
        BY <3>1
      <3> QED BY <3>2, <3>3, <2>2, <1>7, OneAnswer
    <2>3. CASE ~Proper(p)
      <3>1. r = Rejected(h)
        BY <2>1, <2>3, <1>7 DEF Answers
      <3>2. r.pings = FALSE /\ r.replies = <<>>
        BY <3>1 DEF Rejected, Nothing
      <3> QED BY <3>2, <2>3, NotAnswered
    <2> QED BY <2>2, <2>3
  <1>8. CASE Good /\ p.msgCode = 5
    <2>1. statusHandler[5] = "_HandleRegister"
      BY DEF statusHandler, AUTH_TOTAL_COMMANDS
    <2>2. r = Answers("_HandleRegister", p, 5, 100)
      BY <2>1, <1>8 DEF threadRecvProcFunc, AUTH_TOTAL_COMMANDS, _HandleRegister,
         _CMD_REGISTER, SizeofRegister
    <2> QED BY <2>2, <1>7, <1>8, Bodies
  <1>9. CASE Good /\ p.msgCode = 6
    <2>1. statusHandler[6] = "_HandleLogIn"
      BY DEF statusHandler, AUTH_TOTAL_COMMANDS
    <2>2. r = Answers("_HandleLogIn", p, 6, 96)
      BY <2>1, <1>9 DEF threadRecvProcFunc, AUTH_TOTAL_COMMANDS, _HandleLogIn,
         _CMD_LOGIN, SizeofLogin
    <2> QED BY <2>2, <1>7, <1>9, Bodies
  <1> QED BY <1>1, <1>4, <1>5, <1>6, <1>8, <1>9

\* Whatever packet comes, it changes something and is answered, with one packet of its
\* kind, exactly if it is proper.
THEOREM AnsweredIfProper == Spec => []ProperAnswered
  <1>1. Asked /\ Answered => ProperAnswered
    <2> SUFFICES ASSUME Asked, Answered, Returned("threadRecvProcFunc")
                 PROVE  ProperAnswered
      BY DEF ProperAnswered
    <2>1. call.packet \in Packets /\ value = threadRecvProcFunc(call.packet)
      BY DEF Asked, Answered, Answer, Returned, value
    <2> QED BY <2>1, HandlerAnswers DEF ProperAnswered, Right
  <1> QED BY <1>1, CallsAnswer, PTL
-----------------------------------------------------------------------------
(* The lines of the log. *)

HeadSizes == {StderrHead, CoreHead}

\* A line of head, then text up to place a, then the error text up to c, and its end.
LineOf(head, text, a, c) ==
    [i \in 1 .. c + 1 |-> IF i = c + 1 THEN NewLine ELSE IF i <= head THEN Head_
                          ELSE IF i <= a THEN text[i - head] ELSE Info]

\* u is s and then t.
JoinOf(u, s, t, C) ==
    /\ u \in Seq(C) /\ Len(u) = Len(s) + Len(t)
    /\ \A i \in 1 .. Len(s) + Len(t) : u[i] = IF i <= Len(s) THEN s[i] ELSE t[i - Len(s)]

LEMMA JoinIs ==
    ASSUME NEW C, NEW s \in Seq(C), NEW t \in Seq(C)
    PROVE  JoinOf(s \o t, s, t, C)
  BY ConcatProperties DEF JoinOf

LEMMA MarksAre ==
    ASSUME NEW m \in Int, NEW n \in Nat
    PROVE  Marks(m, n) \in Seq(Int) /\ Len(Marks(m, n)) = n /\ \A i \in 1 .. n : Marks(m, n)[i] = m
  BY DEF Marks

LEMMA Beginning ==
    ASSUME NEW s \in Seq(Int), NEW n \in 0 .. Len(s)
    PROVE  /\ SubSeq(s, 1, n) \in Seq(Int) /\ Len(SubSeq(s, 1, n)) = n
           /\ \A i \in 1 .. n : SubSeq(s, 1, n)[i] = s[i]
  <1>1. /\ n \in Int /\ Len(s) \in Nat /\ 1 .. n \subseteq 1 .. Len(s)
        /\ \A i \in 1 .. n : s[i] \in Int
    OBVIOUS
  <1>2. /\ SubSeq(s, 1, n) \in Seq(Int)
        /\ Len(SubSeq(s, 1, n)) = IF 1 <= n THEN n - 1 + 1 ELSE 0
        /\ \A i \in 1 .. n - 1 + 1 : SubSeq(s, 1, n)[i] = s[1 + i - 1]
    BY <1>1, SubSeqProperties
  <1>3. n - 1 + 1 = n /\ \A i \in 1 .. n : 1 + i - 1 = i
    OBVIOUS
  <1> QED BY <1>2, <1>3

LEMMA LineIs ==
    ASSUME NEW head \in HeadSizes, NEW text \in Seq(Int), NEW err \in Nat
    PROVE  \E a, c \in Nat :
              /\ a = head + Lower(Len(text), NGX_MAX_ERROR_STR - head)
              /\ c = Lower(a + (IF err # 0 /\ a + err < NGX_MAX_ERROR_STR THEN err ELSE 0),
                           NGX_MAX_ERROR_STR - 2)
              /\ Line(head, text, err) = LineOf(head, text, a, c)
  <1> DEFINE M == NGX_MAX_ERROR_STR
             t == Lower(Len(text), M - head)
             e == IF err # 0 /\ head + t + err < M THEN err ELSE 0
             a == head + t
             c == Lower(a + e, M - 2)
             marks == Int
             body == [i \in 1 .. a + e |-> IF i <= head THEN Head_
                                           ELSE IF i <= a THEN text[i - head] ELSE Info]
  <1>1. head \in Nat /\ M \in Nat /\ head + 3 < M
    BY LogSizes DEF HeadSizes
  <1>2. /\ t \in Nat /\ t \in 0 .. Len(text)
        /\ head + t <= M /\ e \in Nat /\ a \in Nat /\ c \in Nat /\ c <= M - 2 /\ a + e <= M
    <2>1. t \in Nat /\ t \in 0 .. Len(text) /\ head + t <= M
      BY <1>1 DEF Lower
    <2> HIDE DEF t
    <2>2. a \in Nat /\ e \in Nat /\ a + e <= M
      BY <1>1, <2>1
    <2> HIDE DEF a, e
    <2> QED BY <1>1, <2>1, <2>2 DEF Lower
  <1>3. /\ \A m \in marks, n \in Nat :
              /\ Marks(m, n) \in Seq(marks) /\ Len(Marks(m, n)) = n
              /\ \A i \in 1 .. n : Marks(m, n)[i] = m
        /\ Head_ \in marks /\ Info \in marks /\ NewLine \in marks
    BY MarksAre DEF Head_, Info, NewLine
  <1> DEFINE l1 == Marks(Head_, head)
             l2 == AddText(l1, text)
             l3 == IF err # 0 THEN ngx_log_errno(l2, err) ELSE l2
  <1>4. /\ l1 \in Seq(marks) /\ Len(l1) = head /\ \A i \in 1 .. head : l1[i] = Head_
    BY <1>1, <1>3
  <1>5. /\ l2 \in Seq(marks) /\ Len(l2) = a
        /\ \A i \in 1 .. a : l2[i] = IF i <= head THEN Head_ ELSE text[i - head]
    <2> DEFINE m2 == SubSeq(text, 1, t)
    <2>1. l2 = l1 \o m2
      BY <1>4 DEF AddText
    <2>2. m2 \in Seq(marks) /\ Len(m2) = t /\ \A i \in 1 .. t : m2[i] = text[i]
      <3> HIDE DEF t
      <3> QED BY <1>2, Beginning
    <2> HIDE DEF l1, l2, m2, t, marks
    <2>3. /\ l2 \in Seq(marks) /\ Len(l2) = head + t
          /\ \A i \in 1 .. head + t : l2[i] = IF i <= head THEN l1[i] ELSE m2[i - head]
      <3>1. JoinOf(l1 \o m2, l1, m2, marks)
        BY <1>4, <2>2, JoinIs
      <3>2. Len(l1) = head /\ Len(m2) = t
        BY <1>4, <2>2
      <3> QED BY <2>1, <3>1, <3>2 DEF JoinOf
    <2>4. ASSUME NEW i \in 1 .. a PROVE l2[i] = IF i <= head THEN Head_ ELSE text[i - head]
      <3>1. CASE i <= head
        BY <3>1, <2>3, <1>1, <1>2, <1>4
      <3>2. CASE ~(i <= head)
        <4>1. i - head \in 1 .. t
          BY <3>2, <1>1, <1>2
        <4> QED BY <4>1, <3>2, <2>2, <2>3
      <3> QED BY <3>1, <3>2
    <2> QED BY <2>3, <2>4
  <1>6. /\ l3 \in Seq(marks) /\ Len(l3) = a + e
        /\ \A i \in 1 .. a + e : l3[i] = body[i]
    <2> DEFINE m3 == Marks(Info, err)
    <2>1. m3 \in Seq(marks) /\ Len(m3) = err /\ \A i \in 1 .. err : m3[i] = Info
      BY <1>3
    <2>2. CASE err # 0 /\ a + err < M
      <3>1. l3 = l2 \o m3 /\ e = err
        BY <2>2, <1>5 DEF ngx_log_errno
      <3>2. /\ l3 \in Seq(marks) /\ Len(l3) = a + err
            /\ \A i \in 1 .. a + err : l3[i] = IF i <= a THEN l2[i] ELSE m3[i - a]
        <4> HIDE DEF l2, l3, m3, a, marks
        <4>1. JoinOf(l2 \o m3, l2, m3, marks)
          BY <1>5, <2>1, JoinIs
        <4>2. Len(l2) = a /\ Len(m3) = err
          BY <1>5, <2>1
        <4> QED BY <3>1, <4>1, <4>2 DEF JoinOf
      <3>3. ASSUME NEW i \in 1 .. a + err
            PROVE  l3[i] = IF i <= head THEN Head_ ELSE IF i <= a THEN text[i - head] ELSE Info
        <4> HIDE DEF l2, l3, m3, t, marks
        <4>1. CASE i <= a
          <5>1. l3[i] = l2[i] /\ i \in 1 .. a
            BY <4>1, <3>2, <1>2
          <5> QED BY <5>1, <1>5, <4>1
        <4>2. CASE ~(i <= a)
          <5>1. i - a \in 1 .. err /\ ~(i <= head)
            BY <4>2, <1>1, <1>2
          <5> QED BY <5>1, <4>2, <2>1, <3>2
        <4> QED BY <4>1, <4>2
      <3> HIDE DEF l3, l2, t, a, marks
      <3> QED BY <3>1, <3>2, <3>3
    <2>3. CASE ~(err # 0 /\ a + err < M)
      <3>1. l3 = l2 /\ e = 0 /\ a + e = a
        BY <2>3, <1>2, <1>5 DEF ngx_log_errno
      <3>2. ASSUME NEW i \in 1 .. a PROVE body[i] = IF i <= head THEN Head_ ELSE text[i - head]
        BY <3>1
      <3> HIDE DEF l3, l2, t, marks, body, e, a
      <3> QED BY <3>1, <3>2, <1>5
    <2> QED BY <2>2, <2>3
  <1>7. Line(head, text, err) = EndLine(l3)
    BY DEF Line
  <1> DEFINE l4 == IF Len(l3) >= M - 1 THEN SubSeq(l3, 1, M - 2) ELSE l3
  <1>8. EndLine(l3) = Append(l4, NewLine)
    BY DEF EndLine
  <1>9. /\ l4 \in Seq(marks) /\ Len(l4) = c /\ \A i \in 1 .. c : l4[i] = body[i] /\ i \in 1 .. a + e
    <2> HIDE DEF l3, body, a, e, marks
    <2>1. CASE a + e >= M - 1
      <3>1. c = M - 2 /\ l4 = SubSeq(l3, 1, M - 2)
        BY <2>1, <1>1, <1>2, <1>6 DEF Lower
      <3>2. M - 2 \in Int /\ 1 <= M - 2 /\ (M - 2) - 1 + 1 = M - 2 /\ \A i \in 1 .. M - 2 : i \in 1 .. a + e
        BY <2>1, <1>1, <1>2
      <3>3. \A i \in 1 .. M - 2 : l3[i] \in marks
        BY <3>2, <1>6
      <3>4. /\ l4 \in Seq(marks) /\ Len(l4) = M - 2
            /\ \A i \in 1 .. M - 2 : l4[i] = l3[1 + i - 1]
        <4> HIDE DEF l4
        <4> QED BY <3>1, <3>2, <3>3, SubSeqProperties
      <3>5. \A i \in 1 .. M - 2 : 1 + i - 1 = i
        OBVIOUS
      <3> HIDE DEF l4
      <3> QED BY <3>1, <3>2, <3>4, <3>5, <1>6
    <2>2. CASE ~(a + e >= M - 1)
      <3>1. c = a + e /\ l4 = l3
        BY <2>2, <1>1, <1>2, <1>6 DEF Lower
      <3> HIDE DEF l4
      <3> QED BY <3>1, <1>6
    <2> QED BY <2>1, <2>2
  <1>10. Append(l4, NewLine) = LineOf(head, text, a, c)
    <2> DEFINE l5 == Append(l4, NewLine)
               l6 == LineOf(head, text, a, c)
    <2>1. /\ l5 \in Seq(marks) /\ Len(l5) = c + 1 /\ \A i \in 1 .. c : l5[i] = l4[i]
          /\ l5[c + 1] = NewLine
      <3> HIDE DEF l4, c
      <3> QED BY <1>3, <1>9, AppendProperties
    <2>2. l6 \in [1 .. c + 1 -> marks] /\ c + 1 \in Nat
      <3>1. ASSUME NEW i \in 1 .. c + 1, ~(i <= head), i <= a PROVE text[i - head] \in Int
        <4>1. i - head \in 1 .. Len(text)
          <5> HIDE DEF t, c
          <5> QED BY <1>1, <1>2, <3>1
        <4> QED BY <4>1
      <3> HIDE DEF a, c, t, e
      <3> QED BY <1>2, <1>3, <3>1 DEF LineOf
    <2>3. l6 \in Seq(marks) /\ Len(l6) = c + 1
      <3> HIDE DEF l6, marks, c
      <3> QED BY <2>2
    <2>4. ASSUME NEW i \in 1 .. c + 1 PROVE l5[i] = l6[i]
      <3>1. CASE i = c + 1
        <4>1. l6[i] = NewLine
          BY <3>1 DEF LineOf
        <4> HIDE DEF l5, l6
        <4>2. l5[i] = NewLine
          <5> HIDE DEF c
          <5> QED BY <3>1, <2>1
        <4> QED BY <4>1, <4>2
      <3>2. CASE i # c + 1
        <4>1. i \in 1 .. c
          BY <3>2, <1>2
        <4>2. l6[i] = IF i <= head THEN Head_ ELSE IF i <= a THEN text[i - head] ELSE Info
          BY <3>2 DEF LineOf
        <4>3. body[i] = IF i <= head THEN Head_ ELSE IF i <= a THEN text[i - head] ELSE Info
          BY <4>1, <1>9
        <4> HIDE DEF l4, l5, l6, body, c
        <4> QED BY <4>1, <4>2, <4>3, <2>1, <1>9
      <3> QED BY <3>1, <3>2
    <2>5. l5 = l6
      <3> HIDE DEF l5, l6, marks, c
      <3> QED BY <2>1, <2>3, <2>4, SeqEqual
    <2> QED BY <2>5
  <1>11. c = Lower(a + (IF err # 0 /\ a + err < M THEN err ELSE 0), M - 2)
    OBVIOUS
  <1>12. a = head + Lower(Len(text), M - head)
    OBVIOUS
  <1>13. Line(head, text, err) = LineOf(head, text, a, c) /\ a \in Nat /\ c \in Nat
    <2> HIDE DEF a, c, l3, l4
    <2> QED BY <1>2, <1>7, <1>8, <1>10
  <1> HIDE DEF a, c
  <1> QED BY <1>11, <1>12, <1>13
\* The line is its head, t characters of the text, n marks for the error and its end.
MadeOf(head, text, a, c, t, n) ==
    /\ LineOf(head, text, a, c) =
          Marks(Head_, head) \o SubSeq(text, 1, t) \o Marks(Info, n) \o <<NewLine>>
    /\ Len(LineOf(head, text, a, c)) = c + 1

LEMMA LineJoins ==
    ASSUME NEW head \in Nat, NEW text \in Seq(Int), NEW a \in Nat, NEW c \in Nat,
           NEW t \in 0 .. Len(text), NEW n \in Nat,
           c = head + t + n, head + t <= a, n = 0 \/ head + t = a
    PROVE  MadeOf(head, text, a, c, t, n)
  <1> DEFINE h == Marks(Head_, head)
             m == SubSeq(text, 1, t)
             e == Marks(Info, n)
             z == <<NewLine>>
             hm == h \o m
             hme == hm \o e
             all == hme \o z
             line == LineOf(head, text, a, c)
  <1>1. h \in Seq(Int) /\ Len(h) = head /\ \A i \in 1 .. head : h[i] = Head_
    BY MarksAre DEF Head_
  <1>2. m \in Seq(Int) /\ Len(m) = t /\ \A i \in 1 .. t : m[i] = text[i]
    BY Beginning
  <1>3. e \in Seq(Int) /\ Len(e) = n /\ \A i \in 1 .. n : e[i] = Info
    BY MarksAre DEF Info
  <1>4. z \in Seq(Int) /\ Len(z) = 1 /\ z[1] = NewLine
    BY DEF NewLine
  <1>5. t \in Nat /\ Head_ \in Int /\ Info \in Int /\ NewLine \in Int
    BY DEF Head_, Info, NewLine
  <1>6. JoinOf(hm, h, m, Int)
    <2> HIDE DEF h, m
    <2> QED BY <1>1, <1>2, JoinIs
  <1>7. JoinOf(hme, hm, e, Int)
    <2>1. hm \in Seq(Int)
      BY <1>6 DEF JoinOf
    <2> HIDE DEF hm, e
    <2> QED BY <2>1, <1>3, JoinIs
  <1>8. JoinOf(all, hme, z, Int)
    <2>1. hme \in Seq(Int)
      BY <1>7 DEF JoinOf
    <2> HIDE DEF hme, z
    <2> QED BY <2>1, <1>4, JoinIs
  <1>9. /\ line \in [1 .. c + 1 -> Int]
        /\ \A i \in 1 .. c + 1 : line[i] = IF i = c + 1 THEN NewLine ELSE IF i <= head THEN Head_
                                           ELSE IF i <= a THEN text[i - head] ELSE Info
    <2>1. ASSUME NEW i \in 1 .. c + 1, i # c + 1, ~(i <= head), i <= a PROVE text[i - head] \in Int
      <3>1. i - head \in 1 .. Len(text)
        BY <2>1
      <3> QED BY <3>1
    <2> QED BY <2>1, <1>5 DEF LineOf
  <1> HIDE DEF h, m, e, z, hm, hme, all, line
  <1>10. Len(hm) = head + t /\ Len(hme) = c /\ all \in Seq(Int) /\ Len(all) = c + 1
    BY <1>1, <1>2, <1>3, <1>4, <1>5, <1>6, <1>7, <1>8 DEF JoinOf
  <1>11. line \in Seq(Int) /\ Len(line) = c + 1
    BY <1>9
  <1>12. ASSUME NEW i \in 1 .. c + 1 PROVE all[i] = line[i]
    <2>1. all[i] = IF i <= c THEN hme[i] ELSE z[i - c]
      BY <1>4, <1>8, <1>10 DEF JoinOf
    <2>2. i <= c => hme[i] = IF i <= head + t THEN hm[i] ELSE e[i - (head + t)]
      BY <1>3, <1>5, <1>7, <1>10 DEF JoinOf
    <2>3. i <= head + t => hm[i] = IF i <= head THEN h[i] ELSE m[i - head]
      BY <1>1, <1>2, <1>5, <1>6 DEF JoinOf
    <2>4. CASE i = c + 1
      <3>1. ~(i <= c) /\ i - c = 1
        BY <2>4
      <3>2. all[i] = NewLine
        BY <2>1, <3>1, <1>4
      <3>3. line[i] = NewLine
        BY <2>4, <1>9
      <3> QED BY <3>2, <3>3
    <2>5. CASE i <= head
      BY <2>1, <2>2, <2>3, <2>5, <1>1, <1>5, <1>9
    <2>6. CASE ~(i <= head) /\ i <= head + t
      <3>1. i - head \in 1 .. t /\ i <= a /\ i <= c
        BY <2>6, <1>5
      <3>2. all[i] = text[i - head]
        BY <3>1, <2>1, <2>2, <2>3, <2>6, <1>2
      <3>3. line[i] = text[i - head]
        BY <3>1, <2>6, <1>9
      <3> QED BY <3>2, <3>3
    <2>7. CASE ~(i <= head + t) /\ i <= c
      <3>1. i - (head + t) \in 1 .. n /\ ~(i <= a) /\ ~(i <= head)
        BY <2>7, <1>5
      <3>2. all[i] = Info
        BY <3>1, <2>1, <2>2, <2>7, <1>3
      <3>3. line[i] = Info
        BY <3>1, <2>7, <1>9
      <3> QED BY <3>2, <3>3
    <2> QED BY <2>4, <2>5, <2>6, <2>7
  <1>13. all = line
    BY <1>10, <1>11, <1>12, SeqEqual
  <1> QED BY <1>11, <1>13 DEF MadeOf, all, hme, hm, h, m, e, z, line

\* A line tells its message: the two characters that the end of a full line may take
\* are counted off the room of the message in the first place.
LEMMA LineTells ==
    ASSUME NEW head \in HeadSizes, NEW text \in Seq(Int), NEW err \in Nat
    PROVE  Tells(Line(head, text, err), head, text, err)
  <1>1. PICK a, c \in Nat :
           /\ a = head + Lower(Len(text), NGX_MAX_ERROR_STR - head)
           /\ c = Lower(a + (IF err # 0 /\ a + err < NGX_MAX_ERROR_STR THEN err ELSE 0),
                        NGX_MAX_ERROR_STR - 2)
           /\ Line(head, text, err) = LineOf(head, text, a, c)
    BY LineIs
  <1> DEFINE M == NGX_MAX_ERROR_STR
             t == Lower(Len(text), M - 2 - head)
             n == c - (head + t)
             line == LineOf(head, text, a, c)
  <1>2. head \in Nat /\ M \in Nat /\ head + 3 < M /\ Len(text) \in Nat
    BY LogSizes DEF HeadSizes
  <1>3. /\ t \in 0 .. Len(text)
        /\ \/ head + t = a /\ a <= M - 2
           \/ head + t = M - 2 /\ a >= M - 2
    BY <1>1, <1>2 DEF Lower
  <1> HIDE DEF t
  <1>4. \/ err = 0 /\ c = head + t
        \/ err # 0 /\ a + err <= M - 2 /\ c = a + err /\ head + t = a
        \/ err # 0 /\ a + err = M - 1 /\ c = M - 2 /\ head + t = a
        \/ err # 0 /\ a + err >= M /\ c = head + t
    <2>1. CASE err = 0
      <3>1. c = Lower(a, M - 2)
        BY <1>1, <2>1
      <3> QED BY <1>2, <1>3, <2>1, <3>1 DEF Lower
    <2>2. CASE err # 0 /\ a + err < M
      <3>1. c = Lower(a + err, M - 2)
        BY <1>1, <2>2
      <3>2. head + t = a
        BY <1>2, <1>3, <2>2
      <3> QED BY <1>2, <2>2, <3>1, <3>2 DEF Lower
    <2>3. CASE err # 0 /\ ~(a + err < M)
      <3>1. c = Lower(a, M - 2)
        BY <1>1, <2>3
      <3> QED BY <1>2, <1>3, <2>3, <3>1 DEF Lower
    <2> QED BY <2>1, <2>2, <2>3
  <1>5. n \in {0, err - 1, err} /\ (n < err => head + t + err >= M - 1)
    BY <1>2, <1>3, <1>4
  <1>6. n \in Nat /\ c = head + t + n /\ head + t <= a /\ (n = 0 \/ head + t = a) /\ c <= M - 2
    BY <1>2, <1>3, <1>4
  <1> HIDE DEF n, line
  <1>7. /\ line = Marks(Head_, head) \o SubSeq(text, 1, t) \o Marks(Info, n) \o <<NewLine>>
        /\ Len(line) = c + 1
    <2>1. MadeOf(head, text, a, c, t, n)
      BY <1>2, <1>3, <1>6, LineJoins
    <2> QED BY <2>1 DEF MadeOf, line
  <1>8. Len(line) < M
    <2>1. c \in Nat /\ c + 1 < M
      BY <1>2, <1>6
    <2> QED BY <2>1, <1>7
  <1>9. \E x \in {0, err - 1, err} :
           /\ line = Marks(Head_, head) \o SubSeq(text, 1, t) \o Marks(Info, x) \o <<NewLine>>
           /\ Len(line) < M
           /\ x < err => head + t + err >= M - 1
    BY <1>5, <1>7, <1>8
  <1>10. line = Line(head, text, err)
    BY <1>1 DEF line
  <1> QED BY <1>9, <1>10 DEF Tells, t

\* A line is a sequence of characters, and so is what stands before its last.
LEMMA LineHasEnd ==
    ASSUME NEW head \in HeadSizes, NEW text \in Seq(Int), NEW err \in Nat
    PROVE  SubSeq(Line(head, text, err), 1, Len(Line(head, text, err)) - 1) \in Seq(Int)
  <1>1. PICK a, c \in Nat :
           /\ a = head + Lower(Len(text), NGX_MAX_ERROR_STR - head)
           /\ Line(head, text, err) = LineOf(head, text, a, c)
    BY LineIs
  <1> DEFINE line == LineOf(head, text, a, c)
  <1>2. head \in Nat /\ NGX_MAX_ERROR_STR \in Nat /\ head + 3 < NGX_MAX_ERROR_STR
    BY LogSizes DEF HeadSizes
  <1>3. line \in [1 .. c + 1 -> Int]
    <2>1. ASSUME NEW i \in 1 .. c + 1, ~(i <= head), i <= a PROVE text[i - head] \in Int
      <3>1. i - head \in 1 .. Len(text)
        BY <1>1, <1>2, <2>1 DEF Lower
      <3> QED BY <3>1
    <2> QED BY <2>1 DEF LineOf, Head_, Info, NewLine
  <1> HIDE DEF line
  <1>4. line \in Seq(Int) /\ Len(line) - 1 \in 0 .. Len(line)
    BY <1>3
  <1>5. SubSeq(line, 1, Len(line) - 1) \in Seq(Int)
    BY <1>4, Beginning
  <1> QED BY <1>1, <1>5 DEF line
\* The lines of an outcome, and those that are not empty.
LEMMA Writing ==
    ASSUME NEW log \in [log_level : Int, fd : Int, write : {"ok", "ENOSPC", "error"}],
           log.fd = -1 \/ log.fd >= STDERR_FILENO, NEW line
    PROVE  \/ /\ Write(log, line) = Out(<<line>>, <<>>)
              /\ ~(log.fd > STDERR_FILENO /\ log.write \in {"ok", "ENOSPC"})
           \/ /\ Write(log, line) = Out(<<>>, <<line>>)
              /\ log.fd > STDERR_FILENO /\ log.write = "ok"
           \/ /\ Write(log, line) = Out(<<>>, <<>>)
              /\ log.fd > STDERR_FILENO /\ log.write = "ENOSPC"
  <1>1. STDERR_FILENO \in Nat /\ log.fd \in Int /\ log.write \in {"ok", "ENOSPC", "error"}
    BY LogSizes
  <1>2. CASE log.fd = -1 \/ log.fd = STDERR_FILENO
    BY <1>1, <1>2 DEF Write
  <1>3. CASE log.fd > STDERR_FILENO
    BY <1>1, <1>3 DEF Write
  <1> QED BY <1>1, <1>2, <1>3

\* Where the lines of an outcome are.
LEMMA OneLine ==
    ASSUME NEW line
    PROVE  /\ Len(<<line>>) = 1 /\ <<line>> # <<>> /\ <<line>>[1] = line
           /\ Len(<<>>) = 0
           /\ Lines(Out(<<line>>, <<>>)) = {line}
           /\ Lines(Out(<<>>, <<line>>)) = {line}
           /\ Lines(Out(<<>>, <<>>)) = {}
           /\ FirstLine(Out(<<line>>, <<>>)) = line
           /\ FirstLine(Out(<<>>, <<line>>)) = line
  <1>1. /\ DOMAIN <<line>> = {1} /\ DOMAIN <<>> = {} /\ <<line>>[1] = line
        /\ <<line>> # <<>> /\ Len(<<line>>) = 1 /\ Len(<<>>) = 0
    OBVIOUS
  <1>2. /\ Out(<<line>>, <<>>).stderr = <<line>> /\ Out(<<line>>, <<>>).file = <<>>
        /\ Out(<<>>, <<line>>).stderr = <<>> /\ Out(<<>>, <<line>>).file = <<line>>
        /\ Out(<<>>, <<>>).stderr = <<>> /\ Out(<<>>, <<>>).file = <<>>
    BY DEF Out
  <1>3. /\ Lines(Out(<<line>>, <<>>)) = {line} /\ Lines(Out(<<>>, <<line>>)) = {line}
        /\ Lines(Out(<<>>, <<>>)) = {}
    BY <1>1, <1>2, ZenonT(30) DEF Lines
  <1>4. FirstLine(Out(<<line>>, <<>>)) = line /\ FirstLine(Out(<<>>, <<line>>)) = line
    BY <1>1, <1>2 DEF FirstLine
  <1> QED BY <1>1, <1>3, <1>4

\* What ngx_log_error_core writes.
LEMMA CoreWrites ==
    ASSUME NEW log \in Logs, NEW level \in Int, NEW text \in Seq(Int), NEW err \in Nat
    PROVE  LET out == ngx_log_error_core(log, level, text, err)
               line == Line(CoreHead, text, err)
           IN  IF \/ level > log.log_level
                  \/ log.fd > STDERR_FILENO /\ log.write = "ENOSPC"
               THEN out = Out(<<>>, <<>>)
               ELSE IF log.fd > STDERR_FILENO /\ log.write = "ok"
               THEN out = Out(<<>>, <<line>>)
               ELSE out = Out(<<line>>, <<>>)
  <1> DEFINE line == Line(CoreHead, text, err)
  <1>1. /\ log \in [log_level : Int, fd : Int, write : {"ok", "ENOSPC", "error"}]
        /\ log.fd = -1 \/ log.fd >= STDERR_FILENO
    BY CallsOfLog
  <1>2. \/ /\ Write(log, line) = Out(<<line>>, <<>>)
           /\ ~(log.fd > STDERR_FILENO /\ log.write \in {"ok", "ENOSPC"})
        \/ /\ Write(log, line) = Out(<<>>, <<line>>)
           /\ log.fd > STDERR_FILENO /\ log.write = "ok"
        \/ /\ Write(log, line) = Out(<<>>, <<>>)
           /\ log.fd > STDERR_FILENO /\ log.write = "ENOSPC"
    <2> HIDE DEF line
    <2> QED BY <1>1, Writing
  <1> HIDE DEF line
  <1> QED BY <1>2 DEF ngx_log_error_core, line

\* What ngx_log_stderr writes: the line, and the line that repeats it.
LEMMA StderrWrites ==
    ASSUME NEW log \in Logs, NEW text \in Seq(Int), NEW err \in Nat
    PROVE  LET out == ngx_log_stderr(log, text, err)
               first == Line(StderrHead, text, err)
           IN  \E second :
                 /\ second = Line(CoreHead, SubSeq(first, 1, Len(first) - 1), 0)
                 /\ IF ~(log.fd > STDERR_FILENO) \/ log.write = "ENOSPC"
                    THEN out = Out(<<first>>, <<>>)
                    ELSE IF log.write = "ok" THEN out = Out(<<first>>, <<second>>)
                    ELSE out = Out(<<first, second>>, <<>>)
  <1> DEFINE first == Line(StderrHead, text, err)
             second == Line(CoreHead, SubSeq(first, 1, Len(first) - 1), 0)
             core == ngx_log_error_core(log, NGX_LOG_STDERR, SubSeq(first, 1, Len(first) - 1), 0)
  <1>1. SubSeq(first, 1, Len(first) - 1) \in Seq(Int)
    BY LineHasEnd DEF HeadSizes
  <1>2. NGX_LOG_STDERR \in Int /\ ~(NGX_LOG_STDERR > log.log_level)
    BY LogSizes, CallsOfLog
  <1>3. IF log.fd > STDERR_FILENO /\ log.write = "ENOSPC" THEN core = Out(<<>>, <<>>)
        ELSE IF log.fd > STDERR_FILENO /\ log.write = "ok"
        THEN core = Out(<<>>, <<second>>) ELSE core = Out(<<second>>, <<>>)
    <2>1. ASSUME NEW n \in Seq(Int)
          PROVE  LET out == ngx_log_error_core(log, NGX_LOG_STDERR, n, 0)
                     line == Line(CoreHead, n, 0)
                 IN  IF log.fd > STDERR_FILENO /\ log.write = "ENOSPC" THEN out = Out(<<>>, <<>>)
                     ELSE IF log.fd > STDERR_FILENO /\ log.write = "ok"
                     THEN out = Out(<<>>, <<line>>) ELSE out = Out(<<line>>, <<>>)
      BY <1>2, CoreWrites
    <2> HIDE DEF first
    <2> QED BY <1>1, <2>1
  <1>4. ngx_log_stderr(log, text, err) =
           Both(Out(<<first>>, <<>>), IF log.fd > STDERR_FILENO THEN core ELSE Out(<<>>, <<>>))
    BY DEF ngx_log_stderr
  <1>5. /\ Both(Out(<<first>>, <<>>), Out(<<>>, <<>>)) = Out(<<first>>, <<>>)
        /\ Both(Out(<<first>>, <<>>), Out(<<>>, <<second>>)) = Out(<<first>>, <<second>>)
        /\ Both(Out(<<first>>, <<>>), Out(<<second>>, <<>>)) = Out(<<first, second>>, <<>>)
    <2>1. \A x, y : /\ <<x>> \o <<>> = <<x>> /\ <<>> \o <<x>> = <<x>>
                    /\ <<x>> \o <<y>> = <<x, y>> /\ <<>> \o <<>> = <<>>
      <3> SUFFICES ASSUME NEW x, NEW y
                   PROVE  /\ <<x>> \o <<>> = <<x>> /\ <<>> \o <<x>> = <<x>>
                          /\ <<x>> \o <<y>> = <<x, y>> /\ <<>> \o <<>> = <<>>
        OBVIOUS
      <3> DEFINE S == {x, y}
      <3>1. <<x>> \in Seq(S) /\ <<y>> \in Seq(S) /\ <<>> \in Seq(S) /\ <<x, y>> \in Seq(S)
        OBVIOUS
      <3>2. <<x>> \o <<>> = <<x>> /\ <<>> \o <<x>> = <<x>> /\ <<>> \o <<>> = <<>>
        BY <3>1, ConcatEmptySeq
      <3>3. /\ <<x>> \o <<y>> \in Seq(S) /\ Len(<<x>> \o <<y>>) = 2
            /\ \A i \in 1 .. 2 : (<<x>> \o <<y>>)[i] = <<x, y>>[i]
        OBVIOUS
      <3>4. <<x>> \o <<y>> = <<x, y>>
        <4> DEFINE s == <<x>> \o <<y>>
                   t == <<x, y>>
        <4>1. Len(t) = 2 /\ t \in Seq(S) /\ s \in Seq(S) /\ Len(s) = 2 /\ \A i \in 1 .. 2 : s[i] = t[i]
          BY <3>1, <3>3
        <4>2. s = t
          <5> HIDE DEF s, t, S
          <5> QED BY <4>1, SeqEqual
        <4> QED BY <4>2
      <3> QED BY <3>2, <3>4
    <2> HIDE DEF first, second
    <2> QED BY <2>1 DEF Both, Out
  <1>6. log.write \in {"ok", "ENOSPC", "error"}
    BY CallsOfLog
  <1> HIDE DEF first, second, core
  <1>7. IF ~(log.fd > STDERR_FILENO) \/ log.write = "ENOSPC"
        THEN ngx_log_stderr(log, text, err) = Out(<<first>>, <<>>)
        ELSE IF log.write = "ok" THEN ngx_log_stderr(log, text, err) = Out(<<first>>, <<second>>)
        ELSE ngx_log_stderr(log, text, err) = Out(<<first, second>>, <<>>)
    BY <1>3, <1>4, <1>5, <1>6
  <1>8. second = Line(CoreHead, SubSeq(first, 1, Len(first) - 1), 0)
    BY DEF second
  <1> QED BY <1>7, <1>8 DEF first
\* What LinesWhole says of an outcome, but for the number of its lines.
OutGood(out, head, text, err) ==
    Lines(out) # {} =>
        /\ Tells(FirstLine(out), head, text, err)
        /\ \A line \in Lines(out) \ {FirstLine(out)} :
              Tells(line, CoreHead, SubSeq(FirstLine(out), 1, Len(FirstLine(out)) - 1), 0)

LEMMA CoreGood ==
    ASSUME NEW log \in Logs, NEW level \in Int, NEW text \in Seq(Int), NEW err \in Nat
    PROVE  OutGood(ngx_log_error_core(log, level, text, err), CoreHead, text, err)
  <1> DEFINE out == ngx_log_error_core(log, level, text, err)
             line == Line(CoreHead, text, err)
  <1>1. out \in {Out(<<>>, <<>>), Out(<<line>>, <<>>), Out(<<>>, <<line>>)}
    <2> HIDE DEF line
    <2> QED BY CoreWrites DEF line
  <1>2. Tells(line, CoreHead, text, err)
    BY LineTells DEF HeadSizes
  <1> HIDE DEF line
  <1>3. OutGood(Out(<<>>, <<>>), CoreHead, text, err)
    BY OneLine DEF OutGood
  <1>4. /\ OutGood(Out(<<line>>, <<>>), CoreHead, text, err)
        /\ OutGood(Out(<<>>, <<line>>), CoreHead, text, err)
    BY <1>2, OneLine DEF OutGood
  <1> QED BY <1>1, <1>3, <1>4

LEMMA StderrGood ==
    ASSUME NEW log \in Logs, NEW text \in Seq(Int), NEW err \in Nat
    PROVE  OutGood(ngx_log_stderr(log, text, err), StderrHead, text, err)
  <1> DEFINE out == ngx_log_stderr(log, text, err)
             first == Line(StderrHead, text, err)
             again == SubSeq(first, 1, Len(first) - 1)
  <1>1. Tells(first, StderrHead, text, err) /\ again \in Seq(Int)
    BY LineTells, LineHasEnd DEF HeadSizes
  <1>2. PICK second :
            /\ second = Line(CoreHead, again, 0)
            /\ out \in {Out(<<first>>, <<>>), Out(<<first>>, <<second>>),
                        Out(<<first, second>>, <<>>)}
    <2> HIDE DEF first
    <2>1. PICK second :
             /\ second = Line(CoreHead, SubSeq(first, 1, Len(first) - 1), 0)
             /\ IF ~(log.fd > STDERR_FILENO) \/ log.write = "ENOSPC"
                THEN out = Out(<<first>>, <<>>)
                ELSE IF log.write = "ok" THEN out = Out(<<first>>, <<second>>)
                ELSE out = Out(<<first, second>>, <<>>)
      BY StderrWrites DEF first
    <2> QED BY <2>1
  <1>3. Tells(second, CoreHead, again, 0)
    <2> HIDE DEF again
    <2>1. Tells(Line(CoreHead, again, 0), CoreHead, again, 0)
      BY <1>1, LineTells DEF HeadSizes
    <2> QED BY <1>2, <2>1
  <1>4. /\ \A line \in Lines(out) : line \in {first, second}
        /\ FirstLine(out) = first
    <2> HIDE DEF first, out, again
    <2>1. /\ DOMAIN <<first>> = {1} /\ DOMAIN <<second>> = {1} /\ DOMAIN <<first, second>> = {1, 2}
          /\ DOMAIN <<>> = {} /\ <<first>>[1] = first /\ <<second>>[1] = second
          /\ <<first, second>>[1] = first /\ <<first, second>>[2] = second
          /\ <<first>> # <<>> /\ <<first, second>> # <<>>
      OBVIOUS
    <2>2. CASE out = Out(<<first>>, <<>>)
      BY <2>2, OneLine
    <2>3. CASE out = Out(<<first>>, <<second>>)
      <3>1. out.stderr = <<first>> /\ out.file = <<second>>
        BY <2>3 DEF Out
      <3> QED BY <2>1, <3>1 DEF Lines, FirstLine
    <2>4. CASE out = Out(<<first, second>>, <<>>)
      <3>1. out.stderr = <<first, second>> /\ out.file = <<>>
        BY <2>4 DEF Out
      <3> QED BY <2>1, <3>1 DEF Lines, FirstLine
    <2> QED BY <1>2, <2>2, <2>3, <2>4
  <1>5. OutGood(out, StderrHead, text, err)
    <2> HIDE DEF first, out
    <2> QED BY <1>1, <1>3, <1>4 DEF OutGood
  <1> QED BY <1>5 DEF out

\* Whatever is logged, and however long, no line is lost; each tells the characters of its
\* message from the first on, all that there is room for, with the error's text whole or
\* left out for want of room, and ends in its one new line within the buffer.
THEOREM NoLineLost == Spec => []LinesWhole
  <1>1. Asked /\ Answered => LinesWhole
    <2> SUFFICES ASSUME Asked, Answered, call.fn \in Logging, result # <<>>
                 PROVE  LinesWhole
      BY DEF LinesWhole
    <2>0. /\ Levels \subseteq Int /\ Messages \subseteq Seq(Int) /\ ErrLengths \subseteq Nat
          /\ STDERR_FILENO \in Nat
      <3>1. Seq(Nat \ {NUL}) \subseteq Seq(Int)
        OBVIOUS
      <3> QED BY <3>1, CallsOfLog, LogSizes
    <2>1. ASSUME NEW head, head = IF call.fn = "ngx_log_error_core" THEN CoreHead ELSE StderrHead,
                 InItsPlace(Written), OutGood(Written, head, call.text, call.err)
          PROVE  LinesWhole
      BY <2>1 DEF LinesWhole, OutGood
    <2>2. CASE call.fn = "ngx_log_error_core"
      <3>1. PICK log \in Logs, v \in Levels, t \in Messages, e \in ErrLengths :
               call = [fn |-> "ngx_log_error_core", log |-> log, level |-> v, text |-> t, err |-> e]
        BY <2>2 DEF Asked
      <3>2. /\ Written = ngx_log_error_core(log, v, t, e) /\ call.log = log /\ call.level = v
            /\ call.text = t /\ call.err = e
        BY <2>2, <3>1 DEF Answered, Answer, Written, value
      <3>3. OutGood(Written, CoreHead, call.text, call.err)
        BY <2>0, <3>2, CoreGood
      <3>4. InItsPlace(Written)
        <4> DEFINE line == Line(CoreHead, t, e)
        <4>0. v \in Int /\ t \in Seq(Int) /\ e \in Nat
          BY <2>0
        <4>1. IF v > log.log_level \/ (log.fd > STDERR_FILENO /\ log.write = "ENOSPC")
              THEN Written = Out(<<>>, <<>>)
              ELSE IF log.fd > STDERR_FILENO /\ log.write = "ok"
              THEN Written = Out(<<>>, <<line>>)
              ELSE Written = Out(<<line>>, <<>>)
          <5> DEFINE out == ngx_log_error_core(log, v, t, e)
          <5>1. IF v > log.log_level \/ (log.fd > STDERR_FILENO /\ log.write = "ENOSPC")
                THEN out = Out(<<>>, <<>>)
                ELSE IF log.fd > STDERR_FILENO /\ log.write = "ok"
                THEN out = Out(<<>>, <<line>>)
                ELSE out = Out(<<line>>, <<>>)
            BY <4>0, CoreWrites
          <5>2. Written = out
            BY <3>2
          <5> HIDE DEF out, line
          <5> QED BY <5>1, <5>2
        <4> HIDE DEF line
        <4>2. /\ Len(Out(<<line>>, <<>>).stderr) + Len(Out(<<line>>, <<>>).file) = 1
              /\ Len(Out(<<>>, <<line>>).stderr) + Len(Out(<<>>, <<line>>).file) = 1
              /\ Len(Out(<<>>, <<>>).stderr) + Len(Out(<<>>, <<>>).file) = 0
          BY OneLine DEF Out
        <4>3. Len(Written.stderr) + Len(Written.file) =
                 IF v > log.log_level \/ (log.fd > STDERR_FILENO /\ log.write = "ENOSPC")
                 THEN 0 ELSE 1
          BY <4>1, <4>2
        <4> QED BY <2>2, <3>2, <4>3 DEF InItsPlace
      <3> QED BY <2>1, <2>2, <3>3, <3>4
    <2>3. CASE call.fn = "ngx_log_stderr"
      <3>1. PICK log \in Logs, t \in Messages, e \in ErrLengths :
               call = [fn |-> "ngx_log_stderr", log |-> log, text |-> t, err |-> e]
        BY <2>3 DEF Asked
      <3>2. /\ Written = ngx_log_stderr(log, t, e) /\ call.log = log
            /\ call.text = t /\ call.err = e
        BY <2>3, <3>1 DEF Answered, Answer, Written, value
      <3>3. OutGood(Written, StderrHead, call.text, call.err)
        BY <2>0, <3>2, StderrGood
      <3>4. InItsPlace(Written)
        <4> DEFINE first == Line(StderrHead, t, e)
        <4>1. PICK second :
                 IF ~(log.fd > STDERR_FILENO) \/ log.write = "ENOSPC"
                 THEN Written = Out(<<first>>, <<>>)
                 ELSE IF log.write = "ok" THEN Written = Out(<<first>>, <<second>>)
                 ELSE Written = Out(<<first, second>>, <<>>)
          <5>1. t \in Seq(Int) /\ e \in Nat
            BY <2>0
          <5> DEFINE out == ngx_log_stderr(log, t, e)
          <5>2. \E second :
                   /\ second = Line(CoreHead, SubSeq(first, 1, Len(first) - 1), 0)
                   /\ IF ~(log.fd > STDERR_FILENO) \/ log.write = "ENOSPC"
                      THEN out = Out(<<first>>, <<>>)
                      ELSE IF log.write = "ok" THEN out = Out(<<first>>, <<second>>)
                      ELSE out = Out(<<first, second>>, <<>>)
            BY <5>1, StderrWrites
          <5>3. Written = out
            BY <3>2
          <5> HIDE DEF out, first
          <5> QED BY <5>2, <5>3
        <4> HIDE DEF first
        <4>2. /\ Len(<<first>>) = 1 /\ Len(<<first, second>>) = 2
              /\ Len(<<second>>) = 1 /\ Len(<<>>) = 0
          OBVIOUS
        <4>3. log.write \in {"ok", "ENOSPC", "error"}
          BY CallsOfLog
        <4>4. /\ Len(Written.stderr) =
                     IF log.fd > STDERR_FILENO /\ log.write = "error" THEN 2 ELSE 1
              /\ Len(Written.file) = IF log.fd > STDERR_FILENO /\ log.write = "ok" THEN 1 ELSE 0
          <5>1. CASE ~(log.fd > STDERR_FILENO) \/ log.write = "ENOSPC"
            <6>1. Written.stderr = <<first>> /\ Written.file = <<>>
              BY <4>1, <5>1 DEF Out
            <6> QED BY <4>2, <5>1, <6>1
          <5>2. CASE log.fd > STDERR_FILENO /\ log.write = "ok"
            <6>1. Written.stderr = <<first>> /\ Written.file = <<second>>
              BY <4>1, <5>2 DEF Out
            <6> QED BY <4>2, <5>2, <6>1
          <5>3. CASE log.fd > STDERR_FILENO /\ log.write = "error"
            <6>1. Written.stderr = <<first, second>> /\ Written.file = <<>>
              BY <4>1, <5>3 DEF Out
            <6> QED BY <4>2, <5>3, <6>1
          <5> QED BY <4>3, <5>1, <5>2, <5>3
        <4> QED BY <2>3, <3>2, <4>4 DEF InItsPlace
      <3> QED BY <2>1, <2>3, <3>3, <3>4
    <2>4. CASE call.fn = "ngx_log_init"
      <3>1. PICK fd \in {-1, STDERR_FILENO + 1}, v \in Levels, t \in Messages, e \in ErrLengths \ {0} :
               call = [fn |-> "ngx_log_init", fd |-> fd, level |-> v, text |-> t, err |-> e]
        BY <2>4 DEF Asked
      <3> DEFINE log == [log_level |-> v, fd |-> fd, write |-> "ok"]
                 first == Line(StderrHead, t, e)
      <3>2. /\ value = ngx_log_init(v, fd, t, e) /\ Written = value.out
            /\ call.fd = fd /\ call.text = t /\ call.err = e
        BY <2>4, <3>1 DEF Answered, Answer, Written, value
      <3>3. CASE fd = -1
        <4>1. value.log.fd = STDERR_FILENO /\ Written = ngx_log_stderr(log, t, e)
          BY <3>2, <3>3 DEF ngx_log_init
        <4>2. ~(log.fd > STDERR_FILENO)
          BY <2>0, <3>3
        <4>3. Written = Out(<<first>>, <<>>)
          <5>1. \A x : Both(Out(<<x>>, <<>>), Out(<<>>, <<>>)) = Out(<<x>>, <<>>)
            <6> SUFFICES ASSUME NEW x PROVE Both(Out(<<x>>, <<>>), Out(<<>>, <<>>)) = Out(<<x>>, <<>>)
              OBVIOUS
            <6>1. <<x>> \in Seq({x}) /\ <<>> \in Seq({x})
              OBVIOUS
            <6>2. <<x>> \o <<>> = <<x>> /\ <<>> \o <<>> = <<>>
              BY <6>1, ConcatEmptySeq
            <6> QED BY <6>2 DEF Both, Out
          <5> HIDE DEF first, log
          <5> QED BY <4>1, <4>2, <5>1 DEF ngx_log_stderr, first
        <4>4. Tells(first, StderrHead, t, e)
          BY <2>0, LineTells DEF HeadSizes
        <4> HIDE DEF first, log
        <4>5. OutGood(Written, StderrHead, call.text, call.err)
          BY <3>2, <4>3, <4>4, OneLine DEF OutGood
        <4>6. InItsPlace(Written)
          <5>1. Len(Written.stderr) = 1 /\ Written.file = <<>>
            BY <4>3, OneLine DEF Out
          <5> QED BY <2>4, <2>0, <3>2, <3>3, <4>1, <5>1 DEF InItsPlace
        <4> QED BY <2>1, <2>4, <4>5, <4>6
      <3>4. CASE fd # -1
        <4>1. fd = STDERR_FILENO + 1 /\ value.log.fd = fd /\ Written = Out(<<>>, <<>>)
          BY <3>2, <3>4 DEF ngx_log_init
        <4>2. OutGood(Written, StderrHead, call.text, call.err)
          BY <4>1, OneLine DEF OutGood
        <4>3. InItsPlace(Written)
          <5>1. Len(Written.stderr) = 0 /\ Written.file = <<>>
            BY <4>1 DEF Out
          <5> QED BY <2>4, <2>0, <3>2, <3>4, <4>1, <5>1 DEF InItsPlace
        <4> QED BY <2>1, <2>4, <4>2, <4>3
      <3> QED BY <3>3, <3>4
    <2> QED BY <2>2, <2>3, <2>4 DEF Logging
  <1> QED BY <1>1, CallsAnswer, PTL
-----------------------------------------------------------------------------
(* Induction.  The library's induction theorems are about any predicate; stated with a *)
(* set of numbers, the principle follows from the well-foundedness of < on Nat.        *)

LEMMA LeastNumber ==
    ASSUME NEW T, T \subseteq Nat, T # {}
    PROVE  \E m \in T : \A k \in T : m <= k
  <1>1. IsWellFoundedOn(OpToRel(<, Nat), Nat)
    BY NatLessThanWellFounded
  <1>2. PICK m \in T : \A k \in T : ~(<<k, m>> \in OpToRel(<, Nat))
    BY <1>1, WFMin
  <1>3. \A k \in T : ~(k < m)
    BY <1>2 DEF OpToRel
  <1> QED BY <1>3

LEMMA SetInduction ==
    ASSUME NEW S, 0 \in S, \A n \in Nat : n \in S => n + 1 \in S
    PROVE  Nat \subseteq S
  <1> SUFFICES ASSUME Nat \ S # {} PROVE FALSE OBVIOUS
  <1>1. PICK m \in Nat \ S : \A k \in Nat \ S : m <= k
    BY LeastNumber
  <1>2. m # 0 /\ m - 1 \in Nat /\ m - 1 < m
    BY <1>1
  <1>3. m - 1 \in S /\ (m - 1) + 1 = m
    BY <1>1, <1>2
  <1> QED BY <1>1, <1>2, <1>3

\* A function that goes through 1 .. N, from b and one step at a time.
Stepwise(f, b, step, N, S) ==
    /\ f \in [0 .. N -> S]
    /\ f[0] = b
    /\ \A k \in 1 .. N : f[k] = step[<<k, f[k - 1]>>]

LEMMA FoldExists ==
    ASSUME NEW S, NEW b \in S, NEW N \in Nat, NEW step \in [(1 .. N) \X S -> S]
    PROVE  \E f : Stepwise(f, b, step, N, S)
  <1> DEFINE T == {n \in Nat : n <= N => \E f : Stepwise(f, b, step, n, S)}
  <1>1. 0 \in T
    <2> DEFINE f == [k \in 0 .. 0 |-> b]
    <2>1. Stepwise(f, b, step, 0, S)
      BY DEF Stepwise
    <2> HIDE DEF f
    <2> QED BY <2>1
  <1>2. ASSUME NEW n \in Nat, n \in T PROVE n + 1 \in T
    <2> SUFFICES ASSUME n + 1 <= N PROVE \E f : Stepwise(f, b, step, n + 1, S)
      OBVIOUS
    <2>1. PICK f : Stepwise(f, b, step, n, S)
      BY <1>2
    <2> DEFINE last == step[<<n + 1, f[n]>>]
               g == [k \in 0 .. n + 1 |-> IF k = n + 1 THEN last ELSE f[k]]
    <2>2. f[n] \in S /\ last \in S
      <3>1. f[n] \in S
        BY <2>1 DEF Stepwise
      <3>2. n + 1 \in 1 .. N
        OBVIOUS
      <3> QED BY <3>1, <3>2
    <2>3. g \in [0 .. n + 1 -> S] /\ g[0] = b
      <3>1. \A k \in 0 .. n + 1 : k # n + 1 => k \in 0 .. n
        OBVIOUS
      <3>2. g \in [0 .. n + 1 -> S]
        BY <2>1, <2>2, <3>1 DEF Stepwise
      <3>3. 0 \in 0 .. n + 1 /\ 0 # n + 1
        OBVIOUS
      <3> QED BY <2>1, <3>2, <3>3 DEF Stepwise
    <2>4. ASSUME NEW k \in 1 .. n + 1 PROVE g[k] = step[<<k, g[k - 1]>>]
      <3>1. k - 1 \in 0 .. n + 1 /\ k - 1 # n + 1 /\ k \in 0 .. n + 1
        OBVIOUS
      <3>2. g[k - 1] = f[k - 1]
        BY <3>1
      <3>3. CASE k = n + 1
        <4>1. g[k] = last /\ k - 1 = n
          BY <3>3
        <4> HIDE DEF g
        <4> QED BY <3>2, <3>3, <4>1
      <3>4. CASE k # n + 1
        <4>1. g[k] = f[k] /\ k \in 1 .. n
          BY <3>4
        <4>2. f[k] = step[<<k, f[k - 1]>>]
          BY <2>1, <4>1 DEF Stepwise
        <4> HIDE DEF g
        <4> QED BY <3>2, <4>1, <4>2
      <3> QED BY <3>3, <3>4
    <2> HIDE DEF g
    <2>5. Stepwise(g, b, step, n + 1, S)
      BY <2>3, <2>4 DEF Stepwise
    <2> QED BY <2>5
  <1>3. N \in T
    <2> HIDE DEF T
    <2> QED BY <1>1, <1>2, SetInduction
  <1> QED BY <1>3

\* Two functions begin alike, and where they are alike they stay so.
AlikeSteps(f, g, N) ==
    f[0] = g[0] /\ \A k \in 1 .. N : f[k - 1] = g[k - 1] => f[k] = g[k]

LEMMA SameSteps ==
    ASSUME NEW N \in Nat, NEW f, NEW g, AlikeSteps(f, g, N)
    PROVE  \A k \in 0 .. N : f[k] = g[k]
  <1> DEFINE T == {n \in Nat : n <= N => f[n] = g[n]}
  <1>0. f[0] = g[0] /\ \A k \in 1 .. N : f[k - 1] = g[k - 1] => f[k] = g[k]
    BY DEF AlikeSteps
  <1>1. 0 \in T
    BY <1>0
  <1>2. ASSUME NEW n \in Nat, n \in T PROVE n + 1 \in T
    <2> SUFFICES ASSUME n + 1 <= N PROVE f[n + 1] = g[n + 1]
      OBVIOUS
    <2>1. n + 1 \in 1 .. N /\ (n + 1) - 1 = n /\ f[n] = g[n]
      BY <1>2
    <2> QED BY <1>0, <2>1
  <1>3. Nat \subseteq T
    <2> HIDE DEF T
    <2> QED BY <1>1, <1>2, SetInduction
  <1> QED BY <1>3
-----------------------------------------------------------------------------
(* Sequences of sequences, one after the other. *)

Flattens(f, seqs, C) ==
    /\ f \in [0 .. Len(seqs) -> Seq(C)]
    /\ f[0] = <<>>
    /\ \A k \in 1 .. Len(seqs) : f[k] = f[k - 1] \o seqs[k]

LEMMA FlattenExists ==
    ASSUME NEW C, NEW seqs \in Seq(Seq(C))
    PROVE  \E f : Flattens(f, seqs, C)
  <1> DEFINE N == Len(seqs)
             S == Seq(C)
             step == [p \in (1 .. N) \X S |-> p[2] \o seqs[p[1]]]
  <1>1. N \in Nat /\ <<>> \in S
    OBVIOUS
  <1>2. step \in [(1 .. N) \X S -> S]
    <2> SUFFICES ASSUME NEW p \in (1 .. N) \X S PROVE p[2] \o seqs[p[1]] \in S
      OBVIOUS
    <2>1. p[2] \in Seq(C) /\ seqs[p[1]] \in Seq(C)
      OBVIOUS
    <2> QED BY <2>1, ConcatProperties
  <1>3. PICK f : Stepwise(f, <<>>, step, N, S)
    <2> HIDE DEF S, step, N
    <2> QED BY <1>1, <1>2, FoldExists
  <1>4. ASSUME NEW k \in 1 .. N PROVE f[k] = f[k - 1] \o seqs[k]
    <2>1. k - 1 \in 0 .. N
      OBVIOUS
    <2>2. <<k, f[k - 1]>> \in (1 .. N) \X S
      BY <1>3, <2>1 DEF Stepwise
    <2>3. step[<<k, f[k - 1]>>] = f[k - 1] \o seqs[k]
      BY <2>2
    <2> QED BY <1>3, <2>3 DEF Stepwise
  <1> QED BY <1>3, <1>4 DEF Stepwise, Flattens

LEMMA FlattenIs ==
    ASSUME NEW C, NEW seqs \in Seq(Seq(C)), NEW f, Flattens(f, seqs, C)
    PROVE  FlattenSeq(seqs) = f[Len(seqs)]
  <1> DEFINE N == Len(seqs)
  <1>1. N \in Nat
    OBVIOUS
  <1>2. CASE N = 0
    <2>1. seqs = <<>>
      BY <1>2
    <2> QED BY <1>2, <2>1 DEF FlattenSeq, Flattens
  <1>3. CASE N # 0
    <2> DEFINE flatten[i \in 1 .. Len(seqs)] ==
                   IF i = 1 THEN seqs[i] ELSE flatten[i - 1] \o seqs[i]
               g == [i \in 1 .. N |-> f[i]]
    <2>1. FlattenSeq(seqs) = flatten[N]
      BY <1>3 DEF FlattenSeq
    <2>2. g = [i \in 1 .. N |-> IF i = 1 THEN seqs[i] ELSE g[i - 1] \o seqs[i]]
      <3> SUFFICES ASSUME NEW i \in 1 .. N
                   PROVE  f[i] = IF i = 1 THEN seqs[i] ELSE g[i - 1] \o seqs[i]
        OBVIOUS
      <3>1. f[i] = f[i - 1] \o seqs[i]
        BY DEF Flattens
      <3>2. CASE i = 1
        <4>1. f[i - 1] = <<>> /\ seqs[i] \in Seq(C)
          BY <3>2 DEF Flattens
        <4> QED BY <3>1, <3>2, <4>1, ConcatEmptySeq
      <3>3. CASE i # 1
        <4>1. i - 1 \in 1 .. N /\ g[i - 1] = f[i - 1]
          BY <3>3
        <4> HIDE DEF g
        <4> QED BY <3>1, <3>3, <4>1
      <3> QED BY <3>2, <3>3
    <2>3. flatten = [i \in 1 .. N |-> IF i = 1 THEN seqs[i] ELSE flatten[i - 1] \o seqs[i]]
      <3> HIDE DEF g
      <3> QED BY <2>2
    <2> HIDE DEF flatten
    <2> DEFINE h == [i \in 0 .. N |-> IF i = 0 THEN <<>> ELSE flatten[i]]
    <2>4. \A k \in 0 .. N : h[k] = f[k]
      <3>1. h[0] = f[0]
        BY DEF Flattens
      <3>2. ASSUME NEW k \in 1 .. N, h[k - 1] = f[k - 1] PROVE h[k] = f[k]
        <4>1. f[k] = f[k - 1] \o seqs[k] /\ h[k] = flatten[k]
          <5>1. k \in 0 .. N /\ k # 0
            OBVIOUS
          <5>2. h[k] = flatten[k]
            BY <5>1
          <5> HIDE DEF h
          <5> QED BY <5>2 DEF Flattens
        <4>2. CASE k = 1
          <5>1. f[k - 1] = <<>> /\ seqs[k] \in Seq(C) /\ flatten[k] = seqs[k]
            BY <2>3, <4>2 DEF Flattens
          <5> HIDE DEF h
          <5> QED BY <4>1, <5>1, ConcatEmptySeq
        <4>3. CASE k # 1
          <5>1. k - 1 \in 0 .. N /\ k - 1 # 0
            BY <4>3
          <5>2. h[k - 1] = flatten[k - 1]
            BY <5>1
          <5>3. flatten[k] = flatten[k - 1] \o seqs[k]
            BY <2>3, <4>3
          <5> HIDE DEF h
          <5> QED BY <3>2, <4>1, <5>2, <5>3
        <4> QED BY <4>2, <4>3
      <3> HIDE DEF h, N
      <3>3. \A k \in 1 .. N : h[k - 1] = f[k - 1] => h[k] = f[k]
        BY <3>2
      <3>4. AlikeSteps(h, f, N)
        BY <3>1, <3>3 DEF AlikeSteps
      <3> QED BY <1>1, <3>4, SameSteps
    <2>5. flatten[N] = f[N]
      BY <1>1, <1>3, <2>4, SMTT(30)
    <2> QED BY <2>1, <2>5
  <1> QED BY <1>2, <1>3
\* The start of a concatenation does not change when more is appended.
LEMMA FlattenGrows ==
    ASSUME NEW C, NEW seqs \in Seq(Seq(C)), NEW f, Flattens(f, seqs, C),
           NEW i \in 0 .. Len(seqs), NEW j \in i .. Len(seqs)
    PROVE  /\ Len(f[i]) <= Len(f[j])
           /\ \A k \in 1 .. Len(f[i]) : f[j][k] = f[i][k]
  <1> DEFINE N == Len(seqs)
             Extends(s, t) == Len(s) <= Len(t) /\ \A k \in 1 .. Len(s) : t[k] = s[k]
             T == {n \in Nat : i <= n /\ n <= N => Extends(f[i], f[n])}
  <1>1. /\ N \in Nat /\ \A n \in 0 .. N : f[n] \in Seq(C) /\ Len(f[n]) \in Nat
    BY DEF Flattens
  <1>2. 0 \in T
    <2>1. i <= 0 => i = 0
      OBVIOUS
    <2> QED BY <1>1, <2>1
  <1>3. ASSUME NEW n \in Nat, n \in T PROVE n + 1 \in T
    <2> SUFFICES ASSUME i <= n + 1, n + 1 <= N PROVE Extends(f[i], f[n + 1])
      OBVIOUS
    <2>1. CASE i = n + 1
      BY <2>1, <1>1
    <2>2. CASE i # n + 1
      <3>1. i <= n /\ n <= N /\ n \in 0 .. N /\ n + 1 \in 1 .. N /\ (n + 1) - 1 = n /\ i \in 0 .. N
        BY <2>2, <1>1
      <3>2. f[n + 1] = f[n] \o seqs[n + 1] /\ seqs[n + 1] \in Seq(C)
        <4>1. \A k \in 1 .. N : f[k] = f[k - 1] \o seqs[k] /\ seqs[k] \in Seq(C)
          <5>1. \A k \in 1 .. N : seqs[k] \in Seq(C)
            BY ElementOfSeq
          <5>2. \A k \in 1 .. N : f[k] = f[k - 1] \o seqs[k]
            BY Zenon DEF Flattens
          <5> QED BY <5>1, <5>2
        <4>2. n + 1 \in 1 .. N /\ (n + 1) - 1 = n
          BY <3>1
        <4>3. f[n + 1] = f[(n + 1) - 1] \o seqs[n + 1] /\ seqs[n + 1] \in Seq(C)
          <5> HIDE DEF N, T
          <5> QED BY <4>1, <4>2
        <4> QED BY <4>2, <4>3
      <3>3. Extends(f[i], f[n])
        BY <1>3, <3>1
      <3>4. /\ Len(f[n + 1]) = Len(f[n]) + Len(seqs[n + 1]) /\ Len(seqs[n + 1]) \in Nat
            /\ \A k \in 1 .. Len(f[n]) : f[n + 1][k] = f[n][k]
        <4>1. f[n] \in Seq(C)
          BY <1>1, <3>1
        <4> DEFINE a == f[n]
                   b == seqs[n + 1]
                   c == f[n + 1]
        <4>2. a \in Seq(C) /\ b \in Seq(C) /\ c = a \o b
          BY <3>2, <4>1
        <4>3. /\ Len(c) = Len(a) + Len(b) /\ Len(b) \in Nat
              /\ \A k \in 1 .. Len(a) : c[k] = a[k]
          <5> HIDE DEF a, b, c
          <5> QED BY <4>2
        <4> QED BY <4>3
      <3>5. Len(f[i]) \in Nat /\ Len(f[n]) \in Nat
        BY <1>1, <3>1
      <3>6. ASSUME NEW k \in 1 .. Len(f[i]) PROVE f[n + 1][k] = f[i][k]
        <4>1. k \in 1 .. Len(f[n])
          BY <3>3, <3>5
        <4> QED BY <4>1, <3>3, <3>4
      <3>7. Len(f[i]) <= Len(f[n + 1])
        <4>1. Len(f[i]) <= Len(f[n])
          BY <3>3
        <4>2. \A x, y, z, w \in Nat : x <= y /\ w = y + z => x <= w
          OBVIOUS
        <4>3. Len(f[n + 1]) \in Nat
          BY <1>1, <3>1
        <4> DEFINE x == Len(f[i])
                   y == Len(f[n])
                   z == Len(seqs[n + 1])
                   w == Len(f[n + 1])
        <4>4. x \in Nat /\ y \in Nat /\ z \in Nat /\ w \in Nat /\ x <= y /\ w = y + z
          BY <3>4, <3>5, <4>1, <4>3
        <4> HIDE DEF x, y, z, w
        <4>5. x <= w
          BY <4>2, <4>4
        <4> QED BY <4>5 DEF x, w
      <3> QED BY <3>6, <3>7
    <2> QED BY <2>1, <2>2
  <1>4. Nat \subseteq T
    <2> HIDE DEF T
    <2> QED BY <1>2, <1>3, SetInduction
  <1>5. Extends(f[i], f[j])
    BY <1>4
  <1> QED BY <1>5

\* The first n elements are the same.
SameStart(s, t, n) ==
    /\ n \in Nat /\ Len(s) \in Nat /\ Len(t) \in Nat /\ n <= Len(s) /\ n <= Len(t)
    /\ \A k \in 1 .. n : s[k] = t[k]

LEMMA FlattenAlike ==
    ASSUME NEW C, NEW s, NEW t, NEW f, NEW g, Flattens(f, s, C), Flattens(g, t, C),
           NEW n, SameStart(s, t, n)
    PROVE  f[n] = g[n]
  <1>0. /\ n \in Nat /\ Len(s) \in Nat /\ Len(t) \in Nat /\ n <= Len(s) /\ n <= Len(t)
        /\ \A k \in 1 .. n : s[k] = t[k]
    BY DEF SameStart
  <1>1. f[0] = g[0]
    BY DEF Flattens
  <1>2. \A k \in 1 .. n : f[k - 1] = g[k - 1] => f[k] = g[k]
    <2> SUFFICES ASSUME NEW k \in 1 .. n, f[k - 1] = g[k - 1] PROVE f[k] = g[k]
      OBVIOUS
    <2>1. k \in 1 .. Len(s) /\ k \in 1 .. Len(t) /\ s[k] = t[k]
      BY <1>0
    <2>2. f[k] = f[k - 1] \o s[k] /\ g[k] = g[k - 1] \o t[k]
      BY <2>1 DEF Flattens
    <2> QED BY <2>1, <2>2
  <1> DEFINE T == {m \in Nat : m <= n => f[m] = g[m]}
  <1>3. ASSUME NEW m \in Nat, m \in T PROVE m + 1 \in T
    <2> SUFFICES ASSUME m + 1 <= n PROVE f[m + 1] = g[m + 1]
      OBVIOUS
    <2>1. m + 1 \in 1 .. n /\ (m + 1) - 1 = m /\ f[m] = g[m]
      BY <1>0, <1>3
    <2> QED BY <1>2, <2>1
  <1>4. 0 \in T
    BY <1>1
  <1>5. Nat \subseteq T
    <2> HIDE DEF T
    <2> QED BY <1>3, <1>4, SetInduction
  <1> QED BY <1>0, <1>5
-----------------------------------------------------------------------------
(* The memory of a process. *)

NotNul == Nat \ {NUL}

WithNul(strings) == [i \in DOMAIN strings |-> Append(strings[i], NUL)]

LEMMA WithNulIs ==
    ASSUME NEW strings \in Seq(Seq(NotNul))
    PROVE  /\ WithNul(strings) \in Seq(Seq(Nat)) /\ Len(WithNul(strings)) = Len(strings)
           /\ \A i \in 1 .. Len(strings) :
                 /\ WithNul(strings)[i] = Append(strings[i], NUL)
                 /\ Len(WithNul(strings)[i]) = Len(strings[i]) + 1
                 /\ \A k \in 1 .. Len(strings[i]) :
                       WithNul(strings)[i][k] = strings[i][k] /\ strings[i][k] # NUL
                 /\ WithNul(strings)[i][Len(strings[i]) + 1] = NUL
  <1>1. Len(strings) \in Nat /\ DOMAIN strings = 1 .. Len(strings)
    OBVIOUS
  <1>2. ASSUME NEW i \in 1 .. Len(strings)
        PROVE  /\ strings[i] \in Seq(Nat) /\ Append(strings[i], NUL) \in Seq(Nat)
               /\ Len(Append(strings[i], NUL)) = Len(strings[i]) + 1
               /\ \A k \in 1 .. Len(strings[i]) :
                     Append(strings[i], NUL)[k] = strings[i][k] /\ strings[i][k] # NUL
               /\ Append(strings[i], NUL)[Len(strings[i]) + 1] = NUL
    <2>1. strings[i] \in Seq(NotNul)
      OBVIOUS
    <2>2. strings[i] \in Seq(Nat) /\ NUL \in Nat
      BY <2>1 DEF NotNul, NUL
    <2>3. \A k \in 1 .. Len(strings[i]) : strings[i][k] # NUL
      BY <2>1 DEF NotNul
    <2> QED BY <2>2, <2>3, AppendProperties
  <1>3. WithNul(strings) = [i \in 1 .. Len(strings) |-> Append(strings[i], NUL)]
    BY <1>1 DEF WithNul
  <1> DEFINE w == WithNul(strings)
  <1>4. w \in [1 .. Len(strings) -> Seq(Nat)]
    BY <1>2, <1>3
  <1>5. w \in Seq(Seq(Nat)) /\ Len(w) = Len(strings)
    <2> HIDE DEF w
    <2> QED BY <1>1, <1>4
  <1>6. \A i \in 1 .. Len(strings) : w[i] = Append(strings[i], NUL)
    BY <1>3
  <1> HIDE DEF w
  <1>7. \A i \in 1 .. Len(strings) :
           /\ w[i] = Append(strings[i], NUL)
           /\ Len(w[i]) = Len(strings[i]) + 1
           /\ \A k \in 1 .. Len(strings[i]) : w[i][k] = strings[i][k] /\ strings[i][k] # NUL
           /\ w[i][Len(strings[i]) + 1] = NUL
    BY <1>2, <1>6
  <1> QED BY <1>5, <1>7 DEF w

LEMMA MemoryIs ==
    ASSUME NEW strings \in Seq(Seq(NotNul)), NEW f, Flattens(f, WithNul(strings), Nat)
    PROVE  InMemory(strings) = f[Len(strings)]
  BY WithNulIs, FlattenIs DEF InMemory, WithNul

LEMMA MemoryExists ==
    ASSUME NEW strings \in Seq(Seq(NotNul))
    PROVE  /\ \E f : Flattens(f, WithNul(strings), Nat)
           /\ InMemory(strings) \in Seq(Nat)
  <1>1. PICK f : Flattens(f, WithNul(strings), Nat)
    BY WithNulIs, FlattenExists
  <1>2. f[Len(strings)] \in Seq(Nat)
    <2>1. Len(strings) \in Nat /\ Len(WithNul(strings)) = Len(strings)
      BY WithNulIs
    <2> QED BY <1>1, <2>1 DEF Flattens
  <1> QED BY <1>1, <1>2, MemoryIs

LEMMA PlaceIs ==
    ASSUME NEW strings \in Seq(Seq(NotNul)), NEW f, Flattens(f, WithNul(strings), Nat),
           NEW i \in 1 .. Len(strings)
    PROVE  PlaceOf(strings, i) = Len(f[i - 1]) + 1
  <1> DEFINE t == SubSeq(strings, 1, i - 1)
  <1>1. Len(strings) \in Nat /\ i - 1 \in Nat /\ i - 1 <= Len(strings) /\ 1 \in Int
    OBVIOUS
  <1>2. /\ t \in Seq(Seq(NotNul)) /\ Len(t) = i - 1
        /\ \A k \in 1 .. i - 1 : t[k] = strings[k]
    <2>1. \A k \in 1 .. i - 1 : strings[k] \in Seq(NotNul)
      OBVIOUS
    <2>2. /\ t \in Seq(Seq(NotNul)) /\ Len(t) = IF 1 <= i - 1 THEN (i - 1) - 1 + 1 ELSE 0
          /\ \A k \in 1 .. (i - 1) - 1 + 1 : t[k] = strings[1 + k - 1]
      BY <1>1, <2>1, SubSeqProperties
    <2>3. (i - 1) - 1 + 1 = i - 1 /\ \A k \in 1 .. i - 1 : 1 + k - 1 = k
      OBVIOUS
    <2> HIDE DEF t
    <2> QED BY <1>1, <2>2, <2>3
  <1> HIDE DEF t
  <1>3. PICK g : Flattens(g, WithNul(t), Nat)
    BY <1>2, MemoryExists
  <1>4. InMemory(t) = g[i - 1]
    BY <1>2, <1>3, MemoryIs
  <1>5. g[i - 1] = f[i - 1]
    <2>1. /\ Len(WithNul(t)) = i - 1 /\ Len(WithNul(strings)) = Len(strings)
          /\ \A k \in 1 .. i - 1 : WithNul(t)[k] = WithNul(strings)[k]
      <3>1. \A k \in 1 .. i - 1 : k \in 1 .. Len(strings) /\ k \in 1 .. Len(t)
        BY <1>2
      <3>2. \A k \in 1 .. i - 1 : /\ WithNul(t)[k] = Append(t[k], NUL)
                                  /\ WithNul(strings)[k] = Append(strings[k], NUL)
        BY <1>2, <3>1, WithNulIs
      <3>3. Len(WithNul(t)) = i - 1 /\ Len(WithNul(strings)) = Len(strings)
        BY <1>2, WithNulIs
      <3> QED BY <1>2, <3>2, <3>3
    <2>2. i - 1 <= Len(WithNul(t)) /\ i - 1 <= Len(WithNul(strings))
          /\ Len(WithNul(t)) \in Nat /\ Len(WithNul(strings)) \in Nat
      BY <1>1, <2>1
    <2>3. SameStart(WithNul(t), WithNul(strings), i - 1)
      BY <1>1, <2>1, <2>2 DEF SameStart
    <2> QED BY <1>3, <2>3, FlattenAlike
  <1> QED BY <1>4, <1>5 DEF PlaceOf, t
\* Every string is in the memory where it was put, and ends where it should.
LEMMA StringThere ==
    ASSUME NEW strings \in Seq(Seq(NotNul)), NEW i \in 1 .. Len(strings)
    PROVE  StringAt(InMemory(strings), PlaceOf(strings, i)) = strings[i]
  <1>1. PICK f : Flattens(f, WithNul(strings), Nat)
    BY MemoryExists
  <1> DEFINE N == Len(strings)
             mem == InMemory(strings)
             at == PlaceOf(strings, i)
             s == strings[i]
             w == WithNul(strings)[i]
             L == Len(s)
  <1>2. mem = f[N] /\ at = Len(f[i - 1]) + 1 /\ mem \in Seq(Nat)
    BY <1>1, MemoryIs, PlaceIs, MemoryExists
  <1>3. N \in Nat /\ i \in 0 .. N /\ i - 1 \in 0 .. N /\ N \in i .. N
    OBVIOUS
  <1>4. s \in Seq(NotNul) /\ L \in Nat
    OBVIOUS
  <1>5. /\ w \in Seq(Nat) /\ Len(w) = L + 1 /\ w[L + 1] = NUL
        /\ \A k \in 1 .. L : w[k] = s[k] /\ s[k] # NUL
    <2>1. WithNul(strings) \in Seq(Seq(Nat)) /\ Len(WithNul(strings)) = N
      BY WithNulIs
    <2>2. w \in Seq(Nat)
      BY <2>1, ElementOfSeq
    <2> QED BY <2>2, WithNulIs
  <1>6. f[i] = f[i - 1] \o w /\ f[i - 1] \in Seq(Nat) /\ f[i] \in Seq(Nat)
    <2>1. Len(WithNul(strings)) = N
      BY WithNulIs
    <2> QED BY <1>1, <1>3, <2>1 DEF Flattens
  <1>7. Len(f[i]) <= Len(mem) /\ \A k \in 1 .. Len(f[i]) : mem[k] = f[i][k]
    <2>1. WithNul(strings) \in Seq(Seq(Nat)) /\ Len(WithNul(strings)) = N
      BY WithNulIs
    <2> DEFINE ws == WithNul(strings)
    <2>2. Len(f[i]) <= Len(f[N]) /\ \A k \in 1 .. Len(f[i]) : f[N][k] = f[i][k]
      <3>1. /\ i \in 0 .. Len(ws) /\ N \in i .. Len(ws) /\ ws \in Seq(Seq(Nat))
            /\ Flattens(f, ws, Nat)
        BY <1>1, <1>3, <2>1
      <3> HIDE DEF ws, N
      <3> QED BY <3>1, FlattenGrows, SMTT(30)
    <2> QED BY <1>2, <2>2
  <1> DEFINE p == f[i - 1]
             q == f[i]
  <1> HIDE DEF p, q, mem, at, s, w, L
  <1>8. /\ p \in Seq(Nat) /\ Len(p) \in Nat /\ at = Len(p) + 1
        /\ Len(q) = Len(p) + (L + 1)
        /\ \A k \in 1 .. L + 1 : q[Len(p) + k] = w[k]
    <2>1. p \in Seq(Nat) /\ w \in Seq(Nat) /\ q = p \o w /\ at = Len(p) + 1
      BY <1>2, <1>5, <1>6 DEF p, q
    <2>2. /\ Len(q) = Len(p) + Len(w) /\ Len(p) \in Nat
          /\ \A j \in 1 .. Len(p) + Len(w) : q[j] = IF j <= Len(p) THEN p[j] ELSE w[j - Len(p)]
      BY <2>1, ConcatProperties
    <2>3. ASSUME NEW k \in 1 .. L + 1 PROVE q[Len(p) + k] = w[k]
      <3>1. Len(p) + k \in 1 .. Len(p) + Len(w) /\ ~(Len(p) + k <= Len(p))
            /\ (Len(p) + k) - Len(p) = k
        BY <2>2, <1>4, <1>5
      <3> QED BY <2>2, <3>1
    <2> QED BY <2>1, <2>2, <2>3, <1>5
  <1>9. \A k \in 1 .. L + 1 : mem[Len(p) + k] = w[k]
    <2>1. \A k \in 1 .. Len(q) : mem[k] = q[k]
      BY <1>7 DEF q
    <2>2. ASSUME NEW k \in 1 .. L + 1 PROVE mem[Len(p) + k] = w[k]
      <3>1. Len(p) + k \in 1 .. Len(q)
        BY <1>4, <1>8
      <3>2. q[Len(p) + k] = w[k]
        BY <1>8
      <3> QED BY <2>1, <3>1, <3>2
    <2> QED BY <2>2
  <1>10. Len(p) + L < Len(mem) /\ Len(mem) \in Nat
    <2>1. Len(q) <= Len(mem) /\ Len(mem) \in Nat
      BY <1>2, <1>7 DEF q
    <2> QED BY <2>1, <1>4, <1>8
  <1>11. /\ \A j \in at .. Len(p) + L : mem[j] # NUL
         /\ mem[Len(p) + L + 1] = NUL
    <2>1. ASSUME NEW j \in at .. Len(p) + L PROVE mem[j] # NUL
      <3>1. j - Len(p) \in 1 .. L /\ j - Len(p) \in 1 .. L + 1 /\ Len(p) + (j - Len(p)) = j
        BY <1>4, <1>8
      <3>2. mem[j] = w[j - Len(p)]
        BY <1>9, <3>1
      <3> QED BY <1>5, <3>1, <3>2
    <2>2. mem[Len(p) + (L + 1)] = w[L + 1] /\ Len(p) + (L + 1) = Len(p) + L + 1
      BY <1>4, <1>8, <1>9
    <2> QED BY <2>1, <2>2, <1>5
  <1> DEFINE Ends(k) == /\ \A j \in at .. k : mem[j] # NUL
                        /\ k < Len(mem) => mem[k + 1] = NUL
  <1>12. \A k \in at - 1 .. Len(mem) : Ends(k) <=> k = Len(p) + L
    <2>1. Ends(Len(p) + L)
      BY <1>11
    <2>2. ASSUME NEW k \in at - 1 .. Len(mem), Ends(k), k # Len(p) + L PROVE FALSE
      <3>1. CASE k < Len(p) + L
        <4>1. k + 1 \in at .. Len(p) + L /\ k < Len(mem)
          BY <3>1, <1>4, <1>8, <1>10
        <4> QED BY <4>1, <2>2, <1>11
      <3>2. CASE k > Len(p) + L
        <4>1. Len(p) + L + 1 \in at .. k
          BY <3>2, <1>4, <1>8, <1>10
        <4> QED BY <4>1, <2>2, <1>11
      <3>3. k \in Int /\ Len(p) + L \in Int
        BY <1>4, <1>8
      <3> QED BY <2>2, <3>1, <3>2, <3>3
    <2> HIDE DEF Ends
    <2> QED BY <2>1, <2>2
  <1>13. Len(p) + L \in at - 1 .. Len(mem)
    BY <1>4, <1>8, <1>10
  <1>14. (CHOOSE k \in at - 1 .. Len(mem) : Ends(k)) = Len(p) + L
    <2> HIDE DEF Ends
    <2> QED BY <1>12, <1>13
  <1>15. StringAt(mem, at) = SubSeq(mem, at, Len(p) + L)
    BY <1>14 DEF StringAt
  <1>16. SubSeq(mem, at, Len(p) + L) = s
    <2> DEFINE u == SubSeq(mem, at, Len(p) + L)
    <2>1. \A j \in at .. Len(p) + L : mem[j] \in Nat
      <3>1. \A j \in at .. Len(p) + L : j \in 1 .. Len(mem)
        BY <1>4, <1>8, <1>10
      <3> QED BY <3>1, <1>2, ElementOfSeq
    <2>2. at \in Int /\ Len(p) + L \in Int /\ (Len(p) + L) - at + 1 = L
      BY <1>4, <1>8
    <2>3. /\ u \in Seq(Nat) /\ Len(u) = IF at <= Len(p) + L THEN (Len(p) + L) - at + 1 ELSE 0
          /\ \A k \in 1 .. (Len(p) + L) - at + 1 : u[k] = mem[at + k - 1]
      BY <2>1, <2>2, SubSeqProperties, SMTT(30)
    <2> HIDE DEF u
    <2>4. Len(u) = L
      BY <2>2, <2>3, <1>4, <1>8
    <2>5. ASSUME NEW k \in 1 .. L PROVE u[k] = s[k]
      <3>1. at + k - 1 = Len(p) + k /\ k \in 1 .. L + 1
        BY <1>4, <1>8
      <3>2. u[k] = mem[Len(p) + k]
        BY <2>2, <2>3, <3>1
      <3> QED BY <3>1, <3>2, <1>5, <1>9
    <2>6. s \in Seq(Nat)
      BY <1>4, SeqMonotonic DEF NotNul
    <2>7. u = s
      BY <2>3, <2>4, <2>5, <2>6, SeqEqual DEF L
    <2> QED BY <2>7 DEF u
  <1> QED BY <1>15, <1>16 DEF mem, at, s
LEMMA BothAre ==
    ASSUME NEW a \in Seq(Seq(NotNul)), NEW e \in Seq(Seq(NotNul))
    PROVE  /\ a \o e \in Seq(Seq(NotNul)) /\ Len(a \o e) = Len(a) + Len(e)
           /\ \A i \in 1 .. Len(a) : (a \o e)[i] = a[i]
           /\ \A i \in 1 .. Len(e) : (a \o e)[Len(a) + i] = e[i]
           /\ Len(a) \in Nat /\ Len(e) \in Nat
  <1>1. /\ a \o e \in Seq(Seq(NotNul)) /\ Len(a \o e) = Len(a) + Len(e)
        /\ \A i \in 1 .. Len(a) + Len(e) :
              (a \o e)[i] = IF i <= Len(a) THEN a[i] ELSE e[i - Len(a)]
    BY ConcatProperties
  <1>2. Len(a) \in Nat /\ Len(e) \in Nat
    OBVIOUS
  <1> DEFINE b == a \o e
             m == Len(a)
             n == Len(e)
  <1> HIDE DEF b, m, n
  <1>3. /\ \A i \in 1 .. m + n : b[i] = IF i <= m THEN a[i] ELSE e[i - m]
        /\ m \in Nat /\ n \in Nat
    BY <1>1, <1>2 DEF b, m, n
  <1>4. \A i \in 1 .. m : b[i] = a[i]
    BY <1>3
  <1>5. ASSUME NEW i \in 1 .. n PROVE b[m + i] = e[i]
    <2>1. m + i \in 1 .. m + n /\ ~(m + i <= m) /\ (m + i) - m = i
      BY <1>3
    <2> QED BY <1>3, <2>1
  <1> QED BY <1>1, <1>2, <1>4, <1>5 DEF b, m, n

\* The place of a string does not depend on what follows it.
LEMMA PlaceSame ==
    ASSUME NEW a \in Seq(Seq(NotNul)), NEW e \in Seq(Seq(NotNul)), NEW i \in 1 .. Len(a)
    PROVE  PlaceOf(a \o e, i) = PlaceOf(a, i) /\ i \in 1 .. Len(a \o e)
  <1> DEFINE b == a \o e
  <1>1. b \in Seq(Seq(NotNul)) /\ Len(b) = Len(a) + Len(e) /\ \A k \in 1 .. Len(a) : b[k] = a[k]
    BY BothAre
  <1> HIDE DEF b
  <1>2. Len(a) \in Nat /\ Len(e) \in Nat /\ i - 1 \in Nat
    OBVIOUS
  <1>3. i \in 1 .. Len(b)
    BY <1>1, <1>2
  <1>4. PICK f : Flattens(f, WithNul(a), Nat)
    BY MemoryExists
  <1>5. PICK g : Flattens(g, WithNul(b), Nat)
    BY <1>1, MemoryExists
  <1>6. SameStart(WithNul(a), WithNul(b), i - 1)
    <2>1. Len(WithNul(a)) = Len(a) /\ Len(WithNul(b)) = Len(b)
      BY <1>1, WithNulIs
    <2>2. ASSUME NEW k \in 1 .. i - 1 PROVE WithNul(a)[k] = WithNul(b)[k]
      <3>1. k \in 1 .. Len(a) /\ k \in 1 .. Len(b)
        BY <1>1, <1>2
      <3>2. WithNul(a)[k] = Append(a[k], NUL) /\ WithNul(b)[k] = Append(b[k], NUL)
        BY <1>1, <3>1, WithNulIs
      <3> QED BY <1>1, <3>1, <3>2
    <2>3. i - 1 <= Len(a) /\ i - 1 <= Len(b) /\ Len(b) \in Nat
      BY <1>1, <1>2
    <2> QED BY <1>2, <2>1, <2>2, <2>3 DEF SameStart
  <1>7. f[i - 1] = g[i - 1]
    BY <1>4, <1>5, <1>6, FlattenAlike
  <1>8. PlaceOf(a, i) = Len(f[i - 1]) + 1 /\ PlaceOf(b, i) = Len(g[i - 1]) + 1
    BY <1>1, <1>3, <1>4, <1>5, PlaceIs
  <1> QED BY <1>3, <1>7, <1>8 DEF b

\* The strings of two sequences take the memory of the first and that of the second.
LEMMA MemorySum ==
    ASSUME NEW a \in Seq(Seq(NotNul)), NEW e \in Seq(Seq(NotNul))
    PROVE  Len(InMemory(a \o e)) = Len(InMemory(a)) + Len(InMemory(e))
  <1> DEFINE b == a \o e
             m == Len(a)
             E == Len(e)
  <1>1. /\ b \in Seq(Seq(NotNul)) /\ Len(b) = m + E
        /\ \A k \in 1 .. m : b[k] = a[k]
        /\ \A k \in 1 .. E : b[m + k] = e[k]
        /\ m \in Nat /\ E \in Nat
    BY BothAre
  <1> HIDE DEF b, m, E
  <1>2. PICK f : Flattens(f, WithNul(b), Nat)
    BY <1>1, MemoryExists
  <1>3. PICK g : Flattens(g, WithNul(a), Nat)
    BY MemoryExists
  <1>4. PICK h : Flattens(h, WithNul(e), Nat)
    BY MemoryExists
  <1>5. /\ InMemory(b) = f[m + E] /\ InMemory(a) = g[m] /\ InMemory(e) = h[E]
    <2>1. InMemory(b) = f[Len(b)]
      BY <1>1, <1>2, MemoryIs
    <2>2. InMemory(a) = g[m] /\ InMemory(e) = h[E]
      BY <1>3, <1>4, MemoryIs DEF m, E
    <2> QED BY <1>1, <2>1, <2>2
  <1>6. /\ Len(WithNul(b)) = m + E /\ Len(WithNul(a)) = m /\ Len(WithNul(e)) = E
        /\ WithNul(e) \in Seq(Seq(Nat))
    BY <1>1, WithNulIs DEF m, E
  <1>7. \A k \in 1 .. m : WithNul(b)[k] = WithNul(a)[k]
    <2> SUFFICES ASSUME NEW k \in 1 .. m PROVE WithNul(b)[k] = WithNul(a)[k]
      OBVIOUS
    <2>1. k \in 1 .. Len(a) /\ k \in 1 .. Len(b)
      BY <1>1 DEF m
    <2>2. WithNul(a)[k] = Append(a[k], NUL) /\ WithNul(b)[k] = Append(b[k], NUL)
      BY <1>1, <2>1, WithNulIs
    <2> QED BY <1>1, <2>2
  <1>8. \A k \in 1 .. E : WithNul(b)[m + k] = WithNul(e)[k]
    <2> SUFFICES ASSUME NEW k \in 1 .. E PROVE WithNul(b)[m + k] = WithNul(e)[k]
      OBVIOUS
    <2>1. m + k \in 1 .. Len(b) /\ k \in 1 .. Len(e)
      BY <1>1 DEF E
    <2>2. WithNul(e)[k] = Append(e[k], NUL) /\ WithNul(b)[m + k] = Append(b[m + k], NUL)
      BY <1>1, <2>1, WithNulIs
    <2> QED BY <1>1, <2>2
  <1>9. f[m] = g[m]
    <2>1. SameStart(WithNul(b), WithNul(a), m)
      BY <1>1, <1>6, <1>7 DEF SameStart
    <2> QED BY <1>2, <1>3, <2>1, FlattenAlike
  <1> DEFINE Sums(n) == Len(f[m + n]) = Len(f[m]) + Len(h[n])
             T == {n \in Nat : n <= E => Sums(n)}
  <1>10. 0 \in T
    <2>0. m \in 0 .. m + E
      BY <1>1
    <2>1. f[m] \in Seq(Nat) /\ h[0] = <<>> /\ m + 0 = m
      BY <1>1, <1>2, <1>4, <1>6, <2>0 DEF Flattens
    <2>2. Len(f[m]) \in Nat /\ Len(h[0]) = 0
      BY <2>1
    <2>3. Sums(0)
      BY <2>1, <2>2
    <2> HIDE DEF Sums
    <2> QED BY <2>3
  <1>11. ASSUME NEW n \in Nat, n \in T PROVE n + 1 \in T
    <2> SUFFICES ASSUME n + 1 <= E PROVE Sums(n + 1)
      <3> HIDE DEF Sums
      <3> QED OBVIOUS
    <2>0. n \in Nat /\ n + 1 <= E
      OBVIOUS
    <2> HIDE DEF T
    <2>1. /\ n + 1 \in 1 .. E /\ (n + 1) - 1 = n /\ n \in 0 .. E
          /\ m + (n + 1) \in 1 .. m + E /\ (m + (n + 1)) - 1 = m + n
          /\ m + n \in 0 .. m + E /\ m \in 0 .. m + E
      BY <1>1, <2>0
    <2>2. Len(f[m + n]) = Len(f[m]) + Len(h[n])
      <3>1. n <= E /\ n \in T
        BY <1>11, <2>1
      <3>2. Sums(n)
        <4> HIDE DEF Sums
        <4> QED BY <3>1 DEF T
      <3> QED BY <3>2
    <2> DEFINE w == WithNul(e)[n + 1]
               p == f[m + n]
               q == h[n]
               p1 == f[m + (n + 1)]
               q1 == h[n + 1]
    <2>3. p1 = p \o w
      <3>1. \A k \in 1 .. m + E : f[k] = f[k - 1] \o WithNul(b)[k]
        BY <1>2, <1>6 DEF Flattens
      <3>2. p1 = p \o WithNul(b)[m + (n + 1)]
        BY <2>1, <3>1
      <3>3. WithNul(b)[m + (n + 1)] = w
        BY <2>1, <1>8
      <3> HIDE DEF p, p1, w
      <3> QED BY <3>2, <3>3
    <2>4. q1 = q \o w
      <3>1. \A k \in 1 .. E : h[k] = h[k - 1] \o WithNul(e)[k]
        BY <1>4, <1>6 DEF Flattens
      <3> QED BY <2>1, <3>1
    <2>5. p \in Seq(Nat) /\ q \in Seq(Nat) /\ w \in Seq(Nat) /\ f[m] \in Seq(Nat)
      <3>1. f[m + n] \in Seq(Nat) /\ f[m] \in Seq(Nat)
        BY <2>1, <1>2, <1>6 DEF Flattens
      <3>2. h[n] \in Seq(Nat)
        BY <2>1, <1>4, <1>6 DEF Flattens
      <3>3. w \in Seq(Nat)
        BY <2>1, <1>6, ElementOfSeq
      <3> QED BY <3>1, <3>2, <3>3
    <2> DEFINE l == Len(f[m])
    <2>6. l \in Nat /\ Len(p) = l + Len(q)
      BY <2>2, <2>5
    <2>7. Len(p1) = l + Len(q1)
      <3> HIDE DEF p, q, p1, q1, w, l
      <3>1. Len(p1) = Len(p) + Len(w) /\ Len(q1) = Len(q) + Len(w) /\ Len(w) \in Nat /\ Len(q) \in Nat
        BY <2>3, <2>4, <2>5
      <3> QED BY <2>6, <3>1
    <2> QED BY <2>7
  <1>12. E \in T
    <2> HIDE DEF T
    <2> QED BY <1>1, <1>10, <1>11, SetInduction
  <1>13. Len(f[m + E]) = Len(f[m]) + Len(h[E])
    <2>1. E \in T /\ E \in Nat /\ E <= E
      <3> HIDE DEF T, Sums
      <3> QED BY <1>1, <1>12
    <2>2. Sums(E)
      <3> HIDE DEF Sums
      <3> QED BY <2>1
    <2> QED BY <2>2
  <1> QED BY <1>5, <1>9, <1>13 DEF b, E
\* The strings without their NULs are not longer than their memory.
LEMMA StringsFit ==
    ASSUME NEW a \in Seq(Seq(NotNul))
    PROVE  FlattenSeq(a) \in Seq(Nat) /\ Len(FlattenSeq(a)) <= Len(InMemory(a))
  <1> DEFINE m == Len(a)
  <1>1. PICK f : Flattens(f, a, NotNul)
    BY FlattenExists
  <1>2. PICK g : Flattens(g, WithNul(a), Nat)
    BY MemoryExists
  <1>3. m \in Nat /\ Len(WithNul(a)) = m /\ FlattenSeq(a) = f[m] /\ InMemory(a) = g[m]
    BY <1>1, <1>2, WithNulIs, MemoryIs, FlattenIs
  <1>4. /\ \A k \in 1 .. m : /\ a[k] \in Seq(NotNul) /\ WithNul(a)[k] \in Seq(Nat)
                             /\ Len(WithNul(a)[k]) = Len(a[k]) + 1
                             /\ f[k] = f[k - 1] \o a[k] /\ g[k] = g[k - 1] \o WithNul(a)[k]
        /\ \A k \in 0 .. m : f[k] \in Seq(NotNul) /\ g[k] \in Seq(Nat)
        /\ f[0] = <<>> /\ g[0] = <<>>
    <2>1. WithNul(a) \in Seq(Seq(Nat))
      BY WithNulIs
    <2>2. \A k \in 1 .. m : a[k] \in Seq(NotNul) /\ WithNul(a)[k] \in Seq(Nat)
      BY <2>1, <1>3, ElementOfSeq
    <2>3. \A k \in 1 .. m : Len(WithNul(a)[k]) = Len(a[k]) + 1
      BY WithNulIs
    <2>4. /\ \A k \in 1 .. m : f[k] = f[k - 1] \o a[k]
          /\ \A k \in 0 .. m : f[k] \in Seq(NotNul)
          /\ f[0] = <<>>
      BY <1>1 DEF Flattens
    <2>5. /\ \A k \in 1 .. m : g[k] = g[k - 1] \o WithNul(a)[k]
          /\ \A k \in 0 .. m : g[k] \in Seq(Nat)
          /\ g[0] = <<>>
      BY <1>2, <1>3 DEF Flattens
    <2> QED BY <2>2, <2>3, <2>4, <2>5
  <1> HIDE DEF m
  <1> DEFINE Fit(n) == Len(f[n]) <= Len(g[n])
             T == {n \in Nat : n <= m => Fit(n)}
  <1>5. 0 \in T
    <2>1. Fit(0)
      BY <1>4
    <2> HIDE DEF Fit
    <2> QED BY <2>1
  <1>6. ASSUME NEW n \in Nat, n \in T PROVE n + 1 \in T
    <2> SUFFICES ASSUME n + 1 <= m PROVE Fit(n + 1)
      <3> HIDE DEF Fit
      <3> QED OBVIOUS
    <2>1. n + 1 \in 1 .. m /\ (n + 1) - 1 = n /\ n \in 0 .. m /\ n <= m
      BY <1>3
    <2>2. Fit(n)
      <3> HIDE DEF Fit
      <3> QED BY <1>6, <2>1
    <2> DEFINE p == f[n]
               q == g[n]
               s == a[n + 1]
               w == WithNul(a)[n + 1]
    <2>3. /\ f[n + 1] = p \o s /\ g[n + 1] = q \o w /\ p \in Seq(NotNul) /\ q \in Seq(Nat)
          /\ s \in Seq(NotNul) /\ w \in Seq(Nat) /\ Len(w) = Len(s) + 1 /\ Len(p) <= Len(q)
      <3> HIDE DEF T
      <3> QED BY <1>4, <2>1, <2>2
    <2> HIDE DEF p, q, s, w
    <2>4. Len(p \o s) = Len(p) + Len(s) /\ Len(q \o w) = Len(q) + Len(w)
          /\ Len(p) \in Nat /\ Len(q) \in Nat /\ Len(s) \in Nat /\ Len(w) \in Nat
      BY <2>3, ConcatProperties, LenProperties
    <2>5. Len(p \o s) <= Len(q \o w)
      BY <2>3, <2>4
    <2> QED BY <2>3, <2>5
  <1>7. m \in T /\ m <= m
    <2> HIDE DEF T
    <2>1. m <= m
      BY <1>3
    <2> QED BY <1>3, <1>5, <1>6, <2>1, SetInduction
  <1>8. Fit(m)
    <2> HIDE DEF Fit
    <2> QED BY <1>7
  <1>9. f[m] \in Seq(Nat)
    <2>1. f[m] \in Seq(NotNul)
      BY <1>3, <1>4
    <2> QED BY <2>1, SeqMonotonic DEF NotNul
  <1> QED BY <1>3, <1>8, <1>9

-----------------------------------------------------------------------------
(* The titles. *)

LEMMA OverIs ==
    ASSUME NEW A \in Seq(Nat), NEW s \in Seq(Nat), Len(s) <= Len(A)
    PROVE  /\ Over(A, s) \in Seq(Nat) /\ Len(Over(A, s)) = Len(A)
           /\ Len(s) = Len(A) => Over(A, s) = s
  <1> DEFINE t == SubSeq(A, Len(s) + 1, Len(A))
  <1>1. Len(s) \in Nat /\ Len(A) \in Nat
    OBVIOUS
  <1>2. t \in Seq(Nat) /\ Len(t) = Len(A) - Len(s)
    <2>1. \A i \in Len(s) + 1 .. Len(A) : A[i] \in Nat
      OBVIOUS
    <2>2. /\ t \in Seq(Nat)
          /\ Len(t) = IF Len(s) + 1 <= Len(A) THEN Len(A) - (Len(s) + 1) + 1 ELSE 0
      BY <1>1, <2>1, SubSeqProperties
    <2> HIDE DEF t
    <2> QED BY <1>1, <2>2
  <1>3. Over(A, s) = s \o t
    BY DEF Over
  <1> HIDE DEF t
  <1>4. Len(s \o t) = Len(s) + Len(t) /\ s \o t \in Seq(Nat)
    BY <1>2, ConcatProperties
  <1>5. ASSUME Len(s) = Len(A) PROVE s \o t = s
    <2>1. t \in Seq(Nat) /\ Len(t) = 0
      BY <1>1, <1>2, <1>5
    <2>2. t = <<>>
      BY <2>1, EmptySeq
    <2>3. s \o <<>> = s
      BY ConcatEmptySeq
    <2> QED BY <2>2, <2>3, Zenon
  <1>6. Len(s \o t) = Len(A)
    BY <1>1, <1>2, <1>4
  <1> QED BY <1>3, <1>4, <1>5, <1>6, Zenon

\* What a process is, and what it is once a title was written over its memory.
ProcessOf(A, G, V, E) == [args |-> A, gp_envmem |-> G, argv |-> V, environ |-> E]
Titled(title, n) == title \o Zeros(n - Len(title))

\* What ngx_setproctitle does with a title.
TitleEffect(A, G, V, E, title) ==
    /\ Len(title) < Len(A) =>
          /\ ngx_setproctitle(ProcessOf(A, G, V, E), title) =
                ProcessOf(Titled(title, Len(A)), G, <<V[1]>>, E)
          /\ Titled(title, Len(A)) \in Seq(Nat)
          /\ Len(Titled(title, Len(A))) = Len(A)
    /\ ~(Len(title) < Len(A)) =>
          ngx_setproctitle(ProcessOf(A, G, V, E), title) = ProcessOf(A, G, V, E)

\* What writing a title leaves in the memory.
LEMMA TitleWritten ==
    ASSUME NEW A \in Seq(Nat), NEW G, NEW V, NEW E, NEW title \in Seq(Nat)
    PROVE  TitleEffect(A, G, V, E, title)
  <1> SUFFICES ASSUME NEW p, p = [args |-> A, gp_envmem |-> G, argv |-> V, environ |-> E]
      PROVE  /\ Len(title) < Len(A) =>
                 /\ ngx_setproctitle(p, title) =
                       [args |-> title \o Zeros(Len(A) - Len(title)), gp_envmem |-> G,
                        argv |-> <<V[1]>>, environ |-> E]
                 /\ title \o Zeros(Len(A) - Len(title)) \in Seq(Nat)
                 /\ Len(title \o Zeros(Len(A) - Len(title))) = Len(A)
             /\ ~(Len(title) < Len(A)) => ngx_setproctitle(p, title) = p
    BY Zenon DEF TitleEffect, ProcessOf, Titled
  <1>1. p.args = A /\ Len(A) \in Nat /\ Len(title) \in Nat
    OBVIOUS
  <1>2. CASE ~(Len(title) < Len(A))
    BY <1>1, <1>2 DEF ngx_setproctitle
  <1>3. CASE Len(title) < Len(A)
    <2> DEFINE z == Zeros(Len(A) - Len(title))
               t == Append(title, NUL)
    <2>1. z \in Seq(Nat) /\ Len(z) = Len(A) - Len(title)
      <3>1. Len(A) - Len(title) \in Nat
        BY <1>1, <1>3
      <3> QED BY <3>1 DEF Zeros, NUL
    <2>2. t \in Seq(Nat) /\ Len(t) = Len(title) + 1
      BY AppendProperties DEF NUL
    <2> HIDE DEF z, t
    <2>3. title \o z \in Seq(Nat) /\ Len(title \o z) = Len(A)
      <3>1. Len(title \o z) = Len(title) + Len(z) /\ title \o z \in Seq(Nat)
        BY <2>1, ConcatProperties
      <3> QED BY <1>1, <2>1, <3>1
    <2>4. Over(A, t) \in Seq(Nat) /\ Len(Over(A, t)) = Len(A)
      BY <1>1, <1>3, <2>2, OverIs
    <2>5. Over(Over(A, t), title \o z) = title \o z
      <3>1. Len(title \o z) <= Len(Over(A, t)) /\ Len(title \o z) = Len(Over(A, t))
        BY <1>1, <2>3, <2>4
      <3> QED BY <2>3, <2>4, <3>1, OverIs
    <2>6. ngx_setproctitle(p, title) =
             [p EXCEPT !.argv = <<p.argv[1]>>, !.args = Over(Over(p.args, t), title \o z)]
      <3>1. ~(Len(p.args) <= Len(title))
        BY <1>1, <1>3
      <3>2. p.args = A
        OBVIOUS
      <3> QED BY <3>1, <3>2, Zenon DEF ngx_setproctitle, t, z
    <2>7. [p EXCEPT !.argv = <<p.argv[1]>>, !.args = Over(Over(p.args, t), title \o z)] =
             [args |-> title \o z, gp_envmem |-> G, argv |-> <<V[1]>>, environ |-> E]
      <3>1. \A x, y : [[args |-> A, gp_envmem |-> G, argv |-> V, environ |-> E]
                            EXCEPT !.argv = x, !.args = y] =
                         [args |-> y, gp_envmem |-> G, argv |-> x, environ |-> E]
        <4> SUFFICES ASSUME NEW x, NEW y
                     PROVE  [[args |-> A, gp_envmem |-> G, argv |-> V, environ |-> E]
                                EXCEPT !.argv = x, !.args = y] =
                            [args |-> y, gp_envmem |-> G, argv |-> x, environ |-> E]
          OBVIOUS
        <4> DEFINE o == [args |-> A, gp_envmem |-> G, argv |-> V, environ |-> E]
                   n == [args |-> y, gp_envmem |-> G, argv |-> x, environ |-> E]
                   c == [o EXCEPT !.argv = x, !.args = y]
        <4>1. DOMAIN o = {"args", "gp_envmem", "argv", "environ"} /\ DOMAIN n = DOMAIN o
          OBVIOUS
        <4>2. /\ o.gp_envmem = G /\ o.environ = E
              /\ n.gp_envmem = G /\ n.environ = E /\ n.argv = x /\ n.args = y
          OBVIOUS
        <4> HIDE DEF o, n
        <4>3. /\ DOMAIN c = DOMAIN o /\ c = [k \in DOMAIN o |-> c[k]]
              /\ c.argv = x /\ c.args = y /\ c.gp_envmem = o.gp_envmem /\ c.environ = o.environ
          BY <4>1
        <4>4. n = [k \in DOMAIN n |-> n[k]]
          BY DEF n
        <4> HIDE DEF c
        <4>5. c = n
          BY <4>1, <4>2, <4>3, <4>4
        <4> QED BY <4>5 DEF c, o, n
      <3>2. p.argv = V /\ p.args = A
        OBVIOUS
      <3>3. [p EXCEPT !.argv = <<p.argv[1]>>, !.args = Over(Over(p.args, t), title \o z)] =
               [p EXCEPT !.argv = <<V[1]>>, !.args = title \o z]
        BY <2>5, <3>2, Zenon
      <3>4. [p EXCEPT !.argv = <<V[1]>>, !.args = title \o z] =
               [args |-> title \o z, gp_envmem |-> G, argv |-> <<V[1]>>, environ |-> E]
        BY <3>1, Zenon
      <3> QED BY <3>3, <3>4, Zenon
    <2> QED BY <1>3, <2>3, <2>6, <2>7 DEF z
  <1> QED BY <1>2, <1>3
\* The process when its environment was moved.
Moved(argv, env) ==
    [args |-> InMemory(argv \o env), gp_envmem |-> InMemory(env),
     argv |-> [i \in DOMAIN argv |-> PlaceOf(argv, i)],
     environ |-> [i \in DOMAIN env |-> [moved |-> TRUE, at |-> PlaceOf(env, i)]]]

LEMMA MovedIs ==
    ASSUME NEW argv \in Seq(Seq(NotNul)), NEW env \in Seq(Seq(NotNul))
    PROVE  ngx_init_setproctitle(Started(argv, env)) = Moved(argv, env)
  <1> DEFINE p == Started(argv, env)
             both == argv \o env
             moves == [i \in DOMAIN p.environ |-> EnvString(p, i)]
  <1>1. /\ DOMAIN p.environ = DOMAIN env /\ DOMAIN env = 1 .. Len(env)
        /\ p.args = InMemory(both)
        /\ \A i \in DOMAIN env :
              /\ p.environ[i].moved = FALSE
              /\ p.environ[i].at = PlaceOf(both, Len(argv) + i)
    BY DEF Started
  <1>2. ASSUME NEW i \in DOMAIN env PROVE EnvString(p, i) = env[i]
    <2>1. i \in 1 .. Len(env)
      BY <1>1
    <2>2. /\ both \in Seq(Seq(NotNul)) /\ Len(argv) + i \in 1 .. Len(both)
          /\ both[Len(argv) + i] = env[i]
      <3>1. /\ both \in Seq(Seq(NotNul)) /\ Len(both) = Len(argv) + Len(env)
            /\ both[Len(argv) + i] = env[i] /\ Len(argv) \in Nat /\ Len(env) \in Nat
        BY <2>1, BothAre
      <3>2. Len(argv) + i \in 1 .. Len(argv) + Len(env)
        <4> DEFINE m == Len(argv)
                   n == Len(env)
        <4>1. m \in Nat /\ n \in Nat /\ i \in 1 .. n
          BY <2>1, <3>1
        <4> HIDE DEF m, n
        <4>2. m + i \in 1 .. m + n
          BY <4>1
        <4> QED BY <4>2 DEF m, n
      <3> QED BY <3>1, <3>2
    <2>3. StringAt(InMemory(both), PlaceOf(both, Len(argv) + i)) = env[i]
      BY <2>2, StringThere
    <2>4. EnvString(p, i) = StringAt(p.args, p.environ[i].at)
      <3> HIDE DEF p
      <3> QED BY <1>1 DEF EnvString
    <2> HIDE DEF p, both
    <2> QED BY <1>1, <2>3, <2>4
  <1>3. moves = env
    <2>1. moves = [i \in DOMAIN env |-> env[i]]
      <3> HIDE DEF p
      <3> QED BY <1>1, <1>2
    <2>2. env = [i \in DOMAIN env |-> env[i]]
      OBVIOUS
    <2> HIDE DEF moves
    <2> QED BY <2>1, <2>2
  <1>4. ngx_init_setproctitle(p) =
           [p EXCEPT !.gp_envmem = InMemory(moves),
                     !.environ = [i \in DOMAIN moves |-> [moved |-> TRUE, at |-> PlaceOf(moves, i)]]]
    BY Zenon DEF ngx_init_setproctitle
  <1> DEFINE G == InMemory(env)
             E == [i \in DOMAIN env |-> [moved |-> TRUE, at |-> PlaceOf(env, i)]]
  <1>5. ngx_init_setproctitle(p) = [p EXCEPT !.gp_envmem = G, !.environ = E]
    <2> HIDE DEF moves, p
    <2> QED BY <1>3, <1>4, Zenon
  <1>6. [p EXCEPT !.gp_envmem = G, !.environ = E] = Moved(argv, env)
    <2> DEFINE n == Moved(argv, env)
               c == [p EXCEPT !.gp_envmem = G, !.environ = E]
    <2>1. DOMAIN p = {"args", "gp_envmem", "argv", "environ"} /\ DOMAIN n = DOMAIN p
      BY DEF Started, Moved
    <2>2. n.gp_envmem = G /\ n.environ = E /\ n.args = p.args /\ n.argv = p.argv
      BY DEF Started, Moved
    <2>3. n = [k \in DOMAIN n |-> n[k]]
      BY DEF Moved
    <2> HIDE DEF p, n, G, E
    <2>4. /\ DOMAIN c = DOMAIN p /\ c = [k \in DOMAIN p |-> c[k]]
          /\ c.args = p.args /\ c.argv = p.argv /\ c.gp_envmem = G /\ c.environ = E
      BY <2>1
    <2> HIDE DEF c
    <2>5. c = n
      BY <2>1, <2>2, <2>3, <2>4
    <2> QED BY <2>5 DEF c, n
  <1> QED BY <1>5, <1>6

\* The environment can be read where it is now, whatever the title did to args.
LEMMA EnvironmentRead ==
    ASSUME NEW env \in Seq(Seq(NotNul)), NEW i \in DOMAIN env, NEW p,
           p.gp_envmem = InMemory(env),
           p.environ = [k \in DOMAIN env |-> [moved |-> TRUE, at |-> PlaceOf(env, k)]]
    PROVE  EnvString(p, i) = env[i]
  <1>1. i \in 1 .. Len(env)
    OBVIOUS
  <1>2. p.environ[i].moved = TRUE /\ p.environ[i].at = PlaceOf(env, i)
    OBVIOUS
  <1>3. EnvString(p, i) = StringAt(InMemory(env), PlaceOf(env, i))
    BY <1>2 DEF EnvString
  <1> QED BY <1>1, <1>3, StringThere

\* The title of the master, and that it fits its buffer if the test says so.
LEMMA MasterTitleIs ==
    ASSUME NEW argv \in Seq(Seq(NotNul)), NEW env \in Seq(Seq(NotNul))
    PROVE  LET p == Moved(argv, env)
           IN  /\ MasterTitle(p) \in Seq(Nat)
               /\ TitleFits(p) => Len(MasterTitle(p)) < TitleSize
  <1> DEFINE p == Moved(argv, env)
             both == argv \o env
             shown == [i \in DOMAIN p.argv |-> StringAt(p.args, p.argv[i])]
             start == Append(MasterName, BlankChar)
  <1>1. /\ DOMAIN p.argv = DOMAIN argv /\ DOMAIN argv = 1 .. Len(argv)
        /\ p.args = InMemory(both) /\ p.gp_envmem = InMemory(env)
        /\ \A i \in DOMAIN argv : p.argv[i] = PlaceOf(argv, i)
    BY DEF Moved
  <1>2. ASSUME NEW i \in DOMAIN argv PROVE StringAt(p.args, p.argv[i]) = argv[i]
    <2>1. i \in 1 .. Len(argv)
      BY <1>1
    <2>2. /\ both \in Seq(Seq(NotNul)) /\ i \in 1 .. Len(both)
          /\ PlaceOf(both, i) = PlaceOf(argv, i) /\ both[i] = argv[i]
      BY <2>1, BothAre, PlaceSame
    <2>3. StringAt(InMemory(both), PlaceOf(both, i)) = both[i]
      BY <2>2, StringThere
    <2> HIDE DEF p, both
    <2> QED BY <1>1, <2>2, <2>3
  <1>3. shown = argv
    <2>1. shown = [i \in DOMAIN argv |-> argv[i]]
      <3> HIDE DEF p
      <3> QED BY <1>1, <1>2
    <2>2. argv = [i \in DOMAIN argv |-> argv[i]]
      OBVIOUS
    <2> HIDE DEF shown
    <2> QED BY <2>1, <2>2
  <1>4. MasterTitle(p) = start \o FlattenSeq(argv)
    <2>1. MasterTitle(p) = start \o FlattenSeq(shown)
      BY Zenon DEF MasterTitle
    <2> HIDE DEF shown, p, start
    <2> QED BY <1>3, <2>1, Zenon
  <1>5. start \in Seq(Nat) /\ Len(start) = Len(MasterName) + 1 /\ Len(MasterName) \in Nat
    <2>1. MasterName \in Seq(Nat) /\ BlankChar \in Nat
      BY TitleTexts, SeqMonotonic
    <2> QED BY <2>1, AppendProperties
  <1>6. FlattenSeq(argv) \in Seq(Nat) /\ Len(FlattenSeq(argv)) <= Len(InMemory(argv))
    BY StringsFit
  <1> DEFINE title == FlattenSeq(argv)
             A == Len(InMemory(both))
             B == Len(InMemory(argv))
             C == Len(InMemory(env))
  <1>7. A = B + C /\ B \in Nat /\ C \in Nat
    <2>1. A = B + C
      BY MemorySum
    <2>2. InMemory(argv) \in Seq(Nat) /\ InMemory(env) \in Seq(Nat)
      BY MemoryExists
    <2>3. B \in Nat /\ C \in Nat
      BY <2>2
    <2> HIDE DEF A, B, C
    <2> QED BY <2>1, <2>3
  <1>8. TitleFits(p) => Len(MasterName) + 1 + A - C < TitleSize
    <2> HIDE DEF p
    <2> QED BY <1>1 DEF TitleFits
  <1> DEFINE whole == start \o title
  <1>9. whole \in Seq(Nat) /\ Len(whole) = Len(start) + Len(title) /\ Len(title) \in Nat
    <2> HIDE DEF start, title
    <2>1. start \in Seq(Nat) /\ title \in Seq(Nat)
      BY <1>5, <1>6 DEF title
    <2> QED BY <2>1, ConcatProperties, LenProperties
  <1>10. MasterTitle(p) = whole
    BY <1>4
  <1>11. Len(title) <= B
    BY <1>6
  <1>12. TitleSize \in Nat
    BY TitleTexts
  <1> HIDE DEF p, whole, start, title, A, B, C
  <1>13. Len(MasterName) + 1 + A - C < TitleSize => Len(whole) < TitleSize
    BY <1>5, <1>7, <1>9, <1>11, <1>12
  <1>14. MasterTitle(p) \in Seq(Nat) /\ (TitleFits(p) => Len(MasterTitle(p)) < TitleSize)
    BY <1>8, <1>9, <1>10, <1>13
  <1> QED BY <1>14 DEF p
\* The master's and the worker's process: titles and environment.
LEMMA TitlesAre ==
    ASSUME NEW argv \in Seq(Seq(NotNul)), NEW env \in Seq(Seq(NotNul)),
           NEW v, v = Titles(argv, env)
    PROVE  LET size == Len(v.moved.args)
               title == MasterTitle(v.moved)
           IN  /\ IF TitleFits(v.moved)
                  THEN /\ Len(title) < TitleSize
                       /\ IF Len(title) < size THEN ShownIn(v.master, title, size)
                          ELSE v.master = v.moved
                  ELSE v.master = v.moved
               /\ IF Len(WorkerName) < size THEN ShownIn(v.worker, WorkerName, size)
                  ELSE v.worker = v.master
               /\ \A i \in DOMAIN env :
                     EnvString(v.master, i) = env[i] /\ EnvString(v.worker, i) = env[i]
  <1> DEFINE p == Moved(argv, env)
             m == MasterTitled(p)
             w == ngx_setproctitle(m, WorkerName)
             A == InMemory(argv \o env)
             G == InMemory(env)
             V == [i \in DOMAIN argv |-> PlaceOf(argv, i)]
             E == [i \in DOMAIN env |-> [moved |-> TRUE, at |-> PlaceOf(env, i)]]
             title == MasterTitle(p)
             size == Len(A)
  <1>1. v.moved = p /\ v.master = m /\ v.worker = w
    <2>1. v = [moved |-> p, master |-> m, worker |-> w]
      BY MovedIs, Zenon DEF Titles
    <2> HIDE DEF p, m, w
    <2> QED BY <2>1
  <1>2. /\ p = [args |-> A, gp_envmem |-> G, argv |-> V, environ |-> E] /\ p.args = A
        /\ A \in Seq(Nat)
    <2>1. A \in Seq(Nat)
      BY BothAre, MemoryExists
    <2> QED BY <2>1 DEF Moved
  <1>3. title \in Seq(Nat) /\ (TitleFits(p) => Len(title) < TitleSize)
    BY MasterTitleIs
  <1>4. WorkerName \in Seq(Nat)
    BY TitleTexts, SeqMonotonic
  <1> DEFINE T == Titled(title, Len(A))
             q == ProcessOf(T, G, <<V[1]>>, E)
  <1>5. /\ TitleFits(p) /\ Len(title) < size => m = q /\ T \in Seq(Nat) /\ Len(T) = size
        /\ ~(TitleFits(p) /\ Len(title) < size) => m = p
    <2>1. m = IF TitleFits(p) THEN ngx_setproctitle(p, title) ELSE p
      BY Zenon DEF MasterTitled
    <2>2. /\ Len(title) < size => /\ ngx_setproctitle(p, title) = q
                                  /\ T \in Seq(Nat) /\ Len(T) = size
          /\ ~(Len(title) < size) => ngx_setproctitle(p, title) = p
      <3>1. p = ProcessOf(A, G, V, E)
        BY <1>2, Zenon DEF ProcessOf
      <3> HIDE DEF p, A, G, V, E, title
      <3>2. title \in Seq(Nat) /\ A \in Seq(Nat)
        BY <1>2, <1>3, Zenon
      <3>3. /\ Len(title) < Len(A) => /\ ngx_setproctitle(ProcessOf(A, G, V, E), title) = q
                                      /\ T \in Seq(Nat) /\ Len(T) = Len(A)
            /\ ~(Len(title) < Len(A)) =>
                  ngx_setproctitle(ProcessOf(A, G, V, E), title) = ProcessOf(A, G, V, E)
        <4>1. TitleEffect(A, G, V, E, title)
          BY <3>2, TitleWritten
        <4> QED BY <4>1, Zenon DEF TitleEffect
      <3> QED BY <3>1, <3>3, Zenon
    <2> HIDE DEF p, m, q, T, title, size
    <2> QED BY <2>1, <2>2
  <1> HIDE DEF p, m, w, A, G, V, E, title, T
  <1>6. PICK B, U : m = ProcessOf(B, G, U, E) /\ B \in Seq(Nat) /\ Len(B) = size
    <2>1. CASE TitleFits(p) /\ Len(title) < size
      BY <2>1, <1>5
    <2>2. CASE ~(TitleFits(p) /\ Len(title) < size)
      BY <2>2, <1>2, <1>5 DEF ProcessOf
    <2> QED BY <2>1, <2>2
  <1>7. /\ Len(WorkerName) < size => w = ProcessOf(Titled(WorkerName, size), G, <<U[1]>>, E)
        /\ ~(Len(WorkerName) < size) => w = m
    <2>1. /\ Len(WorkerName) < Len(B) =>
              ngx_setproctitle(ProcessOf(B, G, U, E), WorkerName) =
                  ProcessOf(Titled(WorkerName, Len(B)), G, <<U[1]>>, E)
          /\ ~(Len(WorkerName) < Len(B)) =>
              ngx_setproctitle(ProcessOf(B, G, U, E), WorkerName) = ProcessOf(B, G, U, E)
      <3>1. TitleEffect(B, G, U, E, WorkerName)
        BY <1>4, <1>6, TitleWritten
      <3> QED BY <3>1, Zenon DEF TitleEffect
    <2>2. Len(B) = size /\ m = ProcessOf(B, G, U, E)
      BY <1>6
    <2> HIDE DEF size
    <2> QED BY <2>1, <2>2, Zenon DEF w
  <1>8. IF TitleFits(p)
        THEN /\ Len(title) < TitleSize
             /\ IF Len(title) < size THEN ShownIn(m, title, size) ELSE m = p
        ELSE m = p
    <2>1. ASSUME m = q PROVE ShownIn(m, title, size)
      <3>1. m.args = T
        BY <2>1 DEF ProcessOf
      <3> QED BY <3>1 DEF ShownIn, T, Titled
    <2> HIDE DEF q, size
    <2> QED BY <1>3, <1>5, <2>1
  <1>9. IF Len(WorkerName) < size THEN ShownIn(w, WorkerName, size) ELSE w = m
    <2>1. ASSUME Len(WorkerName) < size PROVE ShownIn(w, WorkerName, size)
      <3>1. w.args = WorkerName \o Zeros(size - Len(WorkerName))
        BY <2>1, <1>7 DEF ProcessOf, Titled
      <3> HIDE DEF size
      <3> QED BY <3>1 DEF ShownIn
    <2> HIDE DEF size
    <2> QED BY <1>7, <2>1
  <1>10. \A i \in DOMAIN env : EnvString(m, i) = env[i] /\ EnvString(w, i) = env[i]
    <2>1. m.gp_envmem = G /\ m.environ = E
      BY <1>6 DEF ProcessOf
    <2>2. w.gp_envmem = G /\ w.environ = E
      BY <1>6, <1>7, <2>1 DEF ProcessOf
    <2>3. /\ m.gp_envmem = InMemory(env) /\ w.gp_envmem = InMemory(env)
          /\ m.environ = [k \in DOMAIN env |-> [moved |-> TRUE, at |-> PlaceOf(env, k)]]
          /\ w.environ = [k \in DOMAIN env |-> [moved |-> TRUE, at |-> PlaceOf(env, k)]]
      BY <2>1, <2>2, Zenon DEF G, E
    <2>4. ASSUME NEW i \in DOMAIN env PROVE EnvString(m, i) = env[i]
      BY <2>3, EnvironmentRead
    <2>5. ASSUME NEW i \in DOMAIN env PROVE EnvString(w, i) = env[i]
      BY <2>3, EnvironmentRead
    <2> QED BY <2>4, <2>5
  <1>11. size = Len(p.args)
    BY <1>2
  <1> HIDE DEF size
  <1> QED BY <1>1, <1>8, <1>9, <1>10, <1>11 DEF title

LEMMA TitlesAsked ==
    ASSUME Asked, Answered, Returned("ngx_setproctitle")
    PROVE  /\ call.argv \in Seq(Seq(NotNul)) /\ call.env \in Seq(Seq(NotNul))
           /\ value = Titles(call.argv, call.env)
  <1>1. PICK a \in Arguments, e \in Environments :
           call = [fn |-> "ngx_setproctitle", argv |-> a, env |-> e]
    BY DEF Asked, Returned
  <1>2. value = Titles(call.argv, call.env)
    BY DEF Answered, Answer, Returned, value
  <1>3. a \in Seq(Seq(NotNul)) /\ e \in Seq(Seq(NotNul))
    BY CallsOfTitles DEF NotNul
  <1> QED BY <1>1, <1>2, <1>3

\* Whatever arguments and environment a process has, ps shows its own title and
\* nothing else.
THEOREM OwnTitleShown == Spec => []TitleAlone
  <1>1. Asked /\ Answered => TitleAlone
    <2> SUFFICES ASSUME Asked, Answered, Returned("ngx_setproctitle") PROVE TitleAlone
      BY DEF TitleAlone
    <2> QED BY TitlesAsked, TitlesAre DEF TitleAlone
  <1> QED BY <1>1, CallsAnswer, PTL

\* The titles leave the strings of the environment as they were.
THEOREM EnvironmentStays == Spec => []EnvironmentKept
  <1>1. Asked /\ Answered => EnvironmentKept
    <2> SUFFICES ASSUME Asked, Answered, Returned("ngx_setproctitle") PROVE EnvironmentKept
      BY DEF EnvironmentKept
    <2> QED BY TitlesAsked, TitlesAre DEF EnvironmentKept
  <1> QED BY <1>1, CallsAnswer, PTL
-----------------------------------------------------------------------------
(* Lines of the configuration. *)

LEMMA PartIs ==
    ASSUME NEW C, NEW s \in Seq(C), NEW a \in 1 .. Len(s) + 1, NEW b \in a - 1 .. Len(s)
    PROVE  /\ SubSeq(s, a, b) \in Seq(C) /\ Len(SubSeq(s, a, b)) = b - a + 1
           /\ \A i \in 1 .. b - a + 1 : SubSeq(s, a, b)[i] = s[a + i - 1]
  <1>1. Len(s) \in Nat /\ \A i \in a .. b : s[i] \in C
    BY ElementOfSeq
  <1>2. a \in Int /\ b \in Int
    BY <1>1
  <1>3. /\ SubSeq(s, a, b) \in Seq(C)
        /\ Len(SubSeq(s, a, b)) = IF a <= b THEN b - a + 1 ELSE 0
        /\ \A i \in 1 .. b - a + 1 : SubSeq(s, a, b)[i] = s[a + i - 1]
    BY <1>1, <1>2, SubSeqProperties
  <1>4. ~(a <= b) => b - a + 1 = 0
    BY <1>1
  <1> QED BY <1>3, <1>4

LEMMA PartOfPart ==
    ASSUME NEW C, NEW s \in Seq(C), NEW a \in 1 .. Len(s) + 1, NEW b \in a - 1 .. Len(s),
           NEW m \in 1 .. b - a + 2, NEW n \in m - 1 .. b - a + 1
    PROVE  SubSeq(SubSeq(s, a, b), m, n) = SubSeq(s, a + m - 1, a + n - 1)
  <1> DEFINE t == SubSeq(s, a, b)
             u == SubSeq(t, m, n)
             v == SubSeq(s, a + m - 1, a + n - 1)
             L == Len(s)
  <1>1. L \in Nat
    OBVIOUS
  <1>2. /\ t \in Seq(C) /\ Len(t) = b - a + 1
        /\ \A i \in 1 .. b - a + 1 : t[i] = s[a + i - 1]
    BY PartIs
  <1> HIDE DEF t
  <1>3. m \in 1 .. Len(t) + 1 /\ n \in m - 1 .. Len(t)
    BY <1>1, <1>2
  <1>4. /\ u \in Seq(C) /\ Len(u) = n - m + 1
        /\ \A i \in 1 .. n - m + 1 : u[i] = t[m + i - 1]
    BY <1>2, <1>3, PartIs
  <1>5. a + m - 1 \in 1 .. Len(s) + 1 /\ a + n - 1 \in (a + m - 1) - 1 .. Len(s)
    <2> HIDE DEF L
    <2>1. a + m - 1 \in 1 .. L + 1 /\ a + n - 1 \in (a + m - 1) - 1 .. L
      BY <1>1 DEF L
    <2> QED BY <2>1 DEF L
  <1>6. /\ v \in Seq(C) /\ Len(v) = (a + n - 1) - (a + m - 1) + 1
        /\ \A i \in 1 .. (a + n - 1) - (a + m - 1) + 1 : v[i] = s[(a + m - 1) + i - 1]
    <2> DEFINE c == a + m - 1
               d == a + n - 1
    <2>1. c \in 1 .. Len(s) + 1 /\ d \in c - 1 .. Len(s)
      BY <1>5
    <2> HIDE DEF c, d
    <2>2. /\ SubSeq(s, c, d) \in Seq(C) /\ Len(SubSeq(s, c, d)) = d - c + 1
          /\ \A i \in 1 .. d - c + 1 : SubSeq(s, c, d)[i] = s[c + i - 1]
      BY <2>1, PartIs
    <2> QED BY <2>2 DEF c, d
  <1> HIDE DEF u, v
  <1>7. Len(u) = Len(v)
    BY <1>1, <1>4, <1>6
  <1>8. \A i \in 1 .. Len(u) : u[i] = v[i]
    <2> SUFFICES ASSUME NEW i \in 1 .. Len(u) PROVE u[i] = v[i]
      OBVIOUS
    <2>1. i \in 1 .. n - m + 1 /\ m + i - 1 \in 1 .. b - a + 1
      BY <1>1, <1>4
    <2>2. u[i] = t[m + i - 1]
      BY <1>4, <2>1
    <2>3. t[m + i - 1] = s[a + (m + i - 1) - 1]
      BY <1>2, <2>1
    <2>4. i \in 1 .. (a + n - 1) - (a + m - 1) + 1
      BY <1>1, <2>1
    <2>5. v[i] = s[(a + m - 1) + i - 1]
      BY <1>6, <2>4
    <2>6. a + (m + i - 1) - 1 = (a + m - 1) + i - 1
      BY <1>1, <2>1
    <2> QED BY <2>2, <2>3, <2>5, <2>6
  <1>9. u = v
    BY <1>4, <1>6, <1>7, <1>8, SeqEqual
  <1> QED BY <1>9 DEF u, v, t

\* n characters are left of s when those of E are taken off its end.
LeftOf(s, E, n) ==
    /\ n \in 0 .. Len(s)
    /\ \A i \in n + 1 .. Len(s) : s[i] \in E
    /\ n > 0 => s[n] \notin E

LEMMA StripIs ==
    ASSUME NEW C, NEW s \in Seq(C), NEW E
    PROVE  \E n : LeftOf(s, E, n) /\ StripEnd(s, E) = SubSeq(s, 1, n)
  <1> DEFINE L == Len(s)
             T == {m \in 0 .. L : \A i \in m + 1 .. L : s[i] \in E}
             Q(k) == (\A i \in k + 1 .. Len(s) : s[i] \in E) /\ (k > 0 => s[k] \notin E)
             n == CHOOSE k \in 0 .. Len(s) : Q(k)
  <1>1. L \in Nat
    OBVIOUS
  <1> HIDE DEF L
  <1>2. L \in T /\ T \subseteq Nat
    BY <1>1
  <1>3. PICK m \in T : \A k \in T : m <= k
    <2> HIDE DEF T
    <2> QED BY <1>2, LeastNumber
  <1>4. ASSUME m > 0, s[m] \in E PROVE FALSE
    <2>1. m \in 0 .. L /\ \A i \in m + 1 .. L : s[i] \in E
      BY <1>3
    <2>2. m - 1 \in 0 .. L
      BY <1>1, <1>4, <2>1
    <2>3. \A i \in (m - 1) + 1 .. L : s[i] \in E
      BY <1>1, <1>4, <2>1
    <2>4. m - 1 \in T
      BY <2>2, <2>3
    <2>5. ~(m <= m - 1)
      BY <1>1, <2>1
    <2> HIDE DEF T
    <2> QED BY <1>3, <2>4, <2>5
  <1>5. m \in 0 .. Len(s) /\ Q(m)
    BY <1>3, <1>4 DEF L
  <1>6. n \in 0 .. Len(s) /\ Q(n)
    <2> HIDE DEF Q
    <2> QED BY <1>5
  <1>7. StripEnd(s, E) = SubSeq(s, 1, n)
    BY Zenon DEF StripEnd
  <1> HIDE DEF n
  <1> QED BY <1>6, <1>7 DEF LeftOf

\* What Trim leaves of a string that is not all spaces: from a to b.
TrimmedTo(s, a, b) ==
    /\ a \in 1 .. Len(s) /\ b \in a .. Len(s)
    /\ s[a] # Blank /\ s[b] # Blank
    /\ \A i \in 1 .. a - 1 : s[i] = Blank
    /\ \A i \in b + 1 .. Len(s) : s[i] = Blank

LEMMA TrimIs ==
    ASSUME NEW C, NEW s \in Seq(C), NEW x \in 1 .. Len(s), s[x] # Blank
    PROVE  \E a, b : TrimmedTo(s, a, b) /\ Trim(s) = SubSeq(s, a, b)
  <1> DEFINE L == Len(s)
             T == {m \in 1 .. L : s[m] # Blank}
             Q(k) == s[k] # Blank /\ \A i \in 1 .. k - 1 : s[i] = Blank
             first == CHOOSE k \in DOMAIN s : Q(k)
             t == SubSeq(s, first, Len(s))
  <1>1. L \in Nat /\ DOMAIN s = 1 .. L
    OBVIOUS
  <1>2. x \in T /\ T \subseteq Nat
    BY <1>1
  <1>3. PICK m \in T : \A k \in T : m <= k
    <2> HIDE DEF T
    <2> QED BY <1>2, LeastNumber
  <1>4. Q(m)
    <2>1. m \in 1 .. L /\ s[m] # Blank
      BY <1>3
    <2>2. ASSUME NEW i \in 1 .. m - 1 PROVE s[i] = Blank
      <3>1. i \in 1 .. L /\ ~(m <= i)
        BY <1>1, <2>1
      <3> QED BY <1>3, <3>1
    <2> QED BY <2>1, <2>2
  <1>5. first \in 1 .. L /\ Q(first)
    <2>1. m \in DOMAIN s
      BY <1>1, <1>3
    <2>2. first \in DOMAIN s /\ Q(first)
      <3> HIDE DEF Q
      <3> QED BY <1>4, <2>1
    <2> QED BY <1>1, <2>2
  <1>6. Trim(s) = StripEnd(t, {Blank})
    <2>1. ~(\A i \in DOMAIN s : s[i] = Blank)
      BY <1>1
    <2> QED BY <2>1, Zenon DEF Trim
  <1> HIDE DEF first
  <1>7. /\ t \in Seq(C) /\ Len(t) = L - first + 1
        /\ \A i \in 1 .. L - first + 1 : t[i] = s[first + i - 1]
    <2>1. first \in 1 .. Len(s) + 1 /\ Len(s) \in first - 1 .. Len(s)
      BY <1>1, <1>5
    <2> QED BY <2>1, PartIs
  <1>8. PICK n : LeftOf(t, {Blank}, n) /\ StripEnd(t, {Blank}) = SubSeq(t, 1, n)
    <2> HIDE DEF t
    <2> QED BY <1>7, StripIs
  <1>9. n \in 1 .. L - first + 1
    <2>1. n \in 0 .. L - first + 1
      BY <1>7, <1>8 DEF LeftOf
    <2>2. t[1] = s[first]
      BY <1>1, <1>5, <1>7
    <2>3. n # 0
      <3> SUFFICES ASSUME n = 0 PROVE FALSE
        OBVIOUS
      <3>1. 1 \in n + 1 .. Len(t)
        BY <1>1, <1>5, <1>7
      <3>2. t[1] = Blank
        <4> HIDE DEF t
        <4> QED BY <1>8, <3>1 DEF LeftOf
      <3> QED BY <1>5, <2>2, <3>2
    <2> QED BY <2>1, <2>3
  <1> DEFINE b == first + n - 1
  <1>10. b \in first .. L
    BY <1>1, <1>5, <1>9
  <1>11. s[b] # Blank
    <2>1. t[n] # Blank
      <3> HIDE DEF t
      <3> QED BY <1>8, <1>9 DEF LeftOf
    <2>2. t[n] = s[first + n - 1]
      BY <1>7, <1>9
    <2> QED BY <2>1, <2>2
  <1>12. ASSUME NEW i \in b + 1 .. L PROVE s[i] = Blank
    <2> DEFINE j == i - first + 1
    <2>1. j \in n + 1 .. L - first + 1 /\ first + j - 1 = i /\ j \in 1 .. L - first + 1
      BY <1>1, <1>5, <1>9
    <2> HIDE DEF j
    <2>2. t[j] = s[i]
      BY <1>7, <2>1
    <2>3. t[j] \in {Blank}
      <3>1. j \in n + 1 .. Len(t)
        BY <1>7, <2>1
      <3> HIDE DEF t
      <3> QED BY <1>8, <3>1 DEF LeftOf
    <2> QED BY <2>2, <2>3
  <1>13. SubSeq(t, 1, n) = SubSeq(s, first, b)
    <2>1. /\ first \in 1 .. Len(s) + 1 /\ Len(s) \in first - 1 .. Len(s)
          /\ 1 \in 1 .. Len(s) - first + 2 /\ n \in 1 - 1 .. Len(s) - first + 1
      BY <1>1, <1>5, <1>9
    <2>2. SubSeq(SubSeq(s, first, Len(s)), 1, n) = SubSeq(s, first + 1 - 1, first + n - 1)
      BY <2>1, PartOfPart
    <2>3. first + 1 - 1 = first
      BY <1>5
    <2> QED BY <2>2, <2>3
  <1> HIDE DEF b
  <1>14. TrimmedTo(s, first, b)
    BY <1>5, <1>10, <1>11, <1>12 DEF TrimmedTo
  <1> QED BY <1>6, <1>8, <1>13, <1>14
\* The name in front of the "=" at k, in a line that does not start with a space.
LEMMA NameIs ==
    ASSUME NEW C, NEW s \in Seq(C), NEW k \in 1 .. Len(s), k > 1 => s[1] # Blank
    PROVE  \E b \in 0 .. k - 1 :
              /\ Trim(SubSeq(s, 1, k - 1)) = SubSeq(s, 1, b)
              /\ b > 0 => s[b] # Blank
              /\ \A i \in b + 1 .. k - 1 : s[i] = Blank
  <1> DEFINE u == SubSeq(s, 1, k - 1)
  <1>1. Len(s) \in Nat
    OBVIOUS
  <1>2. /\ u \in Seq(C) /\ Len(u) = k - 1
        /\ \A i \in 1 .. k - 1 : u[i] = s[i]
    <2>1. 1 \in 1 .. Len(s) + 1 /\ k - 1 \in 1 - 1 .. Len(s)
      BY <1>1
    <2>2. /\ u \in Seq(C) /\ Len(u) = (k - 1) - 1 + 1
          /\ \A i \in 1 .. (k - 1) - 1 + 1 : u[i] = s[1 + i - 1]
      BY <2>1, PartIs
    <2>3. (k - 1) - 1 + 1 = k - 1 /\ \A i \in 1 .. k - 1 : 1 + i - 1 = i
      BY <1>1
    <2> HIDE DEF u
    <2> QED BY <2>2, <2>3
  <1>3. CASE k = 1
    <2>1. u = <<>>
      BY <1>2, <1>3, EmptySeq
    <2> HIDE DEF u
    <2>2. Trim(u) = u
      <3>1. \A i \in DOMAIN u : u[i] = Blank
        BY <2>1
      <3> QED BY <3>1, Zenon DEF Trim
    <2>3. SubSeq(s, 1, 0) = <<>>
      BY SubSeqEmpty
    <2>4. Trim(u) = SubSeq(s, 1, 0)
      BY <2>1, <2>2, <2>3
    <2> QED BY <1>3, <2>4 DEF u
  <1>4. CASE k > 1
    <2>1. 1 \in 1 .. Len(u) /\ u[1] # Blank
      BY <1>1, <1>2, <1>4
    <2>2. PICK a, b : TrimmedTo(u, a, b) /\ Trim(u) = SubSeq(u, a, b)
      <3> HIDE DEF u
      <3> QED BY <1>2, <2>1, TrimIs
    <2>3. a = 1 /\ b \in 1 .. k - 1
      <3> HIDE DEF u
      <3>1. a \in 1 .. k - 1 /\ b \in a .. k - 1
        BY <1>2, <2>2 DEF TrimmedTo
      <3>2. ~(1 \in 1 .. a - 1)
        BY <2>1, <2>2 DEF TrimmedTo
      <3> QED BY <1>1, <3>1, <3>2
    <2>4. SubSeq(u, 1, b) = SubSeq(s, 1, b)
      <3>1. /\ 1 \in 1 .. Len(s) + 1 /\ k - 1 \in 1 - 1 .. Len(s)
            /\ 1 \in 1 .. (k - 1) - 1 + 2 /\ b \in 1 - 1 .. (k - 1) - 1 + 1
        BY <1>1, <2>3
      <3>2. SubSeq(SubSeq(s, 1, k - 1), 1, b) = SubSeq(s, 1 + 1 - 1, 1 + b - 1)
        BY <3>1, PartOfPart
      <3>3. 1 + 1 - 1 = 1 /\ 1 + b - 1 = b
        BY <2>3
      <3> QED BY <3>2, <3>3
    <2> HIDE DEF u
    <2>5. s[b] # Blank /\ \A i \in b + 1 .. k - 1 : s[i] = Blank
      <3>1. u[b] # Blank /\ \A i \in b + 1 .. Len(u) : u[i] = Blank
        BY <2>2 DEF TrimmedTo
      <3>2. \A i \in b + 1 .. k - 1 : i \in 1 .. k - 1
        BY <2>3
      <3> QED BY <1>2, <2>3, <3>1, <3>2
    <2>6. Trim(u) = SubSeq(s, 1, b) /\ b \in 0 .. k - 1
      BY <2>2, <2>3, <2>4
    <2> QED BY <2>5, <2>6 DEF u
  <1> QED BY <1>3, <1>4

\* The content behind the "=" at k, in a line that does not end in a space.
LEMMA ContentIs ==
    ASSUME NEW C, NEW s \in Seq(C), NEW k \in 1 .. Len(s), s[Len(s)] # Blank
    PROVE  \E c \in k + 1 .. Len(s) + 1 :
              /\ Trim(SubSeq(s, k + 1, Len(s))) = SubSeq(s, c, Len(s))
              /\ c <= Len(s) => s[c] # Blank
              /\ \A i \in k + 1 .. c - 1 : s[i] = Blank
  <1> DEFINE L == Len(s)
             w == SubSeq(s, k + 1, Len(s))
  <1>1. L \in Nat
    OBVIOUS
  <1>2. /\ w \in Seq(C) /\ Len(w) = L - k
        /\ \A i \in 1 .. L - k : w[i] = s[k + i]
    <2>1. k + 1 \in 1 .. Len(s) + 1 /\ Len(s) \in (k + 1) - 1 .. Len(s)
      BY <1>1
    <2>2. /\ w \in Seq(C) /\ Len(w) = L - (k + 1) + 1
          /\ \A i \in 1 .. L - (k + 1) + 1 : w[i] = s[(k + 1) + i - 1]
      <3> DEFINE a == k + 1
      <3>1. a \in 1 .. Len(s) + 1 /\ Len(s) \in a - 1 .. Len(s)
        BY <2>1
      <3> HIDE DEF a
      <3>2. /\ SubSeq(s, a, Len(s)) \in Seq(C) /\ Len(SubSeq(s, a, Len(s))) = Len(s) - a + 1
            /\ \A i \in 1 .. Len(s) - a + 1 : SubSeq(s, a, Len(s))[i] = s[a + i - 1]
        BY <3>1, PartIs
      <3> QED BY <3>2 DEF a
    <2>3. L - (k + 1) + 1 = L - k /\ \A i \in 1 .. L - k : (k + 1) + i - 1 = k + i
      BY <1>1
    <2> HIDE DEF w, L
    <2> QED BY <2>2, <2>3
  <1>3. CASE k = L
    <2>1. w = <<>>
      BY <1>1, <1>2, <1>3, EmptySeq
    <2>2. Trim(w) = w
      <3> HIDE DEF w
      <3>1. \A i \in DOMAIN w : w[i] = Blank
        BY <2>1
      <3> QED BY <3>1, Zenon DEF Trim
    <2>3. \A i \in k + 1 .. (L + 1) - 1 : s[i] = Blank
      BY <1>1, <1>3
    <2>4. L + 1 \in k + 1 .. L + 1 /\ ~(L + 1 <= L) /\ w = SubSeq(s, L + 1, Len(s))
      BY <1>1, <1>3
    <2> HIDE DEF w
    <2> QED BY <2>2, <2>3, <2>4 DEF w
  <1>4. CASE k # L
    <2>1. L - k \in 1 .. Len(w) /\ w[L - k] = s[L] /\ Len(w) = L - k
      BY <1>1, <1>2, <1>4
    <2>2. PICK a, b : TrimmedTo(w, a, b) /\ Trim(w) = SubSeq(w, a, b)
      <3> HIDE DEF w
      <3> QED BY <1>2, <2>1, TrimIs
    <2>3. b = L - k /\ a \in 1 .. L - k
      <3> HIDE DEF w
      <3>1. a \in 1 .. L - k /\ b \in a .. L - k
        BY <2>1, <2>2 DEF TrimmedTo
      <3>2. ~(L - k \in b + 1 .. L - k)
        BY <2>1, <2>2 DEF TrimmedTo
      <3> QED BY <1>1, <3>1, <3>2
    <2>4. SubSeq(w, a, b) = SubSeq(s, k + a, L)
      <3> DEFINE d == k + 1
      <3>1. /\ d \in 1 .. Len(s) + 1 /\ L \in d - 1 .. Len(s)
            /\ a \in 1 .. L - d + 2 /\ b \in a - 1 .. L - d + 1
        BY <1>1, <2>3
      <3>2. w = SubSeq(s, d, L)
        OBVIOUS
      <3>3. d + a - 1 = k + a /\ d + b - 1 = L
        BY <1>1, <2>3
      <3> HIDE DEF w, d, L
      <3>4. SubSeq(SubSeq(s, d, L), a, b) = SubSeq(s, d + a - 1, d + b - 1)
        BY <3>1, PartOfPart
      <3> QED BY <3>2, <3>3, <3>4
    <2> DEFINE c == k + a
    <2>5. c \in k + 1 .. L + 1 /\ s[c] # Blank
      <3>1. w[a] # Blank
        BY <2>2 DEF TrimmedTo
      <3>2. w[a] = s[k + a]
        BY <1>2, <2>3
      <3> QED BY <1>1, <2>3, <3>1, <3>2
    <2>6. ASSUME NEW i \in k + 1 .. c - 1 PROVE s[i] = Blank
      <3> DEFINE j == i - k
      <3>1. j \in 1 .. a - 1 /\ j \in 1 .. L - k /\ k + j = i
        BY <1>1, <2>3
      <3> HIDE DEF j
      <3>2. w[j] = Blank /\ w[j] = s[i]
        BY <1>2, <2>2, <3>1 DEF TrimmedTo
      <3> QED BY <3>2
    <2> HIDE DEF w, c
    <2>7. Trim(w) = SubSeq(s, c, L)
      BY <2>2, <2>4 DEF c
    <2> QED BY <2>5, <2>6, <2>7 DEF w
  <1> QED BY <1>3, <1>4
LEMMA Chars ==
    /\ Blank \in LineEnd /\ Equals \notin LineEnd /\ Section \notin LineEnd
    /\ Blank \in CommentStart
  BY DEF Blank, Equals, LineEnd, NL, CR, Section, CommentStart, Sign

\* A line that defines nothing gives no item.
LEMMA NoItem ==
    ASSUME NEW C, NEW line \in Seq(C), ~IsDefinition(line)
    PROVE  ItemsOf(line) = <<>>
  <1> DEFINE stripped == StripEnd(line, LineEnd)
             none == \/ line = <<>> \/ line[1] \in CommentStart
                     \/ stripped = <<>> \/ stripped[1] = Section
                     \/ \A i \in DOMAIN stripped : stripped[i] # Equals
  <1>1. none => ItemsOf(line) = <<>>
    BY Zenon DEF ItemsOf
  <1> SUFFICES ASSUME ~none PROVE FALSE
    BY <1>1
  <1>2. PICK N : LeftOf(line, LineEnd, N) /\ stripped = SubSeq(line, 1, N)
    BY StripIs
  <1>3. Len(line) \in Nat /\ N \in 0 .. Len(line)
    BY <1>2 DEF LeftOf
  <1>4. /\ stripped \in Seq(C) /\ Len(stripped) = N
        /\ \A i \in 1 .. N : stripped[i] = line[i]
    <2>1. 1 \in 1 .. Len(line) + 1 /\ N \in 1 - 1 .. Len(line)
      BY <1>3
    <2>2. /\ stripped \in Seq(C) /\ Len(stripped) = N - 1 + 1
          /\ \A i \in 1 .. N - 1 + 1 : stripped[i] = line[1 + i - 1]
      <3> HIDE DEF stripped
      <3> QED BY <1>2, <2>1, PartIs
    <2>3. N - 1 + 1 = N /\ \A i \in 1 .. N : 1 + i - 1 = i
      BY <1>3
    <2> HIDE DEF stripped
    <2> QED BY <2>2, <2>3
  <1> HIDE DEF stripped
  <1>5. N # 0
    BY <1>4, EmptySeq
  <1>6. line # <<>> /\ line[1] \notin CommentStart \cup {Section}
    <2>1. stripped[1] = line[1]
      BY <1>3, <1>4, <1>5
    <2> QED BY <2>1
  <1>7. PICK i \in DOMAIN stripped : stripped[i] = Equals
    OBVIOUS
  <1>8. i \in DOMAIN line /\ line[i] = Equals
    BY <1>3, <1>4, <1>7
  <1> QED BY <1>6, <1>8 DEF IsDefinition

\* A line that defines something gives the name and the content of its writer.
LEMMA TheItem ==
    ASSUME NEW C, NEW line \in Seq(C), IsDefinition(line)
    PROVE  \E name, content : /\ ItemsOf(line) = <<Item(name, content)>>
                              /\ Defines(line, name, content)
  <1> DEFINE stripped == StripEnd(line, LineEnd)
             none == \/ line = <<>> \/ line[1] \in CommentStart
                     \/ stripped = <<>> \/ stripped[1] = Section
                     \/ \A i \in DOMAIN stripped : stripped[i] # Equals
             k == FirstEquals(stripped)
             name == Trim(SubSeq(stripped, 1, k - 1))
             content == Trim(SubSeq(stripped, k + 1, Len(stripped)))
  <1>1. ~none => ItemsOf(line) = <<Item(name, content)>>
    BY Zenon DEF ItemsOf
  <1>2. PICK N : LeftOf(line, LineEnd, N) /\ stripped = SubSeq(line, 1, N)
    BY StripIs
  <1> HIDE DEF none, name, content
  <1>3. Len(line) \in Nat /\ N \in 0 .. Len(line)
    BY <1>2 DEF LeftOf
  <1>4. /\ stripped \in Seq(C) /\ Len(stripped) = N
        /\ \A i \in 1 .. N : stripped[i] = line[i]
    <2>1. 1 \in 1 .. Len(line) + 1 /\ N \in 1 - 1 .. Len(line)
      BY <1>3
    <2>2. /\ stripped \in Seq(C) /\ Len(stripped) = N - 1 + 1
          /\ \A i \in 1 .. N - 1 + 1 : stripped[i] = line[1 + i - 1]
      <3> HIDE DEF stripped
      <3> QED BY <1>2, <2>1, PartIs
    <2>3. N - 1 + 1 = N /\ \A i \in 1 .. N : 1 + i - 1 = i
      BY <1>3
    <2> HIDE DEF stripped
    <2> QED BY <2>2, <2>3
  <1>5. PICK e \in DOMAIN line : line[e] = Equals
    BY DEF IsDefinition
  <1>6. e \in 1 .. N
    <2>1. e \in 1 .. Len(line)
      BY <1>5
    <2>2. e \notin N + 1 .. Len(line)
      BY <1>2, <1>5, Chars DEF LeftOf
    <2> QED BY <1>3, <2>1, <2>2
  <1>7. stripped[e] = Equals /\ stripped[1] = line[1]
    <2>1. 1 \in 1 .. N
      BY <1>3, <1>6
    <2> HIDE DEF stripped
    <2> QED BY <1>4, <1>5, <1>6, <2>1
  <1>8. ItemsOf(line) = <<Item(name, content)>>
    <2> HIDE DEF stripped
    <2>1. stripped # <<>> /\ e \in DOMAIN stripped
      BY <1>3, <1>4, <1>6, EmptySeq
    <2>2. ~none
      BY <1>7, <2>1 DEF IsDefinition, none
    <2> QED BY <1>1, <2>2
  <1>9. k \in 1 .. N /\ stripped[k] = Equals /\ \A i \in 1 .. k - 1 : stripped[i] # Equals
    <2> HIDE DEF stripped
    <2> DEFINE T == {i \in 1 .. N : stripped[i] = Equals}
               Q(x) == stripped[x] = Equals /\ \A i \in 1 .. x - 1 : stripped[i] # Equals
    <2>1. T \subseteq Nat /\ e \in T
      BY <1>3, <1>6, <1>7
    <2>2. PICK m \in T : \A i \in T : m <= i
      <3> HIDE DEF T
      <3> QED BY <2>1, LeastNumber
    <2>3. m \in DOMAIN stripped /\ Q(m)
      <3>1. ASSUME NEW i \in 1 .. m - 1 PROVE stripped[i] # Equals
        <4>1. i \in 1 .. N /\ ~(m <= i)
          BY <1>3, <2>2
        <4> QED BY <2>2, <4>1
      <3> QED BY <1>3, <1>4, <2>2, <3>1
    <2>4. k = CHOOSE x \in DOMAIN stripped : Q(x)
      BY Zenon DEF FirstEquals
    <2> HIDE DEF Q, k
    <2>5. k \in DOMAIN stripped /\ Q(k)
      BY <2>3, <2>4
    <2>6. DOMAIN stripped = 1 .. N
      BY <1>3, <1>4
    <2> QED BY <2>5, <2>6 DEF Q
  <1> HIDE DEF stripped, k
  <1>10. line[1] # Blank /\ line[N] \notin LineEnd /\ line[N] # Blank
    <2>1. line[1] # Blank
      BY Chars DEF IsDefinition
    <2>2. N > 0
      BY <1>3, <1>6
    <2> QED BY <1>2, <2>1, <2>2, Chars DEF LeftOf
  <1>11. PICK b \in 0 .. k - 1 :
            /\ name = SubSeq(stripped, 1, b)
            /\ b > 0 => stripped[b] # Blank
            /\ \A i \in b + 1 .. k - 1 : stripped[i] = Blank
    <2>1. k \in 1 .. Len(stripped) /\ stripped[1] # Blank
      BY <1>4, <1>7, <1>9, <1>10
    <2> QED BY <1>4, <2>1, NameIs DEF name
  <1>12. PICK c \in k + 1 .. N + 1 :
            /\ content = SubSeq(stripped, c, N)
            /\ c <= N => stripped[c] # Blank
            /\ \A i \in k + 1 .. c - 1 : stripped[i] = Blank
    <2>1. k \in 1 .. Len(stripped) /\ stripped[Len(stripped)] # Blank
      BY <1>3, <1>4, <1>6, <1>9, <1>10
    <2>2. \E c \in k + 1 .. Len(stripped) + 1 :
              /\ Trim(SubSeq(stripped, k + 1, Len(stripped))) = SubSeq(stripped, c, Len(stripped))
              /\ c <= Len(stripped) => stripped[c] # Blank
              /\ \A i \in k + 1 .. c - 1 : stripped[i] = Blank
      BY <1>4, <2>1, ContentIs
    <2> QED BY <1>4, <2>2 DEF content
  <1>13. /\ name = SubSeq(line, 1, b) /\ Len(name) = b
         /\ \A i \in 1 .. b : name[i] = line[i]
    <2>1. /\ 1 \in 1 .. Len(line) + 1 /\ N \in 1 - 1 .. Len(line)
          /\ 1 \in 1 .. N - 1 + 2 /\ b \in 1 - 1 .. N - 1 + 1 /\ b \in 1 - 1 .. Len(line)
      BY <1>3, <1>9
    <2>2. SubSeq(SubSeq(line, 1, N), 1, b) = SubSeq(line, 1 + 1 - 1, 1 + b - 1)
      BY <2>1, PartOfPart
    <2>3. 1 + 1 - 1 = 1 /\ 1 + b - 1 = b /\ b - 1 + 1 = b /\ \A i \in 1 .. b : 1 + i - 1 = i
      BY <1>9
    <2>4. name = SubSeq(line, 1, b)
      BY <1>2, <1>11, <2>2, <2>3
    <2>5. /\ Len(SubSeq(line, 1, b)) = b - 1 + 1
          /\ \A i \in 1 .. b - 1 + 1 : SubSeq(line, 1, b)[i] = line[1 + i - 1]
      BY <2>1, PartIs
    <2> QED BY <2>3, <2>4, <2>5
  <1>14. /\ content = SubSeq(line, c, N) /\ Len(content) = N - c + 1
         /\ \A i \in 1 .. N - c + 1 : content[i] = line[c + i - 1]
    <2>1. /\ 1 \in 1 .. Len(line) + 1 /\ N \in 1 - 1 .. Len(line)
          /\ c \in 1 .. N - 1 + 2 /\ N \in c - 1 .. N - 1 + 1
          /\ c \in 1 .. Len(line) + 1 /\ N \in c - 1 .. Len(line)
      BY <1>3, <1>9
    <2>2. SubSeq(SubSeq(line, 1, N), c, N) = SubSeq(line, 1 + c - 1, 1 + N - 1)
      BY <2>1, PartOfPart
    <2>3. 1 + c - 1 = c /\ 1 + N - 1 = N
      BY <1>3, <1>9
    <2>4. content = SubSeq(line, c, N)
      BY <1>2, <1>12, <2>2, <2>3
    <2>5. /\ Len(SubSeq(line, c, N)) = N - c + 1
          /\ \A i \in 1 .. N - c + 1 : SubSeq(line, c, N)[i] = line[c + i - 1]
      BY <2>1, PartIs
    <2> QED BY <2>4, <2>5
  <1>15. Bare(name)
    <2> SUFFICES ASSUME name # <<>> PROVE name[1] # Blank /\ name[Len(name)] # Blank
      BY DEF Bare
    <2>1. b # 0
      <3>1. b = 0 => name = <<>>
        BY <1>13, SubSeqEmpty
      <3> QED BY <3>1
    <2>2. 1 \in 1 .. b /\ b \in 1 .. b /\ b \in 1 .. N
      BY <1>3, <1>9, <2>1
    <2>3. stripped[b] # Blank /\ stripped[b] = line[b]
      BY <1>4, <1>11, <2>1, <2>2
    <2> QED BY <1>10, <1>13, <2>2, <2>3
  <1>16. ASSUME content # <<>> PROVE /\ content[1] # Blank
                                     /\ content[Len(content)] = line[N]
    <2>1. c <= N
      <3>1. c = N + 1 => content = <<>>
        <4>1. c = N + 1 => N < c /\ c \in Int /\ N \in Int
          BY <1>3
        <4> QED BY <1>14, <4>1, SubSeqEmpty
      <3> QED BY <1>3, <1>9, <1>16, <3>1
    <2>2. /\ 1 \in 1 .. N - c + 1 /\ N - c + 1 \in 1 .. N - c + 1
          /\ c + 1 - 1 = c /\ c + (N - c + 1) - 1 = N /\ c \in 1 .. N
      BY <1>3, <1>9, <2>1
    <2>3. stripped[c] # Blank /\ stripped[c] = line[c]
      BY <1>4, <1>12, <2>1, <2>2
    <2> QED BY <1>14, <2>2, <2>3
  <1>17. Bare(content) /\ (content # <<>> => content[Len(content)] \notin LineEnd)
    BY <1>10, <1>16 DEF Bare
  <1>18. Defines(line, name, content)
    <2>1. k \in DOMAIN line /\ 1 \in 1 .. k /\ c \in k + 1 .. Len(line) + 1
      BY <1>3, <1>9
    <2>2. line[k] = Equals /\ \A n \in 1 .. k - 1 : line[n] # Equals
      <3>1. \A n \in 1 .. k - 1 : n \in 1 .. N
        BY <1>3, <1>9
      <3> QED BY <1>4, <1>9, <3>1
    <2>3. SubSeq(line, 1, 1 + Len(name) - 1) = name
      <3>1. 1 + b - 1 = b
        BY <1>9
      <3> QED BY <1>13, <3>1
    <2>4. SubSeq(line, c, c + Len(content) - 1) = content
      <3>1. c + (N - c + 1) - 1 = N
        BY <1>3, <1>9
      <3> QED BY <1>14, <3>1
    <2>5. ASSUME NEW n \in (1 .. 1 - 1) \cup (1 + Len(name) .. k - 1) \cup (k + 1 .. c - 1)
          PROVE  line[n] = Blank
      <3>1. n \in b + 1 .. k - 1 \/ n \in k + 1 .. c - 1
        BY <1>9, <1>13
      <3>2. n \in 1 .. N
        BY <1>3, <1>9, <3>1
      <3>3. stripped[n] = Blank
        BY <1>11, <1>12, <3>1
      <3> QED BY <1>4, <3>2, <3>3
    <2>6. ASSUME NEW n \in c + Len(content) .. Len(line) PROVE line[n] \in LineEnd
      <3>1. n \in N + 1 .. Len(line)
        BY <1>3, <1>9, <1>14
      <3> QED BY <1>2, <3>1 DEF LeftOf
    <2> HIDE DEF Equals, Blank
    <2>7. \E i \in 1 .. k : \E j \in k + 1 .. Len(line) + 1 :
            /\ line[k] = Equals /\ \A n \in 1 .. k - 1 : line[n] # Equals
            /\ SubSeq(line, i, i + Len(name) - 1) = name
            /\ SubSeq(line, j, j + Len(content) - 1) = content
            /\ \A n \in (1 .. i - 1) \cup (i + Len(name) .. k - 1) \cup (k + 1 .. j - 1) :
                  line[n] = Blank
            /\ \A n \in j + Len(content) .. Len(line) : line[n] \in LineEnd
      <3> USE <2>1
      <3> WITNESS 1 \in 1 .. k
      <3> WITNESS c \in k + 1 .. Len(line) + 1
      <3> QED BY <2>2, <2>3, <2>4, <2>5, <2>6
    <2> QED BY <1>15, <1>17, <2>1, <2>7 DEF Defines
  <1> QED BY <1>8, <1>18
\* The first item of the name in a list has the content x.
FirstNamed(list, name, x) ==
    \E k \in DOMAIN list :
        /\ SameName(list[k].ItemName, name) /\ list[k].ItemContent = x
        /\ \A j \in DOMAIN list : SameName(list[j].ItemName, name) => k <= j

NoneNamed(list, name) == \A j \in DOMAIN list : ~SameName(list[j].ItemName, name)

LEMMA OneMoreItem ==
    ASSUME NEW I, NEW l \in Seq(I), NEW x \in I, NEW name
    PROVE  /\ NoneNamed(l, name) /\ ~SameName(x.ItemName, name) => NoneNamed(l \o <<x>>, name)
           /\ NoneNamed(l, name) /\ SameName(x.ItemName, name) =>
                 FirstNamed(l \o <<x>>, name, x.ItemContent)
           /\ \A y : FirstNamed(l, name, y) => FirstNamed(l \o <<x>>, name, y)
  <1> DEFINE L == Len(l)
             m == l \o <<x>>
  <1>1. L \in Nat /\ DOMAIN l = 1 .. L
    OBVIOUS
  <1>2. /\ m \in Seq(I) /\ Len(m) = L + 1 /\ DOMAIN m = 1 .. L + 1
        /\ \A i \in 1 .. L : m[i] = l[i]
        /\ m[L + 1] = x
    <2>1. m = Append(l, x)
      BY AppendIsConcat
    <2>2. /\ Append(l, x) \in Seq(I) /\ Len(Append(l, x)) = L + 1
          /\ \A i \in 1 .. L : Append(l, x)[i] = l[i]
          /\ Append(l, x)[L + 1] = x
      BY AppendProperties
    <2>3. DOMAIN Append(l, x) = 1 .. L + 1
      BY <2>2, LenProperties
    <2> HIDE DEF m
    <2> QED BY <2>1, <2>2, <2>3
  <1> HIDE DEF L, m
  <1>3. \A i \in 1 .. L + 1 : i \in 1 .. L \/ i = L + 1
    BY <1>1
  <1>4. ASSUME NoneNamed(l, name), ~SameName(x.ItemName, name) PROVE NoneNamed(m, name)
    BY <1>1, <1>2, <1>3, <1>4 DEF NoneNamed
  <1>5. ASSUME NoneNamed(l, name), SameName(x.ItemName, name)
        PROVE  FirstNamed(m, name, x.ItemContent)
    <2>1. L + 1 \in DOMAIN m
      BY <1>1, <1>2
    <2>2. ASSUME NEW j \in DOMAIN m, SameName(m[j].ItemName, name) PROVE L + 1 <= j
      <3>1. j \notin 1 .. L
        BY <1>1, <1>2, <1>5, <2>2 DEF NoneNamed
      <3> QED BY <1>1, <1>2, <1>3, <3>1
    <2> QED BY <1>2, <1>5, <2>1, <2>2 DEF FirstNamed
  <1>6. ASSUME NEW y, FirstNamed(l, name, y) PROVE FirstNamed(m, name, y)
    <2>1. PICK k \in DOMAIN l :
             /\ SameName(l[k].ItemName, name) /\ l[k].ItemContent = y
             /\ \A j \in DOMAIN l : SameName(l[j].ItemName, name) => k <= j
      BY <1>6 DEF FirstNamed
    <2>2. k \in DOMAIN m /\ m[k] = l[k] /\ k <= L + 1
      BY <1>1, <1>2, <2>1
    <2>3. ASSUME NEW j \in DOMAIN m, SameName(m[j].ItemName, name) PROVE k <= j
      BY <1>1, <1>2, <1>3, <2>1, <2>2, <2>3
    <2> QED BY <2>1, <2>2, <2>3 DEF FirstNamed
  <1> QED BY <1>4, <1>5, <1>6 DEF m

\* The lookup, when the first item of a name is known.
LEMMA LookupIs ==
    ASSUME NEW I, NEW list \in Seq(I), NEW name
    PROVE  /\ NoneNamed(list, name) => Lookup(list, name) = {}
           /\ \A x : FirstNamed(list, name, x) => Lookup(list, name) = {x}
  <1> DEFINE N == Named(list, name)
  <1>1. DOMAIN list \subseteq Nat /\ N = {k \in DOMAIN list : SameName(list[k].ItemName, name)}
    BY LenProperties DEF Named
  <1>2. Lookup(list, name) = {list[k].ItemContent : k \in {n \in N : \A i \in N : n <= i}}
    BY Zenon DEF Lookup
  <1> HIDE DEF N
  <1>3. ASSUME NoneNamed(list, name) PROVE Lookup(list, name) = {}
    <2>1. N = {}
      BY <1>1, <1>3 DEF NoneNamed
    <2> QED BY <1>2, <2>1
  <1>4. ASSUME NEW x, FirstNamed(list, name, x) PROVE Lookup(list, name) = {x}
    <2>1. PICK k \in DOMAIN list :
             /\ SameName(list[k].ItemName, name) /\ list[k].ItemContent = x
             /\ \A j \in DOMAIN list : SameName(list[j].ItemName, name) => k <= j
      BY <1>4 DEF FirstNamed
    <2>2. k \in N /\ \A i \in N : k <= i
      BY <1>1, <2>1
    <2>3. \A n \in N : (\A i \in N : n <= i) => n = k
      BY <1>1, <2>2
    <2>4. {n \in N : \A i \in N : n <= i} = {k}
      BY <2>2, <2>3
    <2> QED BY <1>2, <2>1, <2>4
  <1> QED BY <1>3, <1>4

\* The items of the lines are of the set I.
LoadsItems(file, N, I) ==
    \A n \in 1 .. N : ItemsOf(file[n]) = <<>> \/ \E x \in I : ItemsOf(file[n]) = <<x>>

\* f[n] is the list after n lines.
Lists(f, file, N, I) ==
    /\ f \in [0 .. N -> Seq(I)] /\ f[0] = <<>>
    /\ \A n \in 1 .. N : f[n] = f[n - 1] \o ItemsOf(file[n])
    /\ Load(file) = f[N]

\* Load puts the items of the lines one after the other.
LEMMA LoadIs ==
    ASSUME NEW I, NEW file, NEW N \in Nat, Len(file) = N,
           LoadsItems(file, N, I)
    PROVE  \E f : Lists(f, file, N, I)
  <1>0. \A n \in 1 .. N : ItemsOf(file[n]) \in Seq(I)
    <2> SUFFICES ASSUME NEW n \in 1 .. N PROVE ItemsOf(file[n]) \in Seq(I)
      OBVIOUS
    <2>1. ItemsOf(file[n]) = <<>> \/ \E x \in I : ItemsOf(file[n]) = <<x>>
      BY DEF LoadsItems
    <2>2. \A x \in I : <<x>> \in Seq(I)
      OBVIOUS
    <2>3. <<>> \in Seq(I)
      OBVIOUS
    <2> QED BY <2>1, <2>2, <2>3
  <1> DEFINE items == [n \in 1 .. N |-> ItemsOf(file[n])]
             list[n \in 0 .. Len(file)] ==
                 IF n = 0 THEN <<>> ELSE list[n - 1] \o ItemsOf(file[n])
  <1>1. items \in Seq(Seq(I)) /\ Len(items) = N
    BY <1>0
  <1>2. PICK f : Flattens(f, items, I)
    <2> HIDE DEF items
    <2> QED BY <1>1, FlattenExists
  <1>3. /\ f \in [0 .. N -> Seq(I)] /\ f[0] = <<>>
        /\ \A n \in 1 .. N : f[n] = f[n - 1] \o ItemsOf(file[n])
    <2>1. \A n \in 1 .. N : items[n] = ItemsOf(file[n])
      OBVIOUS
    <2> HIDE DEF items
    <2> QED BY <1>1, <1>2, <2>1 DEF Flattens
  <1> HIDE DEF items
  <1>4. f = [n \in 0 .. N |-> IF n = 0 THEN <<>> ELSE f[n - 1] \o ItemsOf(file[n])]
    <2>1. f = [n \in 0 .. N |-> f[n]]
      BY <1>3
    <2>2. ASSUME NEW n \in 0 .. N
          PROVE  f[n] = IF n = 0 THEN <<>> ELSE f[n - 1] \o ItemsOf(file[n])
      <3>1. n # 0 => n \in 1 .. N
        OBVIOUS
      <3> QED BY <1>3, <3>1
    <2> QED BY <2>1, <2>2, Zenon
  <1>5. list = [n \in 0 .. N |-> IF n = 0 THEN <<>> ELSE list[n - 1] \o ItemsOf(file[n])]
    BY <1>4
  <1>6. Load(file) = list[N]
    BY Zenon DEF Load
  <1>7. PICK l : /\ l = [n \in 0 .. N |-> IF n = 0 THEN <<>> ELSE l[n - 1] \o ItemsOf(file[n])]
                 /\ Load(file) = l[N]
    <2> HIDE DEF list
    <2> QED BY <1>5, <1>6
  <1> HIDE DEF list
  <1>8. l[0] = f[0]
    BY <1>3, <1>7
  <1>9. ASSUME NEW n \in 1 .. N, l[n - 1] = f[n - 1] PROVE l[n] = f[n]
    <2>1. n \in 0 .. N /\ n # 0
      OBVIOUS
    <2>2. l[n] = l[n - 1] \o ItemsOf(file[n])
      BY <1>7, <2>1
    <2> QED BY <1>3, <1>9, <2>2
  <1>10. \A n \in 0 .. N : l[n] = f[n]
    <2>1. \A n \in 1 .. N : l[n - 1] = f[n - 1] => l[n] = f[n]
      BY <1>9
    <2>2. N \in Nat
      OBVIOUS
    <2>3. AlikeSteps(l, f, N)
      BY <1>8, <2>1 DEF AlikeSteps
    <2> QED BY <2>2, <2>3, SameSteps
  <1>11. l[N] = f[N]
    <2>1. N \in 0 .. N
      OBVIOUS
    <2> QED BY <1>10, <2>1
  <1> QED BY <1>3, <1>7, <1>11 DEF Lists
\* M is the first line that defines the name, or N + 1 if none does.
FirstDefines(file, N, name, M) ==
    /\ M \in 1 .. N + 1
    /\ \A n \in 1 .. M - 1 : n \notin Defining(file, name)
    /\ M <= N => M \in Defining(file, name)

LEMMA FirstLoaded ==
    ASSUME NEW I, NEW file, NEW N \in Nat, Len(file) = N, DOMAIN file = 1 .. N,
           LoadsItems(file, N, I), NEW name, NEW M, FirstDefines(file, N, name, M)
    PROVE  /\ Load(file) \in Seq(I)
           /\ M = N + 1 => NoneNamed(Load(file), name)
           /\ M # N + 1 => FirstNamed(Load(file), name, ItemsOf(file[M])[1].ItemContent)
  <1>1. PICK f : Lists(f, file, N, I)
    BY LoadIs
  <1>2. /\ f \in [0 .. N -> Seq(I)] /\ f[0] = <<>>
        /\ \A n \in 1 .. N : f[n] = f[n - 1] \o ItemsOf(file[n])
        /\ Load(file) = f[N]
    BY <1>1 DEF Lists
  <1> DEFINE c == ItemsOf(file[M])[1].ItemContent
             P(n) == IF n < M THEN NoneNamed(f[n], name) ELSE FirstNamed(f[n], name, c)
             T == {n \in Nat : n <= N => P(n)}
  <1>3. M \in 1 .. N + 1
    BY DEF FirstDefines
  <1>4. 0 \in T
    <2>1. NoneNamed(f[0], name)
      BY <1>2 DEF NoneNamed
    <2> QED BY <1>3, <2>1
  <1>5. ASSUME NEW n \in Nat, n \in T PROVE n + 1 \in T
    <2> SUFFICES ASSUME n + 1 <= N PROVE P(n + 1)
      OBVIOUS
    <2> DEFINE s == ItemsOf(file[n + 1])
    <2>1. P(n)
      BY <1>5
    <2>2. n + 1 \in 1 .. N /\ n \in 0 .. N /\ (n + 1) - 1 = n
      OBVIOUS
    <2>3. f[n] \in Seq(I)
      BY <1>2, <2>2
    <2>4. f[n + 1] = f[n] \o s
      BY <1>2, <2>2
    <2>5. (n + 1 \in Defining(file, name)) <=>
             (s # <<>> /\ SameName(s[1].ItemName, name))
      <3>1. Defining(file, name) =
               {i \in 1 .. N : ItemsOf(file[i]) # <<>>
                                /\ SameName(ItemsOf(file[i])[1].ItemName, name)}
        BY Zenon DEF Defining
      <3> QED BY <2>2, <3>1
    <2>6. n + 1 < M => n + 1 \notin Defining(file, name)
      BY <1>3 DEF FirstDefines
    <2>7. n + 1 = M => n + 1 \in Defining(file, name) /\ c = s[1].ItemContent
      BY <1>3, <2>2 DEF FirstDefines
    <2>8. n + 1 < M \/ n + 1 = M \/ (~(n < M) /\ ~(n + 1 < M) /\ n + 1 # M)
      BY <1>3
    <2>9. /\ n + 1 < M => n < M
          /\ n + 1 = M => n < M /\ ~(n + 1 < M)
      BY <1>3
    <2> HIDE DEF s, c
    <2>10. CASE s = <<>>
      <3>1. f[n + 1] = f[n]
        BY <2>3, <2>4, <2>10, ConcatEmptySeq
      <3>2. n + 1 # M
        BY <2>5, <2>7, <2>10
      <3> QED BY <2>1, <2>8, <2>9, <3>1, <3>2
    <2>11. CASE s # <<>>
      <3>1. PICK x \in I : s = <<x>>
        BY <2>2, <2>11 DEF LoadsItems, s
      <3>2. s[1] = x
        BY <3>1
      <3>3. /\ NoneNamed(f[n], name) /\ ~SameName(x.ItemName, name) =>
                  NoneNamed(f[n] \o <<x>>, name)
            /\ NoneNamed(f[n], name) /\ SameName(x.ItemName, name) =>
                  FirstNamed(f[n] \o <<x>>, name, x.ItemContent)
            /\ \A y : FirstNamed(f[n], name, y) => FirstNamed(f[n] \o <<x>>, name, y)
        BY <2>3, OneMoreItem
      <3>4. f[n + 1] = f[n] \o <<x>>
        BY <2>4, <3>1
      <3>5. (n + 1 \in Defining(file, name)) <=> SameName(x.ItemName, name)
        BY <2>5, <2>11, <3>2
      <3>6. CASE n + 1 < M
        BY <2>1, <2>6, <2>9, <3>3, <3>4, <3>5, <3>6
      <3>7. CASE n + 1 = M
        <4>1. NoneNamed(f[n], name) /\ SameName(x.ItemName, name) /\ c = x.ItemContent
          BY <2>1, <2>7, <2>9, <3>2, <3>5, <3>7
        <4> QED BY <2>9, <3>3, <3>4, <3>7, <4>1
      <3>8. CASE ~(n < M) /\ ~(n + 1 < M)
        BY <2>1, <3>3, <3>4, <3>8
      <3> QED BY <2>8, <3>6, <3>7, <3>8
    <2> QED BY <2>10, <2>11
  <1>6. N \in T
    <2> HIDE DEF T
    <2> QED BY <1>4, <1>5, SetInduction
  <1>7. f[N] \in Seq(I) /\ P(N)
    <2>1. N \in 0 .. N
      OBVIOUS
    <2> QED BY <1>2, <1>6, <2>1
  <1>8. M = N + 1 <=> N < M
    BY <1>3
  <1> HIDE DEF c
  <1> QED BY <1>2, <1>7, <1>8 DEF c

\* What the lookups return, for any file and name.
LEMMA ItemsAre ==
    ASSUME NEW C, NEW file \in Seq(Seq(C)), NEW name, NEW def
    PROVE  LET D == Defining(file, name)
               first == ItemsOf(file[CHOOSE i \in D : \A j \in D : i <= j])[1]
           IN  /\ \A n \in DOMAIN file :
                     IF IsDefinition(file[n])
                     THEN /\ Len(ItemsOf(file[n])) = 1
                          /\ Defines(file[n], ItemsOf(file[n])[1].ItemName,
                                     ItemsOf(file[n])[1].ItemContent)
                     ELSE ItemsOf(file[n]) = <<>>
               /\ GetString(Load(file), name) = IF D = {} THEN NULL ELSE first.ItemContent
               /\ GetIntDefault(Load(file), name, def) =
                     IF D = {} THEN def ELSE atoi(first.ItemContent)
  <1> DEFINE D == Defining(file, name)
             m == CHOOSE i \in D : \A j \in D : i <= j
             first == ItemsOf(file[m])[1]
             N == Len(file)
             list == Load(file)
  <1>1. N \in Nat /\ DOMAIN file = 1 .. N
    OBVIOUS
  <1>2. ASSUME NEW n \in DOMAIN file
        PROVE  IF IsDefinition(file[n])
               THEN \E x : /\ ItemsOf(file[n]) = <<x>>
                           /\ Defines(file[n], x.ItemName, x.ItemContent)
               ELSE ItemsOf(file[n]) = <<>>
    <2>1. file[n] \in Seq(C)
      OBVIOUS
    <2>2. CASE IsDefinition(file[n])
      <3>1. PICK a, b : ItemsOf(file[n]) = <<Item(a, b)>> /\ Defines(file[n], a, b)
        BY <2>1, <2>2, TheItem
      <3>2. Item(a, b).ItemName = a /\ Item(a, b).ItemContent = b
        BY DEF Item
      <3> QED BY <2>2, <3>1, <3>2
    <2>3. CASE ~IsDefinition(file[n])
      BY <2>1, <2>3, NoItem
    <2> QED BY <2>2, <2>3
  <1>3. ASSUME NEW n \in DOMAIN file
        PROVE  IF IsDefinition(file[n])
               THEN /\ Len(ItemsOf(file[n])) = 1
                    /\ Defines(file[n], ItemsOf(file[n])[1].ItemName,
                               ItemsOf(file[n])[1].ItemContent)
               ELSE ItemsOf(file[n]) = <<>>
    <2>1. \A x : Len(<<x>>) = 1 /\ <<x>>[1] = x
      OBVIOUS
    <2> QED BY <1>2, <2>1
  <1> DEFINE I == {ItemsOf(file[n])[1] : n \in DOMAIN file}
  <1>4. LoadsItems(file, N, I)
    <2> SUFFICES ASSUME NEW n \in 1 .. N, ItemsOf(file[n]) # <<>>
                 PROVE  \E x \in I : ItemsOf(file[n]) = <<x>>
      BY DEF LoadsItems
    <2>1. PICK x : ItemsOf(file[n]) = <<x>>
      BY <1>1, <1>2
    <2>2. x = ItemsOf(file[n])[1]
      BY <2>1
    <2> QED BY <1>1, <2>1, <2>2
  <1> HIDE DEF I, N
  <1>5. D \subseteq 1 .. N
    BY <1>1 DEF Defining
  <1> HIDE DEF D
  <1>6. CASE D = {}
    <2>1. FirstDefines(file, N, name, N + 1)
      BY <1>1, <1>6 DEF FirstDefines, D
    <2>2. list \in Seq(I) /\ NoneNamed(list, name)
      BY <1>1, <1>4, <2>1, FirstLoaded DEF N
    <2> HIDE DEF list
    <2>3. Lookup(list, name) = {}
      BY <2>2, LookupIs
    <2>4. /\ GetString(list, name) = NULL
          /\ GetIntDefault(list, name, def) = def
      BY <2>3 DEF GetString, GetIntDefault
    <2> QED BY <1>3, <1>6, <2>4 DEF list, D
  <1>7. CASE D # {}
    <2>1. m \in D /\ \A j \in D : m <= j
      <3>1. D \subseteq Nat
        BY <1>1, <1>5
      <3>2. \E i \in D : \A j \in D : i <= j
        BY <1>7, <3>1, LeastNumber
      <3> QED BY <3>2
    <2> HIDE DEF m
    <2>2. FirstDefines(file, N, name, m) /\ m # N + 1
      <3>1. m \in 1 .. N
        BY <1>5, <2>1
      <3>2. ASSUME NEW n \in 1 .. m - 1 PROVE n \notin D
        <4>1. ~(m <= n)
          BY <1>1, <3>1
        <4> QED BY <2>1, <4>1
      <3> QED BY <1>1, <2>1, <3>1, <3>2 DEF FirstDefines, D
    <2>3. list \in Seq(I) /\ FirstNamed(list, name, first.ItemContent)
      BY <1>1, <1>4, <2>2, FirstLoaded DEF N
    <2> HIDE DEF list, first
    <2>4. Lookup(list, name) = {first.ItemContent}
      BY <2>3, LookupIs
    <2>5. /\ GetString(list, name) = first.ItemContent
          /\ GetIntDefault(list, name, def) = atoi(first.ItemContent)
      BY <2>4 DEF GetString, GetIntDefault
    <2> QED BY <1>3, <1>7, <2>5 DEF list, D, first, m
  <1> QED BY <1>6, <1>7

\* Whatever the configuration file, every line gives the item its writer meant, and
\* the first definition of a name counts.
THEOREM FirstDefinitionCounts == Spec => []ItemsAsWritten
  <1>1. Asked /\ Answered => ItemsAsWritten
    <2> SUFFICES ASSUME Asked, Answered, call.fn \in {"GetString", "GetIntDefault"},
                        result # <<>>
                 PROVE  ItemsAsWritten
      BY DEF ItemsAsWritten
    <2>1. PICK f \in Files, n \in Names :
             /\ call.file = f /\ call.name = n
             /\ call.fn = "GetString" => value = GetString(Load(f), n)
             /\ call.fn = "GetIntDefault" => value = GetIntDefault(Load(f), n, -1)
      BY DEF Asked, Answered, Answer, value
    <2>2. f \in Seq(Seq(STRING \X BOOLEAN))
      BY CallsOfConf
    <2> DEFINE D == Defining(f, n)
               first == ItemsOf(f[CHOOSE i \in D : \A j \in D : i <= j])[1]
    <2>3. /\ \A k \in DOMAIN f :
                IF IsDefinition(f[k])
                THEN /\ Len(ItemsOf(f[k])) = 1
                     /\ Defines(f[k], ItemsOf(f[k])[1].ItemName, ItemsOf(f[k])[1].ItemContent)
                ELSE ItemsOf(f[k]) = <<>>
          /\ GetString(Load(f), n) = IF D = {} THEN NULL ELSE first.ItemContent
          /\ GetIntDefault(Load(f), n, -1) = IF D = {} THEN -1 ELSE atoi(first.ItemContent)
      BY <2>2, ItemsAre
    <2>4. value = CASE call.fn = "GetString" -> IF D = {} THEN NULL ELSE first.ItemContent
                    [] OTHER -> IF D = {} THEN -1 ELSE atoi(first.ItemContent)
      <3> HIDE DEF D, first
      <3>1. call.fn = "GetString" \/ (call.fn = "GetIntDefault" /\ call.fn # "GetString")
        OBVIOUS
      <3> QED BY <2>1, <2>3, <3>1
    <2> QED BY <2>1, <2>3, <2>4, Zenon DEF ItemsAsWritten
  <1> QED BY <1>1, CallsAnswer, PTL
-----------------------------------------------------------------------------
(* Text in a buffer: the beginning of a text that does not depend on the buffer. *)

Begin(s, n) == SubSeq(s, 1, Least(Len(s), n))

LEMMA BeginIs ==
    ASSUME NEW s \in Seq(Int), NEW n \in Nat
    PROVE  /\ Begin(s, n) \in Seq(Int)
           /\ Len(Begin(s, n)) = Least(Len(s), n)
           /\ \A i \in 1 .. Least(Len(s), n) : Begin(s, n)[i] = s[i]
           /\ Len(s) <= n => Begin(s, n) = s
  <1> DEFINE L == Len(s)
             m == Least(L, n)
  <1>1. L \in Nat /\ m \in 0 .. L /\ (L <= n => m = L)
    <2>1. L \in Nat
      OBVIOUS
    <2> HIDE DEF L
    <2> QED BY <2>1 DEF Least
  <1> HIDE DEF m
  <1>2. /\ SubSeq(s, 1, m) \in Seq(Int) /\ Len(SubSeq(s, 1, m)) = m - 1 + 1
        /\ \A i \in 1 .. m - 1 + 1 : SubSeq(s, 1, m)[i] = s[1 + i - 1]
    <2>1. 1 \in 1 .. Len(s) + 1 /\ m \in 1 - 1 .. Len(s)
      BY <1>1
    <2> QED BY <2>1, PartIs
  <1>3. m - 1 + 1 = m /\ \A i \in 1 .. m : 1 + i - 1 = i
    BY <1>1
  <1>4. Begin(s, n) = SubSeq(s, 1, m)
    BY DEF Begin, m
  <1>5. L <= n => SubSeq(s, 1, m) = s
    BY <1>1, SubSeqFull
  <1> QED BY <1>2, <1>3, <1>4, <1>5 DEF m

\* What is appended to a beginning that fills the buffer is lost.
LEMMA BeginOf ==
    ASSUME NEW s \in Seq(Int), NEW t \in Seq(Int), NEW n \in Nat
    PROVE  /\ Len(s) >= n => Begin(s \o t, n) = Begin(s, n)
           /\ Len(Begin(s, n)) < n => Begin(s, n) = s
           /\ Begin(Begin(s, n) \o t, n) = Begin(s \o t, n)
  <1> DEFINE u == s \o t
             L == Len(s)
             M == Len(t)
             b == Begin(s, n)
  <1>1. L \in Nat /\ M \in Nat
    OBVIOUS
  <1>2. /\ u \in Seq(Int) /\ Len(u) = L + M
        /\ \A i \in 1 .. L + M : u[i] = IF i <= L THEN s[i] ELSE t[i - L]
    BY ConcatProperties
  <1>3. /\ b \in Seq(Int) /\ Len(b) = Least(L, n) /\ (L <= n => b = s)
        /\ \A i \in 1 .. Least(L, n) : b[i] = s[i]
    BY BeginIs
  <1> HIDE DEF u, b
  <1>4. /\ Begin(u, n) \in Seq(Int) /\ Len(Begin(u, n)) = Least(Len(u), n)
        /\ \A i \in 1 .. Least(Len(u), n) : Begin(u, n)[i] = u[i]
    BY <1>2, BeginIs
  <1> HIDE DEF L, M
  <1>5. ASSUME L >= n PROVE Begin(u, n) = b
    <2>1. Least(Len(u), n) = n /\ Least(L, n) = n
      BY <1>1, <1>2, <1>5 DEF Least
    <2>2. ASSUME NEW i \in 1 .. n PROVE Begin(u, n)[i] = b[i]
      <3>1. i \in 1 .. L + M /\ i <= L
        BY <1>1, <1>5
      <3>2. Begin(u, n)[i] = u[i] /\ b[i] = s[i]
        BY <1>3, <1>4, <2>1
      <3> QED BY <1>2, <3>1, <3>2
    <2>3. Len(Begin(u, n)) = Len(b) /\ Len(b) = n
      BY <1>3, <1>4, <2>1
    <2> QED BY <1>3, <1>4, <2>2, <2>3, SeqEqual
  <1>6. Len(b) < n => b = s
    BY <1>1, <1>3 DEF Least
  <1>7. Begin(b \o t, n) = Begin(u, n)
    <2>1. CASE L <= n
      BY <1>3, <2>1 DEF u
    <2>2. CASE ~(L <= n)
      <3>1. Len(b) = n
        BY <1>1, <1>3, <2>2 DEF Least
      <3> DEFINE v == b \o t
      <3>2. /\ v \in Seq(Int) /\ Len(v) = n + M
            /\ \A i \in 1 .. n + M : v[i] = IF i <= n THEN b[i] ELSE t[i - n]
        BY <1>3, <3>1, ConcatProperties DEF M
      <3> HIDE DEF v
      <3>3. /\ Begin(v, n) \in Seq(Int) /\ Len(Begin(v, n)) = Least(Len(v), n)
            /\ \A i \in 1 .. Least(Len(v), n) : Begin(v, n)[i] = v[i]
        BY <3>2, BeginIs
      <3>4. Least(Len(v), n) = n /\ Least(L, n) = n
        BY <1>1, <2>2, <3>2 DEF Least
      <3>5. \A i \in 1 .. n : Begin(v, n)[i] = b[i]
        BY <1>1, <3>2, <3>3, <3>4
      <3>6. Len(Begin(v, n)) = Len(b)
        BY <3>1, <3>3, <3>4
      <3>7. Begin(v, n) = b
        BY <1>3, <3>1, <3>3, <3>5, <3>6, SeqEqual
      <3>8. Begin(u, n) = b
        BY <1>1, <1>5, <2>2
      <3> QED BY <3>7, <3>8 DEF v
    <2> QED BY <2>1, <2>2
  <1> QED BY <1>5, <1>6, <1>7 DEF u, b, L

\* A number without a buffer: its padding and its digits.
NumText(n, zero, hex, width) ==
    LET digits == Digits(n, IF hex THEN 16 ELSE 10)
    IN  Repeated(zero, Most(width - Len(digits), 0)) \o digits

LEMMA RepeatedIs ==
    ASSUME NEW c \in Int, NEW n \in Nat
    PROVE  /\ Repeated(c, n) \in Seq(Int) /\ Len(Repeated(c, n)) = n
           /\ \A i \in 1 .. n : Repeated(c, n)[i] = c
  BY DEF Repeated

\* ngx_sprintf_num puts the beginning of the number's text.
NumFits(buf, room, n, zero, hex, width) ==
    /\ ngx_sprintf_num(buf, room, n, zero, hex, width) =
          Begin(buf \o NumText(n, zero, hex, width), room)
    /\ NumText(n, zero, hex, width) \in Seq(Int)

LEMMA NumIs ==
    ASSUME NEW buf \in Seq(Int), NEW room \in Nat, Len(buf) <= room, NEW n, NEW zero \in Int,
           NEW hex, NEW width \in Nat, Digits(n, IF hex THEN 16 ELSE 10) \in Seq(Int)
    PROVE  NumFits(buf, room, n, zero, hex, width)
  <1> DEFINE D == Digits(n, IF hex THEN 16 ELSE 10)
             B == Len(buf)
             k == Len(D)
             w == Most(width - k, 0)
             pad == Least(w, room - B)
             padded == buf \o Repeated(zero, pad)
             len == IF Len(padded) + k >= room THEN room - Len(padded) ELSE k
             r == padded \o SubSeq(D, 1, len)
             t == Repeated(zero, w) \o D
             f == buf \o t
  <1>1. ngx_sprintf_num(buf, room, n, zero, hex, width) = r /\ NumText(n, zero, hex, width) = t
    BY Zenon DEF ngx_sprintf_num, NumText
  <1>2. D \in Seq(Int) /\ k \in Nat /\ B \in Nat /\ B <= room
    OBVIOUS
  <1> HIDE DEF D
  <1>3. w \in Nat /\ pad \in 0 .. w /\ B + pad <= room /\ (pad # w => B + pad = room)
    <2> HIDE DEF k, B
    <2>1. w \in Nat
      BY <1>2 DEF Most
    <2> HIDE DEF w
    <2> QED BY <1>2, <2>1 DEF Least
  <1> HIDE DEF w, pad
  <1>4. /\ padded \in Seq(Int) /\ Len(padded) = B + pad
        /\ \A i \in 1 .. B + pad : padded[i] = IF i <= B THEN buf[i] ELSE zero
    <2> DEFINE z == Repeated(zero, pad)
    <2>1. z \in Seq(Int) /\ Len(z) = pad /\ \A i \in 1 .. pad : z[i] = zero
      <3>1. pad \in Nat
        BY <1>3
      <3> QED BY <3>1, RepeatedIs
    <2> HIDE DEF z
    <2>2. /\ buf \o z \in Seq(Int) /\ Len(buf \o z) = B + pad
          /\ \A i \in 1 .. B + pad : (buf \o z)[i] = IF i <= B THEN buf[i] ELSE z[i - B]
      BY <2>1, ConcatProperties
    <2>3. \A i \in 1 .. B + pad : ~(i <= B) => z[i - B] = zero
      BY <1>2, <1>3, <2>1
    <2> QED BY <2>2, <2>3 DEF z
  <1> HIDE DEF padded, k, B
  <1>5. /\ len \in 0 .. k /\ (len # k => B + pad + len = room) /\ B + pad + len <= room
        /\ (pad # w => len = 0)
    BY <1>2, <1>3, <1>4
  <1> HIDE DEF len
  <1>6. /\ r \in Seq(Int) /\ Len(r) = B + pad + len
        /\ \A i \in 1 .. B + pad + len : r[i] = IF i <= B + pad THEN padded[i] ELSE D[i - (B + pad)]
    <2> DEFINE d == SubSeq(D, 1, len)
    <2>1. /\ d \in Seq(Int) /\ Len(d) = len - 1 + 1
          /\ \A i \in 1 .. len - 1 + 1 : d[i] = D[1 + i - 1]
      <3>1. 1 \in 1 .. Len(D) + 1 /\ len \in 1 - 1 .. Len(D)
        BY <1>2, <1>5 DEF k
      <3> QED BY <1>2, <3>1, PartIs
    <2>2. len - 1 + 1 = len /\ \A i \in 1 .. len : 1 + i - 1 = i
      BY <1>5
    <2>3. Len(d) = len /\ \A i \in 1 .. len : d[i] = D[i]
      BY <2>1, <2>2
    <2> HIDE DEF d
    <2>4. /\ padded \o d \in Seq(Int) /\ Len(padded \o d) = Len(padded) + Len(d)
          /\ \A i \in 1 .. Len(padded) + Len(d) :
                (padded \o d)[i] = IF i <= Len(padded) THEN padded[i] ELSE d[i - Len(padded)]
      BY <1>4, <2>1, ConcatProperties
    <2>5. \A i \in 1 .. B + pad + len : ~(i <= B + pad) => d[i - (B + pad)] = D[i - (B + pad)]
      BY <1>2, <1>3, <1>5, <2>3
    <2> QED BY <1>4, <2>3, <2>4, <2>5 DEF d
  <1>7. /\ t \in Seq(Int) /\ Len(t) = w + k
        /\ \A i \in 1 .. w + k : t[i] = IF i <= w THEN zero ELSE D[i - w]
    <2> DEFINE z == Repeated(zero, w)
    <2>1. z \in Seq(Int) /\ Len(z) = w /\ \A i \in 1 .. w : z[i] = zero
      BY <1>3, RepeatedIs
    <2> HIDE DEF z
    <2>2. /\ z \o D \in Seq(Int) /\ Len(z \o D) = w + k
          /\ \A i \in 1 .. w + k : (z \o D)[i] = IF i <= w THEN z[i] ELSE D[i - w]
      BY <1>2, <2>1, ConcatProperties DEF k
    <2>3. \A i \in 1 .. w + k : i <= w => z[i] = zero
      BY <1>2, <1>3, <2>1
    <2> QED BY <2>2, <2>3 DEF z
  <1> HIDE DEF t, r
  <1>8. /\ f \in Seq(Int) /\ Len(f) = B + w + k
        /\ \A i \in 1 .. B + w + k : f[i] = IF i <= B THEN buf[i] ELSE t[i - B]
    <2>1. /\ buf \o t \in Seq(Int) /\ Len(buf \o t) = Len(buf) + Len(t)
          /\ \A i \in 1 .. Len(buf) + Len(t) :
                (buf \o t)[i] = IF i <= Len(buf) THEN buf[i] ELSE t[i - Len(buf)]
      BY <1>7, ConcatProperties
    <2>2. Len(buf) = B /\ B + w + k = B + Len(t)
      BY <1>2, <1>3, <1>7 DEF B
    <2> QED BY <2>1, <2>2
  <1> HIDE DEF f
  <1>9. /\ Begin(f, room) \in Seq(Int) /\ Len(Begin(f, room)) = Least(Len(f), room)
        /\ \A i \in 1 .. Least(Len(f), room) : Begin(f, room)[i] = f[i]
    BY <1>8, BeginIs
  <1>10. Least(Len(f), room) = B + pad + len
    BY <1>2, <1>3, <1>5, <1>8 DEF Least
  <1>11. ASSUME NEW i \in 1 .. B + pad + len PROVE r[i] = f[i]
    <2>1. i \in 1 .. B + w + k
      BY <1>2, <1>3, <1>5
    <2>2. CASE i <= B
      <3>1. i <= B + pad /\ i \in 1 .. B + pad
        BY <1>2, <1>3, <2>2
      <3> QED BY <1>4, <1>6, <1>8, <2>1, <2>2, <3>1
    <2>3. CASE ~(i <= B) /\ i <= B + pad
      <3>1. i \in 1 .. B + pad /\ i - B \in 1 .. w + k /\ i - B <= w
        BY <1>2, <1>3, <2>3
      <3>2. f[i] = t[i - B] /\ t[i - B] = zero
        BY <1>7, <1>8, <2>1, <2>3, <3>1
      <3> QED BY <1>4, <1>6, <2>3, <3>1, <3>2
    <2>4. CASE ~(i <= B + pad)
      <3>1. pad = w /\ ~(i <= B) /\ i - B \in 1 .. w + k /\ ~(i - B <= w)
            /\ (i - B) - w = i - (B + pad)
        BY <1>2, <1>3, <1>5, <2>4
      <3>2. f[i] = t[i - B] /\ t[i - B] = D[(i - B) - w]
        BY <1>7, <1>8, <2>1, <3>1
      <3> QED BY <1>6, <2>4, <3>1, <3>2
    <2> QED BY <2>2, <2>3, <2>4
  <1>12. r = Begin(f, room)
    <2>1. Len(r) = Len(Begin(f, room))
      BY <1>6, <1>9, <1>10
    <2>2. \A i \in 1 .. Len(r) : r[i] = Begin(f, room)[i]
      BY <1>6, <1>9, <1>10, <1>11
    <2> QED BY <1>6, <1>9, <2>1, <2>2, SeqEqual
  <1> QED BY <1>1, <1>7, <1>12 DEF NumFits, f
-----------------------------------------------------------------------------
(* Digits, and the number they stand for. *)

Values(v, s, base) ==
    /\ v \in [0 .. Len(s) -> Int] /\ v[0] = 0
    /\ \A k \in 1 .. Len(s) : v[k] = v[k - 1] * base + s[k]

LEMMA ValueExists ==
    ASSUME NEW s \in Seq(Int), NEW base \in Int
    PROVE  \E v : Values(v, s, base) /\ ValueOf(s, base) = v[Len(s)]
  <1> DEFINE N == Len(s)
             step == [p \in (1 .. N) \X Int |-> p[2] * base + s[p[1]]]
             v[k \in 0 .. Len(s)] == IF k = 0 THEN 0 ELSE v[k - 1] * base + s[k]
  <1>1. N \in Nat /\ 0 \in Int
    OBVIOUS
  <1>2. step \in [(1 .. N) \X Int -> Int]
    <2> SUFFICES ASSUME NEW p \in (1 .. N) \X Int PROVE p[2] * base + s[p[1]] \in Int
      OBVIOUS
    <2>1. p[2] \in Int /\ s[p[1]] \in Int
      OBVIOUS
    <2> QED BY <2>1
  <1>3. PICK f : Stepwise(f, 0, step, N, Int)
    <2> HIDE DEF step, N
    <2> QED BY <1>1, <1>2, FoldExists
  <1>4. ASSUME NEW k \in 1 .. N PROVE f[k] = f[k - 1] * base + s[k]
    <2>1. k - 1 \in 0 .. N
      OBVIOUS
    <2>2. <<k, f[k - 1]>> \in (1 .. N) \X Int
      BY <1>3, <2>1 DEF Stepwise
    <2>3. step[<<k, f[k - 1]>>] = f[k - 1] * base + s[k]
      BY <2>2
    <2> QED BY <1>3, <2>3 DEF Stepwise
  <1>5. Values(f, s, base)
    BY <1>3, <1>4 DEF Stepwise, Values
  <1> HIDE DEF step
  <1>6. f = [k \in 0 .. Len(s) |-> IF k = 0 THEN 0 ELSE f[k - 1] * base + s[k]]
    <2>1. f = [k \in 0 .. Len(s) |-> f[k]]
      BY <1>5 DEF Values
    <2>2. ASSUME NEW k \in 0 .. Len(s)
          PROVE  f[k] = IF k = 0 THEN 0 ELSE f[k - 1] * base + s[k]
      <3>1. k # 0 => k \in 1 .. Len(s)
        OBVIOUS
      <3> QED BY <1>5, <3>1 DEF Values
    <2> QED BY <2>1, <2>2, Zenon
  <1>7. v = [k \in 0 .. Len(s) |-> IF k = 0 THEN 0 ELSE v[k - 1] * base + s[k]]
    BY <1>6
  <1>8. ValueOf(s, base) = v[N]
    BY Zenon DEF ValueOf
  <1>9. PICK w : /\ w = [k \in 0 .. N |-> IF k = 0 THEN 0 ELSE w[k - 1] * base + s[k]]
                 /\ ValueOf(s, base) = w[N]
    <2> HIDE DEF v
    <2> QED BY <1>7, <1>8
  <1>10. AlikeSteps(w, f, N)
    <2>1. w[0] = f[0]
      BY <1>1, <1>5, <1>9 DEF Values
    <2>2. ASSUME NEW k \in 1 .. N, w[k - 1] = f[k - 1] PROVE w[k] = f[k]
      <3>1. k \in 0 .. N /\ k # 0
        OBVIOUS
      <3>2. w[k] = w[k - 1] * base + s[k]
        BY <1>9, <3>1
      <3> QED BY <1>4, <2>2, <3>2
    <2> QED BY <2>1, <2>2 DEF AlikeSteps
  <1>11. w[N] = f[N]
    <2>1. \A k \in 0 .. N : w[k] = f[k]
      BY <1>1, <1>10, SameSteps
    <2> QED BY <1>1, <2>1
  <1> QED BY <1>5, <1>9, <1>11

LEMMA ValueAppend ==
    ASSUME NEW s \in Seq(Int), NEW x \in Int, NEW base \in Int
    PROVE  /\ ValueOf(s, base) \in Int
           /\ ValueOf(Append(s, x), base) = ValueOf(s, base) * base + x
  <1> DEFINE t == Append(s, x)
             N == Len(s)
  <1>1. N \in Nat
    OBVIOUS
  <1>2. t \in Seq(Int) /\ Len(t) = N + 1 /\ (\A i \in 1 .. N : t[i] = s[i]) /\ t[N + 1] = x
    BY AppendProperties
  <1> HIDE DEF t, N
  <1>3. PICK v : Values(v, s, base) /\ ValueOf(s, base) = v[N]
    BY ValueExists DEF N
  <1>4. PICK w : Values(w, t, base) /\ ValueOf(t, base) = w[N + 1]
    BY <1>2, ValueExists
  <1>5. AlikeSteps(w, v, N)
    <2>1. w[0] = v[0]
      BY <1>3, <1>4 DEF Values
    <2>2. ASSUME NEW k \in 1 .. N, w[k - 1] = v[k - 1] PROVE w[k] = v[k]
      <3>1. v[k] = v[k - 1] * base + s[k]
        BY <1>3 DEF Values, N
      <3>2. k \in 1 .. N + 1 /\ t[k] = s[k]
        BY <1>1, <1>2
      <3>3. w[k] = w[k - 1] * base + t[k]
        BY <1>2, <1>4, <3>2 DEF Values
      <3> QED BY <2>2, <3>1, <3>2, <3>3
    <2> QED BY <2>1, <2>2 DEF AlikeSteps
  <1>6. w[N] = v[N]
    <2>1. \A k \in 0 .. N : w[k] = v[k]
      BY <1>1, <1>5, SameSteps
    <2> QED BY <1>1, <2>1
  <1>7. w[N + 1] = w[N] * base + x
    <2>1. N + 1 \in 1 .. Len(t) /\ (N + 1) - 1 = N
      BY <1>1, <1>2
    <2> QED BY <1>2, <1>4, <2>1 DEF Values
  <1>8. v[N] \in Int
    BY <1>1, <1>3 DEF Values, N
  <1> QED BY <1>3, <1>4, <1>6, <1>7, <1>8 DEF t

LEMMA ValueOne ==
    ASSUME NEW x \in Int, NEW base \in Int
    PROVE  ValueOf(<<x>>, base) = x
  <1>1. PICK v : Values(v, <<x>>, base) /\ ValueOf(<<x>>, base) = v[1]
    <2>1. <<x>> \in Seq(Int) /\ Len(<<x>>) = 1
      OBVIOUS
    <2> QED BY <2>1, ValueExists
  <1>2. v[0] = 0 /\ v[1] = v[0] * base + x
    <2>1. 1 \in 1 .. Len(<<x>>) /\ 1 - 1 = 0 /\ <<x>>[1] = x
      OBVIOUS
    <2> QED BY <1>1, <2>1 DEF Values
  <1>3. 0 * base = 0
    OBVIOUS
  <1> QED BY <1>1, <1>2, <1>3

\* Zeros in front change nothing.
LEMMA ValuePadded ==
    ASSUME NEW s \in Seq(Int), NEW n \in Nat, NEW base \in Int
    PROVE  ValueOf(Repeated(0, n) \o s, base) = ValueOf(s, base)
  <1> DEFINE z == Repeated(0, n)
             t == z \o s
             N == Len(s)
  <1>1. N \in Nat /\ z \in Seq(Int) /\ Len(z) = n /\ \A i \in 1 .. n : z[i] = 0
    BY RepeatedIs
  <1> HIDE DEF z, N
  <1>2. /\ t \in Seq(Int) /\ Len(t) = n + N
        /\ \A i \in 1 .. n + N : t[i] = IF i <= n THEN z[i] ELSE s[i - n]
    BY <1>1, ConcatProperties DEF N
  <1> HIDE DEF t
  <1>3. PICK v : Values(v, s, base) /\ ValueOf(s, base) = v[N]
    BY ValueExists DEF N
  <1>4. PICK w : Values(w, t, base) /\ ValueOf(t, base) = w[n + N]
    BY <1>2, ValueExists
  <1>5. \A k \in 1 .. n + N : w[k] = w[k - 1] * base + t[k]
    BY <1>2, <1>4 DEF Values
  <1>6. w[n] = 0
    <2> DEFINE o == [k \in 0 .. n |-> 0]
    <2>1. AlikeSteps(w, o, n)
      <3>1. w[0] = o[0]
        BY <1>4 DEF Values
      <3>2. ASSUME NEW k \in 1 .. n, w[k - 1] = o[k - 1] PROVE w[k] = o[k]
        <4>1. o[k - 1] = 0 /\ o[k] = 0
          OBVIOUS
        <4>2. k \in 1 .. n + N /\ t[k] = 0
          BY <1>1, <1>2
        <4>3. w[k] = 0 * base + 0
          BY <1>5, <3>2, <4>1, <4>2
        <4> HIDE DEF o
        <4> QED BY <4>1, <4>3
      <3> QED BY <3>1, <3>2 DEF AlikeSteps
    <2>2. o[n] = 0
      OBVIOUS
    <2> HIDE DEF o
    <2>3. \A k \in 0 .. n : w[k] = o[k]
      BY <2>1, SameSteps
    <2> QED BY <2>2, <2>3
  <1> DEFINE g == [j \in 0 .. N |-> w[n + j]]
  <1>7. AlikeSteps(g, v, N)
    <2>1. g[0] = v[0]
      BY <1>1, <1>3, <1>6 DEF Values
    <2>2. ASSUME NEW j \in 1 .. N, g[j - 1] = v[j - 1] PROVE g[j] = v[j]
      <3>1. g[j] = w[n + j] /\ g[j - 1] = w[n + (j - 1)]
        BY <1>1
      <3>2. n + j \in 1 .. n + N /\ (n + j) - 1 = n + (j - 1) /\ ~(n + j <= n) /\ (n + j) - n = j
        BY <1>1
      <3>3. t[n + j] = s[j]
        BY <1>2, <3>2
      <3>4. w[n + j] = w[n + (j - 1)] * base + s[j]
        BY <1>5, <3>2, <3>3
      <3>5. v[j] = v[j - 1] * base + s[j]
        BY <1>3 DEF Values, N
      <3> HIDE DEF g
      <3> QED BY <2>2, <3>1, <3>4, <3>5
    <2> HIDE DEF g
    <2> QED BY <2>1, <2>2 DEF AlikeSteps
  <1>8. g[N] = w[n + N]
    BY <1>1
  <1> HIDE DEF g
  <1>9. g[N] = v[N]
    <2>1. \A k \in 0 .. N : g[k] = v[k]
      BY <1>1, <1>7, SameSteps
    <2> QED BY <1>1, <2>1
  <1> QED BY <1>3, <1>4, <1>8, <1>9 DEF t, z

Splits(g, n, base) ==
    g = [k \in 0 .. n |-> IF k < base THEN <<k>> ELSE Append(g[k \div base], k % base)]

LEMMA DivIs ==
    ASSUME NEW base \in {10, 16}, NEW k \in Nat
    PROVE  /\ k \div base \in Nat /\ k % base \in 0 .. base - 1
           /\ (k \div base) * base + (k % base) = k
           /\ k >= base => k \div base >= 1 /\ k \div base < k
           /\ k < 100 => k \div base < 10
           /\ k < 1000 => k \div base < 100
  <1>1. /\ k \div 10 \in Nat /\ k % 10 \in 0 .. 9 /\ (k \div 10) * 10 + (k % 10) = k
        /\ k >= 10 => k \div 10 >= 1 /\ k \div 10 < k
        /\ k < 100 => k \div 10 < 10
        /\ k < 1000 => k \div 10 < 100
    OBVIOUS
  <1>2. /\ k \div 16 \in Nat /\ k % 16 \in 0 .. 15 /\ (k \div 16) * 16 + (k % 16) = k
        /\ k >= 16 => k \div 16 >= 1 /\ k \div 16 < k
        /\ k < 100 => k \div 16 < 10
        /\ k < 1000 => k \div 16 < 100
    OBVIOUS
  <1>3. 10 - 1 = 9 /\ 16 - 1 = 15
    OBVIOUS
  <1> QED BY <1>1, <1>2, <1>3

LEMMA SplitsExist ==
    ASSUME NEW base \in {10, 16}, NEW n \in Nat
    PROVE  \E g : Splits(g, n, base)
  <1> DEFINE T == {m \in Nat : \E g : Splits(g, m, base)}
  <1>1. 0 \in T
    <2> DEFINE g == [k \in 0 .. 0 |-> <<0>>]
    <2>1. g = [k \in 0 .. 0 |-> IF k < base THEN <<k>> ELSE Append(g[k \div base], k % base)]
      OBVIOUS
    <2> HIDE DEF g
    <2> QED BY <2>1 DEF Splits
  <1>2. ASSUME NEW m \in Nat, m \in T PROVE m + 1 \in T
    <2>1. PICK g : Splits(g, m, base)
      BY <1>2
    <2> DEFINE e == IF m + 1 < base THEN <<m + 1>> ELSE Append(g[(m + 1) \div base], (m + 1) % base)
               h == [k \in 0 .. m + 1 |-> IF k = m + 1 THEN e ELSE g[k]]
    <2>2. ASSUME NEW k \in 0 .. m + 1
          PROVE  h[k] = IF k < base THEN <<k>> ELSE Append(h[k \div base], k % base)
      <3>1. k >= base => k \div base \in 0 .. m + 1 /\ k \div base # m + 1
        <4>1. k \div base \in Nat /\ (k >= base => k \div base < k)
          BY DivIs
        <4> HIDE DEF h, e
        <4> QED BY <4>1
      <3>2. k >= base => h[k \div base] = g[k \div base]
        BY <3>1
      <3>3. CASE k = m + 1
        <4>1. h[k] = e
          BY <3>3
        <4> HIDE DEF h
        <4> QED BY <3>2, <3>3, <4>1
      <3>4. CASE k # m + 1
        <4>1. h[k] = g[k] /\ k \in 0 .. m
          BY <3>4
        <4>2. g[k] = IF k < base THEN <<k>> ELSE Append(g[k \div base], k % base)
          BY <2>1, <4>1 DEF Splits
        <4> HIDE DEF h
        <4> QED BY <3>2, <4>1, <4>2
      <3> QED BY <3>3, <3>4
    <2>3. h = [k \in 0 .. m + 1 |-> h[k]]
      OBVIOUS
    <2> HIDE DEF h
    <2>4. h = [k \in 0 .. m + 1 |-> IF k < base THEN <<k>> ELSE Append(h[k \div base], k % base)]
      BY <2>2, <2>3, Zenon
    <2>5. Splits(h, m + 1, base)
      BY <2>4, Zenon DEF Splits
    <2> QED BY <2>5
  <1> HIDE DEF T
  <1>3. n \in T
    BY <1>1, <1>2, SetInduction
  <1> QED BY <1>3 DEF T

\* s is the shortest sequence of digits of n.
DigitsOf(s, n, base) ==
    /\ s \in Seq(0 .. base - 1) /\ Len(s) >= 1
    /\ n > 0 => s[1] # 0
    /\ ValueOf(s, base) = n
    /\ n < 10 => Len(s) = 1
    /\ n < 100 => Len(s) <= 2
    /\ n < 1000 => Len(s) <= 3

LEMMA DigitsAre ==
    ASSUME NEW base \in {10, 16}, NEW n \in Nat
    PROVE  DigitsOf(Digits(n, base), n, base)
  <1> DEFINE d[k \in 0 .. n] == IF k < base THEN <<k>> ELSE Append(d[k \div base], k % base)
  <1>1. Digits(n, base) = d[n]
    BY Zenon DEF Digits
  <1>2. d = [k \in 0 .. n |-> IF k < base THEN <<k>> ELSE Append(d[k \div base], k % base)]
    <2>1. \E g : Splits(g, n, base)
      BY SplitsExist
    <2> QED BY <2>1 DEF Splits
  <1>3. PICK g : Splits(g, n, base) /\ Digits(n, base) = g[n]
    <2> HIDE DEF d
    <2> QED BY <1>1, <1>2 DEF Splits
  <1> HIDE DEF d
  <1> DEFINE T == {m \in Nat : \A k \in 0 .. m : k <= n => DigitsOf(g[k], k, base)}
  <1>4. ASSUME NEW k \in 0 .. n, k < base PROVE DigitsOf(g[k], k, base)
    <2>1. g[k] = <<k>>
      BY <1>3, <1>4 DEF Splits
    <2>2. <<k>> \in Seq(0 .. base - 1) /\ Len(<<k>>) = 1 /\ <<k>>[1] = k
      BY <1>4
    <2>3. ValueOf(<<k>>, base) = k
      BY ValueOne
    <2> QED BY <2>1, <2>2, <2>3 DEF DigitsOf
  <1>5. ASSUME NEW k \in 0 .. n, ~(k < base), DigitsOf(g[k \div base], k \div base, base)
        PROVE  DigitsOf(g[k], k, base)
    <2> DEFINE q == k \div base
               x == k % base
               s == g[q]
    <2>1. /\ q \in Nat /\ x \in 0 .. base - 1 /\ q * base + x = k /\ q >= 1
          /\ (k < 100 => q < 10) /\ (k < 1000 => q < 100)
      <3>1. k \in Nat /\ k >= base
        BY <1>5
      <3> QED BY <3>1, DivIs
    <2>2. g[k] = Append(s, x)
      BY <1>3, <1>5 DEF Splits
    <2> HIDE DEF q, x
    <2>3. DigitsOf(s, q, base)
      BY <1>5 DEF q
    <2> HIDE DEF s
    <2>4. s \in Seq(0 .. base - 1) /\ s \in Seq(Int) /\ Len(s) \in Nat
      <3>1. s \in Seq(0 .. base - 1)
        BY <2>3 DEF DigitsOf
      <3>2. 0 .. base - 1 \subseteq Int
        OBVIOUS
      <3> QED BY <3>1, <3>2, SeqMonotonic
    <2>5. /\ Append(s, x) \in Seq(0 .. base - 1) /\ Len(Append(s, x)) = Len(s) + 1
          /\ \A i \in 1 .. Len(s) : Append(s, x)[i] = s[i]
      BY <2>1, <2>4, AppendProperties
    <2>6. ValueOf(Append(s, x), base) = ValueOf(s, base) * base + x
      <3>1. x \in Int /\ base \in Int
        BY <2>1
      <3> QED BY <2>4, <3>1, ValueAppend
    <2>7. ValueOf(Append(s, x), base) = k
      BY <2>1, <2>3, <2>6 DEF DigitsOf
    <2>8. Append(s, x)[1] # 0
      <3>1. 1 \in 1 .. Len(s)
        BY <2>3, <2>4 DEF DigitsOf
      <3> QED BY <2>1, <2>3, <2>5, <3>1 DEF DigitsOf
    <2>9. ~(k < 10) /\ (k < 100 => Len(s) = 1) /\ (k < 1000 => Len(s) <= 2)
      <3>1. ~(k < 10)
        BY <1>5
      <3> QED BY <2>1, <2>3, <3>1 DEF DigitsOf
    <2> DEFINE t == Append(s, x)
    <2>10. k > 0 /\ t[1] # 0 /\ ValueOf(t, base) = k /\ t \in Seq(0 .. base - 1)
      BY <2>5, <2>7, <2>8, <2>9
    <2>11. Len(t) >= 1 /\ ~(k < 10) /\ (k < 100 => Len(t) <= 2) /\ (k < 1000 => Len(t) <= 3)
      <3> DEFINE l == Len(s)
      <3>1. Len(t) = l + 1 /\ l \in Nat /\ ~(k < 10) /\ (k < 100 => l = 1) /\ (k < 1000 => l <= 2)
        BY <2>4, <2>5, <2>9
      <3> HIDE DEF l, t
      <3> QED BY <3>1
    <2>12. g[k] = t
      BY <2>2
    <2> HIDE DEF t
    <2> QED BY <2>10, <2>11, <2>12 DEF DigitsOf
  <1>6. 0 \in T
    <2>1. 0 < base /\ 0 \in 0 .. n
      OBVIOUS
    <2> QED BY <1>4, <2>1
  <1>7. ASSUME NEW m \in Nat, m \in T PROVE m + 1 \in T
    <2> SUFFICES ASSUME m + 1 <= n PROVE DigitsOf(g[m + 1], m + 1, base)
      BY <1>7
    <2>1. CASE m + 1 < base
      BY <1>4, <2>1
    <2>2. CASE ~(m + 1 < base)
      <3> DEFINE k == m + 1
      <3>1. k \in 0 .. n /\ ~(k < base) /\ k \in Nat
        BY <2>2
      <3>2. k \div base \in Nat /\ k \div base < k
        BY <3>1, DivIs
      <3> HIDE DEF k
      <3>3. k \div base \in 0 .. m /\ k \div base <= n
        BY <3>1, <3>2 DEF k
      <3>4. DigitsOf(g[k \div base], k \div base, base)
        BY <1>7, <3>3
      <3>5. DigitsOf(g[k], k, base)
        BY <1>5, <3>1, <3>4
      <3> QED BY <3>5 DEF k
    <2> QED BY <2>1, <2>2
  <1>8. n \in T
    <2> HIDE DEF T
    <2> QED BY <1>6, <1>7, SetInduction
  <1>9. DigitsOf(g[n], n, base)
    BY <1>8
  <1> QED BY <1>3, <1>9
-----------------------------------------------------------------------------
(* The text of a format, without a buffer. *)

PlainPieces == [conv : {"plain"}, ch : Int]
StringPieces == [conv : {"s"}, str : Seq(Int)]
NumberPieces == [conv : {"d"}, zero : BOOLEAN, width : Nat, hex : BOOLEAN, arg : Int]
FloatPieces == [conv : {"f"}, zero : BOOLEAN, width : Nat, frac_width : 0 .. 3, arg : Int]
AnyPiece == PlainPieces \cup StringPieces \cup NumberPieces \cup FloatPieces

SignText(n) == IF n < 0 THEN <<Minus>> ELSE <<>>
SignedText(n, m, fill, hex, width) == SignText(n) \o NumText(m, fill, hex, width)

\* The whole number and the decimals of f, of thousandths, after rounding.
ScaleOf(d) == IF d = 0 THEN 1 ELSE Power10[d]
CarryOf(f, d) == d # 0 /\ Fraction(f, ScaleOf(d)) = ScaleOf(d)
WholeOf(f, d) == (f \div 1000) + (IF CarryOf(f, d) THEN 1 ELSE 0)
DecimalsOf(f, d) == IF CarryOf(f, d) THEN 0 ELSE Fraction(f, ScaleOf(d))

FloatText(p) ==
    LET d == p.frac_width
        f == Magnitude(p.arg)
        whole == SignedText(p.arg, WholeOf(f, d), Filler(p), FALSE, p.width)
    IN  IF d = 0 THEN whole
        ELSE (whole \o <<Point>>) \o NumText(DecimalsOf(f, d), 0, FALSE, d)

PieceText(p) ==
    CASE p.conv = "plain" -> <<p.ch>>
      [] p.conv = "s" -> p.str
      [] p.conv = "f" -> FloatText(p)
      [] p.conv = "d" -> SignedText(p.arg, Magnitude(p.arg), Filler(p), p.hex, p.width)

LEMMA DigitsInts ==
    ASSUME NEW n \in Nat, NEW hex
    PROVE  Digits(n, IF hex THEN 16 ELSE 10) \in Seq(Int)
  <1> DEFINE base == IF hex THEN 16 ELSE 10
  <1>1. base \in {10, 16}
    OBVIOUS
  <1> HIDE DEF base
  <1>2. Digits(n, base) \in Seq(0 .. base - 1)
    BY <1>1, DigitsAre DEF DigitsOf
  <1>3. 0 .. base - 1 \subseteq Int
    BY <1>1
  <1>4. Digits(n, base) \in Seq(Int)
    BY <1>2, <1>3, SeqMonotonic
  <1> QED BY <1>4 DEF base

LEMMA MarkIs == /\ Minus \in Int /\ Point \in Int /\ Space \in Int
                /\ \A p : Filler(p) \in Int
                /\ \A n \in Int : Magnitude(n) \in Nat /\ SignText(n) \in Seq(Int)
  BY DEF Minus, Point, Space, Filler, Magnitude, SignText

LEMMA NumSeq ==
    ASSUME NEW n \in Nat, NEW zero \in Int, NEW hex, NEW width \in Nat
    PROVE  NumText(n, zero, hex, width) \in Seq(Int)
  <1>1. <<>> \in Seq(Int) /\ Len(<<>>) <= 0 /\ 0 \in Nat
    OBVIOUS
  <1>2. NumFits(<<>>, 0, n, zero, hex, width)
    BY <1>1, DigitsInts, NumIs
  <1> QED BY <1>2 DEF NumFits

LEMMA Joined ==
    \A a, b, c \in Seq(Int) : (a \o b) \o c = a \o (b \o c) /\ a \o b \in Seq(Int)
  BY ConcatAssociative, ConcatProperties, SMTT(30)

\* A sign and a number.
SignedFits(buf, room, n, m, fill, hex, width) ==
    /\ ngx_sprintf_num(IF n < 0 THEN Put(buf, Minus) ELSE buf, room, m, fill, hex, width) =
          Begin(buf \o SignedText(n, m, fill, hex, width), room)
    /\ SignedText(n, m, fill, hex, width) \in Seq(Int)

LEMMA SignedIs ==
    ASSUME NEW buf \in Seq(Int), NEW room \in Nat, Len(buf) < room,
           NEW n \in Int, NEW m \in Nat, NEW fill \in Int, NEW hex, NEW width \in Nat
    PROVE  SignedFits(buf, room, n, m, fill, hex, width)
  <1> DEFINE b == IF n < 0 THEN Put(buf, Minus) ELSE buf
             s == SignText(n)
             t == NumText(m, fill, hex, width)
  <1>1. s \in Seq(Int) /\ t \in Seq(Int)
    BY MarkIs, NumSeq
  <1>2. b = buf \o s /\ b \in Seq(Int) /\ Len(b) <= room
    <2>1. CASE n < 0
      <3>1. Append(buf, Minus) = buf \o <<Minus>>
        BY MarkIs, AppendIsConcat
      <3>2. Append(buf, Minus) \in Seq(Int) /\ Len(Append(buf, Minus)) = Len(buf) + 1
        BY MarkIs, AppendProperties
      <3>3. Len(buf) \in Nat
        OBVIOUS
      <3> QED BY <2>1, <3>1, <3>2, <3>3 DEF Put, SignText
    <2>2. CASE ~(n < 0)
      <3>1. buf \o <<>> = buf /\ Len(buf) \in Nat
        BY ConcatEmptySeq
      <3> QED BY <2>2, <3>1 DEF SignText
    <2> QED BY <2>1, <2>2
  <1> HIDE DEF b, s
  <1>3. ngx_sprintf_num(b, room, m, fill, hex, width) = Begin(b \o t, room)
    <2>1. NumFits(b, room, m, fill, hex, width)
      BY <1>2, DigitsInts, NumIs
    <2> QED BY <2>1 DEF NumFits
  <1> HIDE DEF t
  <1>4. (buf \o s) \o t = buf \o (s \o t) /\ s \o t \in Seq(Int)
    BY <1>1, Joined
  <1> QED BY <1>2, <1>3, <1>4 DEF SignedText, SignedFits, s, t, b

LEMMA RoundedIs ==
    ASSUME NEW f \in Nat, NEW d \in 0 .. 3
    PROVE  WholeOf(f, d) \in Nat /\ DecimalsOf(f, d) \in Nat
  <1>1. ScaleOf(d) \in {1, 10, 100, 1000}
    BY DEF ScaleOf, Power10
  <1>2. f \div 1000 \in Nat /\ f % 1000 \in Nat
    OBVIOUS
  <1>3. \A m \in Nat : (2 * m * 1 + 1000) \div 2000 \in Nat
                       /\ (2 * m * 10 + 1000) \div 2000 \in Nat
                       /\ (2 * m * 100 + 1000) \div 2000 \in Nat
                       /\ (2 * m * 1000 + 1000) \div 2000 \in Nat
    OBVIOUS
  <1>4. Fraction(f, ScaleOf(d)) \in Nat
    <2>1. PICK m \in Nat : m = f % 1000
      BY <1>2
    <2>2. PICK k : k = ScaleOf(d)
      OBVIOUS
    <2>3. Fraction(f, ScaleOf(d)) = (2 * m * k + 1000) \div 2000
      BY <2>1, <2>2 DEF Fraction
    <2>4. CASE k = 1
      BY <1>3, <2>3, <2>4
    <2>5. CASE k = 10
      BY <1>3, <2>3, <2>5
    <2>6. CASE k = 100
      BY <1>3, <2>3, <2>6
    <2>7. CASE k = 1000
      BY <1>3, <2>3, <2>7
    <2> QED BY <1>1, <2>2, <2>4, <2>5, <2>6, <2>7
  <1> QED BY <1>2, <1>4 DEF WholeOf, DecimalsOf

LEMMA FloatIs ==
    ASSUME NEW buf \in Seq(Int), NEW room \in Nat, Len(buf) < room, NEW p \in FloatPieces
    PROVE  /\ PutFloat(buf, room, p) = Begin(buf \o FloatText(p), room)
           /\ FloatText(p) \in Seq(Int)
  <1> DEFINE d == p.frac_width
             f == Magnitude(p.arg)
             n == WholeOf(f, d)
             k == DecimalsOf(f, d)
             W == SignedText(p.arg, n, Filler(p), FALSE, p.width)
             N == NumText(k, 0, FALSE, d)
             whole == ngx_sprintf_num(IF p.arg < 0 THEN Put(buf, Minus) ELSE buf, room, n,
                                      Filler(p), FALSE, p.width)
             X == IF Len(whole) < room THEN Put(whole, Point) ELSE whole
  <1>1. p.arg \in Int /\ d \in 0 .. 3 /\ p.width \in Nat /\ f \in Nat
    BY MarkIs DEF FloatPieces
  <1>2. PutFloat(buf, room, p) =
           IF d = 0 THEN whole ELSE ngx_sprintf_num(X, room, k, 0, FALSE, d)
    BY Zenon DEF PutFloat, WholeOf, DecimalsOf, CarryOf, ScaleOf, Magnitude
  <1>3. FloatText(p) = IF d = 0 THEN W ELSE (W \o <<Point>>) \o N
    BY Zenon DEF FloatText
  <1> HIDE DEF d, f
  <1>4. n \in Nat /\ k \in Nat
    BY <1>1, RoundedIs
  <1> HIDE DEF n, k
  <1>5. whole = Begin(buf \o W, room) /\ W \in Seq(Int)
    <2>1. Filler(p) \in Int
      BY MarkIs
    <2>2. SignedFits(buf, room, p.arg, n, Filler(p), FALSE, p.width)
      BY <1>1, <1>4, <2>1, SignedIs
    <2> QED BY <2>2 DEF SignedFits
  <1>6. N \in Seq(Int)
    <2>1. d \in Nat /\ 0 \in Int
      BY <1>1
    <2> QED BY <1>4, <2>1, NumSeq
  <1> HIDE DEF W, whole
  <1> DEFINE F == buf \o W
             P == <<Point>>
             G == F \o P
  <1>7. F \in Seq(Int) /\ P \in Seq(Int) /\ Len(P) = 1
    <2>1. buf \o W \in Seq(Int)
      BY <1>5, ConcatProperties
    <2>2. P \in Seq(Int) /\ Len(P) = 1
      BY MarkIs
    <2> QED BY <2>1, <2>2
  <1> HIDE DEF F
  <1>8. G \in Seq(Int) /\ Len(G) = Len(F) + 1 /\ Append(F, Point) = G
    <2> HIDE DEF P
    <2>1. G \in Seq(Int) /\ Len(G) = Len(F) + Len(P)
      BY <1>7, ConcatProperties
    <2>2. Append(F, Point) = F \o <<Point>>
      BY <1>7, MarkIs, AppendIsConcat
    <2> QED BY <1>7, <2>1, <2>2 DEF P
  <1>9. X = Begin(G, room) /\ X \in Seq(Int) /\ Len(X) <= room
    <2>1. Len(F) \in Nat /\ whole = Begin(F, room) /\ Len(Begin(F, room)) = Least(Len(F), room)
      <3>1. Len(F) \in Nat /\ Len(Begin(F, room)) = Least(Len(F), room)
        BY <1>7, BeginIs
      <3> QED BY <1>5, <3>1 DEF F
    <2>2. CASE Len(whole) < room
      <3>1. whole = F
        BY <1>7, <2>1, <2>2, BeginOf
      <3>2. X = G
        BY <1>8, <2>2, <3>1 DEF Put
      <3>3. Len(G) <= room
        BY <1>8, <2>1, <2>2, <3>1
      <3> HIDE DEF X, G
      <3> QED BY <1>8, <3>2, <3>3, BeginIs
    <2>3. CASE ~(Len(whole) < room)
      <3>1. X = whole
        BY <2>3
      <3>2. Len(F) >= room
        BY <2>1, <2>3 DEF Least
      <3>3. Begin(G, room) = Begin(F, room)
        <4> HIDE DEF P
        <4> QED BY <1>7, <3>2, BeginOf
      <3>4. Begin(F, room) \in Seq(Int) /\ Len(Begin(F, room)) <= room
        BY <1>7, <2>1, BeginIs DEF Least
      <3> HIDE DEF X, G
      <3> QED BY <2>1, <3>1, <3>3, <3>4
    <2> QED BY <2>2, <2>3
  <1> HIDE DEF X, G
  <1>10. ngx_sprintf_num(X, room, k, 0, FALSE, d) = Begin(X \o N, room)
    <2>1. Digits(k, IF FALSE THEN 16 ELSE 10) \in Seq(Int)
      BY <1>4, DigitsInts
    <2>2. d \in Nat /\ 0 \in Int
      BY <1>1
    <2>3. NumFits(X, room, k, 0, FALSE, d)
      BY <1>9, <2>1, <2>2, NumIs
    <2> QED BY <2>3 DEF NumFits
  <1> HIDE DEF N
  <1>11. Begin(X \o N, room) = Begin(G \o N, room)
    BY <1>6, <1>8, <1>9, BeginOf
  <1>12. G \o N = buf \o ((W \o P) \o N) /\ (W \o P) \o N \in Seq(Int)
    <2> HIDE DEF P
    <2>0. W \in Seq(Int) /\ P \in Seq(Int) /\ N \in Seq(Int)
      BY <1>5, <1>6, <1>7
    <2>1. W \o P \in Seq(Int)
      BY <2>0, Joined
    <2>2. (W \o P) \o N \in Seq(Int)
      BY <2>0, <2>1, Joined
    <2>3. (buf \o W) \o P = buf \o (W \o P)
      BY <2>0, Joined, Zenon
    <2>4. (buf \o (W \o P)) \o N = buf \o ((W \o P) \o N)
      <3> DEFINE V == W \o P
      <3>1. buf \in Seq(Int) /\ V \in Seq(Int) /\ N \in Seq(Int)
        BY <2>0, <2>1
      <3> HIDE DEF V
      <3>2. (buf \o V) \o N = buf \o (V \o N)
        BY <3>1, Joined
      <3> QED BY <3>2 DEF V
    <2> QED BY <2>2, <2>3, <2>4 DEF G, F
  <1>13. CASE d = 0
    BY <1>2, <1>3, <1>5, <1>13
  <1>14. CASE d # 0
    BY <1>2, <1>3, <1>10, <1>11, <1>12, <1>14
  <1> QED BY <1>13, <1>14

LEMMA PieceIs ==
    ASSUME NEW buf \in Seq(Int), NEW room \in Nat, Len(buf) < room, NEW p \in AnyPiece
    PROVE  /\ PutPiece(buf, room, p) = Begin(buf \o PieceText(p), room)
           /\ PieceText(p) \in Seq(Int)
  <1>1. CASE p \in PlainPieces
    <2>1. p.conv = "plain" /\ p.ch \in Int
      BY <1>1 DEF PlainPieces
    <2>2. PutPiece(buf, room, p) = Append(buf, p.ch) /\ PieceText(p) = <<p.ch>>
      BY <2>1 DEF PutPiece, PieceText, Put
    <2>3. Append(buf, p.ch) = buf \o <<p.ch>>
      BY <2>1, AppendIsConcat
    <2>4. Append(buf, p.ch) \in Seq(Int) /\ Len(Append(buf, p.ch)) <= room
      BY <2>1, AppendProperties
    <2>5. Begin(Append(buf, p.ch), room) = Append(buf, p.ch)
      <3> DEFINE b == Append(buf, p.ch)
      <3> HIDE DEF b
      <3>1. b \in Seq(Int) /\ Len(b) <= room
        BY <2>4 DEF b
      <3>2. Begin(b, room) = b
        BY <3>1, BeginIs
      <3> QED BY <3>2 DEF b
    <2>6. <<p.ch>> \in Seq(Int)
      BY <2>1
    <2> QED BY <2>2, <2>3, <2>5, <2>6, Zenon
  <1>2. CASE p \in StringPieces
    <2> DEFINE s == p.str
               L == Len(s)
               B == Len(buf)
               c == SubSeq(s, 1, Least(L, room - B))
               u == buf \o s
    <2>1. p.conv = "s" /\ s \in Seq(Int) /\ L \in Nat /\ B \in Nat /\ B < room
      BY <1>2 DEF StringPieces
    <2>2. PutPiece(buf, room, p) = buf \o c /\ PieceText(p) = s
      BY <2>1 DEF PutPiece, PieceText, CopyString
    <2> HIDE DEF s
    <2> DEFINE n == room - B
    <2>3. n \in Nat /\ c = Begin(s, n)
      BY <2>1 DEF Begin
    <2> HIDE DEF n, c
    <2>4. /\ c \in Seq(Int) /\ Len(c) = Least(L, n)
          /\ \A i \in 1 .. Least(L, n) : c[i] = s[i]
      BY <2>1, <2>3, BeginIs DEF L
    <2>5. /\ u \in Seq(Int) /\ Len(u) = B + L
          /\ \A i \in 1 .. B + L : u[i] = IF i <= B THEN buf[i] ELSE s[i - B]
      BY <2>1, ConcatProperties
    <2> DEFINE v == buf \o c
    <2>6. /\ v \in Seq(Int) /\ Len(v) = B + Len(c)
          /\ \A i \in 1 .. B + Len(c) : v[i] = IF i <= B THEN buf[i] ELSE c[i - B]
      BY <2>4, ConcatProperties
    <2> HIDE DEF L, B, u, v
    <2>7. /\ Begin(u, room) \in Seq(Int) /\ Len(Begin(u, room)) = Least(Len(u), room)
          /\ \A i \in 1 .. Least(Len(u), room) : Begin(u, room)[i] = u[i]
      BY <2>5, BeginIs
    <2>8. Least(Len(u), room) = B + Len(c) /\ Len(c) <= L /\ Len(c) \in Nat
      BY <2>1, <2>4, <2>5 DEF Least, n
    <2>9. ASSUME NEW i \in 1 .. Len(v) PROVE v[i] = Begin(u, room)[i]
      <3>1. i \in 1 .. B + Len(c) /\ i \in 1 .. B + L
        BY <2>1, <2>6, <2>8
      <3>2. ~(i <= B) => c[i - B] = s[i - B]
        <4>1. ~(i <= B) => i - B \in 1 .. Least(L, n)
          BY <2>1, <2>4, <3>1
        <4> QED BY <2>4, <4>1
      <3>3. v[i] = IF i <= B THEN buf[i] ELSE c[i - B]
        BY <2>6, <3>1
      <3>4. u[i] = IF i <= B THEN buf[i] ELSE s[i - B]
        BY <2>5, <3>1
      <3> QED BY <2>7, <2>8, <3>1, <3>2, <3>3, <3>4
    <2>10. v = Begin(u, room)
      BY <2>6, <2>7, <2>8, <2>9, SeqEqual
    <2> QED BY <2>1, <2>2, <2>10 DEF u, v
  <1>3. CASE p \in NumberPieces
    <2>1. /\ p.conv = "d" /\ p.arg \in Int /\ p.width \in Nat
      BY <1>3 DEF NumberPieces
    <2>2. PutPiece(buf, room, p) =
             ngx_sprintf_num(IF p.arg < 0 THEN Put(buf, Minus) ELSE buf, room, Magnitude(p.arg),
                             Filler(p), p.hex, p.width)
      <3>1. PutPiece(buf, room, p) = PutInteger(buf, room, p)
        BY <2>1 DEF PutPiece
      <3> QED BY <3>1, Zenon DEF PutInteger, Magnitude
    <2>3. PieceText(p) = SignedText(p.arg, Magnitude(p.arg), Filler(p), p.hex, p.width)
      BY <2>1 DEF PieceText
    <2>4. Magnitude(p.arg) \in Nat /\ Filler(p) \in Int
      BY <2>1, MarkIs
    <2>5. SignedFits(buf, room, p.arg, Magnitude(p.arg), Filler(p), p.hex, p.width)
      BY <2>1, <2>4, SignedIs
    <2> QED BY <2>2, <2>3, <2>5 DEF SignedFits
  <1>4. CASE p \in FloatPieces
    <2>1. p.conv = "f"
      BY <1>4 DEF FloatPieces
    <2>2. PutPiece(buf, room, p) = PutFloat(buf, room, p) /\ PieceText(p) = FloatText(p)
      BY <2>1 DEF PutPiece, PieceText
    <2> QED BY <1>4, <2>2, FloatIs
  <1> QED BY <1>1, <1>2, <1>3, <1>4 DEF AnyPiece
\* f[n] is the text of the first n pieces.
Texts(f, fmt) ==
    /\ f \in [0 .. Len(fmt) -> Seq(Int)] /\ f[0] = <<>>
    /\ \A n \in 1 .. Len(fmt) : f[n] = f[n - 1] \o PieceText(fmt[n])

LEMMA TextsExist ==
    ASSUME NEW fmt \in Seq(AnyPiece)
    PROVE  \E f : Texts(f, fmt)
  <1> DEFINE N == Len(fmt)
             seqs == [n \in 1 .. N |-> PieceText(fmt[n])]
  <1>1. N \in Nat
    OBVIOUS
  <1>2. ASSUME NEW n \in 1 .. N PROVE PieceText(fmt[n]) \in Seq(Int)
    <2>1. fmt[n] \in AnyPiece
      BY ElementOfSeq
    <2>2. <<>> \in Seq(Int) /\ Len(<<>>) < 1 /\ 1 \in Nat
      OBVIOUS
    <2> QED BY <2>1, <2>2, PieceIs
  <1>3. seqs \in Seq(Seq(Int)) /\ Len(seqs) = N /\ \A n \in 1 .. N : seqs[n] = PieceText(fmt[n])
    BY <1>1, <1>2
  <1> HIDE DEF seqs, N
  <1>4. PICK f : Flattens(f, seqs, Int)
    BY <1>3, FlattenExists
  <1> QED BY <1>3, <1>4 DEF Flattens, Texts, N

\* The output is the beginning of a text that does not depend on the room.
LEMMA PrintfIs ==
    ASSUME NEW fmt \in Seq(AnyPiece), NEW f, Texts(f, fmt), NEW room \in Nat
    PROVE  ngx_vslprintf(fmt, room) = Begin(f[Len(fmt)], room)
  <1> DEFINE N == Len(fmt)
             step(buf, n) == IF Len(buf) < room THEN PutPiece(buf, room, fmt[n]) ELSE buf
             out[n \in 0 .. Len(fmt)] ==
                 IF n = 0 THEN <<>>
                 ELSE LET buf == out[n - 1]
                      IN  IF Len(buf) < room THEN PutPiece(buf, room, fmt[n]) ELSE buf
             g == [n \in 0 .. N |-> Begin(f[n], room)]
  <1>1. N \in Nat
    OBVIOUS
  <1>2. /\ f[0] = <<>> /\ \A n \in 0 .. N : f[n] \in Seq(Int)
        /\ \A n \in 1 .. N : f[n] = f[n - 1] \o PieceText(fmt[n])
    BY DEF Texts
  <1>3. g[0] = <<>>
    <2>1. Begin(<<>>, room) = <<>>
      <3>1. <<>> \in Seq(Int) /\ Len(<<>>) <= room
        OBVIOUS
      <3> QED BY <3>1, BeginIs
    <2> QED BY <1>1, <1>2, <2>1
  <1>4. ASSUME NEW n \in 1 .. N PROVE g[n] = step(g[n - 1], n)
    <2> DEFINE s == f[n - 1]
               t == PieceText(fmt[n])
               b == Begin(s, room)
    <2>1. g[n] = Begin(s \o t, room) /\ g[n - 1] = b
      <3>1. n \in 0 .. N /\ n - 1 \in 0 .. N
        OBVIOUS
      <3> QED BY <1>2, <3>1
    <2>2. s \in Seq(Int) /\ fmt[n] \in AnyPiece
      <3>1. n - 1 \in 0 .. N
        OBVIOUS
      <3> QED BY <1>2, <3>1, ElementOfSeq
    <2>3. t \in Seq(Int)
      <3>1. <<>> \in Seq(Int) /\ Len(<<>>) < 1 /\ 1 \in Nat
        OBVIOUS
      <3> QED BY <2>2, <3>1, PieceIs
    <2> HIDE DEF s, t, g
    <2>4. CASE Len(b) < room
      <3>1. b = s
        BY <2>2, <2>3, <2>4, BeginOf
      <3>2. PutPiece(s, room, fmt[n]) = Begin(s \o t, room)
        BY <2>2, <2>4, <3>1, PieceIs DEF t
      <3> QED BY <2>1, <2>4, <3>1, <3>2
    <2>5. CASE ~(Len(b) < room)
      <3> HIDE DEF b
      <3>1. Len(s) \in Nat
        BY <2>2
      <3>2. Len(b) = Least(Len(s), room)
        BY <2>2, BeginIs DEF b
      <3>4. Len(s) >= room
        BY <2>5, <3>1, <3>2 DEF Least
      <3>3. Begin(s \o t, room) = b
        BY <2>2, <2>3, <3>4, BeginOf DEF b
      <3> QED BY <2>1, <2>5, <3>3
    <2> QED BY <2>4, <2>5
  <1>5. g = [n \in 0 .. N |-> IF n = 0 THEN <<>> ELSE step(g[n - 1], n)]
    <2>1. g = [n \in 0 .. N |-> g[n]]
      OBVIOUS
    <2> HIDE DEF g
    <2>2. ASSUME NEW n \in 0 .. N PROVE g[n] = IF n = 0 THEN <<>> ELSE step(g[n - 1], n)
      <3>1. n # 0 => n \in 1 .. N
        BY <1>1
      <3> HIDE DEF step
      <3> QED BY <1>3, <1>4, <3>1
    <2> HIDE DEF step
    <2> QED BY <2>1, <2>2, Zenon
  <1>6. g[N] = Begin(f[N], room)
    BY <1>1
  <1> HIDE DEF g
  <1>7. out = [n \in 0 .. N |-> IF n = 0 THEN <<>> ELSE step(out[n - 1], n)]
    BY <1>5
  <1>8. ngx_vslprintf(fmt, room) = out[N]
    BY Zenon DEF ngx_vslprintf
  <1>9. PICK o : /\ o = [n \in 0 .. N |-> IF n = 0 THEN <<>> ELSE step(o[n - 1], n)]
                 /\ ngx_vslprintf(fmt, room) = o[N]
    <2> HIDE DEF out, step
    <2> QED BY <1>7, <1>8
  <1> HIDE DEF step, N, out
  <1>10. AlikeSteps(o, g, N)
    <2>1. o[0] = g[0]
      BY <1>1, <1>3, <1>9
    <2>2. ASSUME NEW n \in 1 .. N, o[n - 1] = g[n - 1] PROVE o[n] = g[n]
      <3>1. n \in 0 .. N /\ n # 0
        BY <1>1
      <3>2. o[n] = step(o[n - 1], n)
        BY <1>9, <3>1
      <3> QED BY <1>4, <2>2, <3>2
    <2> QED BY <2>1, <2>2 DEF AlikeSteps
  <1>11. o[N] = g[N]
    <2>1. \A n \in 0 .. N : o[n] = g[n]
      BY <1>1, <1>10, SameSteps
    <2> QED BY <1>1, <2>1
  <1> QED BY <1>6, <1>9, <1>11 DEF N

\* A padded number shows its value.
LEMMA NumShows ==
    ASSUME NEW n \in Nat, NEW fill \in Int, NEW hex \in BOOLEAN, NEW width \in Nat
    PROVE  /\ Shows(NumText(n, fill, hex, width), n, IF hex THEN 16 ELSE 10, width, fill)
           /\ NumText(n, fill, hex, width) \in Seq(Int)
           /\ Len(NumText(n, fill, hex, width)) >= 1
  <1> DEFINE base == IF hex THEN 16 ELSE 10
             D == Digits(n, base)
             k == Len(D)
             w == Most(width - k, 0)
             z == Repeated(fill, w)
             t == NumText(n, fill, hex, width)
  <1>1. base \in {10, 16}
    OBVIOUS
  <1>2. t = z \o D
    BY Zenon DEF NumText
  <1> HIDE DEF base, t
  <1>3. DigitsOf(D, n, base)
    BY <1>1, DigitsAre
  <1>4. D \in Seq(0 .. base - 1) /\ D \in Seq(Int) /\ k \in Nat /\ k >= 1
    <2>1. D \in Seq(0 .. base - 1) /\ k >= 1
      BY <1>3 DEF DigitsOf
    <2>2. 0 .. base - 1 \subseteq Int
      BY <1>1
    <2> HIDE DEF D
    <2>3. D \in Seq(Int)
      <3> DEFINE S == 0 .. base - 1
      <3> HIDE DEF S
      <3>1. D \in Seq(S) /\ S \subseteq Int
        BY <2>1, <2>2 DEF S
      <3> QED BY <3>1, SeqMonotonic
    <2>4. Len(D) \in Nat
      BY <2>3
    <2> QED BY <2>1, <2>3, <2>4
  <1> HIDE DEF D
  <1>5. w \in Nat /\ (w > 0 => w + k = width) /\ w + k >= width
    <2> HIDE DEF k
    <2> QED BY <1>4 DEF Most
  <1> HIDE DEF w
  <1>6. z \in Seq(Int) /\ Len(z) = w /\ \A i \in 1 .. w : z[i] = fill
    BY <1>5, RepeatedIs
  <1> HIDE DEF z
  <1>7. /\ t \in Seq(Int) /\ Len(t) = w + k
        /\ \A i \in 1 .. w + k : t[i] = IF i <= w THEN z[i] ELSE D[i - w]
    <2>1. JoinOf(z \o D, z, D, Int)
      BY <1>4, <1>6, JoinIs
    <2>2. Len(z) = w /\ Len(D) = k
      BY <1>6
    <2> HIDE DEF k
    <2> QED BY <1>2, <2>1, <2>2 DEF JoinOf
  <1>8. SubSeq(t, w + 1, Len(t)) = D
    <2> DEFINE a == w + 1
               c == Len(t)
               s == SubSeq(t, a, c)
    <2>1. a \in 1 .. Len(t) + 1 /\ c \in a - 1 .. Len(t) /\ c - a + 1 = k
      <3> HIDE DEF k
      <3> QED BY <1>4, <1>5, <1>7
    <2> HIDE DEF a, c
    <2>2. /\ s \in Seq(Int) /\ Len(s) = c - a + 1
          /\ \A i \in 1 .. c - a + 1 : s[i] = t[a + i - 1]
      BY <1>7, <2>1, PartIs
    <2> HIDE DEF s
    <2>3. ASSUME NEW i \in 1 .. Len(s) PROVE s[i] = D[i]
      <3>1. i \in 1 .. k /\ i \in 1 .. c - a + 1
        BY <2>1, <2>2
      <3>2. a + i - 1 \in 1 .. w + k /\ ~(a + i - 1 <= w) /\ (a + i - 1) - w = i
        <4> HIDE DEF k
        <4> QED BY <1>4, <1>5, <3>1 DEF a
      <3> QED BY <1>7, <2>2, <3>1, <3>2
    <2>4. Len(s) = Len(D)
      BY <2>1, <2>2 DEF k
    <2>5. s = D
      BY <1>4, <2>2, <2>3, <2>4, SeqEqual
    <2> QED BY <2>5 DEF s, a, c
  <1>9. /\ w \in 0 .. Len(t)
        /\ \A i \in 1 .. w : t[i] = fill
        /\ w > 0 => Len(t) = width
        /\ Len(t) >= width
    <2> HIDE DEF k
    <2>1. \A i \in 1 .. w : i \in 1 .. w + k /\ i <= w
      BY <1>4, <1>5
    <2>2. \A i \in 1 .. w : t[i] = fill
      BY <1>6, <1>7, <2>1
    <2> QED BY <1>4, <1>5, <1>7, <2>2
  <1>10. /\ D # <<>> /\ \A i \in DOMAIN D : D[i] \in 0 .. base - 1
         /\ Len(D) > 1 => D[1] # 0
         /\ ValueOf(D, base) = n
    <2>1. D # <<>> /\ \A i \in DOMAIN D : D[i] \in 0 .. base - 1
      <3> DEFINE S == 0 .. base - 1
      <3> HIDE DEF S
      <3>1. D \in Seq(S) /\ Len(D) >= 1
        BY <1>4 DEF S
      <3>2. D # <<>> /\ \A i \in DOMAIN D : D[i] \in S
        BY <3>1, ElementOfSeq, LenProperties
      <3> QED BY <3>2 DEF S
    <2>2. Len(D) > 1 => n > 0
      <3>1. n < 10 => Len(D) = 1
        BY <1>3 DEF DigitsOf
      <3>2. ~(n > 0) => n < 10
        OBVIOUS
      <3> DEFINE l == Len(D)
      <3>3. l \in Nat /\ (n < 10 => l = 1)
        BY <1>4, <3>1 DEF k
      <3> HIDE DEF l
      <3>4. l > 1 => n > 0
        BY <3>2, <3>3
      <3> QED BY <3>4 DEF l
    <2> QED BY <1>3, <2>1, <2>2 DEF DigitsOf
  <1>11. Shows(t, n, base, width, fill)
    <2> HIDE DEF k
    <2>1. \E j \in 0 .. Len(t) :
            LET digits == SubSeq(t, j + 1, Len(t))
            IN  /\ \A i \in 1 .. j : t[i] = fill
                /\ j > 0 => Len(t) = width
                /\ Len(t) >= width
                /\ digits # <<>> /\ \A i \in DOMAIN digits : digits[i] \in 0 .. base - 1
                /\ Len(digits) > 1 => digits[1] # 0
                /\ ValueOf(digits, base) = n
      <3> USE <1>9
      <3> WITNESS w \in 0 .. Len(t)
      <3> QED BY <1>8, <1>9, <1>10, Zenon
    <2> QED BY <2>1, Zenon DEF Shows
  <1>12. Len(t) >= 1
    <2> HIDE DEF k
    <2> QED BY <1>4, <1>5, <1>7
  <1> QED BY <1>7, <1>11, <1>12 DEF t, base

\* The decimals: the number in exactly d digits.
LEMMA DecimalsShow ==
    ASSUME NEW n \in Nat, NEW d \in 1 .. 3, n < Power10[d]
    PROVE  /\ NumText(n, 0, FALSE, d) \in Seq(0 .. 9) /\ Len(NumText(n, 0, FALSE, d)) = d
           /\ ValueOf(NumText(n, 0, FALSE, d), 10) = n
  <1> DEFINE D == Digits(n, 10)
             k == Len(D)
             w == Most(d - k, 0)
             z == Repeated(0, w)
  <1>1. NumText(n, 0, FALSE, d) = z \o D
    BY DEF NumText
  <1>2. DigitsOf(D, n, 10)
    BY DigitsAre
  <1>3. D \in Seq(0 .. 9) /\ D \in Seq(Int) /\ k \in Nat /\ k <= d /\ ValueOf(D, 10) = n
    <2>1. D \in Seq(0 .. 10 - 1) /\ 10 - 1 = 9
      BY <1>2 DEF DigitsOf
    <2>2. 0 .. 9 \subseteq Int
      OBVIOUS
    <2> HIDE DEF D
    <2>3. k <= d /\ ValueOf(D, 10) = n
      <3>1. /\ ValueOf(D, 10) = n /\ Len(D) >= 1
            /\ n < 10 => Len(D) = 1
            /\ n < 100 => Len(D) <= 2
            /\ n < 1000 => Len(D) <= 3
        BY <1>2 DEF DigitsOf
      <3>2. Power10[1] = 10 /\ Power10[2] = 100 /\ Power10[3] = 1000
        BY DEF Power10
      <3>3. CASE d = 1
        <4>1. n < 10
          BY <3>2, <3>3
        <4>2. Len(D) = 1
          BY <3>1, <4>1
        <4> QED BY <3>1, <3>3, <4>2
      <3>4. CASE d = 2
        BY <3>1, <3>2, <3>4
      <3>5. CASE d = 3
        BY <3>1, <3>2, <3>5
      <3> QED BY <3>3, <3>4, <3>5
    <2>4. D \in Seq(Int) /\ k \in Nat
      BY <2>1, <2>2, SeqMonotonic
    <2> QED BY <2>1, <2>3, <2>4
  <1> HIDE DEF D
  <1>4. w \in Nat /\ w + k = d
    <2> HIDE DEF k
    <2> QED BY <1>3 DEF Most
  <1> HIDE DEF w
  <1>5. z \in Seq(0 .. 9) /\ Len(z) = w
    BY <1>4 DEF Repeated
  <1>6. ValueOf(z \o D, 10) = n
    BY <1>3, <1>4, ValuePadded
  <1> HIDE DEF z
  <1>7. z \o D \in Seq(0 .. 9) /\ Len(z \o D) = w + k
    BY <1>3, <1>5, ConcatProperties DEF k
  <1> QED BY <1>1, <1>4, <1>6, <1>7
-----------------------------------------------------------------------------
(* Numbers with a sign and with decimals. *)

Unsigned(t, n) == IF n < 0 THEN Tail(t) ELSE t

LEMMA UnsignedIs ==
    ASSUME NEW n \in Int, NEW X \in Seq(Int)
    PROVE  /\ n < 0 => SignText(n) \o X # <<>> /\ Head(SignText(n) \o X) = Minus
           /\ Unsigned(SignText(n) \o X, n) = X
  <1> DEFINE s == <<Minus>>
             t == s \o X
             L == Len(X)
  <1>1. Minus \in Int /\ s \in Seq(Int) /\ Len(s) = 1 /\ s[1] = Minus /\ L \in Nat
    BY MarkIs
  <1>2. CASE n < 0
    <2>1. SignText(n) = s /\ Unsigned(t, n) = Tail(t)
      BY <1>2 DEF SignText, Unsigned
    <2> HIDE DEF s, L
    <2>2. /\ t \in Seq(Int) /\ Len(t) = 1 + L
          /\ \A i \in 1 .. 1 + L : t[i] = IF i <= 1 THEN s[i] ELSE X[i - 1]
      <3>1. /\ s \o X \in Seq(Int) /\ Len(s \o X) = Len(s) + Len(X)
            /\ \A i \in 1 .. Len(s) + Len(X) :
                  (s \o X)[i] = IF i <= Len(s) THEN s[i] ELSE X[i - Len(s)]
        BY <1>1, ConcatProperties
      <3>2. Len(s) = 1 /\ Len(X) = L
        BY <1>1 DEF L
      <3> QED BY <3>1, <3>2
    <2> HIDE DEF t
    <2>3. t # <<>> /\ Head(t) = Minus
      <3>1. 1 \in 1 .. 1 + L
        BY <1>1
      <3>2. t[1] = Minus
        BY <1>1, <2>2, <3>1
      <3> QED BY <1>1, <2>2, <3>2
    <2>4. Tail(t) = X
      <3>1. Tail(t) \in Seq(Int) /\ Len(Tail(t)) = L /\ \A i \in 1 .. L : Tail(t)[i] = t[i + 1]
        BY <1>1, <2>2, <2>3, HeadTailProperties
      <3>2. ASSUME NEW i \in 1 .. L PROVE t[i + 1] = X[i]
        <4>1. i + 1 \in 1 .. 1 + L /\ ~(i + 1 <= 1) /\ (i + 1) - 1 = i
          BY <1>1
        <4> QED BY <2>2, <4>1
      <3>3. ASSUME NEW i \in 1 .. Len(X) PROVE Tail(t)[i] = X[i]
        BY <3>1, <3>2 DEF L
      <3>4. Len(Tail(t)) = Len(X)
        BY <3>1 DEF L
      <3> QED BY <3>1, <3>3, <3>4, SeqEqual
    <2> QED BY <1>2, <2>1, <2>3, <2>4 DEF t
  <1>3. CASE ~(n < 0)
    <2>1. SignText(n) = <<>> /\ Unsigned(SignText(n) \o X, n) = SignText(n) \o X
      BY <1>3 DEF SignText, Unsigned
    <2>2. <<>> \o X = X
      BY ConcatEmptySeq
    <2> QED BY <1>3, <2>1, <2>2
  <1> QED BY <1>2, <1>3

LEMMA SignedShows ==
    ASSUME NEW n \in Int, NEW fill \in Int, NEW hex \in BOOLEAN, NEW width \in Nat
    PROVE  ShowsSigned(SignedText(n, Magnitude(n), fill, hex, width), n,
                       IF hex THEN 16 ELSE 10, width, fill)
  <1> DEFINE m == Magnitude(n)
             X == NumText(m, fill, hex, width)
             t == SignText(n) \o X
  <1>1. m \in Nat
    BY MarkIs
  <1> HIDE DEF m
  <1>2. X \in Seq(Int) /\ Shows(X, m, IF hex THEN 16 ELSE 10, width, fill)
    BY <1>1, NumShows
  <1> HIDE DEF X
  <1>3. /\ n < 0 => t # <<>> /\ Head(t) = Minus
        /\ Unsigned(t, n) = X
    BY <1>2, UnsignedIs
  <1> HIDE DEF t
  <1>4. (IF n < 0 THEN Tail(t) ELSE t) = X
    BY <1>3 DEF Unsigned
  <1>5. ShowsSigned(t, n, IF hex THEN 16 ELSE 10, width, fill)
    BY <1>2, <1>3, <1>4, Zenon DEF ShowsSigned, m
  <1> QED BY <1>5 DEF t, X, m, SignedText

\* The whole number and the decimals are those of the nearest value.
UnitOf(d) == IF d = 0 THEN 1000 ELSE 1000 \div Power10[d]
NearestOf(f, d) == IF d = 0 THEN f \div 1000 ELSE (f + (UnitOf(d) \div 2)) \div UnitOf(d)

LEMMA NearestIs ==
    ASSUME NEW f \in Nat, NEW d \in 0 .. 3
    PROVE  /\ WholeOf(f, d) = IF d = 0 THEN NearestOf(f, d) ELSE NearestOf(f, d) \div Power10[d]
           /\ d # 0 => /\ DecimalsOf(f, d) = NearestOf(f, d) % Power10[d]
                       /\ DecimalsOf(f, d) < Power10[d]
  <1>1. Power10[1] = 10 /\ Power10[2] = 100 /\ Power10[3] = 1000
    BY DEF Power10
  <1> DEFINE q == f \div 1000
             r == f % 1000
  <1>2. q \in Nat /\ r \in 0 .. 999 /\ f = q * 1000 + r
    OBVIOUS
  <1>3. CASE d = 0
    BY <1>2, <1>3 DEF WholeOf, CarryOf, NearestOf
  <1>4. CASE d = 1
    <2> DEFINE F == (2 * r * 10 + 1000) \div 2000
               M == (f + 50) \div 100
    <2>1. /\ WholeOf(f, d) = q + (IF F = 10 THEN 1 ELSE 0)
          /\ DecimalsOf(f, d) = IF F = 10 THEN 0 ELSE F
      BY <1>1, <1>4 DEF WholeOf, DecimalsOf, CarryOf, ScaleOf, Fraction
    <2>2. NearestOf(f, d) = M
      <3>1. UnitOf(d) = 100 /\ 100 \div 2 = 50
        BY <1>1, <1>4 DEF UnitOf
      <3> QED BY <1>4, <3>1 DEF NearestOf
    <2>3. F \in 0 .. 10 /\ M = q * 10 + F
      BY <1>2
    <2> HIDE DEF F, M, q, r
    <2>4. /\ M \div 10 = q + (IF F = 10 THEN 1 ELSE 0)
          /\ M % 10 = IF F = 10 THEN 0 ELSE F
      BY <1>2, <2>3
    <2> QED BY <1>1, <1>4, <2>1, <2>2, <2>3, <2>4
  <1>5. CASE d = 2
    <2> DEFINE F == (2 * r * 100 + 1000) \div 2000
               M == (f + 5) \div 10
    <2>1. /\ WholeOf(f, d) = q + (IF F = 100 THEN 1 ELSE 0)
          /\ DecimalsOf(f, d) = IF F = 100 THEN 0 ELSE F
      BY <1>1, <1>5 DEF WholeOf, DecimalsOf, CarryOf, ScaleOf, Fraction
    <2>2. NearestOf(f, d) = M
      <3>1. UnitOf(d) = 10 /\ 10 \div 2 = 5
        BY <1>1, <1>5 DEF UnitOf
      <3> QED BY <1>5, <3>1 DEF NearestOf
    <2>3. F \in 0 .. 100 /\ M = q * 100 + F
      BY <1>2
    <2> HIDE DEF F, M, q, r
    <2>4. /\ M \div 100 = q + (IF F = 100 THEN 1 ELSE 0)
          /\ M % 100 = IF F = 100 THEN 0 ELSE F
      BY <1>2, <2>3
    <2> QED BY <1>1, <1>5, <2>1, <2>2, <2>3, <2>4
  <1>6. CASE d = 3
    <2> DEFINE F == (2 * r * 1000 + 1000) \div 2000
    <2>1. /\ WholeOf(f, d) = q + (IF F = 1000 THEN 1 ELSE 0)
          /\ DecimalsOf(f, d) = IF F = 1000 THEN 0 ELSE F
      BY <1>1, <1>6 DEF WholeOf, DecimalsOf, CarryOf, ScaleOf, Fraction
    <2>2. NearestOf(f, d) = f
      <3>1. UnitOf(d) = 1 /\ 1 \div 2 = 0
        BY <1>1, <1>6 DEF UnitOf
      <3> QED BY <1>6, <3>1 DEF NearestOf
    <2>3. F = r
      BY <1>2
    <2> HIDE DEF F
    <2> QED BY <1>1, <1>2, <1>6, <2>1, <2>2, <2>3
  <1> QED BY <1>3, <1>4, <1>5, <1>6

\* A text of a number, the point and decimals, taken apart.
PointParts(b, w, N, d) ==
    /\ b \in Seq(Int)
    /\ Len(b) > d + 1 /\ b[Len(b) - d] = Point
    /\ SubSeq(b, Len(b) - d + 1, Len(b)) = N
    /\ SubSeq(b, 1, Len(b) - d - 1) = w

LEMMA PointIs ==
    ASSUME NEW w \in Seq(Int), Len(w) >= 1, NEW N \in Seq(Int), NEW d \in Nat, Len(N) = d
    PROVE  PointParts((w \o <<Point>>) \o N, w, N, d)
  <1> DEFINE s == w \o <<Point>>
             b == s \o N
             L == Len(w)
  <1>1. L \in Nat /\ L >= 1 /\ <<Point>> \in Seq(Int) /\ Len(<<Point>>) = 1 /\ <<Point>>[1] = Point
    BY MarkIs
  <1>2. /\ s \in Seq(Int) /\ Len(s) = L + 1
        /\ \A i \in 1 .. L + 1 : s[i] = IF i <= L THEN w[i] ELSE <<Point>>[i - L]
    BY <1>1, ConcatProperties
  <1>3. s[L + 1] = Point /\ \A i \in 1 .. L : s[i] = w[i]
    <2> HIDE DEF s, L
    <2>1. L + 1 \in 1 .. L + 1 /\ ~(L + 1 <= L) /\ (L + 1) - L = 1
      BY <1>1
    <2>2. \A i \in 1 .. L : i \in 1 .. L + 1 /\ i <= L
      BY <1>1
    <2> QED BY <1>1, <1>2, <2>1, <2>2
  <1> HIDE DEF s
  <1>4. /\ b \in Seq(Int) /\ Len(b) = L + 1 + d
        /\ \A i \in 1 .. L + 1 + d : b[i] = IF i <= L + 1 THEN s[i] ELSE N[i - (L + 1)]
    <2> HIDE DEF L
    <2>1. /\ s \o N \in Seq(Int) /\ Len(s \o N) = Len(s) + Len(N)
          /\ \A i \in 1 .. Len(s) + Len(N) :
                (s \o N)[i] = IF i <= Len(s) THEN s[i] ELSE N[i - Len(s)]
      BY <1>2, ConcatProperties
    <2>2. Len(s) = L + 1 /\ Len(N) = d
      BY <1>2
    <2> QED BY <2>1, <2>2
  <1> HIDE DEF b
  <1> DEFINE B == Len(b)
  <1>5. B > d + 1 /\ b[B - d] = Point
    <2> HIDE DEF L
    <2>1. B - d = L + 1 /\ L + 1 \in 1 .. L + 1 + d /\ L + 1 <= L + 1
      BY <1>1, <1>4
    <2> QED BY <1>1, <1>3, <1>4, <2>1, SMTT(30)
  <1>6. SubSeq(b, B - d + 1, B) = N
    <2> DEFINE a == B - d + 1
               u == SubSeq(b, a, B)
    <2>1. a \in 1 .. Len(b) + 1 /\ B \in a - 1 .. Len(b) /\ B - a + 1 = d /\ a = L + 2
      <3> HIDE DEF L
      <3> QED BY <1>1, <1>4
    <2> HIDE DEF a, B
    <2>2. /\ u \in Seq(Int) /\ Len(u) = B - a + 1
          /\ \A i \in 1 .. B - a + 1 : u[i] = b[a + i - 1]
      BY <1>4, <2>1, PartIs, SMTT(30)
    <2> HIDE DEF u
    <2>3. ASSUME NEW i \in 1 .. Len(u) PROVE u[i] = N[i]
      <3> HIDE DEF L
      <3>1. i \in 1 .. d /\ i \in 1 .. B - a + 1
        BY <2>1, <2>2
      <3>2. /\ a + i - 1 \in 1 .. L + 1 + d /\ ~(a + i - 1 <= L + 1)
            /\ (a + i - 1) - (L + 1) = i
        BY <1>1, <2>1, <3>1
      <3> QED BY <1>4, <2>2, <3>1, <3>2
    <2>4. Len(u) = Len(N)
      BY <2>1, <2>2
    <2>5. u = N
      BY <2>2, <2>3, <2>4, SeqEqual
    <2> QED BY <2>5 DEF u, a
  <1>7. SubSeq(b, 1, B - d - 1) = w
    <2> DEFINE a == 1
               c == B - d - 1
               u == SubSeq(b, a, c)
    <2>1. a \in 1 .. Len(b) + 1 /\ c \in a - 1 .. Len(b) /\ c - a + 1 = L
      <3> HIDE DEF L
      <3> QED BY <1>1, <1>4
    <2> HIDE DEF c, B
    <2>2. /\ u \in Seq(Int) /\ Len(u) = c - a + 1
          /\ \A i \in 1 .. c - a + 1 : u[i] = b[a + i - 1]
      BY <1>4, <2>1, PartIs
    <2> HIDE DEF u
    <2>3. ASSUME NEW i \in 1 .. Len(u) PROVE u[i] = w[i]
      <3> HIDE DEF L
      <3>1. i \in 1 .. L /\ i \in 1 .. c - a + 1
        BY <2>1, <2>2
      <3>2. a + i - 1 \in 1 .. L + 1 + d /\ a + i - 1 <= L + 1 /\ a + i - 1 = i
        BY <1>1, <3>1
      <3> QED BY <1>3, <1>4, <2>2, <3>1, <3>2
    <2>4. Len(u) = Len(w)
      BY <2>1, <2>2 DEF L
    <2>5. u = w
      BY <2>2, <2>3, <2>4, SeqEqual
    <2> QED BY <2>5 DEF u, c
  <1>8. PointParts(b, w, N, d)
    BY <1>4, <1>5, <1>6, <1>7 DEF PointParts, B
  <1> QED BY <1>8 DEF b, s

LEMMA FloatParts ==
    ASSUME NEW t, NEW f, NEW d, NEW width, NEW fill
    PROVE  ShowsFloat(t, f, d, width, fill) <=>
             /\ f < 0 => t # <<>> /\ Head(t) = Minus
             /\ IF d = 0 THEN Shows(Unsigned(t, f), NearestOf(Magnitude(f), d), 10, width, fill)
                ELSE LET body == Unsigned(t, f)
                         decimals == SubSeq(body, Len(body) - d + 1, Len(body))
                         nearest == NearestOf(Magnitude(f), d)
                     IN  /\ Len(body) > d + 1 /\ body[Len(body) - d] = Point
                         /\ \A i \in DOMAIN decimals : decimals[i] \in 0 .. 9
                         /\ ValueOf(decimals, 10) = nearest % Power10[d]
                         /\ Shows(SubSeq(body, 1, Len(body) - d - 1), nearest \div Power10[d],
                                  10, width, fill)
  BY DEF ShowsFloat, Unsigned, NearestOf, UnitOf

LEMMA FloatShows ==
    ASSUME NEW p \in FloatPieces
    PROVE  ShowsFloat(FloatText(p), p.arg, p.frac_width, p.width, Filler(p))
  <1> DEFINE d == p.frac_width
             f == Magnitude(p.arg)
             n == WholeOf(f, d)
             k == DecimalsOf(f, d)
             m == NearestOf(f, d)
             fill == Filler(p)
             w == NumText(n, fill, FALSE, p.width)
             N == NumText(k, 0, FALSE, d)
             S == SignText(p.arg)
             t == FloatText(p)
  <1>1. /\ p.arg \in Int /\ d \in 0 .. 3 /\ p.width \in Nat /\ f \in Nat
        /\ fill \in Int /\ S \in Seq(Int) /\ <<Point>> \in Seq(Int)
    BY MarkIs DEF FloatPieces
  <1>2. n \in Nat /\ k \in Nat
    BY <1>1, RoundedIs
  <1>3. /\ n = IF d = 0 THEN m ELSE m \div Power10[d]
        /\ d # 0 => k = m % Power10[d] /\ k < Power10[d]
    BY <1>1, NearestIs
  <1>4. t = IF d = 0 THEN S \o w ELSE ((S \o w) \o <<Point>>) \o N
    BY Zenon DEF FloatText, SignedText
  <1>5. m = IF d = 0 THEN f \div 1000
            ELSE (f + (UnitOf(d) \div 2)) \div UnitOf(d)
    BY DEF NearestOf
  <1> DEFINE width == p.width
             arg == p.arg
  <1>6. w \in Seq(Int) /\ Len(w) >= 1 /\ Shows(w, n, 10, width, fill)
    <2>1. FALSE \in BOOLEAN
      OBVIOUS
    <2> HIDE DEF n, fill, width
    <2> QED BY <1>1, <1>2, <2>1, NumShows DEF width
  <1> HIDE DEF d, n, k, m, fill, w, S, t, width, arg
  <1>7. CASE d = 0
    <2>1. t = S \o w /\ n = m
      BY <1>3, <1>4, <1>7
    <2>2. (arg < 0 => t # <<>> /\ Head(t) = Minus) /\ Unsigned(t, arg) = w
      BY <1>1, <1>6, <2>1, UnsignedIs DEF S, arg
    <2>3. Shows(Unsigned(t, arg), NearestOf(Magnitude(arg), d), 10, width, fill)
      BY <1>6, <2>1, <2>2 DEF m, f, arg
    <2>5. ShowsFloat(t, arg, d, width, fill)
      BY <1>7, <2>2, <2>3, FloatParts
    <2> QED BY <2>5 DEF t, arg, d, width, fill
  <1>8. CASE d # 0
    <2> DEFINE b == (w \o <<Point>>) \o N
    <2>1. t = ((S \o w) \o <<Point>>) \o N /\ n = m \div Power10[d]
      BY <1>3, <1>4, <1>8
    <2>2. k = m % Power10[d] /\ k < Power10[d] /\ d \in 1 .. 3 /\ d \in Nat
      BY <1>1, <1>3, <1>8
    <2>3. N \in Seq(0 .. 9) /\ Len(N) = d /\ ValueOf(N, 10) = k
      BY <1>2, <2>2, DecimalsShow
    <2>4. N \in Seq(Int) /\ \A i \in DOMAIN N : N[i] \in 0 .. 9
      <3> DEFINE Z == 0 .. 9
      <3>1. N \in Seq(Z)
        BY <2>3
      <3>3. Z \subseteq Int
        OBVIOUS
      <3> HIDE DEF Z, N
      <3>2. N \in Seq(Int) /\ \A i \in DOMAIN N : N[i] \in Z
        BY <3>1, <3>3, SeqMonotonic, ElementOfSeq, LenProperties
      <3> QED BY <3>2 DEF Z
    <2> HIDE DEF N
    <2>5. PointParts(b, w, N, d)
      <3>1. Len(N) = d /\ Len(w) >= 1 /\ d \in Nat /\ w \in Seq(Int) /\ N \in Seq(Int)
        BY <1>6, <2>2, <2>3, <2>4
      <3> QED BY <3>1, PointIs
    <2>6. t = S \o b
      <3>1. w \o <<Point>> \in Seq(Int)
        BY <1>1, <1>6, Joined, Zenon
      <3>2. (S \o w) \o <<Point>> = S \o (w \o <<Point>>)
        BY <1>1, <1>6, Joined, Zenon
      <3>3. (S \o (w \o <<Point>>)) \o N = S \o ((w \o <<Point>>) \o N)
        <4>1. S \in Seq(Int) /\ N \in Seq(Int)
          BY <1>1, <2>4
        <4> QED BY <3>1, <4>1, Joined, SMTT(30)
      <3> QED BY <2>1, <3>2, <3>3
    <2> HIDE DEF b
    <2>7. (arg < 0 => t # <<>> /\ Head(t) = Minus) /\ Unsigned(t, arg) = b
      BY <1>1, <2>5, <2>6, UnsignedIs DEF S, arg, PointParts
    <2>10. ValueOf(N, 10) = m % Power10[d]
      BY <2>2, <2>3
    <2>11. Shows(w, m \div Power10[d], 10, width, fill)
      BY <1>6, <2>1
    <2>12. ShowsFloat(t, arg, d, width, fill)
      <3>1. m = NearestOf(Magnitude(arg), d)
        BY DEF m, f, arg
      <3> HIDE DEF m
      <3>2. /\ Len(b) > d + 1 /\ b[Len(b) - d] = Point
            /\ SubSeq(b, Len(b) - d + 1, Len(b)) = N
            /\ SubSeq(b, 1, Len(b) - d - 1) = w
        BY <2>5 DEF PointParts
      <3> QED BY <1>8, <2>4, <2>7, <2>10, <2>11, <3>1, <3>2, FloatParts, Zenon
    <2> QED BY <2>12 DEF t, arg, d, width, fill
  <1> QED BY <1>7, <1>8

LEMMA ArgumentShows ==
    ASSUME NEW p \in AnyPiece
    PROVE  ShowsArgument(PieceText(p), p)
  <1>1. CASE p \in PlainPieces
    <2>1. p.conv = "plain"
      BY <1>1 DEF PlainPieces
    <2> QED BY <2>1 DEF PieceText, ShowsArgument
  <1>2. CASE p \in StringPieces
    <2>1. p.conv = "s"
      BY <1>2 DEF StringPieces
    <2> QED BY <2>1 DEF PieceText, ShowsArgument
  <1>3. CASE p \in NumberPieces
    <2>1. p.conv = "d" /\ p.arg \in Int /\ p.width \in Nat /\ p.hex \in BOOLEAN
      BY <1>3 DEF NumberPieces
    <2>2. ShowsSigned(SignedText(p.arg, Magnitude(p.arg), Filler(p), p.hex, p.width), p.arg,
                      IF p.hex THEN 16 ELSE 10, p.width, Filler(p))
      BY <2>1, MarkIs, SignedShows
    <2> QED BY <2>1, <2>2 DEF PieceText, ShowsArgument
  <1>4. CASE p \in FloatPieces
    <2>1. p.conv = "f"
      BY <1>4 DEF FloatPieces
    <2>2. ShowsFloat(FloatText(p), p.arg, p.frac_width, p.width, Filler(p))
      BY <1>4, FloatShows
    <2> QED BY <2>1, <2>2 DEF PieceText, ShowsArgument
  <1> QED BY <1>1, <1>2, <1>3, <1>4 DEF AnyPiece

\* Formatted text is what its format asks for, or the beginning of it: any buffer,
\* any width, any argument.
THEOREM TextIsAsked == Spec => []TextAsAsked
  <1>1. Asked /\ Answered => TextAsAsked
    <2> SUFFICES ASSUME Asked, Answered, Returned("ngx_vslprintf") PROVE TextAsAsked
      BY DEF TextAsAsked
    <2>1. /\ call.fmt \in Formats /\ call.room \in Rooms
          /\ value = ngx_vslprintf(call.fmt, call.room)
      BY DEF Asked, Answered, Answer, Returned, value
    <2>2. PICK fmt, room : /\ fmt = call.fmt /\ room = call.room
                           /\ fmt \in Formats /\ room \in Rooms
                           /\ value = ngx_vslprintf(fmt, room)
      BY <2>1
    <2>3. /\ fmt \in Seq(AnyPiece) /\ room \in Nat
          /\ Len(ngx_vslprintf(fmt, Unbounded)) < Unbounded
      <3>1. Rooms \subseteq Nat
        BY CallsOfPrintf
      <3>2. /\ fmt \in Seq(AnyPiece)
            /\ Len(ngx_vslprintf(fmt, Unbounded)) < Unbounded
        BY <2>2, CallsOfPrintf
           DEF AnyPiece, PlainPieces, StringPieces, NumberPieces, FloatPieces
      <3> QED BY <2>2, <3>1, <3>2
    <2> DEFINE text == ngx_vslprintf(fmt, Unbounded)
    <2>4. PICK f : Texts(f, fmt)
      BY <2>3, TextsExist
    <2>5. Unbounded \in Nat
      BY CallsOfPrintf
    <2> DEFINE L == Len(fmt)
               t == f[L]
    <2>6. text = Begin(t, Unbounded) /\ value = Begin(t, room)
      BY <2>2, <2>3, <2>4, <2>5, PrintfIs
    <2>7. t \in Seq(Int) /\ L \in Nat
      BY <2>3, <2>4 DEF Texts
    <2> HIDE DEF text, t, L
    <2>8. text = t
      <3>1. Len(text) < Unbounded
        BY <2>3 DEF text
      <3> QED BY <2>5, <2>6, <2>7, <3>1, BeginOf
    <2>9. value = SubSeq(text, 1, Least(room, Len(text)))
      <3>1. Least(room, Len(t)) = Least(Len(t), room)
        BY <2>3, <2>7 DEF Least
      <3> QED BY <2>6, <2>8, <3>1 DEF Begin
    <2>10. L = 1 => ShowsArgument(text, fmt[1])
      <3> SUFFICES ASSUME L = 1 PROVE ShowsArgument(text, fmt[1])
        OBVIOUS
      <3>1. fmt[1] \in AnyPiece
        BY <2>3 DEF L
      <3>2. t = <<>> \o PieceText(fmt[1])
        <4>1. 1 \in 1 .. Len(fmt) /\ 1 - 1 = 0 /\ t = f[1]
          BY <2>3 DEF t, L
        <4> QED BY <2>4, <4>1 DEF Texts
      <3>3. PieceText(fmt[1]) \in Seq(Int)
        <4>1. <<>> \in Seq(Int) /\ Len(<<>>) < 1 /\ 1 \in Nat
          OBVIOUS
        <4> QED BY <3>1, <4>1, PieceIs
      <3>4. t = PieceText(fmt[1])
        BY <3>2, <3>3, ConcatEmptySeq
      <3> QED BY <2>8, <3>1, <3>4, ArgumentShows
    <2> QED BY <2>2, <2>9, <2>10 DEF TextAsAsked, text, L
  <1> QED BY <1>1, CallsAnswer, PTL
-----------------------------------------------------------------------------
(* The checksum: a step of the reflected register is linear, eight of them are a *)
(* look at the table, and they are eight steps of the long division.             *)

LEMMA InXor ==
    ASSUME NEW a, NEW b, NEW x
    PROVE  x \in Xor(a, b) <=> ~(x \in a <=> x \in b)
  BY DEF Xor

LEMMA InReflect ==
    ASSUME NEW a \in SUBSET Int, NEW x
    PROVE  x \in Reflect(a, 32) <=> x \in Word /\ 31 - x \in a
  <1> DEFINE R == {32 - 1 - b : b \in a \cap 0 .. 32 - 1}
  <1>1. Reflect(a, 32) = R
    BY DEF Reflect
  <1>2. ASSUME x \in R PROVE x \in Word /\ 31 - x \in a
    <2>1. PICK b \in a \cap 0 .. 32 - 1 : x = 32 - 1 - b
      BY <1>2
    <2>2. b \in 0 .. 31 /\ b \in a /\ x = 31 - b /\ 31 - x = b
      BY <2>1
    <2> QED BY <2>2 DEF Word
  <1>3. ASSUME x \in Word, 31 - x \in a PROVE x \in R
    <2>1. 31 - x \in a \cap 0 .. 32 - 1 /\ x = 32 - 1 - (31 - x)
      BY <1>3 DEF Word
    <2> QED BY <2>1
  <1> HIDE DEF R
  <1> QED BY <1>1, <1>2, <1>3

LEMMA InShiftRight ==
    ASSUME NEW a \in SUBSET Word, NEW n \in Nat, NEW x
    PROVE  x \in ShiftRight(a, n) <=> x \in Word /\ x + n \in a
  <1> DEFINE R == {b - n : b \in {c \in a : c >= n}}
  <1>1. ShiftRight(a, n) = R
    BY DEF ShiftRight
  <1>2. ASSUME x \in R PROVE x \in Word /\ x + n \in a
    <2>1. PICK b \in a : b >= n /\ x = b - n
      BY <1>2
    <2>2. b \in 0 .. 31
      BY DEF Word
    <2>3. x + n = b /\ x \in 0 .. 31
      BY <2>1, <2>2
    <2> QED BY <2>3 DEF Word
  <1>3. ASSUME x \in Word, x + n \in a PROVE x \in R
    <2>1. x + n >= n /\ x = (x + n) - n
      BY <1>3 DEF Word
    <2> QED BY <1>3, <2>1
  <1> HIDE DEF R
  <1> QED BY <1>1, <1>2, <1>3

LEMMA InShiftLeft ==
    ASSUME NEW a \in SUBSET Word, NEW n \in Nat, NEW x
    PROVE  x \in ShiftLeft(a, n) <=> x \in Word /\ x - n \in a
  <1> DEFINE R == {b + n : b \in a} \cap Word
  <1>1. ShiftLeft(a, n) = R
    BY DEF ShiftLeft
  <1>2. ASSUME x \in R PROVE x \in Word /\ x - n \in a
    <2>1. PICK b \in a : x = b + n
      BY <1>2
    <2>2. b \in 0 .. 31
      BY DEF Word
    <2>3. x - n = b
      BY <2>1, <2>2
    <2> QED BY <1>2, <2>3
  <1>3. ASSUME x \in Word, x - n \in a PROVE x \in R
    <2>1. x = (x - n) + n
      BY <1>3 DEF Word
    <2> QED BY <1>3, <2>1
  <1> HIDE DEF R
  <1> QED BY <1>1, <1>2, <1>3

Mirror == Reflect(ulPolynomial, 32)

\* One, two, four and eight steps of the reflected register.
Rolled(c) == Xor(ShiftRight(c, 1), IF 0 \in c THEN Mirror ELSE {})
Twice(c) == Rolled(Rolled(c))
FourTimes(c) == Twice(Twice(c))
EightTimes(c) == FourTimes(FourTimes(c))

LEMMA PolynomialBits == /\ ulPolynomial \in SUBSET Word /\ ulPolynomial \in SUBSET Int
                        /\ Word \subseteq Int /\ Mirror \in SUBSET Word
  <1>1. ulPolynomial \in SUBSET Word /\ Word \subseteq Int
    BY DEF ulPolynomial, Word
  <1>2. ulPolynomial \in SUBSET Int
    BY <1>1
  <1>3. \A x : x \in Mirror => x \in Word
    BY <1>2, InReflect DEF Mirror
  <1> QED BY <1>1, <1>2, <1>3

LEMMA InRolled ==
    ASSUME NEW c \in SUBSET Word, NEW x
    PROVE  x \in Rolled(c) <=> /\ x \in Word
                               /\ ~(x + 1 \in c <=> (0 \in c /\ 31 - x \in ulPolynomial))
  <1> DEFINE s == ShiftRight(c, 1)
             m == IF 0 \in c THEN Mirror ELSE {}
  <1>1. x \in Rolled(c) <=> ~(x \in s <=> x \in m)
    BY InXor DEF Rolled
  <1>2. x \in s <=> x \in Word /\ x + 1 \in c
    BY InShiftRight
  <1>3. x \in m <=> 0 \in c /\ x \in Word /\ 31 - x \in ulPolynomial
    <2>1. x \in Mirror <=> x \in Word /\ 31 - x \in ulPolynomial
      BY PolynomialBits, InReflect DEF Mirror
    <2> QED BY <2>1
  <1> HIDE DEF s, m
  <1> QED BY <1>1, <1>2, <1>3

LEMMA RolledIs ==
    /\ \A c \in SUBSET Word : Rolled(c) \in SUBSET Word
    /\ \A c, d \in SUBSET Word : Xor(c, d) \in SUBSET Word
    /\ \A c, d \in SUBSET Word : Rolled(Xor(c, d)) = Xor(Rolled(c), Rolled(d))
  <1>1. ASSUME NEW c \in SUBSET Word PROVE Rolled(c) \in SUBSET Word
    <2>1. \A x : x \in Rolled(c) => x \in Word
      BY InRolled
    <2> QED BY <2>1
  <1>2. ASSUME NEW c \in SUBSET Word, NEW d \in SUBSET Word PROVE Xor(c, d) \in SUBSET Word
    BY DEF Xor
  <1>3. ASSUME NEW c \in SUBSET Word, NEW d \in SUBSET Word
        PROVE  Rolled(Xor(c, d)) = Xor(Rolled(c), Rolled(d))
    <2>1. ASSUME NEW x PROVE x \in Rolled(Xor(c, d)) <=> x \in Xor(Rolled(c), Rolled(d))
      <3> DEFINE e == Xor(c, d)
      <3>1. /\ x + 1 \in e <=> ~(x + 1 \in c <=> x + 1 \in d)
            /\ 0 \in e <=> ~(0 \in c <=> 0 \in d)
        BY InXor
      <3>2. x \in Xor(Rolled(c), Rolled(d)) <=> ~(x \in Rolled(c) <=> x \in Rolled(d))
        BY InXor
      <3>3. e \in SUBSET Word
        BY <1>2
      <3> HIDE DEF e
      <3>4. x \in Rolled(e) <=> /\ x \in Word
                                /\ ~(x + 1 \in e <=> (0 \in e /\ 31 - x \in ulPolynomial))
        BY <3>3, InRolled
      <3>5. /\ x \in Rolled(c) <=> /\ x \in Word
                                   /\ ~(x + 1 \in c <=> (0 \in c /\ 31 - x \in ulPolynomial))
            /\ x \in Rolled(d) <=> /\ x \in Word
                                   /\ ~(x + 1 \in d <=> (0 \in d /\ 31 - x \in ulPolynomial))
        BY InRolled
      <3>6. x \in Rolled(e) <=> x \in Xor(Rolled(c), Rolled(d))
        BY <3>1, <3>2, <3>4, <3>5
      <3> QED BY <3>6 DEF e
    <2> QED BY <2>1
  <1> QED BY <1>1, <1>2, <1>3

LEMMA EightTimesIs ==
    /\ \A c \in SUBSET Word : EightTimes(c) \in SUBSET Word
    /\ \A c, d \in SUBSET Word : EightTimes(Xor(c, d)) = Xor(EightTimes(c), EightTimes(d))
  <1>1. /\ \A c \in SUBSET Word : Twice(c) \in SUBSET Word
        /\ \A c, d \in SUBSET Word : Twice(Xor(c, d)) = Xor(Twice(c), Twice(d))
    BY RolledIs, Zenon DEF Twice
  <1>2. /\ \A c \in SUBSET Word : FourTimes(c) \in SUBSET Word
        /\ \A c, d \in SUBSET Word : FourTimes(Xor(c, d)) = Xor(FourTimes(c), FourTimes(d))
    BY <1>1, Zenon DEF FourTimes
  <1> QED BY <1>2, Zenon DEF EightTimes

\* r is a, whose bits are above n, shifted by n.
ShiftOf(r, a, n) ==
    /\ r \in SUBSET Word
    /\ \A x : x \in r <=> x \in Word /\ x + n \in a
Above(a, n) == \A b \in a : b >= n

LEMMA ShiftTwice ==
    ASSUME NEW a \in SUBSET Word, NEW n \in Nat, NEW m \in Nat, NEW r, NEW s,
           ShiftOf(r, a, n), ShiftOf(s, r, n), Above(a, m), m >= n + n
    PROVE  Above(r, m - n) /\ ShiftOf(s, a, n + n)
  <1>1. r \in SUBSET Word /\ s \in SUBSET Word
    BY DEF ShiftOf
  <1>2. \A x : x \in r <=> x \in Word /\ x + n \in a
    BY DEF ShiftOf
  <1>3. \A x : x \in s <=> x \in Word /\ x + n \in r
    BY DEF ShiftOf
  <1>4. ASSUME NEW b \in r PROVE b >= m - n
    <2>1. b \in 0 .. 31 /\ b + n \in a
      BY <1>1, <1>2 DEF Word
    <2>2. b + n >= m
      BY <2>1 DEF Above
    <2> QED BY <2>1, <2>2
  <1>5. ASSUME NEW x PROVE x \in s <=> x \in Word /\ x + (n + n) \in a
    <2>1. x \in Word => x \in 0 .. 31 /\ (x + n) + n = x + (n + n)
      BY DEF Word
    <2>2. x \in Word /\ x + (n + n) \in a => x + n \in Word
      <3> SUFFICES ASSUME x \in Word, x + (n + n) \in a PROVE x + n \in Word
        OBVIOUS
      <3>1. x + (n + n) \in 0 .. 31 /\ x \in 0 .. 31
        BY DEF Word
      <3> QED BY <3>1 DEF Word
    <2> QED BY <1>2, <1>3, <2>1, <2>2
  <1> QED BY <1>1, <1>4, <1>5 DEF ShiftOf, Above

\* What is above the steps taken is only shifted.
LEMMA Shifted ==
    ASSUME NEW c \in SUBSET Word, Above(c, 8)
    PROVE  EightTimes(c) = ShiftRight(c, 8)
  <1>1. ASSUME NEW a \in SUBSET Word, NEW m \in Nat, Above(a, m), m >= 1
        PROVE  ShiftOf(Rolled(a), a, 1)
    <2>1. 0 \notin a
      BY <1>1 DEF Above
    <2>2. \A x : x \in Rolled(a) <=> x \in Word /\ x + 1 \in a
      BY <2>1, InRolled
    <2> QED BY <2>2, RolledIs DEF ShiftOf
  <1>2. ASSUME NEW a \in SUBSET Word, NEW m \in Nat, Above(a, m), m >= 2
        PROVE  ShiftOf(Twice(a), a, 2)
    <2> DEFINE r == Rolled(a)
               n == m - 1
    <2>1. ShiftOf(r, a, 1) /\ n \in Nat /\ n >= 1
      BY <1>1, <1>2
    <2>2. r \in SUBSET Word /\ Above(r, n)
      <3>1. r \in SUBSET Word /\ \A b \in r : b + 1 \in a
        BY <2>1 DEF ShiftOf
      <3>2. ASSUME NEW b \in r PROVE b >= n
        <4>1. b \in 0 .. 31 /\ b + 1 >= m
          BY <1>2, <3>1 DEF Above, Word
        <4> QED BY <4>1
      <3> QED BY <3>1, <3>2 DEF Above
    <2> HIDE DEF r, n
    <2>3. ShiftOf(Rolled(r), r, 1)
      BY <1>1, <2>1, <2>2
    <2>4. ShiftOf(Rolled(r), a, 1 + 1)
      <3>1. 1 \in Nat /\ m >= 1 + 1
        BY <1>2
      <3> QED BY <1>2, <2>1, <2>3, <3>1, ShiftTwice
    <2> QED BY <2>4 DEF Twice, r
  <1>3. ASSUME NEW a \in SUBSET Word, NEW m \in Nat, Above(a, m), m >= 4
        PROVE  ShiftOf(FourTimes(a), a, 4)
    <2> DEFINE r == Twice(a)
               n == m - 2
    <2>1. ShiftOf(r, a, 2) /\ n \in Nat /\ n >= 2
      BY <1>2, <1>3
    <2>2. r \in SUBSET Word /\ Above(r, n)
      <3>1. r \in SUBSET Word /\ \A b \in r : b + 2 \in a
        BY <2>1 DEF ShiftOf
      <3>2. ASSUME NEW b \in r PROVE b >= n
        <4>1. b \in 0 .. 31 /\ b + 2 >= m
          BY <1>3, <3>1 DEF Above, Word
        <4> QED BY <4>1
      <3> QED BY <3>1, <3>2 DEF Above
    <2> HIDE DEF r, n
    <2>3. ShiftOf(Twice(r), r, 2)
      BY <1>2, <2>1, <2>2
    <2>4. ShiftOf(Twice(r), a, 2 + 2)
      BY <1>3, <2>1, <2>3, ShiftTwice
    <2> QED BY <2>4 DEF FourTimes, r
  <1>4. ShiftOf(EightTimes(c), c, 8)
    <2> DEFINE r == FourTimes(c)
    <2>1. ShiftOf(r, c, 4)
      BY <1>3
    <2>2. r \in SUBSET Word /\ Above(r, 4)
      <3>1. r \in SUBSET Word /\ \A b \in r : b + 4 \in c
        BY <2>1 DEF ShiftOf
      <3>2. ASSUME NEW b \in r PROVE b >= 4
        <4>1. b \in 0 .. 31 /\ b + 4 >= 8
          BY <3>1 DEF Above, Word
        <4> QED BY <4>1
      <3> QED BY <3>1, <3>2 DEF Above
    <2> HIDE DEF r
    <2>3. ShiftOf(FourTimes(r), r, 4)
      BY <1>3, <2>2
    <2>4. ShiftOf(FourTimes(r), c, 4 + 4)
      BY <2>1, <2>3, ShiftTwice
    <2> QED BY <2>4 DEF EightTimes, r
  <1>5. \A x : x \in EightTimes(c) <=> x \in ShiftRight(c, 8)
    BY <1>4, InShiftRight DEF ShiftOf
  <1> QED BY <1>5
-----------------------------------------------------------------------------
(* The table. *)

\* The entries before they are reflected.
Entries(f, i) ==
    /\ f \in [0 .. 8 -> SUBSET Word] /\ f[0] = ShiftLeft(Reflect(i, 8), 24)
    /\ \A j \in 1 .. 8 : f[j] = DivideStep(f[j - 1])

LEMMA DivideStepIs ==
    ASSUME NEW e \in SUBSET Word
    PROVE  /\ DivideStep(e) \in SUBSET Word
           /\ Reflect(DivideStep(e), 32) = Rolled(Reflect(e, 32))
  <1> DEFINE s == ShiftLeft(e, 1)
             m == IF 31 \in e THEN ulPolynomial ELSE {}
             t == DivideStep(e)
             r == Reflect(e, 32)
  <1>1. \A x : x \in t <=> ~(x \in s <=> x \in m)
    BY InXor DEF DivideStep
  <1>2. \A x : x \in s <=> x \in Word /\ x - 1 \in e
    BY InShiftLeft
  <1>3. \A x : x \in m <=> 31 \in e /\ x \in ulPolynomial
    OBVIOUS
  <1> HIDE DEF s, m, t
  <1>4. t \in SUBSET Word
    BY <1>1, <1>2, <1>3, PolynomialBits
  <1>5. t \in SUBSET Int /\ e \in SUBSET Int
    BY <1>4, PolynomialBits
  <1>6. \A x : x \in r <=> x \in Word /\ 31 - x \in e
    BY <1>5, InReflect
  <1> HIDE DEF r
  <1>7. r \in SUBSET Word
    BY <1>6
  <1>8. ASSUME NEW x PROVE x \in Reflect(t, 32) <=> x \in Rolled(r)
    <2>1. x \in Reflect(t, 32) <=> x \in Word /\ 31 - x \in t
      BY <1>5, InReflect
    <2>2. x \in Rolled(r) <=> /\ x \in Word
                              /\ ~(x + 1 \in r <=> (0 \in r /\ 31 - x \in ulPolynomial))
      BY <1>7, InRolled
    <2>3. ASSUME x \in Word
          PROVE  /\ 31 - x \in Word /\ (31 - x) - 1 = 31 - (x + 1) /\ 31 - 0 = 31 /\ 0 \in Word
                 /\ 31 - (x + 1) \in e => x + 1 \in Word
      <3>1. x \in 0 .. 31
        BY <2>3 DEF Word
      <3>2. 31 - (x + 1) \in e => 31 - (x + 1) \in 0 .. 31
        BY DEF Word
      <3> QED BY <3>1, <3>2 DEF Word
    <2> QED BY <1>1, <1>2, <1>3, <1>6, <2>1, <2>2, <2>3
  <1> QED BY <1>4, <1>8 DEF t, r

LEMMA EntriesExist ==
    ASSUME NEW i \in SUBSET Byte
    PROVE  \E f : Entries(f, i)
  <1> DEFINE b == ShiftLeft(Reflect(i, 8), 24)
             S == SUBSET Word
             step == [p \in (1 .. 8) \X S |-> DivideStep(p[2])]
  <1>1. b \in S /\ 8 \in Nat
    BY DEF ShiftLeft
  <1>2. step \in [(1 .. 8) \X S -> S]
    BY DivideStepIs
  <1>3. PICK f : Stepwise(f, b, step, 8, S)
    <2> HIDE DEF S, step, b
    <2> QED BY <1>1, <1>2, FoldExists
  <1>4. ASSUME NEW k \in 1 .. 8 PROVE f[k] = DivideStep(f[k - 1])
    <2>1. k - 1 \in 0 .. 8
      OBVIOUS
    <2>2. <<k, f[k - 1]>> \in (1 .. 8) \X S
      BY <1>3, <2>1 DEF Stepwise
    <2>3. step[<<k, f[k - 1]>>] = DivideStep(f[k - 1])
      BY <2>2
    <2> QED BY <1>3, <2>3 DEF Stepwise
  <1> QED BY <1>3, <1>4 DEF Stepwise, Entries

LEMMA TableIs ==
    ASSUME NEW i \in SUBSET Byte
    PROVE  crc32_table[i] = EightTimes(i)
  <1> DEFINE entry[j \in 0 .. 8] ==
                 IF j = 0 THEN ShiftLeft(Reflect(i, 8), 24) ELSE DivideStep(entry[j - 1])
  <1>1. crc32_table[i] = Reflect(entry[8], 32)
    BY Zenon DEF crc32_table, Init_CRC32_Table
  <1>2. PICK f : Entries(f, i)
    BY EntriesExist
  <1>3. f = [j \in 0 .. 8 |-> IF j = 0 THEN ShiftLeft(Reflect(i, 8), 24)
                              ELSE DivideStep(f[j - 1])]
    <2>1. f = [j \in 0 .. 8 |-> f[j]]
      BY <1>2 DEF Entries
    <2>2. ASSUME NEW j \in 0 .. 8
          PROVE  f[j] = IF j = 0 THEN ShiftLeft(Reflect(i, 8), 24) ELSE DivideStep(f[j - 1])
      <3>1. j # 0 => j \in 1 .. 8
        OBVIOUS
      <3> QED BY <1>2, <3>1 DEF Entries
    <2> QED BY <2>1, <2>2, Zenon
  <1>4. entry = [j \in 0 .. 8 |-> IF j = 0 THEN ShiftLeft(Reflect(i, 8), 24)
                                  ELSE DivideStep(entry[j - 1])]
    BY <1>3
  <1>5. PICK e : /\ e = [j \in 0 .. 8 |-> IF j = 0 THEN ShiftLeft(Reflect(i, 8), 24)
                                          ELSE DivideStep(e[j - 1])]
                 /\ crc32_table[i] = Reflect(e[8], 32)
    <2> HIDE DEF entry
    <2> QED BY <1>1, <1>4
  <1> HIDE DEF entry
  <1> DEFINE b == ShiftLeft(Reflect(i, 8), 24)
             r(j) == Reflect(e[j], 32)
  <1>6. /\ e[0] = b
        /\ \A j \in 1 .. 8 : e[j] = DivideStep(e[j - 1])
    <2>1. 0 \in 0 .. 8 /\ \A j \in 1 .. 8 : j \in 0 .. 8 /\ j # 0
      OBVIOUS
    <2> QED BY <1>5, <2>1
  <1>7. b \in SUBSET Word
    BY DEF ShiftLeft
  <1>8. Reflect(b, 32) = i
    <2> DEFINE a == Reflect(i, 8)
    <2>1. ASSUME NEW x PROVE x \in a <=> x \in Byte /\ 7 - x \in i
      <3>1. a = {8 - 1 - y : y \in i \cap 0 .. 8 - 1}
        BY DEF Reflect
      <3>2. ASSUME x \in a PROVE x \in Byte /\ 7 - x \in i
        <4>1. PICK y \in i \cap 0 .. 8 - 1 : x = 8 - 1 - y
          BY <3>1, <3>2
        <4>2. y \in 0 .. 7 /\ x = 7 - y /\ 7 - x = y
          BY <4>1
        <4> QED BY <4>2 DEF Byte
      <3>3. ASSUME x \in Byte, 7 - x \in i PROVE x \in a
        <4>1. 7 - x \in i \cap 0 .. 8 - 1 /\ x = 8 - 1 - (7 - x)
          BY <3>3 DEF Byte
        <4> QED BY <3>1, <4>1
      <3> QED BY <3>2, <3>3
    <2> HIDE DEF a
    <2>2. a \in SUBSET Word
      <3>1. Byte \subseteq Word
        BY DEF Byte, Word
      <3> QED BY <2>1, <3>1
    <2>3. \A x : x \in b <=> x \in Word /\ x - 24 \in a
      BY <2>2, InShiftLeft DEF a
    <2> HIDE DEF b
    <2>4. b \in SUBSET Int
      BY <1>7, PolynomialBits
    <2>5. ASSUME NEW x PROVE x \in Reflect(b, 32) <=> x \in i
      <3>1. x \in Reflect(b, 32) <=> x \in Word /\ 31 - x \in b
        BY <2>4, InReflect
      <3>2. ASSUME x \in i PROVE x \in Reflect(b, 32)
        <4>1. x \in 0 .. 7
          BY <3>2 DEF Byte
        <4>2. x \in Word /\ 31 - x \in Word /\ (31 - x) - 24 \in Byte /\ 7 - ((31 - x) - 24) = x
          BY <4>1 DEF Word, Byte
        <4> QED BY <2>1, <2>3, <3>1, <3>2, <4>2
      <3>3. ASSUME x \in Reflect(b, 32) PROVE x \in i
        <4>1. x \in 0 .. 31 /\ 7 - ((31 - x) - 24) \in i
          BY <2>1, <2>3, <3>1, <3>3 DEF Word
        <4>2. 7 - ((31 - x) - 24) = x
          BY <4>1
        <4> QED BY <4>1, <4>2
      <3> QED BY <3>2, <3>3
    <2> QED BY <2>5
  <1> HIDE DEF b
  <1>9. ASSUME NEW j \in 1 .. 8, e[j - 1] \in SUBSET Word
        PROVE  e[j] \in SUBSET Word /\ r(j) = Rolled(r(j - 1))
    BY <1>6, <1>9, DivideStepIs
  <1>10. r(0) = i /\ e[0] \in SUBSET Word
    BY <1>6, <1>7, <1>8
  <1>11. r(1) = Rolled(r(0)) /\ e[1] \in SUBSET Word
    BY <1>9, <1>10
  <1>12. r(2) = Rolled(r(1)) /\ e[2] \in SUBSET Word
    BY <1>9, <1>11
  <1>13. r(3) = Rolled(r(2)) /\ e[3] \in SUBSET Word
    BY <1>9, <1>12
  <1>14. r(4) = Rolled(r(3)) /\ e[4] \in SUBSET Word
    BY <1>9, <1>13
  <1>15. r(5) = Rolled(r(4)) /\ e[5] \in SUBSET Word
    BY <1>9, <1>14
  <1>16. r(6) = Rolled(r(5)) /\ e[6] \in SUBSET Word
    BY <1>9, <1>15
  <1>17. r(7) = Rolled(r(6)) /\ e[7] \in SUBSET Word
    BY <1>9, <1>16
  <1>18. r(8) = Rolled(r(7))
    BY <1>9, <1>17
  <1> HIDE DEF r
  <1>19. r(8) = EightTimes(i)
    BY <1>10, <1>11, <1>12, <1>13, <1>14, <1>15, <1>16, <1>17, <1>18, Zenon
       DEF EightTimes, FourTimes, Twice
  <1> QED BY <1>5, <1>19 DEF r

\* A byte of the table-driven checksum: eight steps with the byte mixed in.
LEMMA NextCrcIs ==
    ASSUME NEW crc \in SUBSET Word, NEW byte \in SUBSET Byte
    PROVE  /\ NextCrc(crc, byte) = EightTimes(Xor(crc, byte))
           /\ NextCrc(crc, byte) \in SUBSET Word
  <1> DEFINE i == Xor(crc \cap Byte, byte)
             high == crc \ Byte
  <1>1. Byte \subseteq Word /\ \A b \in Word \ Byte : b >= 8
    BY DEF Byte, Word
  <1>2. i \in SUBSET Byte /\ i \in SUBSET Word /\ high \in SUBSET Word /\ Above(high, 8)
    BY <1>1 DEF Xor, Above
  <1>3. Xor(crc, byte) = Xor(high, i)
    BY DEF Xor
  <1>4. ShiftRight(crc, 8) = ShiftRight(high, 8)
    <2>1. ASSUME NEW x \in Word, x + 8 \in crc PROVE x + 8 \in high
      BY <2>1 DEF Word, Byte
    <2>2. \A x : x \in ShiftRight(crc, 8) <=> x \in ShiftRight(high, 8)
      <3> HIDE DEF high
      <3>1. \A x : x \in ShiftRight(crc, 8) <=> x \in Word /\ x + 8 \in crc
        BY InShiftRight
      <3>2. \A x : x \in ShiftRight(high, 8) <=> x \in Word /\ x + 8 \in high
        BY <1>2, InShiftRight
      <3> QED BY <2>1, <3>1, <3>2 DEF high
    <2> QED BY <2>2
  <1>5. NextCrc(crc, byte) = Xor(ShiftRight(crc, 8), crc32_table[i])
    BY DEF NextCrc
  <1> HIDE DEF i, high
  <1>6. crc32_table[i] = EightTimes(i) /\ ShiftRight(high, 8) = EightTimes(high)
    BY <1>2, TableIs, Shifted
  <1>7. Xor(EightTimes(high), EightTimes(i)) = EightTimes(Xor(high, i))
    BY <1>2, EightTimesIs
  <1>8. Xor(high, i) \in SUBSET Word
    BY <1>2, RolledIs
  <1>9. EightTimes(Xor(high, i)) \in SUBSET Word
    BY <1>8, EightTimesIs
  <1> QED BY <1>3, <1>4, <1>5, <1>6, <1>7, <1>9
-----------------------------------------------------------------------------
(* The long division. *)

\* What is left to divide: the rest of the message, and the register below exponent m.
Level(c, t, m) == Xor(t, {m - 1 - b : b \in c})
Below(t, m) == t \in SUBSET Int /\ \A e \in t : e < m
LongStep(r, n) == IF n \in r THEN Xor(r, {d + n - 32 : d \in Divisor}) ELSE r

LEMMA InLevel ==
    ASSUME NEW c \in SUBSET Word, NEW t \in SUBSET Int, NEW m \in Int, NEW x
    PROVE  x \in Level(c, t, m) <=> x \in Int /\ ~(x \in t <=> m - 1 - x \in c)
  <1> DEFINE R == {m - 1 - b : b \in c}
  <1>1. x \in Level(c, t, m) <=> ~(x \in t <=> x \in R)
    BY InXor DEF Level
  <1>2. ASSUME x \in R PROVE x \in Int /\ m - 1 - x \in c
    <2>1. PICK b \in c : x = m - 1 - b
      BY <1>2
    <2>2. b \in Int
      BY DEF Word
    <2>3. m - 1 - x = b
      BY <2>1, <2>2
    <2> QED BY <2>1, <2>2, <2>3
  <1>3. ASSUME x \in Int, m - 1 - x \in c PROVE x \in R
    <2>1. x = m - 1 - (m - 1 - x)
      BY <1>3
    <2> QED BY <1>3, <2>1
  <1> HIDE DEF R
  <1> QED BY <1>1, <1>2, <1>3

LEMMA LongStepIs ==
    ASSUME NEW c \in SUBSET Word, NEW n \in Int, NEW m, m = n + 1, NEW t, Below(t, n)
    PROVE  LongStep(Level(c, t, m), n) = Level(Rolled(c), t, n)
  <1> DEFINE r == Level(c, t, m)
             D == {d + n - 32 : d \in Divisor}
             C == Rolled(c)
  <1>1. t \in SUBSET Int /\ \A e \in t : e < n
    BY DEF Below
  <1>2. \A x : x \in r <=> x \in Int /\ ~(x \in t <=> m - 1 - x \in c)
    BY <1>1, InLevel
  <1>3. n \in r <=> 0 \in c
    <2>1. n \notin t /\ m - 1 - n = 0
      BY <1>1
    <2> HIDE DEF r
    <2> QED BY <1>2, <2>1
  <1>4. ASSUME NEW x PROVE x \in D <=> x \in Int /\ (x = n \/ x - n + 32 \in ulPolynomial)
    <2>1. ASSUME x \in D PROVE x \in Int /\ (x = n \/ x - n + 32 \in ulPolynomial)
      <3>1. PICK d \in Divisor : x = d + n - 32
        BY <2>1
      <3>2. d \in Int /\ (d = 32 \/ d \in ulPolynomial)
        BY PolynomialBits DEF Divisor
      <3>3. x - n + 32 = d /\ x \in Int
        BY <3>1, <3>2
      <3> QED BY <3>1, <3>2, <3>3
    <2>2. ASSUME x \in Int, x = n \/ x - n + 32 \in ulPolynomial PROVE x \in D
      <3>1. x - n + 32 \in Divisor
        BY <2>2 DEF Divisor
      <3>2. x = (x - n + 32) + n - 32
        BY <2>2
      <3> QED BY <3>1, <3>2
    <2> HIDE DEF D
    <2> QED BY <2>1, <2>2
  <1>5. C \in SUBSET Word
    BY RolledIs
  <1>6. \A x : x \in Level(C, t, n) <=> x \in Int /\ ~(x \in t <=> n - 1 - x \in C)
    BY <1>1, <1>5, InLevel
  <1> DEFINE l == LongStep(r, n)
  <1>7. \A x : x \in l <=> IF 0 \in c THEN ~(x \in r <=> x \in D) ELSE x \in r
    <2> HIDE DEF r, D
    <2>1. \A x : x \in Xor(r, D) <=> ~(x \in r <=> x \in D)
      BY InXor
    <2>2. l = IF n \in r THEN Xor(r, D) ELSE r
      BY DEF LongStep, D
    <2> HIDE DEF l
    <2> QED BY <1>3, <2>1, <2>2
  <1> HIDE DEF l, r, D
  <1>8. ASSUME NEW x PROVE x \in l <=> x \in Level(C, t, n)
    <2>1. CASE x \notin Int
      BY <1>2, <1>4, <1>6, <1>7, <2>1
    <2>2. CASE x \in Int
      <3>1. n - 1 - x \in C <=> /\ n - 1 - x \in Word
                                /\ ~(n - 1 - x + 1 \in c
                                     <=> (0 \in c /\ 31 - (n - 1 - x) \in ulPolynomial))
        BY InRolled
      <3> HIDE DEF C
      <3>2. n - 1 - x + 1 = n - x /\ 31 - (n - 1 - x) = x - n + 32 /\ m - 1 - x = n - x
        BY <2>2
      <3>3. n - x \in c /\ x # n => n - 1 - x \in Word
        <4> SUFFICES ASSUME n - x \in c, x # n PROVE n - 1 - x \in Word
          OBVIOUS
        <4>1. n - x \in 0 .. 31
          BY DEF Word
        <4> QED BY <2>2, <4>1 DEF Word
      <3>4. x - n + 32 \in ulPolynomial => n - 1 - x \in Word
        <4> SUFFICES ASSUME x - n + 32 \in ulPolynomial PROVE n - 1 - x \in Word
          OBVIOUS
        <4>1. x - n + 32 \in 0 .. 31
          BY PolynomialBits DEF Word
        <4> QED BY <2>2, <4>1 DEF Word
      <3>5. CASE x = n
        <4>1. n - x = 0 /\ n - 1 - x \notin Word /\ x \notin t
          BY <1>1, <3>5 DEF Word
        <4>2. x \in r <=> 0 \in c
          BY <1>3, <3>5
        <4>3. x \in D
          BY <1>4, <2>2, <3>5
        <4> QED BY <1>6, <1>7, <2>2, <3>1, <4>1, <4>2, <4>3
      <3>6. CASE x # n
        <4>1. x \in r <=> ~(x \in t <=> n - x \in c)
          BY <1>2, <2>2, <3>2
        <4>2. x \in D <=> x - n + 32 \in ulPolynomial
          BY <1>4, <2>2, <3>6
        <4>3. n - 1 - x \in C <=> /\ n - 1 - x \in Word
                                  /\ ~(n - x \in c <=> (0 \in c /\ x - n + 32 \in ulPolynomial))
          BY <3>1, <3>2
        <4>4. x \in l <=> IF 0 \in c THEN ~(x \in r <=> x \in D) ELSE x \in r
          BY <1>7
        <4>5. x \in Level(C, t, n) <=> ~(x \in t <=> n - 1 - x \in C)
          BY <1>6, <2>2
        <4> QED BY <3>3, <3>4, <3>6, <4>1, <4>2, <4>3, <4>4, <4>5
      <3> QED BY <3>5, <3>6
    <2> QED BY <2>1, <2>2
  <1> QED BY <1>8 DEF l, r, C

LEMMA EightLongSteps ==
    ASSUME NEW c \in SUBSET Word, NEW m \in Int, NEW t, Below(t, m - 8), NEW g,
           g[m] = Level(c, t, m), \A n \in m - 8 .. m - 1 : g[n] = LongStep(g[n + 1], n)
    PROVE  g[m - 8] = Level(EightTimes(c), t, m - 8)
  <1>1. ASSUME NEW a \in SUBSET Word, NEW k \in 0 .. 7, g[m - k] = Level(a, t, m - k)
        PROVE  g[m - (k + 1)] = Level(Rolled(a), t, m - (k + 1)) /\ Rolled(a) \in SUBSET Word
    <2> DEFINE n == m - (k + 1)
               h == m - k
    <2>1. n \in m - 8 .. m - 1 /\ n \in Int /\ h = n + 1 /\ n >= m - 8
      OBVIOUS
    <2>2. g[n] = LongStep(g[n + 1], n)
      BY <2>1
    <2>3. g[h] = Level(a, t, h)
      BY <1>1
    <2> HIDE DEF n, h
    <2>4. Below(t, n)
      <3>1. ASSUME NEW e \in t PROVE e < n
        <4>1. e \in Int /\ e < m - 8
          BY DEF Below
        <4> QED BY <2>1, <4>1
      <3> QED BY <3>1 DEF Below
    <2>5. LongStep(Level(a, t, h), n) = Level(Rolled(a), t, n)
      BY <2>1, <2>4, LongStepIs
    <2>6. g[n] = Level(Rolled(a), t, n)
      BY <2>1, <2>2, <2>3, <2>5
    <2> QED BY <2>6, RolledIs DEF n
  <1> DEFINE c1 == Rolled(c)
             c2 == Rolled(c1)
             c3 == Rolled(c2)
             c4 == Rolled(c3)
             c5 == Rolled(c4)
             c6 == Rolled(c5)
             c7 == Rolled(c6)
             c8 == Rolled(c7)
  <1>2. EightTimes(c) = c8
    BY Zenon DEF EightTimes, FourTimes, Twice
  <1> HIDE DEF c8
  <1>3. c8 = Rolled(c7)
    BY DEF c8
  <1> HIDE DEF c7
  <1>4. c7 = Rolled(c6)
    BY DEF c7
  <1> HIDE DEF c6
  <1>5. c6 = Rolled(c5)
    BY DEF c6
  <1> HIDE DEF c5
  <1>6. c5 = Rolled(c4)
    BY DEF c5
  <1> HIDE DEF c4
  <1>7. c4 = Rolled(c3)
    BY DEF c4
  <1> HIDE DEF c3
  <1>8. c3 = Rolled(c2)
    BY DEF c3
  <1> HIDE DEF c2
  <1>9. c2 = Rolled(c1)
    BY DEF c2
  <1> HIDE DEF c1
  <1>10. c1 = Rolled(c)
    BY DEF c1
  <1>11. g[m - 0] = Level(c, t, m - 0)
    <2>1. m - 0 = m
      OBVIOUS
    <2> QED BY <2>1
  <1>12. g[m - 1] = Level(c1, t, m - 1) /\ c1 \in SUBSET Word
    <2>1. g[m - (0 + 1)] = Level(c1, t, m - (0 + 1)) /\ c1 \in SUBSET Word
      BY <1>1, <1>10, <1>11
    <2> QED BY <2>1
  <1>13. g[m - 2] = Level(c2, t, m - 2) /\ c2 \in SUBSET Word
    <2>1. g[m - (1 + 1)] = Level(c2, t, m - (1 + 1)) /\ c2 \in SUBSET Word
      BY <1>1, <1>9, <1>12
    <2> QED BY <2>1
  <1>14. g[m - 3] = Level(c3, t, m - 3) /\ c3 \in SUBSET Word
    <2>1. g[m - (2 + 1)] = Level(c3, t, m - (2 + 1)) /\ c3 \in SUBSET Word
      BY <1>1, <1>8, <1>13
    <2> QED BY <2>1
  <1>15. g[m - 4] = Level(c4, t, m - 4) /\ c4 \in SUBSET Word
    <2>1. g[m - (3 + 1)] = Level(c4, t, m - (3 + 1)) /\ c4 \in SUBSET Word
      BY <1>1, <1>7, <1>14
    <2> QED BY <2>1
  <1>16. g[m - 5] = Level(c5, t, m - 5) /\ c5 \in SUBSET Word
    <2>1. g[m - (4 + 1)] = Level(c5, t, m - (4 + 1)) /\ c5 \in SUBSET Word
      BY <1>1, <1>6, <1>15
    <2> QED BY <2>1
  <1>17. g[m - 6] = Level(c6, t, m - 6) /\ c6 \in SUBSET Word
    <2>1. g[m - (5 + 1)] = Level(c6, t, m - (5 + 1)) /\ c6 \in SUBSET Word
      BY <1>1, <1>5, <1>16
    <2> QED BY <2>1
  <1>18. g[m - 7] = Level(c7, t, m - 7) /\ c7 \in SUBSET Word
    <2>1. g[m - (6 + 1)] = Level(c7, t, m - (6 + 1)) /\ c7 \in SUBSET Word
      BY <1>1, <1>4, <1>17
    <2> QED BY <2>1
  <1>19. g[m - 8] = Level(c8, t, m - 8)
    <2>1. g[m - (7 + 1)] = Level(c8, t, m - (7 + 1))
      BY <1>1, <1>3, <1>18
    <2> QED BY <2>1
  <1> QED BY <1>2, <1>19

\* The rests of a long division, of exponents down to 32.
Divides(g, p, top) ==
    /\ g[top] = p
    /\ \A n \in 32 .. top - 1 : g[n] = LongStep(g[n + 1], n)

LEMMA RestsExist ==
    ASSUME NEW p \in SUBSET Int, NEW top \in Int, top >= 32
    PROVE  \E g : Divides(g, p, top) /\ DOMAIN g = 32 .. top /\ g = [n \in 32 .. top |-> g[n]]
  <1> DEFINE N == top - 32
             S == SUBSET Int
             step == [q \in (1 .. N) \X S |-> LongStep(q[2], top - q[1])]
  <1>1. N \in Nat /\ p \in S
    OBVIOUS
  <1>2. step \in [(1 .. N) \X S -> S]
    <2> SUFFICES ASSUME NEW q \in (1 .. N) \X S PROVE LongStep(q[2], top - q[1]) \in S
      OBVIOUS
    <2>1. q[2] \in SUBSET Int /\ top - q[1] \in Int
      OBVIOUS
    <2>2. \A n \in Int : {d + n - 32 : d \in Divisor} \in SUBSET Int
      <3>1. Divisor \subseteq Int
        BY PolynomialBits DEF Divisor
      <3> QED BY <3>1
    <2> QED BY <2>1, <2>2 DEF LongStep, Xor
  <1>3. PICK f : Stepwise(f, p, step, N, S)
    <2> HIDE DEF S, step, N
    <2> QED BY <1>1, <1>2, FoldExists
  <1>4. ASSUME NEW k \in 1 .. N PROVE f[k] = LongStep(f[k - 1], top - k)
    <2>1. k - 1 \in 0 .. N
      OBVIOUS
    <2>2. <<k, f[k - 1]>> \in (1 .. N) \X S
      BY <1>3, <2>1 DEF Stepwise
    <2>3. step[<<k, f[k - 1]>>] = LongStep(f[k - 1], top - k)
      BY <2>2
    <2> QED BY <1>3, <2>3 DEF Stepwise
  <1> DEFINE g == [n \in 32 .. top |-> f[top - n]]
  <1>5. g[top] = p
    <2>1. top \in 32 .. top /\ top - top = 0
      OBVIOUS
    <2> QED BY <1>3, <2>1 DEF Stepwise
  <1>6. ASSUME NEW n \in 32 .. top - 1 PROVE g[n] = LongStep(g[n + 1], n)
    <2> DEFINE k == top - n
    <2>1. k \in 1 .. N /\ n \in 32 .. top /\ n + 1 \in 32 .. top /\ top - (n + 1) = k - 1
          /\ top - k = n
      OBVIOUS
    <2>2. g[n] = f[k] /\ g[n + 1] = f[k - 1]
      BY <2>1
    <2> HIDE DEF g, k
    <2> QED BY <1>4, <2>1, <2>2
  <1>7. g = [n \in 32 .. top |-> g[n]] /\ DOMAIN g = 32 .. top
    OBVIOUS
  <1> HIDE DEF g
  <1> QED BY <1>5, <1>6, <1>7 DEF Divides

LEMMA RemainderIs ==
    ASSUME NEW p \in SUBSET Int, NEW top \in Int, top >= 32
    PROVE  \E g : Divides(g, p, top) /\ Remainder(p, top) = g[32]
  <1> DEFINE rest[n \in 32 .. top] ==
                 IF n = top THEN p
                 ELSE LET r == rest[n + 1]
                      IN  IF n \in r THEN Xor(r, {d + n - 32 : d \in Divisor}) ELSE r
  <1>1. Remainder(p, top) = rest[32]
    BY Zenon DEF Remainder
  <1>2. PICK f : Divides(f, p, top) /\ f = [n \in 32 .. top |-> f[n]]
    BY RestsExist
  <1>3. f = [n \in 32 .. top |-> IF n = top THEN p ELSE LongStep(f[n + 1], n)]
    <2>1. ASSUME NEW n \in 32 .. top
          PROVE  f[n] = IF n = top THEN p ELSE LongStep(f[n + 1], n)
      <3>1. n # top => n \in 32 .. top - 1
        OBVIOUS
      <3> QED BY <1>2, <3>1 DEF Divides
    <2> QED BY <1>2, <2>1, Zenon
  <1>4. rest = [n \in 32 .. top |-> IF n = top THEN p ELSE LongStep(rest[n + 1], n)]
    BY <1>3 DEF LongStep
  <1>5. PICK g : /\ g = [n \in 32 .. top |-> IF n = top THEN p ELSE LongStep(g[n + 1], n)]
                 /\ Remainder(p, top) = g[32]
    <2> HIDE DEF rest
    <2> QED BY <1>1, <1>4
  <1>6. g[top] = p
    <2>1. top \in 32 .. top
      OBVIOUS
    <2> QED BY <1>5, <2>1
  <1>7. ASSUME NEW n \in 32 .. top - 1 PROVE g[n] = LongStep(g[n + 1], n)
    <2>1. n \in 32 .. top /\ n # top
      OBVIOUS
    <2> QED BY <1>5, <2>1
  <1> QED BY <1>5, <1>6, <1>7 DEF Divides
-----------------------------------------------------------------------------
(* The message and the register, byte by byte. *)

Registers(c, buffer) ==
    /\ c \in [0 .. Len(buffer) -> SUBSET Word] /\ c[0] = Word
    /\ \A k \in 1 .. Len(buffer) : c[k] = NextCrc(c[k - 1], buffer[k])

LEMMA RegistersExist ==
    ASSUME NEW buffer \in Seq(SUBSET Byte)
    PROVE  \E c : Registers(c, buffer)
  <1> DEFINE N == Len(buffer)
             S == SUBSET Word
             step == [q \in (1 .. N) \X S |-> NextCrc(q[2], buffer[q[1]])]
  <1>1. N \in Nat /\ Word \in S
    OBVIOUS
  <1>2. step \in [(1 .. N) \X S -> S]
    <2> SUFFICES ASSUME NEW q \in (1 .. N) \X S PROVE NextCrc(q[2], buffer[q[1]]) \in S
      OBVIOUS
    <2>1. q[2] \in SUBSET Word /\ buffer[q[1]] \in SUBSET Byte
      BY ElementOfSeq
    <2> QED BY <2>1, NextCrcIs
  <1>3. PICK f : Stepwise(f, Word, step, N, S)
    <2> HIDE DEF S, step, N
    <2> QED BY <1>1, <1>2, FoldExists
  <1>4. ASSUME NEW k \in 1 .. N PROVE f[k] = NextCrc(f[k - 1], buffer[k])
    <2>1. k - 1 \in 0 .. N
      OBVIOUS
    <2>2. <<k, f[k - 1]>> \in (1 .. N) \X S
      BY <1>3, <2>1 DEF Stepwise
    <2>3. step[<<k, f[k - 1]>>] = NextCrc(f[k - 1], buffer[k])
      BY <2>2
    <2> QED BY <1>3, <2>3 DEF Stepwise
  <1> QED BY <1>3, <1>4 DEF Stepwise, Registers

LEMMA CrcIs ==
    ASSUME NEW buffer \in Seq(SUBSET Byte)
    PROVE  \E c : Registers(c, buffer) /\ Get_CRC(buffer) = Xor(c[Len(buffer)], Word)
  <1> DEFINE N == Len(buffer)
             crc[n \in 0 .. Len(buffer)] ==
                 IF n = 0 THEN Word ELSE NextCrc(crc[n - 1], buffer[n])
  <1>0. N \in Nat
    OBVIOUS
  <1>1. Get_CRC(buffer) = Xor(crc[N], Word)
    BY Zenon DEF Get_CRC
  <1>2. PICK f : Registers(f, buffer)
    BY RegistersExist
  <1>3. f = [n \in 0 .. N |-> IF n = 0 THEN Word ELSE NextCrc(f[n - 1], buffer[n])]
    <2>1. f = [n \in 0 .. N |-> f[n]]
      BY <1>2 DEF Registers
    <2>2. ASSUME NEW n \in 0 .. N
          PROVE  f[n] = IF n = 0 THEN Word ELSE NextCrc(f[n - 1], buffer[n])
      <3>1. n # 0 => n \in 1 .. N
        OBVIOUS
      <3> QED BY <1>2, <3>1 DEF Registers
    <2> QED BY <2>1, <2>2, Zenon
  <1>4. crc = [n \in 0 .. N |-> IF n = 0 THEN Word ELSE NextCrc(crc[n - 1], buffer[n])]
    BY <1>3
  <1>5. PICK c : /\ c = [n \in 0 .. N |-> IF n = 0 THEN Word ELSE NextCrc(c[n - 1], buffer[n])]
                 /\ Get_CRC(buffer) = Xor(c[N], Word)
    <2> HIDE DEF crc, N
    <2> QED BY <1>1, <1>4
  <1> HIDE DEF N, crc
  <1>6. c[0] = Word
    <2>1. 0 \in 0 .. N
      BY <1>0
    <2> QED BY <1>5, <2>1
  <1>7. ASSUME NEW k \in 1 .. N PROVE c[k] = NextCrc(c[k - 1], buffer[k])
    <2>1. k \in 0 .. N /\ k # 0
      BY <1>0
    <2> QED BY <1>5, <2>1
  <1>8. AlikeSteps(c, f, N)
    <2>1. c[0] = f[0]
      BY <1>2, <1>6 DEF Registers
    <2>2. ASSUME NEW k \in 1 .. N, c[k - 1] = f[k - 1] PROVE c[k] = f[k]
      BY <1>2, <1>7, <2>2 DEF Registers, N
    <2> QED BY <2>1, <2>2 DEF AlikeSteps
  <1>9. c[N] = f[N]
    <2>1. \A n \in 0 .. N : c[n] = f[n]
      BY <1>0, <1>8, SameSteps
    <2> QED BY <1>0, <2>1
  <1> QED BY <1>2, <1>5, <1>9 DEF N

\* The part of the message that k bytes leave.
TailOf(buffer, k) == {e \in Message(buffer) : e < 8 * Len(buffer) + 32 - 8 * k}

LEMMA InMessage ==
    ASSUME NEW buffer \in Seq(SUBSET Byte), NEW x
    PROVE  x \in Message(buffer) <=>
             \E i \in 1 .. Len(buffer) : \E b \in buffer[i] :
                x = 8 * Len(buffer) + 31 - (8 * (i - 1) + b)
  BY LenProperties DEF Message

LEMMA MessageBytes ==
    ASSUME NEW buffer \in Seq(SUBSET Byte), NEW k \in 0 .. Len(buffer) - 1, NEW m \in Int,
           m = 8 * Len(buffer) + 32 - 8 * k
    PROVE  /\ TailOf(buffer, k) = Level(buffer[k + 1], TailOf(buffer, k + 1), m)
           /\ Below(TailOf(buffer, k + 1), m - 8)
  <1> DEFINE N == Len(buffer)
             M == Message(buffer)
             byte == buffer[k + 1]
             t == TailOf(buffer, k)
             u == TailOf(buffer, k + 1)
  <1>1. N \in Nat /\ k \in Nat /\ k + 1 \in 1 .. N
    OBVIOUS
  <1>2. \A i \in 1 .. N : buffer[i] \in SUBSET Byte
    BY ElementOfSeq
  <1>3. byte \in SUBSET Byte /\ byte \in SUBSET Word
    <2>1. Byte \subseteq Word
      BY DEF Byte, Word
    <2> HIDE DEF N
    <2> QED BY <1>1, <1>2, <2>1
  <1>4. \A x : x \in M <=> \E i \in 1 .. N : \E b \in buffer[i] :
                              x = 8 * N + 31 - (8 * (i - 1) + b)
    BY InMessage
  <1>5. /\ \A x : x \in t <=> x \in M /\ x < m
        /\ \A x : x \in u <=> x \in M /\ x < m - 8
    <2>1. m - 8 = 8 * N + 32 - 8 * (k + 1)
      BY <1>1
    <2>2. t = {e \in M : e < m} /\ u = {e \in M : e < m - 8}
      BY <2>1, Zenon DEF TailOf
    <2> HIDE DEF t, u, M
    <2> QED BY <2>2
  <1> HIDE DEF N, M, byte, t, u
  <1>6. M \in SUBSET Int
    <2> SUFFICES ASSUME NEW x \in M PROVE x \in Int
      OBVIOUS
    <2>1. PICK i \in 1 .. N : \E b \in buffer[i] : x = 8 * N + 31 - (8 * (i - 1) + b)
      BY <1>4
    <2>2. PICK b \in buffer[i] : x = 8 * N + 31 - (8 * (i - 1) + b)
      BY <2>1
    <2>3. b \in 0 .. 7
      BY <1>2 DEF Byte
    <2> QED BY <1>1, <2>2, <2>3
  <1>7. Below(u, m - 8)
    BY <1>5, <1>6 DEF Below
  <1>8. ASSUME NEW x \in M, x < m, ~(x < m - 8) PROVE m - 1 - x \in byte
    <2>1. PICK i \in 1 .. N : \E b \in buffer[i] : x = 8 * N + 31 - (8 * (i - 1) + b)
      BY <1>4
    <2>2. PICK b \in buffer[i] : x = 8 * N + 31 - (8 * (i - 1) + b)
      BY <2>1
    <2>3. b \in 0 .. 7
      BY <1>2 DEF Byte
    <2>4. m = 8 * N + 32 - 8 * k
      BY DEF N
    <2>5. i = k + 1 /\ m - 1 - x = b
      BY <1>1, <1>8, <2>2, <2>3, <2>4
    <2> QED BY <2>2, <2>5 DEF byte
  <1>9. ASSUME NEW x \in Int, m - 1 - x \in byte PROVE x \in M /\ x < m /\ ~(x < m - 8)
    <2> DEFINE b == m - 1 - x
    <2>1. b \in 0 .. 7
      BY <1>3, <1>9 DEF Byte
    <2>2. m = 8 * N + 32 - 8 * k
      BY DEF N
    <2>3. x = 8 * N + 31 - (8 * ((k + 1) - 1) + b) /\ x < m /\ ~(x < m - 8)
      BY <1>1, <2>1, <2>2
    <2>4. b \in buffer[k + 1]
      BY <1>9 DEF byte
    <2> HIDE DEF b
    <2> QED BY <1>1, <1>4, <2>3, <2>4
  <1>10. u \in SUBSET Int
    BY <1>7 DEF Below
  <1>11. ASSUME NEW x PROVE x \in t <=> x \in Level(byte, u, m)
    <2>1. x \in Level(byte, u, m) <=> x \in Int /\ ~(x \in u <=> m - 1 - x \in byte)
      BY <1>3, <1>10, InLevel
    <2>2. CASE x \notin Int
      BY <1>5, <1>6, <2>1, <2>2
    <2>3. CASE x \in Int
      <3>1. x < m - 8 => x < m
        BY <2>3
      <3>2. x \in M /\ x < m /\ ~(x < m - 8) => m - 1 - x \in byte
        BY <1>8
      <3>3. m - 1 - x \in byte => x \in M /\ x < m /\ ~(x < m - 8)
        BY <1>9, <2>3
      <3> QED BY <1>5, <2>1, <2>3, <3>1, <3>2, <3>3
    <2> QED BY <2>2, <2>3
  <1>12. t = Level(byte, u, m)
    <2>1. \A x \in Level(byte, u, m) : x \in t
      BY <1>11
    <2> QED BY <1>11, <2>1
  <1> QED BY <1>7, <1>12 DEF t, u, byte

\* A byte of the message goes into the register.
LEMMA LevelMixes ==
    ASSUME NEW c \in SUBSET Word, NEW d \in SUBSET Word, NEW u \in SUBSET Int, NEW m \in Int
    PROVE  Level(c, Level(d, u, m), m) = Level(Xor(c, d), u, m)
  <1> DEFINE t == Level(d, u, m)
             e == Xor(c, d)
  <1>1. \A x : x \in t <=> x \in Int /\ ~(x \in u <=> m - 1 - x \in d)
    BY InLevel
  <1>2. e \in SUBSET Word /\ \A y : y \in e <=> ~(y \in c <=> y \in d)
    BY RolledIs, InXor
  <1> HIDE DEF t, e
  <1>3. t \in SUBSET Int
    BY <1>1
  <1>4. \A x : x \in Level(c, t, m) <=> x \in Int /\ ~(x \in t <=> m - 1 - x \in c)
    BY <1>3, InLevel
  <1>5. \A x : x \in Level(e, u, m) <=> x \in Int /\ ~(x \in u <=> m - 1 - x \in e)
    BY <1>2, InLevel
  <1>6. ASSUME NEW x PROVE x \in Level(c, t, m) <=> x \in Level(e, u, m)
    <2>1. m - 1 - x \in e <=> ~(m - 1 - x \in c <=> m - 1 - x \in d)
      BY <1>2
    <2> QED BY <1>1, <1>4, <1>5, <2>1
  <1> QED BY <1>6 DEF t, e

LEMMA ChecksumIs ==
    ASSUME NEW buffer \in Seq(SUBSET Byte)
    PROVE  Get_CRC(buffer) = PolynomialChecksum(buffer)
  <1> DEFINE N == Len(buffer)
             top == 8 * N + 32
             p == Level(Word, Message(buffer), top)
  <1>1. N \in Nat /\ top \in Int /\ top >= 32 /\ Word \in SUBSET Word
    <2>1. N \in Nat
      OBVIOUS
    <2> HIDE DEF N
    <2> QED BY <2>1
  <1>2. PICK c : Registers(c, buffer) /\ Get_CRC(buffer) = Xor(c[N], Word)
    BY CrcIs
  <1>3. PolynomialChecksum(buffer) = Xor(Reflect(Remainder(p, top), 32), Word)
    BY Zenon DEF PolynomialChecksum, Level
  <1>4. /\ Message(buffer) \in SUBSET Int
        /\ Message(buffer) = TailOf(buffer, 0) /\ TailOf(buffer, N) = {}
    <2>1. ASSUME NEW x \in Message(buffer) PROVE x \in Int /\ x < top - 0 /\ ~(x < top - 8 * N)
      <3>1. PICK i \in 1 .. N : \E b \in buffer[i] : x = 8 * N + 31 - (8 * (i - 1) + b)
        BY InMessage
      <3>2. PICK b \in buffer[i] : x = 8 * N + 31 - (8 * (i - 1) + b)
        BY <3>1
      <3>3. buffer[i] \in SUBSET Byte
        BY ElementOfSeq
      <3>4. b \in 0 .. 7
        BY <3>3 DEF Byte
      <3> HIDE DEF N
      <3> QED BY <1>1, <3>2, <3>4
    <2>2. TailOf(buffer, 0) = {e \in Message(buffer) : e < top - 8 * 0}
      BY DEF TailOf
    <2>3. TailOf(buffer, N) = {e \in Message(buffer) : e < top - 8 * N}
      BY DEF TailOf
    <2>4. 8 * 0 = 0
      OBVIOUS
    <2> HIDE DEF N, top
    <2> QED BY <2>1, <2>2, <2>3, <2>4
  <1> HIDE DEF N, top
  <1>5. p \in SUBSET Int
    <2>1. \A x : x \in p => x \in Int
      BY <1>1, <1>4, InLevel
    <2> QED BY <2>1
  <1> HIDE DEF p
  <1>6. PICK g : Divides(g, p, top) /\ Remainder(p, top) = g[32]
    BY <1>1, <1>5, RemainderIs
  <1>7. c[0] = Word /\ \A k \in 0 .. N : c[k] \in SUBSET Word
    BY <1>2 DEF Registers, N
  <1> DEFINE T == {k \in Nat : k <= N =>
                      g[top - 8 * k] = Level(c[k], TailOf(buffer, k), top - 8 * k)}
  <1>8. 0 \in T
    <2>1. g[top] = p /\ top - 8 * 0 = top
      BY <1>1, <1>6 DEF Divides
    <2>2. p = Level(Word, TailOf(buffer, 0), top)
      BY <1>4 DEF p
    <2>3. g[top - 8 * 0] = Level(c[0], TailOf(buffer, 0), top - 8 * 0)
      BY <1>7, <2>1, <2>2
    <2> QED BY <2>3
  <1>9. ASSUME NEW k \in Nat, k \in T PROVE k + 1 \in T
    <2> DEFINE m == top - 8 * k
               h == top - 8 * (k + 1)
               u == TailOf(buffer, k + 1)
               a == c[k]
               byte == buffer[k + 1]
    <2> SUFFICES ASSUME k + 1 <= N PROVE g[h] = Level(c[k + 1], u, h)
      OBVIOUS
    <2>1. g[m] = Level(a, TailOf(buffer, k), m)
      BY <1>1, <1>9
    <2>2. m \in Int /\ h = m - 8 /\ h >= 32 /\ m <= top
      BY <1>1 DEF top
    <2>3. k \in 0 .. N /\ k \in 0 .. N - 1 /\ k + 1 \in 1 .. N /\ (k + 1) - 1 = k
      BY <1>1
    <2>4. /\ TailOf(buffer, k) = Level(byte, u, m)
          /\ Below(u, m - 8)
      <3>1. m = 8 * Len(buffer) + 32 - 8 * k
        BY DEF top, N
      <3>2. k \in 0 .. Len(buffer) - 1
        BY <2>3 DEF N
      <3> HIDE DEF m
      <3> QED BY <2>2, <3>1, <3>2, MessageBytes
    <2>5. byte \in SUBSET Byte /\ byte \in SUBSET Word /\ a \in SUBSET Word
      <3>1. buffer[k + 1] \in SUBSET Byte
        BY <2>3, ElementOfSeq DEF N
      <3>2. Byte \subseteq Word
        BY DEF Byte, Word
      <3> QED BY <1>7, <2>3, <3>1, <3>2
    <2>6. c[k + 1] = NextCrc(a, byte)
      BY <1>2, <2>3 DEF Registers, N
    <2> HIDE DEF m, h, u, a, byte
    <2>7. u \in SUBSET Int
      BY <2>4 DEF Below
    <2> DEFINE e == Xor(a, byte)
    <2>8. g[m] = Level(e, u, m)
      BY <2>1, <2>2, <2>4, <2>5, <2>7, LevelMixes
    <2>9. e \in SUBSET Word
      BY <2>5, RolledIs
    <2>10. c[k + 1] = EightTimes(e)
      BY <2>5, <2>6, NextCrcIs
    <2> HIDE DEF e
    <2>11. \A n \in m - 8 .. m - 1 : g[n] = LongStep(g[n + 1], n)
      <3>1. \A n \in m - 8 .. m - 1 : n \in 32 .. top - 1
        BY <1>1, <2>2
      <3> QED BY <1>6, <3>1 DEF Divides
    <2>12. g[m - 8] = Level(EightTimes(e), u, m - 8)
      BY <2>2, <2>4, <2>8, <2>9, <2>11, EightLongSteps
    <2> QED BY <2>2, <2>10, <2>12
  <1>10. N \in T
    <2> HIDE DEF T
    <2>1. Nat \subseteq T
      BY <1>8, <1>9, SetInduction
    <2> QED BY <1>1, <2>1
  <1>11. g[32] = Level(c[N], {}, 32)
    <2>1. top - 8 * N = 32
      BY <1>1 DEF top
    <2>2. g[top - 8 * N] = Level(c[N], TailOf(buffer, N), top - 8 * N)
      BY <1>1, <1>10
    <2> QED BY <1>4, <2>1, <2>2
  <1>12. Reflect(Level(c[N], {}, 32), 32) = c[N]
    <2> DEFINE a == c[N]
               l == Level(a, {}, 32)
    <2>1. a \in SUBSET Word
      BY <1>1, <1>7
    <2> HIDE DEF a
    <2>2. \A x : x \in l <=> x \in Int /\ 32 - 1 - x \in a
      BY <2>1, InLevel
    <2> HIDE DEF l
    <2>3. l \in SUBSET Int
      BY <2>2
    <2>4. \A x : x \in Reflect(l, 32) <=> x \in Word /\ 31 - x \in l
      BY <2>3, InReflect
    <2>5. ASSUME NEW x PROVE x \in Reflect(l, 32) <=> x \in a
      <3>1. x \in Word => 31 - x \in Int /\ 32 - 1 - (31 - x) = x
        BY DEF Word
      <3> QED BY <2>1, <2>2, <2>4, <3>1
    <2> QED BY <2>5 DEF l, a
  <1> QED BY <1>2, <1>3, <1>6, <1>11, <1>12

\* The checksum of any body is the remainder of its division by the polynomial.
THEOREM ChecksumDivides == Spec => []ChecksumIsRemainder
  <1>1. Asked /\ Answered => ChecksumIsRemainder
    <2> SUFFICES ASSUME Asked, Answered, Returned("Get_CRC") PROVE ChecksumIsRemainder
      BY DEF ChecksumIsRemainder
    <2>1. call.buffer \in Buffers /\ value = Get_CRC(call.buffer)
      BY DEF Asked, Answered, Answer, Returned, value
    <2>2. call.buffer \in Seq(SUBSET Byte)
      BY <2>1, CallsOfCrc
    <2> QED BY <2>1, <2>2, ChecksumIs DEF ChecksumIsRemainder
  <1> QED BY <1>1, CallsAnswer, PTL
=============================================================================
