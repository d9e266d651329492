--------------------------- MODULE PacketRecv_proofs ---------------------------
(***************************************************************************)
(* Proofs about PacketRecv for all sizes, lengths and numbers of packets.  *)
(***************************************************************************)
EXTENDS PacketRecv, WellFoundedInduction, TLAPS

\* A body is received behind the message header and the packet header.
BodyBehindHeaders ==
    InBody => precvbuf.off >= LenMsgHeader + LenPkgHeader

IInv == TypeOK /\ RecvInBounds /\ BodyBehindHeaders

USE RecvSizes, RecvFlood, RecvLengths

LEMMA InitOK == Init => IInv
  <1> SUFFICES ASSUME Init PROVE IInv OBVIOUS
  <1>1. packets \in Seq(Lengths)
    <2>1. PICK n \in 0 .. MaxPackets : packets \in [1 .. n -> Lengths]
      BY DEF Init
    <2> QED BY <2>1
  <1>2. delivered \in Seq([start : Nat, len : LenPkgHeader .. MaxPkgLen])
    BY DEF Init
  <1> QED
    BY <1>1, <1>2 DEF Init, IInv, TypeOK, RecvInBounds, BodyBehindHeaders, InBody

\* What is left to receive is a number of bytes, and shrinks by what came.
LEMMA RecvType ==
    ASSUME TypeOK, NEW n \in 1 .. irecvlen, Recv(n)
    PROVE  n \in Nat \ {0} /\ irecvlen - n \in Nat /\ pos' \in Nat /\ packets' = packets
  BY DEF TypeOK, Recv

\* precvbuf moves on in the same buffer.
LEMMA AdvanceType ==
    ASSUME TypeOK, NEW n \in 1 .. irecvlen, Advance(n)
    PROVE  /\ precvbuf' \in [in : {"dataHeadInfo", "packet"}, off : Nat]
           /\ precvbuf'.in = precvbuf.in /\ precvbuf'.off = precvbuf.off + n
           /\ irecvlen' = irecvlen - n
           /\ precvbuf'.off + irecvlen' = precvbuf.off + irecvlen
  <1>1. n \in Nat /\ irecvlen \in Nat /\ irecvlen' = irecvlen - n
    BY DEF TypeOK, Advance
  <1>2. precvbuf \in [in : {"dataHeadInfo", "packet"}, off : Nat]
    BY DEF TypeOK
  <1>3. /\ precvbuf' \in [in : {"dataHeadInfo", "packet"}, off : Nat]
        /\ precvbuf'.in = precvbuf.in /\ precvbuf'.off = precvbuf.off + n
    BY <1>1, <1>2 DEF Advance
  <1>4. precvbuf.off \in Nat
    BY <1>2
  <1> QED BY <1>1, <1>3, <1>4

LEMMA HeaderPartOK ==
    ASSUME IInv, NEW n \in 1 .. irecvlen, HeaderPart(n)
    PROVE  IInv'
  <1>1. /\ n \in Nat \ {0} /\ irecvlen - n \in Nat /\ pos' \in Nat /\ packets' = packets
        /\ ~InBody /\ ~InBody' /\ Advance(n)
    BY RecvType DEF IInv, HeaderPart, Advance, InBody
  <1>2. TypeOK'
    BY <1>1, AdvanceType DEF IInv, TypeOK, HeaderPart, floodVars
  <1>3. RecvInBounds'
    BY <1>1, AdvanceType DEF IInv, RecvInBounds, HeaderPart
  <1> QED
    BY <1>1, <1>2, <1>3 DEF IInv, BodyBehindHeaders

LEMMA HeaderBadOK ==
    ASSUME IInv, NEW n \in 1 .. irecvlen, HeaderBad(n)
    PROVE  IInv'
  <1>1. /\ n \in Nat \ {0} /\ pos' \in Nat /\ packets' = packets
        /\ precvbuf' = [in |-> "dataHeadInfo", off |-> 0] /\ irecvlen' = LenPkgHeader
        /\ headStart' \in Nat /\ curStat' = curStat /\ ~InBody /\ ~InBody'
    BY RecvType DEF IInv, TypeOK, HeaderBad, HeaderComplete, ToHeader, InBody
  <1>2. TypeOK'
    BY <1>1 DEF IInv, TypeOK, HeaderBad, floodVars
  <1> QED
    BY <1>1, <1>2 DEF IInv, TypeOK, RecvInBounds, BodyBehindHeaders, HeaderBad

LEMMA HeaderGoodOK ==
    ASSUME IInv, NEW n \in 1 .. irecvlen, HeaderGood(n)
    PROVE  IInv'
  <1>1. PICK len \in LenPkgHeader + 1 .. MaxPkgLen :
            /\ precvMemPointer' = LenMsgHeader + len
            /\ precvbuf' = [in |-> "packet", off |-> LenMsgHeader + LenPkgHeader]
            /\ irecvlen' = len - LenPkgHeader
    BY DEF HeaderGood
  <1>2. pos' \in Nat /\ packets' = packets /\ InBody'
    BY RecvType DEF IInv, HeaderGood, InBody
  <1>3. TypeOK'
    BY <1>1, <1>2 DEF IInv, TypeOK, HeaderGood, floodVars
  <1> QED
    BY <1>1, <1>2, <1>3 DEF IInv, RecvInBounds, BodyBehindHeaders

LEMMA BodyPartOK ==
    ASSUME IInv, NEW n \in 1 .. irecvlen, BodyPart(n)
    PROVE  IInv'
  <1>1. /\ n \in Nat \ {0} /\ irecvlen - n \in Nat /\ pos' \in Nat /\ packets' = packets
        /\ InBody /\ InBody' /\ Advance(n)
    BY RecvType DEF IInv, BodyPart, Advance, InBody
  <1>2. TypeOK'
    BY <1>1, AdvanceType DEF IInv, TypeOK, BodyPart, floodVars
  <1>3. RecvInBounds'
    BY <1>1, AdvanceType DEF IInv, RecvInBounds, BodyPart
  <1>4. precvbuf.off \in Nat
    BY DEF IInv, TypeOK
  <1>5. precvbuf'.off >= precvbuf.off
    BY <1>1, <1>4, AdvanceType DEF IInv
  <1>6. BodyBehindHeaders'
    BY <1>1, <1>4, <1>5, AdvanceType DEF IInv, BodyBehindHeaders
  <1> QED
    BY <1>2, <1>3, <1>6 DEF IInv

LEMMA AppendType ==
    ASSUME NEW S, NEW q \in Seq(S), NEW e \in S
    PROVE  Append(q, e) \in Seq(S)
  OBVIOUS

\* After a complete packet the next header goes to the start of dataHeadInfo.
LEMMA LastOK ==
    ASSUME IInv, NEW n \in 1 .. irecvlen, Recv(n),
           NEW len \in LenPkgHeader .. MaxPkgLen, NEW isflood \in BOOLEAN,
           Last(n, len, isflood),
           FloodAttackCount' \in Nat, streak' \in Nat,
           gaps' \in [slow : BOOLEAN, skipped : BOOLEAN]
    PROVE  IInv'
  <1>1. /\ n \in Nat \ {0} /\ pos' \in Nat /\ packets' = packets
        /\ precvbuf' = [in |-> "dataHeadInfo", off |-> 0] /\ irecvlen' = LenPkgHeader
        /\ headStart' \in Nat /\ ~InBody'
    BY RecvType DEF IInv, TypeOK, Last, ToHeader, InBody
  <1>2. delivered' \in Seq([start : Nat, len : LenPkgHeader .. MaxPkgLen])
    <2>1. [start |-> headStart, len |-> len] \in [start : Nat, len : LenPkgHeader .. MaxPkgLen]
      BY DEF IInv, TypeOK
    <2>2. delivered \in Seq([start : Nat, len : LenPkgHeader .. MaxPkgLen])
      BY DEF IInv, TypeOK
    <2>3. \/ delivered' = delivered
          \/ delivered' = Append(delivered, [start |-> headStart, len |-> len])
      BY DEF Last
    <2> DEFINE P == [start : Nat, len : LenPkgHeader .. MaxPkgLen]
               e == [start |-> headStart, len |-> len]
    <2>4. e \in P /\ delivered \in Seq(P) /\ delivered' \in {delivered, Append(delivered, e)}
      BY <2>1, <2>2, <2>3
    <2> HIDE DEF P, e
    <2>5. delivered' \in Seq(P)
      BY <2>4, AppendType, SMTT(30)
    <2> QED BY <2>5 DEF P
  <1>3. TypeOK'
    BY <1>1, <1>2 DEF IInv, TypeOK, Last
  <1> QED
    BY <1>1, <1>3 DEF IInv, RecvInBounds, BodyBehindHeaders, Last

\* The flood counters stay numbers, tested or not.
LEMMA FloodType ==
    ASSUME TypeOK, NEW fast \in BOOLEAN, NEW tooSoon \in BOOLEAN,
           TestFlood(fast, tooSoon) \/ NotTested(fast)
    PROVE  /\ FloodAttackCount' \in Nat /\ streak' \in Nat
           /\ gaps' \in [slow : BOOLEAN, skipped : BOOLEAN]
  <1>1. /\ FloodAttackCount \in Nat /\ streak \in Nat
        /\ gaps.slow \in BOOLEAN
    BY DEF TypeOK
  <1>2. (gaps.slow \/ ~fast) \in BOOLEAN
    OBVIOUS
  <1>3. CASE TestFlood(fast, tooSoon)
    BY <1>1, <1>3 DEF TestFlood
  <1>4. CASE NotTested(fast)
    BY <1>1, <1>2, <1>4 DEF NotTested
  <1> QED BY <1>3, <1>4

LEMMA TestedOK ==
    ASSUME IInv, NEW n \in 1 .. irecvlen, Recv(n),
           NEW len \in LenPkgHeader .. MaxPkgLen, Tested(n, len)
    PROVE  IInv'
  <1>1. PICK fast, tooSoon \in BOOLEAN :
            /\ TestFlood(fast, tooSoon) \/ NotTested(fast)
            /\ Last(n, len, FloodEnable /\ Flood)
    BY DEF Tested
  <1>2. (FloodEnable /\ Flood) \in BOOLEAN
    BY DEF Flood
  <1> QED
    BY <1>1, <1>2, FloodType, LastOK DEF IInv

\* The length of a body in progress, as the buffer has it, is a possible one.
LEMMA BodyLength ==
    ASSUME IInv, InBody
    PROVE  precvMemPointer - LenMsgHeader \in LenPkgHeader .. MaxPkgLen
  BY DEF IInv, TypeOK, RecvInBounds, BodyBehindHeaders

LEMMA BodyRestOK ==
    ASSUME IInv, NEW n \in 1 .. irecvlen, BodyRest(n)
    PROVE  IInv'
  <1>1. PICK fast \in BOOLEAN : NotTested(fast)
    BY DEF BodyRest
  <1>2. precvMemPointer - LenMsgHeader \in LenPkgHeader .. MaxPkgLen
    BY BodyLength DEF BodyRest, InBody
  <1> QED
    BY <1>1, <1>2, FloodType, LastOK DEF BodyRest, IInv

LEMMA NextOK == IInv /\ [Next]_vars => IInv'
  <1> SUFFICES ASSUME IInv, [Next]_vars PROVE IInv' OBVIOUS
  <1>1. ASSUME NEW n \in 1 .. irecvlen, PacketNoBody(n) PROVE IInv'
    BY <1>1, TestedOK DEF PacketNoBody
  <1>2. ASSUME NEW n \in 1 .. irecvlen, BodyAtOnce(n) PROVE IInv'
    <2>1. precvMemPointer - LenMsgHeader \in LenPkgHeader .. MaxPkgLen
      BY <1>2, BodyLength DEF BodyAtOnce, InBody
    <2> QED BY <1>2, <2>1, TestedOK DEF BodyAtOnce
  <1>3. CASE PeerGone \/ RecvNothing \/ UNCHANGED vars
    BY <1>3 DEF PeerGone, RecvNothing, vars, recvVars, floodVars, IInv, TypeOK,
        RecvInBounds, BodyBehindHeaders, InBody
  <1> QED
    BY <1>1, <1>2, <1>3, HeaderPartOK, HeaderBadOK, HeaderGoodOK, BodyPartOK, BodyRestOK
    DEF Next

\* recv never writes outside dataHeadInfo or the packet buffer, whatever the
\* sizes, the declared lengths and the cuts of the stream.
THEOREM NeverOutOfBounds == Spec => []RecvInBounds
  <1>1. IInv => RecvInBounds
    BY DEF IInv
  <1> QED BY <1>1, InitOK, NextOK, PTL DEF Spec

\* In particular every packet that reaches the thread pool has a length between
\* a bare header and _PKG_MAX_LENGTH - 1000.
THEOREM TypeCorrect == Spec => []TypeOK
  <1>1. IInv => TypeOK
    BY DEF IInv
  <1> QED BY <1>1, InitOK, NextOK, PTL DEF Spec

-----------------------------------------------------------------------------
\* Unless a gap since the last tested packet was slow, which clears the count at
\* the next test, the count covers no more packets than came fast in a row.
CountIsStreak == gaps.slow \/ FloodAttackCount <= streak

KInv == TypeOK /\ CountIsStreak /\ KickJustified

LEMMA FloodStep ==
    ASSUME KInv, NEW fast \in BOOLEAN, NEW tooSoon \in BOOLEAN,
           TestFlood(fast, tooSoon) \/ NotTested(fast)
    PROVE  CountIsStreak'
  <1>1. CASE TestFlood(fast, tooSoon)
    BY <1>1 DEF KInv, TypeOK, CountIsStreak, TestFlood
  <1>2. CASE NotTested(fast)
    <2>1. CASE fast
      <3>1. gaps'.slow = gaps.slow /\ streak' = streak + 1 /\ FloodAttackCount' = FloodAttackCount
        BY <1>2, <2>1 DEF NotTested, KInv, TypeOK
      <3> QED BY <3>1 DEF KInv, TypeOK, CountIsStreak
    <2>2. CASE ~fast
      <3>1. gaps'.slow
        BY <1>2, <2>2 DEF NotTested
      <3> QED BY <3>1 DEF CountIsStreak
    <2> QED BY <2>1, <2>2
  <1> QED BY <1>1, <1>2

LEMMA TestedKick ==
    ASSUME KInv, NEW n, NEW len, Tested(n, len)
    PROVE  (CountIsStreak /\ KickJustified)'
  <1>1. PICK fast, tooSoon \in BOOLEAN :
            /\ IF FloodEnable THEN TestFlood(fast, tooSoon) ELSE NotTested(fast)
            /\ Last(n, len, FloodEnable /\ Flood)
    BY DEF Tested
  <1>2. CountIsStreak'
    BY <1>1, FloodStep
  <1>3. ASSUME conn' = "flood" PROVE streak' >= FloodKickCount
    <2>1. FloodEnable /\ FloodAttackCount' >= FloodKickCount /\ TestFlood(fast, tooSoon)
      BY <1>1, <1>3 DEF Last, Flood
    <2>2. FloodAttackCount' <= streak' /\ FloodAttackCount' \in Nat /\ streak' \in Nat
      BY <1>2, <2>1, FloodType DEF CountIsStreak, TestFlood, KInv
    <2> QED BY <2>1, <2>2
  <1> QED BY <1>2, <1>3 DEF KickJustified

LEMMA KickNext == KInv /\ TypeOK' /\ [Next]_vars => KInv'
  <1> SUFFICES ASSUME KInv, TypeOK', [Next]_vars PROVE KInv' OBVIOUS
  <1>1. ASSUME NEW n \in 1 .. irecvlen, PacketNoBody(n) \/ BodyAtOnce(n) PROVE KInv'
    BY <1>1, TestedKick DEF PacketNoBody, BodyAtOnce, KInv
  <1>2. ASSUME NEW n \in 1 .. irecvlen, BodyRest(n) PROVE KInv'
    BY <1>2, FloodStep DEF BodyRest, Last, KInv, KickJustified
  <1>3. ASSUME NEW n \in 1 .. irecvlen,
               HeaderPart(n) \/ HeaderBad(n) \/ HeaderGood(n) \/ BodyPart(n)
        PROVE  KInv'
    BY <1>3 DEF HeaderPart, HeaderBad, HeaderGood, BodyPart, floodVars, KInv,
        CountIsStreak, KickJustified
  <1>4. CASE PeerGone \/ RecvNothing \/ UNCHANGED vars
    BY <1>4 DEF PeerGone, RecvNothing, vars, floodVars, KInv, CountIsStreak, KickJustified
  <1> QED BY <1>1, <1>2, <1>3, <1>4 DEF Next

\* Nobody is kicked who did not send m_floodKickCount packets in a row too
\* fast, although packets whose body came in parts are not tested.
THEOREM KicksAreJustified == Spec => []KickJustified
  <1>1. Init => KInv
    BY InitOK DEF Init, KInv, IInv, CountIsStreak, KickJustified
  <1>2. KInv => KickJustified
    BY DEF KInv
  <1> QED BY <1>1, <1>2, KickNext, TypeCorrect, PTL DEF Spec
-----------------------------------------------------------------------------
(* Induction.  The library's induction theorems are about any predicate; stated with a *)
(* set of numbers, the principle follows from the well-foundedness of < on Nat.        *)

LEMMA LeastNumber ==
    ASSUME NEW T, T \subseteq Nat, T # {}
    PROVE  \E m \in T : \A k \in T : m <= k
  <1>1. IsWellFoundedOn(OpToRel(<, Nat), Nat)
    BY NatLessThanWellFounded
  <1>2. PICK m \in T : \A k \in T : ~(<<k, m>> \in OpToRel(<, Nat))
    BY <1>1, WFMin
  <1>3. \A k \in T : ~(k < m)
    BY <1>2 DEF OpToRel
  <1> QED BY <1>3

LEMMA SetInduction ==
    ASSUME NEW S, 0 \in S, \A n \in Nat : n \in S => n + 1 \in S
    PROVE  Nat \subseteq S
  <1> SUFFICES ASSUME Nat \ S # {} PROVE FALSE OBVIOUS
  <1>1. PICK m \in Nat \ S : \A k \in Nat \ S : m <= k
    BY LeastNumber
  <1>2. m # 0 /\ m - 1 \in Nat /\ m - 1 < m
    BY <1>1
  <1>3. m - 1 \in S /\ (m - 1) + 1 = m
    BY <1>1, <1>2
  <1> QED BY <1>1, <1>2, <1>3
-----------------------------------------------------------------------------
(* Where the packets start in the stream. *)

\* The recursive definition of StartOf defines a function.
LEMMA StartOfIsDefined ==
    StartOf = [i \in 1 .. MaxPackets + 1 |->
                  IF i = 1 THEN 0 ELSE StartOf[i - 1] + Span(packets[i - 1])]
  <1> DEFINE Upto(n) == \E g : g = [i \in 1 .. n + 1 |->
                                       IF i = 1 THEN 0 ELSE g[i - 1] + Span(packets[i - 1])]
             S == {n \in Nat : Upto(n)}
  <1>1. 0 \in S
    <2> DEFINE g == [i \in 1 .. 1 |-> 0]
    <2>1. g = [i \in 1 .. 0 + 1 |-> IF i = 1 THEN 0 ELSE g[i - 1] + Span(packets[i - 1])]
      OBVIOUS
    <2> QED BY <2>1
  <1>2. ASSUME NEW n \in Nat, n \in S PROVE n + 1 \in S
    <2>1. PICK g : g = [i \in 1 .. n + 1 |->
                           IF i = 1 THEN 0 ELSE g[i - 1] + Span(packets[i - 1])]
      BY <1>2
    <2> DEFINE last == g[n + 1] + Span(packets[n + 1])
               h == [i \in 1 .. (n + 1) + 1 |-> IF i = (n + 1) + 1 THEN last ELSE g[i]]
    <2>2. ASSUME NEW i \in 1 .. (n + 1) + 1
          PROVE  h[i] = IF i = 1 THEN 0 ELSE h[i - 1] + Span(packets[i - 1])
      <3>1. CASE i = (n + 1) + 1
        <4>1. i # 1 /\ i - 1 = n + 1 /\ i - 1 \in 1 .. (n + 1) + 1 /\ i - 1 # (n + 1) + 1
          BY <3>1
        <4>2. h[i - 1] = g[n + 1] /\ h[i] = last
          BY <3>1, <4>1
        <4> HIDE DEF h
        <4> QED BY <4>1, <4>2
      <3>2. CASE i # (n + 1) + 1
        <4>1. i \in 1 .. n + 1 /\ h[i] = g[i]
          BY <3>2
        <4>2. CASE i = 1
          <5>1. g[1] = 0
            BY <2>1, <4>1, <4>2
          <5> QED BY <4>1, <4>2, <5>1
        <4>3. CASE i # 1
          <5>1. i - 1 \in 1 .. n + 1 /\ i - 1 # (n + 1) + 1 /\ i - 1 \in 1 .. (n + 1) + 1
            BY <4>1, <4>3
          <5>2. h[i - 1] = g[i - 1]
            BY <5>1
          <5> HIDE DEF h
          <5>3. g[i] = g[i - 1] + Span(packets[i - 1])
            BY <2>1, <4>1, <4>3
          <5> QED BY <4>1, <4>3, <5>2, <5>3
        <4> QED BY <4>2, <4>3
      <3> QED BY <3>1, <3>2
    <2>3. h = [i \in 1 .. (n + 1) + 1 |-> h[i]]
      OBVIOUS
    <2> HIDE DEF h
    <2>4. h = [i \in 1 .. (n + 1) + 1 |->
                  IF i = 1 THEN 0 ELSE h[i - 1] + Span(packets[i - 1])]
      BY <2>2, <2>3
    <2> QED BY <2>4
  <1> HIDE DEF S
  <1>3. MaxPackets \in S
    BY <1>1, <1>2, SetInduction
  <1>4. Upto(MaxPackets)
    BY <1>3 DEF S
  <1> QED BY <1>4 DEF StartOf
Sent == packets \in Seq(Lengths) /\ Len(packets) <= MaxPackets

LEMMA LengthsSent ==
    ASSUME Sent
    PROVE  \A j \in DOMAIN packets : packets[j] \in Nat
  <1>1. \A j \in DOMAIN packets : packets[j] \in Lengths
    BY DEF Sent
  <1> QED BY <1>1

LEMMA StartsAt ==
    ASSUME Sent
    PROVE  /\ StartOf[1] = 0
           /\ \A j \in DOMAIN packets :
                  StartOf[j + 1] = StartOf[j] + Span(packets[j])
           /\ \A j \in DOMAIN packets : Span(packets[j]) \in Nat \ {0}
  <1>1. Len(packets) \in Nat /\ DOMAIN packets = 1 .. Len(packets)
    BY DEF Sent
  <1>2. StartOf[1] = 0
    BY StartOfIsDefined
  <1>3. ASSUME NEW j \in DOMAIN packets
        PROVE  StartOf[j + 1] = StartOf[j] + Span(packets[j])
    <2>1. j + 1 \in 1 .. MaxPackets + 1 /\ j + 1 # 1 /\ (j + 1) - 1 = j
      BY <1>1 DEF Sent
    <2>2. StartOf[j + 1] = IF j + 1 = 1 THEN 0
                           ELSE StartOf[(j + 1) - 1] + Span(packets[(j + 1) - 1])
      BY <2>1, StartOfIsDefined
    <2> QED BY <2>1, <2>2
  <1>4. \A j \in DOMAIN packets : Span(packets[j]) \in Nat \ {0}
    BY LengthsSent DEF Span
  <1> QED BY <1>2, <1>3, <1>4

\* The packets start one after the other.
LEMMA StartsGrow ==
    ASSUME Sent
    PROVE  \A m \in 1 .. Len(packets) + 1 :
               StartOf[m] \in Nat /\ \A j \in 1 .. m - 1 : StartOf[j] < StartOf[m]
  <1> DEFINE Grown(m) == StartOf[m] \in Nat /\ \A j \in 1 .. m - 1 : StartOf[j] < StartOf[m]
             S == {n \in Nat : n <= Len(packets) => \A m \in 1 .. n + 1 : Grown(m)}
  <1>0. Len(packets) \in Nat /\ DOMAIN packets = 1 .. Len(packets)
    BY DEF Sent
  <1>1. 0 \in S
    BY StartsAt
  <1>2. ASSUME NEW n \in Nat, n \in S PROVE n + 1 \in S
    <2> SUFFICES ASSUME n + 1 <= Len(packets), NEW m \in 1 .. (n + 1) + 1
                 PROVE  Grown(m)
      OBVIOUS
    <2>1. \A k \in 1 .. n + 1 : Grown(k)
      BY <1>0, <1>2
    <2>2. CASE m = (n + 1) + 1
      <3>1. /\ StartOf[m] = StartOf[n + 1] + Span(packets[n + 1])
            /\ Span(packets[n + 1]) \in Nat \ {0}
        BY <1>0, <2>2, StartsAt
      <3>2. n + 1 \in 1 .. n + 1 /\ Grown(n + 1)
        BY <2>1
      <3>3. StartOf[m] \in Nat /\ StartOf[n + 1] < StartOf[m]
        BY <3>1, <3>2
      <3>4. ASSUME NEW j \in 1 .. m - 1 PROVE StartOf[j] < StartOf[m]
        <4>1. CASE j = n + 1
          BY <3>3, <4>1
        <4>2. CASE j # n + 1
          <5>1. j \in 1 .. (n + 1) - 1 /\ j \in 1 .. n + 1
            BY <2>2, <4>2
          <5>2. StartOf[j] < StartOf[n + 1] /\ StartOf[j] \in Nat /\ StartOf[n + 1] \in Nat
            BY <2>1, <3>2, <5>1
          <5> QED BY <3>3, <5>2
        <4> QED BY <4>1, <4>2
      <3> QED BY <3>3, <3>4
    <2>3. CASE m # (n + 1) + 1
      <3>1. m \in 1 .. n + 1
        BY <2>3
      <3> HIDE DEF Grown
      <3> QED BY <2>1, <3>1
    <2> QED BY <2>2, <2>3
  <1> HIDE DEF S, Grown
  <1>3. Len(packets) \in S
    BY <1>0, <1>1, <1>2, SetInduction
  <1> QED BY <1>0, <1>3 DEF S, Grown

\* So no two packets start at the same byte.
LEMMA StartsApart ==
    ASSUME Sent, NEW i \in 1 .. Len(packets) + 1, NEW j \in 1 .. Len(packets) + 1,
           StartOf[i] = StartOf[j]
    PROVE  i = j
  <1>1. i \in Nat /\ j \in Nat /\ StartOf[i] \in Nat
    BY StartsGrow DEF Sent
  <1>2. ~(i < j) /\ ~(j < i)
    BY <1>1, StartsGrow
  <1> QED BY <1>1, <1>2

LEMMA StartsFixed ==
    ASSUME UNCHANGED packets
    PROVE  StartOf' = StartOf
  BY DEF StartOf
-----------------------------------------------------------------------------
(* The thread pool gets the client's packets. *)

\* The machine reads packet j: so much of it has been received, and what came before
\* it and has a body or at least a whole header was delivered.
At(j) ==
    /\ headStart = StartOf[j]
    /\ IF InBody THEN /\ j \in DOMAIN packets
                      /\ precvMemPointer = LenMsgHeader + packets[j]
                      /\ pos = headStart + precvbuf.off - LenMsgHeader
                 ELSE pos = headStart + precvbuf.off
    /\ \A k \in Valid : k < j => \E h \in DOMAIN delivered : delivered[h].start = StartOf[k]

Reading == conn = "open" => \E j \in 1 .. Len(packets) + 1 : At(j)

WholeInv == IInv /\ Sent /\ (Honest => PacketsWhole /\ Reading)

LEMMA SentKept ==
    ASSUME [Next]_vars
    PROVE  UNCHANGED packets /\ StartOf' = StartOf /\ Valid' = Valid
           /\ (Sent => Sent') /\ (Honest' => Honest)
  <1>1. UNCHANGED packets
    BY DEF Next, HeaderPart, HeaderBad, HeaderGood, PacketNoBody, BodyPart, BodyAtOnce,
        BodyRest, Recv, PeerGone, RecvNothing, vars
  <1> QED BY <1>1, StartsFixed DEF Valid, Sent, Honest

\* Numbers of the machine's state.
LEMMA WholeTypes ==
    ASSUME IInv, Sent, NEW j \in 1 .. Len(packets) + 1
    PROVE  /\ pos \in Nat /\ headStart \in Nat /\ irecvlen \in Nat /\ precvMemPointer \in Nat
           /\ precvbuf.off \in Nat /\ StartOf[j] \in Nat
           /\ Len(packets) \in Nat /\ DOMAIN packets = 1 .. Len(packets)
           /\ j \in DOMAIN packets => packets[j] \in Nat
  BY StartsGrow, LengthsSent DEF IInv, TypeOK, Sent

\* A complete header ends LenPkgHeader bytes after its start and declares the length
\* of the packet that starts there.
LEMMA HeaderEnds ==
    ASSUME IInv, Sent, NEW j \in 1 .. Len(packets) + 1, At(j),
           NEW n \in 1 .. irecvlen, Recv(n), HeaderComplete(n)
    PROVE  /\ ~InBody /\ pos + n = StartOf[j] + LenPkgHeader
           /\ j \in DOMAIN packets /\ j + 1 \in 1 .. Len(packets) + 1
           /\ DeclaredLengths = {packets[j]} /\ packets[j] \in Nat
           /\ StartOf[j + 1] = StartOf[j] + Span(packets[j])
  <1>0. /\ pos \in Nat /\ irecvlen \in Nat /\ precvbuf.off \in Nat /\ StartOf[j] \in Nat
        /\ Len(packets) \in Nat /\ DOMAIN packets = 1 .. Len(packets) /\ n \in Nat
    BY WholeTypes
  <1>1. ~InBody
    BY DEF HeaderComplete, InBody
  <1>2. precvbuf.off + irecvlen = LenPkgHeader /\ pos = StartOf[j] + precvbuf.off
        /\ headStart = StartOf[j]
    BY <1>1 DEF IInv, RecvInBounds, At
  <1>3. n = irecvlen
    BY <1>0, <1>2 DEF HeaderComplete
  <1>4. pos + n = StartOf[j] + LenPkgHeader
    BY <1>0, <1>2, <1>3, SMTT(30)
  <1>5. j # Len(packets) + 1
    <2>1. pos + n <= StartOf[Len(packets) + 1]
      BY DEF Recv, Total
    <2>2. StartOf[j] < pos + n
      BY <1>0, <1>4
    <2> QED BY <1>0, <2>1, <2>2
  <1>6. j \in DOMAIN packets /\ j + 1 \in 1 .. Len(packets) + 1
    BY <1>0, <1>5
  <1>7. Declared = {packets[j]}
    <2>1. \A i \in DOMAIN packets : StartOf[i] = headStart => i = j
      BY <1>0, <1>2, StartsApart
    <2> QED BY <1>2, <1>6, <2>1 DEF Declared
  <1> QED BY <1>1, <1>4, <1>6, <1>7, StartsAt, WholeTypes DEF DeclaredLengths

\* The end of a packet: it is delivered after all that came before it.
LEMMA LastWhole ==
    ASSUME WholeInv, Honest, NEW j \in Valid, At(j),
           NEW n \in 1 .. irecvlen, Recv(n), NEW isflood \in BOOLEAN, Last(n, packets[j], isflood),
           pos + n = StartOf[j + 1],
           StartOf' = StartOf, Valid' = Valid, UNCHANGED packets
    PROVE  PacketsWhole' /\ Reading'
  <1> DEFINE e == [start |-> StartOf[j], len |-> packets[j]]
  <1>0. /\ j \in 1 .. Len(packets) /\ j + 1 \in 1 .. Len(packets) + 1 /\ Len(packets) \in Nat
        /\ \A k \in Valid : k \in Nat
    BY DEF Valid, WholeInv, Sent
  <1>1. PacketsWhole /\ headStart = StartOf[j]
        /\ \A k \in Valid : k < j => \E h \in DOMAIN delivered : delivered[h].start = StartOf[k]
    BY DEF WholeInv, At
  <1>2. CASE isflood
    BY <1>1, <1>2 DEF Last, PacketsWhole, Reading, Honest
  <1>3. CASE ~isflood
    <2>1. /\ delivered' = Append(delivered, e) /\ conn' = "open"
          /\ precvbuf' = [in |-> "dataHeadInfo", off |-> 0] /\ pos' = StartOf[j + 1]
          /\ headStart' = StartOf[j + 1] /\ ~InBody'
      BY <1>1, <1>3 DEF Last, ToHeader, Recv, InBody
    <2>2. /\ Len(delivered) \in Nat /\ DOMAIN delivered = 1 .. Len(delivered)
          /\ DOMAIN delivered' = 1 .. Len(delivered) + 1
          /\ \A i \in 1 .. Len(delivered) : delivered'[i] = delivered[i]
          /\ delivered'[Len(delivered) + 1] = e /\ e.start = StartOf[j]
      <3>1. delivered \in Seq([start : Nat, len : LenPkgHeader .. MaxPkgLen])
        BY DEF WholeInv, IInv, TypeOK
      <3> QED BY <2>1, <3>1
    <2> HIDE DEF e
    <2>3. ASSUME NEW i \in 1 .. Len(delivered) + 1
          PROVE  \E m \in Valid :
                    /\ delivered'[i] = [start |-> StartOf[m], len |-> packets[m]]
                    /\ \A k \in Valid : k < m => \E h \in 1 .. i - 1 : delivered'[h].start = StartOf[k]
      <3>1. CASE i = Len(delivered) + 1
        <4>1. delivered'[i] = [start |-> StartOf[j], len |-> packets[j]]
          BY <2>2, <3>1 DEF e
        <4>2. \A k \in Valid : k < j => \E h \in 1 .. i - 1 : delivered'[h].start = StartOf[k]
          BY <1>1, <2>2, <3>1
        <4> QED BY <4>1, <4>2
      <3>2. CASE i # Len(delivered) + 1
        <4>1. i \in 1 .. Len(delivered)
          BY <2>2, <3>2
        <4>2. PICK m \in Valid :
                    /\ delivered[i] = [start |-> StartOf[m], len |-> packets[m]]
                    /\ \A k \in Valid : k < m => \E h \in 1 .. i - 1 : delivered[h].start = StartOf[k]
          BY <1>1, <2>2, <4>1 DEF PacketsWhole
        <4>3. delivered'[i] = delivered[i] /\ \A h \in 1 .. i - 1 : delivered'[h] = delivered[h]
          BY <2>2, <4>1
        <4> QED BY <4>2, <4>3
      <3> QED BY <3>1, <3>2
    <2>4. PacketsWhole'
      BY <2>2, <2>3 DEF PacketsWhole
    <2>5. \A k \in Valid : k < j + 1 => \E h \in DOMAIN delivered' : delivered'[h].start = StartOf[k]
      <3>1. \A k \in Valid : k < j + 1 => k < j \/ k = j
        BY <1>0
      <3> QED BY <1>1, <2>2, <3>1
    <2>6. pos' = headStart' + precvbuf'.off
      BY <2>1, <1>0, StartsGrow DEF WholeInv, Sent
    <2> DEFINE i == j + 1
    <2>7. headStart' = StartOf[i] /\ i \in 1 .. Len(packets) + 1
      BY <1>0, <2>1
    <2> HIDE DEF i
    <2>8. \E m \in 1 .. Len(packets) + 1 :
              /\ headStart' = StartOf[m]
              /\ \A k \in Valid : k < m => \E h \in DOMAIN delivered' : delivered'[h].start = StartOf[k]
      BY <2>5, <2>7 DEF i
    <2> QED BY <2>1, <2>4, <2>6, <2>8 DEF Reading, At
  <1> QED BY <1>2, <1>3
\* A part of a header or of a body.
LEMMA PartWhole ==
    ASSUME WholeInv, Honest, StartOf' = StartOf, Valid' = Valid,
           NEW n \in 1 .. irecvlen, HeaderPart(n) \/ BodyPart(n)
    PROVE  PacketsWhole' /\ Reading'
  <1>0. IInv /\ Sent /\ PacketsWhole /\ conn = "open"
    BY DEF WholeInv, HeaderPart, BodyPart, Recv
  <1>1. PICK j \in 1 .. Len(packets) + 1 : At(j)
    BY <1>0 DEF WholeInv, Reading
  <1>2. /\ UNCHANGED <<packets, delivered, headStart, precvMemPointer>>
        /\ pos' = pos + n /\ InBody' = InBody /\ Advance(n) /\ n \in Nat
    BY DEF HeaderPart, BodyPart, Recv, InBody
  <1>3. precvbuf'.off = precvbuf.off + n
    BY <1>0, <1>2, AdvanceType DEF IInv
  <1>4. /\ pos \in Nat /\ headStart \in Nat /\ precvbuf.off \in Nat
        /\ (headStart + precvbuf.off) + n = headStart + (precvbuf.off + n)
        /\ (headStart + precvbuf.off - LenMsgHeader) + n
               = headStart + (precvbuf.off + n) - LenMsgHeader
    BY <1>0, <1>2, WholeTypes, SMTT(30)
  <1>5. At(j)'
    BY <1>1, <1>2, <1>3, <1>4 DEF At
  <1> QED BY <1>0, <1>2, <1>5 DEF PacketsWhole, Reading, Honest

\* A header that declares too little is skipped, and the next packet starts behind it.
LEMMA HeaderBadWhole ==
    ASSUME WholeInv, Honest, StartOf' = StartOf, Valid' = Valid,
           NEW n \in 1 .. irecvlen, HeaderBad(n)
    PROVE  PacketsWhole' /\ Reading'
  <1>0. /\ IInv /\ Sent /\ PacketsWhole /\ conn = "open" /\ Recv(n) /\ HeaderComplete(n)
        /\ UNCHANGED <<packets, delivered>>
    BY DEF WholeInv, HeaderBad, Recv
  <1>1. PICK j \in 1 .. Len(packets) + 1 : At(j)
    BY <1>0 DEF WholeInv, Reading
  <1>2. /\ ~InBody /\ pos + n = StartOf[j] + LenPkgHeader
        /\ j \in DOMAIN packets /\ j + 1 \in 1 .. Len(packets) + 1
        /\ DeclaredLengths = {packets[j]} /\ packets[j] \in Nat
        /\ StartOf[j + 1] = StartOf[j] + Span(packets[j])
    BY <1>0, <1>1, HeaderEnds
  <1>3. packets[j] < LenPkgHeader
    BY <1>2 DEF HeaderBad, Honest
  <1>4. StartOf[j + 1] = StartOf[j] + LenPkgHeader /\ j \notin Valid
    BY <1>2, <1>3 DEF Span, Valid
  <1>5. /\ headStart' = StartOf[j + 1] /\ pos' = StartOf[j + 1]
        /\ precvbuf'.off = 0 /\ ~InBody'
    BY <1>0, <1>2, <1>4 DEF HeaderBad, ToHeader, Recv, InBody
  <1>6. \A k \in Valid : k < j + 1 => \E h \in DOMAIN delivered : delivered[h].start = StartOf[k]
    <2>1. \A k \in Valid : k < j + 1 => k < j
      BY <1>0, <1>4 DEF Valid, Sent
    <2> QED BY <1>1, <2>1 DEF At
  <1>7. pos' = headStart' + precvbuf'.off
    BY <1>0, <1>2, <1>5, StartsGrow
  <1> DEFINE i == j + 1
  <1>8. headStart' = StartOf[i] /\ i \in 1 .. Len(packets) + 1
    BY <1>2, <1>5
  <1> HIDE DEF i
  <1>9. \E m \in 1 .. Len(packets) + 1 :
            /\ headStart' = StartOf[m]
            /\ \A k \in Valid : k < m => \E h \in DOMAIN delivered : delivered[h].start = StartOf[k]
    BY <1>6, <1>8 DEF i
  <1>10. Reading'
    BY <1>0, <1>5, <1>7, <1>9 DEF Reading, At
  <1> QED BY <1>0, <1>10 DEF PacketsWhole, Honest

LEMMA HeaderGoodWhole ==
    ASSUME WholeInv, Honest, StartOf' = StartOf, Valid' = Valid,
           NEW n \in 1 .. irecvlen, HeaderGood(n)
    PROVE  PacketsWhole' /\ Reading'
  <1>0. /\ IInv /\ Sent /\ PacketsWhole /\ conn = "open" /\ Recv(n) /\ HeaderComplete(n)
        /\ UNCHANGED <<packets, delivered, headStart>> /\ pos' = pos + n /\ InBody'
    BY DEF WholeInv, HeaderGood, Recv, InBody
  <1>1. PICK j \in 1 .. Len(packets) + 1 : At(j)
    BY <1>0 DEF WholeInv, Reading
  <1>2. /\ ~InBody /\ pos + n = StartOf[j] + LenPkgHeader
        /\ j \in DOMAIN packets
        /\ DeclaredLengths = {packets[j]} /\ headStart = StartOf[j] /\ StartOf[j] \in Nat
    BY <1>0, <1>1, HeaderEnds, WholeTypes DEF At
  <1>3. /\ precvMemPointer' = LenMsgHeader + packets[j]
        /\ precvbuf' = [in |-> "packet", off |-> LenMsgHeader + LenPkgHeader]
    BY <1>2 DEF HeaderGood
  <1>4. pos' = headStart' + precvbuf'.off - LenMsgHeader
    BY <1>0, <1>2, <1>3
  <1>5. At(j)'
    BY <1>0, <1>1, <1>2, <1>3, <1>4 DEF At
  <1> QED BY <1>0, <1>5 DEF PacketsWhole, Reading, Honest

\* A packet that is complete, with or without a body, and tested or not.
LEMMA TestedWhole ==
    ASSUME WholeInv, Honest, StartOf' = StartOf, Valid' = Valid, UNCHANGED packets,
           NEW j \in Valid, At(j), NEW n \in 1 .. irecvlen, Recv(n), pos + n = StartOf[j + 1],
           Tested(n, packets[j])
    PROVE  PacketsWhole' /\ Reading'
  <1>1. (FloodEnable /\ Flood) \in BOOLEAN
    BY DEF Flood
  <1>2. Last(n, packets[j], FloodEnable /\ Flood)
    BY DEF Tested
  <1> QED BY <1>1, <1>2, LastWhole

LEMMA NoBodyWhole ==
    ASSUME WholeInv, Honest, StartOf' = StartOf, Valid' = Valid, UNCHANGED packets,
           NEW n \in 1 .. irecvlen, PacketNoBody(n)
    PROVE  PacketsWhole' /\ Reading'
  <1>0. IInv /\ Sent /\ conn = "open" /\ Recv(n) /\ HeaderComplete(n)
    BY DEF WholeInv, PacketNoBody, Recv
  <1>1. PICK j \in 1 .. Len(packets) + 1 : At(j)
    BY <1>0 DEF WholeInv, Reading
  <1>2. /\ pos + n = StartOf[j] + LenPkgHeader /\ j \in DOMAIN packets
        /\ DeclaredLengths = {packets[j]}
        /\ StartOf[j + 1] = StartOf[j] + Span(packets[j])
    BY <1>0, <1>1, HeaderEnds
  <1>3. packets[j] = LenPkgHeader /\ Tested(n, packets[j])
    BY <1>2 DEF PacketNoBody
  <1>4. j \in Valid /\ pos + n = StartOf[j + 1]
    BY <1>2, <1>3 DEF Valid, Span
  <1> QED BY <1>0, <1>1, <1>3, <1>4, TestedWhole

\* The last bytes of a body end the packet that is read.
LEMMA BodyEnds ==
    ASSUME IInv, Sent, InBody, NEW j \in 1 .. Len(packets) + 1, At(j),
           NEW n \in 1 .. irecvlen, Recv(n), n = irecvlen
    PROVE  /\ j \in Valid /\ pos + n = StartOf[j + 1]
           /\ precvMemPointer - LenMsgHeader = packets[j]
  <1>0. /\ pos \in Nat /\ irecvlen \in Nat /\ precvMemPointer \in Nat
        /\ precvbuf.off \in Nat /\ StartOf[j] \in Nat
    BY WholeTypes
  <1>1. /\ j \in DOMAIN packets /\ precvMemPointer = LenMsgHeader + packets[j]
        /\ pos = StartOf[j] + precvbuf.off - LenMsgHeader
        /\ precvbuf.off + irecvlen = precvMemPointer
        /\ packets[j] \in Nat
    BY WholeTypes DEF At, IInv, RecvInBounds
  <1>2. packets[j] >= LenPkgHeader
    <2>1. precvMemPointer - LenMsgHeader \in LenPkgHeader .. MaxPkgLen
      BY BodyLength
    <2> QED BY <1>0, <1>1, <2>1
  <1>3. StartOf[j + 1] = StartOf[j] + packets[j]
    BY <1>1, <1>2, StartsAt DEF Span
  <1>4. j \in Valid
    BY <1>1, <1>2 DEF Valid
  <1>5. precvMemPointer - LenMsgHeader = packets[j]
    BY <1>0, <1>1
  <1>6. pos + n = StartOf[j] + (precvMemPointer - LenMsgHeader)
    <2>1. n \in Nat /\ LenMsgHeader \in Nat
      BY <1>0, RecvSizes
    <2>2. pos + n = (StartOf[j] + precvbuf.off - LenMsgHeader) + irecvlen
      BY <1>1
    <2> DEFINE a == StartOf[j]
               b == precvbuf.off
    <2>3. a \in Nat /\ b \in Nat
      BY <1>0
    <2>4. pos + n = (a + b - LenMsgHeader) + irecvlen /\ precvMemPointer = b + irecvlen
      BY <1>1, <2>2
    <2>5. irecvlen \in Nat
      BY <1>0
    <2>6. pos + n = a + (precvMemPointer - LenMsgHeader)
      <3> HIDE DEF a, b
      <3> QED BY <2>1, <2>3, <2>4, <2>5
    <2> QED BY <2>6
  <1> QED BY <1>3, <1>4, <1>5, <1>6

LEMMA BodyWhole ==
    ASSUME WholeInv, Honest, StartOf' = StartOf, Valid' = Valid, UNCHANGED packets,
           NEW n \in 1 .. irecvlen, BodyAtOnce(n) \/ BodyRest(n)
    PROVE  PacketsWhole' /\ Reading'
  <1>0. IInv /\ Sent /\ conn = "open" /\ Recv(n) /\ InBody /\ n = irecvlen
    BY DEF WholeInv, BodyAtOnce, BodyRest, Recv, InBody
  <1>1. PICK j \in 1 .. Len(packets) + 1 : At(j)
    BY <1>0 DEF WholeInv, Reading
  <1>2. /\ j \in Valid /\ pos + n = StartOf[j + 1]
        /\ precvMemPointer - LenMsgHeader = packets[j]
    BY <1>0, <1>1, BodyEnds
  <1>3. CASE BodyAtOnce(n)
    <2>1. Tested(n, packets[j])
      BY <1>2, <1>3 DEF BodyAtOnce
    <2> QED BY <1>0, <1>1, <1>2, <2>1, TestedWhole
  <1>4. CASE BodyRest(n)
    <2>1. Last(n, packets[j], FALSE)
      BY <1>2, <1>4 DEF BodyRest
    <2> QED BY <1>0, <1>1, <1>2, <2>1, LastWhole
  <1> QED BY <1>3, <1>4

\* However the stream is cut, the thread pool gets the packets of a client that declares
\* no length above the limit whole, once and in order.
THEOREM PacketsArriveWhole == Spec => []PacketsWhole
  <1>1. Init => WholeInv
    <2> SUFFICES ASSUME Init PROVE WholeInv OBVIOUS
    <2>1. Sent
      <3>1. PICK n \in 0 .. MaxPackets : packets \in [1 .. n -> Lengths]
        BY DEF Init
      <3>2. n \in Nat /\ Len(packets) = n
        BY <3>1
      <3> QED BY <3>1, <3>2 DEF Sent
    <2>2. delivered = <<>> /\ DOMAIN delivered = {}
      BY DEF Init
    <2>3. At(1) /\ 1 \in 1 .. Len(packets) + 1
      <3>1. StartOf[1] = 0 /\ \A k \in Valid : ~(k < 1)
        BY <2>1, StartsAt DEF Valid, Sent
      <3>2. Len(packets) \in Nat
        BY <2>1 DEF Sent
      <3> QED BY <3>1, <3>2 DEF Init, At, InBody
    <2> QED BY <2>1, <2>2, <2>3, InitOK DEF WholeInv, PacketsWhole, Reading
  <1>2. WholeInv /\ [Next]_vars => WholeInv'
    <2> SUFFICES ASSUME WholeInv, [Next]_vars PROVE WholeInv' OBVIOUS
    <2>1. /\ UNCHANGED packets /\ StartOf' = StartOf /\ Valid' = Valid
          /\ Sent' /\ (Honest' => Honest) /\ IInv'
      BY SentKept, NextOK DEF WholeInv
    <2> SUFFICES ASSUME Honest PROVE PacketsWhole' /\ Reading'
      BY <2>1 DEF WholeInv
    <2>2. CASE PeerGone \/ RecvNothing
      BY <2>1, <2>2 DEF PeerGone, RecvNothing, WholeInv, PacketsWhole, Reading, Honest
    <2>3. CASE UNCHANGED vars
      BY <2>1, <2>3
      DEF vars, recvVars, WholeInv, PacketsWhole, Reading, At, InBody, Honest
    <2> QED
      BY <2>1, <2>2, <2>3, PartWhole, HeaderBadWhole, HeaderGoodWhole, NoBodyWhole, BodyWhole
      DEF Next
  <1>3. WholeInv => PacketsWhole
    BY DEF WholeInv, PacketsWhole
  <1> QED BY <1>1, <1>2, <1>3, PTL DEF Spec
=============================================================================
