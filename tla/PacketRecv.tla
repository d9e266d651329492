------------------------------ MODULE PacketRecv ------------------------------
(***************************************************************************)
(* The receive state machine of one connection                             *)
(* (net/ngx_c_socket_request.cpp): ngx_read_request_handler cuts the byte  *)
(* stream into packets, proc_p1 reads a packet's header, proc_plast hands  *)
(* a complete packet to the thread pool, TestFlood counts packets that     *)
(* come too fast.  recv may return any part of what was asked for.         *)
(*                                                                         *)
(* Bytes are positions in the stream the client sends; of their contents   *)
(* only pkgLen, the length a header declares, is kept.  Time is whether    *)
(* the gap before a packet was shorter than m_floodTimeInterval.           *)
(***************************************************************************)
EXTENDS Integers, Sequences

CONSTANTS
    LenPkgHeader,      \* sizeof(COMM_PKG_HEADER)
    LenMsgHeader,      \* sizeof(STRUC_MSG_HEADER)
    DataBufSize,       \* _DATA_BUFSIZE_, the size of dataHeadInfo
    MaxPkgLen,         \* _PKG_MAX_LENGTH - 1000
    FloodEnable,       \* m_floodAkEnable = 1
    FloodKickCount,    \* m_floodKickCount
    Lengths,           \* lengths a header may declare
    MaxPackets         \* bound: packets the client sends

ASSUME RecvSizes ==
    /\ LenPkgHeader \in Nat \ {0}
    /\ LenMsgHeader \in Nat /\ LenMsgHeader > LenPkgHeader
    /\ DataBufSize \in Nat /\ DataBufSize > LenPkgHeader
    /\ MaxPkgLen \in Nat /\ MaxPkgLen >= LenPkgHeader
ASSUME RecvFlood == FloodEnable \in BOOLEAN /\ FloodKickCount \in Nat \ {0}
ASSUME RecvLengths == Lengths \subseteq Nat /\ MaxPackets \in Nat

VARIABLES
    packets,           \* the lengths declared by the packets the client sends
    pos,               \* bytes received so far
    curStat,           \* _PKG_HD_INIT, ...
    precvbuf,          \* where to receive: buffer and offset in it
    irecvlen,          \* how much to receive
    precvMemPointer,   \* size of the packet buffer, or 0 (NULL)
    headStart,         \* stream position of the first byte of dataHeadInfo
    delivered,         \* packets given to the thread pool: position and length
    FloodAttackCount,
    gaps,              \* since the last tested packet: any slow gap? any packet?
    streak,            \* history: consecutive packets that came fast
    conn               \* "open", or why the connection was closed

recvVars == <<curStat, precvbuf, irecvlen, precvMemPointer, headStart>>
floodVars == <<FloodAttackCount, gaps, streak>>
vars == <<packets, pos, recvVars, delivered, floodVars, conn>>

\* The bytes of a packet: a header that declares an impossible length comes alone
\* if the length is too small, and with its body if it is too large.
Span(len) == IF len < LenPkgHeader THEN LenPkgHeader ELSE len

\* Where the i-th packet starts in the stream.
StartOf[i \in 1 .. MaxPackets + 1] ==
    IF i = 1 THEN 0 ELSE StartOf[i - 1] + Span(packets[i - 1])

Total == StartOf[Len(packets) + 1]

ToHeader == /\ precvbuf' = [in |-> "dataHeadInfo", off |-> 0]
            /\ irecvlen' = LenPkgHeader

\* GetOneToUse, and the packets the client is going to send.
Init ==
    /\ packets \in UNION {[1 .. n -> Lengths] : n \in 0 .. MaxPackets}
    /\ pos = 0
    /\ curStat = "_PKG_HD_INIT"
    /\ precvbuf = [in |-> "dataHeadInfo", off |-> 0]
    /\ irecvlen = LenPkgHeader
    /\ precvMemPointer = 0
    /\ headStart = 0
    /\ delivered = <<>>
    /\ FloodAttackCount = 0 /\ streak = 0
    /\ gaps = [slow |-> TRUE, skipped |-> FALSE]
    /\ conn = "open"

\* recv returns n bytes.
Recv(n) ==
    /\ conn = "open"
    /\ n \in 1 .. irecvlen
    /\ pos + n <= Total
    /\ pos' = pos + n
    /\ UNCHANGED packets

\* precvbuf and irecvlen advance over the part received.
Advance(n) ==
    /\ precvbuf' = [precvbuf EXCEPT !.off = @ + n]
    /\ irecvlen' = irecvlen - n

-----------------------------------------------------------------------------
(* The header *)

HeaderComplete(n) ==
    \/ curStat = "_PKG_HD_INIT" /\ n = LenMsgHeader
    \/ curStat = "_PKG_HD_RECVING" /\ n = irecvlen

HeaderPart(n) ==
    /\ Recv(n)
    /\ curStat \in {"_PKG_HD_INIT", "_PKG_HD_RECVING"}
    /\ ~HeaderComplete(n)
    /\ curStat' = "_PKG_HD_RECVING"
    /\ Advance(n)
    /\ UNCHANGED <<precvMemPointer, headStart, delivered, floodVars, conn>>

\* pkgLen as dataHeadInfo has it: the i-th packet's if the header starts there,
\* anything if body bytes are taken for a header.
Declared ==
    {packets[i] : i \in {j \in DOMAIN packets : StartOf[j] = headStart}}

DeclaredLengths == IF Declared = {} THEN Lengths ELSE Declared

\* Mutant of HeaderBad: a packet that is only a header is refused as well.
HeaderBadStrict(n) ==
    /\ Recv(n) /\ HeaderComplete(n)
    /\ \E len \in DeclaredLengths : len <= LenPkgHeader \/ len > MaxPkgLen
    /\ ToHeader
    /\ headStart' = pos + n
    /\ UNCHANGED <<curStat, precvMemPointer, delivered, floodVars, conn>>

\* proc_p1 on an impossible length: start over at the next byte.  curStat stays
\* as it is (the assignments are written ==).
HeaderBad(n) ==
    /\ Recv(n) /\ HeaderComplete(n)
    /\ \E len \in DeclaredLengths : len < LenPkgHeader \/ len > MaxPkgLen
    /\ ToHeader
    /\ headStart' = pos + n
    /\ UNCHANGED <<curStat, precvMemPointer, delivered, floodVars, conn>>

\* Mutant of HeaderGood: the header is not taken off the length.
HeaderGoodTooLong(n) ==
    /\ Recv(n) /\ HeaderComplete(n)
    /\ \E len \in DeclaredLengths \cap (LenPkgHeader + 1 .. MaxPkgLen) :
          /\ precvMemPointer' = LenMsgHeader + len
          /\ precvbuf' = [in |-> "packet", off |-> LenMsgHeader + LenPkgHeader]
          /\ irecvlen' = len
    /\ curStat' = "_PKG_BD_INIT"
    /\ UNCHANGED <<headStart, delivered, floodVars, conn>>

\* proc_p1 allocates the packet buffer and the body is to come.
HeaderGood(n) ==
    /\ Recv(n) /\ HeaderComplete(n)
    /\ \E len \in DeclaredLengths \cap (LenPkgHeader + 1 .. MaxPkgLen) :
          /\ precvMemPointer' = LenMsgHeader + len
          /\ precvbuf' = [in |-> "packet", off |-> LenMsgHeader + LenPkgHeader]
          /\ irecvlen' = len - LenPkgHeader
    /\ curStat' = "_PKG_BD_INIT"
    /\ UNCHANGED <<headStart, delivered, floodVars, conn>>

-----------------------------------------------------------------------------
(* A complete packet: TestFlood and proc_plast *)

\* Mutant of TestFlood: a slow packet does not clear the count.
TestFloodKeepsCount(fast, tooSoon) ==
    /\ tooSoon => fast /\ ~gaps.slow
    /\ fast /\ ~gaps.slow /\ ~gaps.skipped => tooSoon
    /\ FloodAttackCount' = IF tooSoon THEN FloodAttackCount + 1 ELSE FloodAttackCount
    /\ gaps' = [slow |-> FALSE, skipped |-> FALSE]
    /\ streak' = IF fast THEN streak + 1 ELSE 0

\* The packet came fast or not; the gap TestFlood sees is the one since the
\* last packet it tested.
TestFlood(fast, tooSoon) ==
    /\ tooSoon => fast /\ ~gaps.slow
    /\ fast /\ ~gaps.slow /\ ~gaps.skipped => tooSoon
    /\ FloodAttackCount' = IF tooSoon THEN FloodAttackCount + 1 ELSE 0
    /\ gaps' = [slow |-> FALSE, skipped |-> FALSE]
    /\ streak' = IF fast THEN streak + 1 ELSE 0

NotTested(fast) ==
    /\ gaps' = [slow |-> gaps.slow \/ ~fast, skipped |-> TRUE]
    /\ streak' = IF fast THEN streak + 1 ELSE 0
    /\ UNCHANGED FloodAttackCount

\* proc_plast: the packet goes to the pool, or the connection is closed (and
\* released: see ConnPool).
Last(n, len, isflood) ==
    /\ IF isflood THEN UNCHANGED delivered
       ELSE delivered' = Append(delivered, [start |-> headStart, len |-> len])
    /\ conn' = IF isflood THEN "flood" ELSE "open"
    /\ precvMemPointer' = 0
    /\ curStat' = "_PKG_HD_INIT"
    /\ ToHeader
    /\ headStart' = pos + n

Flood == FloodAttackCount' >= FloodKickCount

Tested(n, len) ==
    \E fast, tooSoon \in BOOLEAN :
        /\ IF FloodEnable THEN TestFlood(fast, tooSoon) ELSE NotTested(fast)
        /\ Last(n, len, FloodEnable /\ Flood)

\* A packet that is only a header.
PacketNoBody(n) ==
    /\ Recv(n) /\ HeaderComplete(n)
    /\ LenPkgHeader \in DeclaredLengths
    /\ Tested(n, LenPkgHeader)

InBody == curStat \in {"_PKG_BD_INIT", "_PKG_BD_RECVING"}

BodyPart(n) ==
    /\ Recv(n) /\ InBody
    /\ n # irecvlen
    /\ curStat' = "_PKG_BD_RECVING"
    /\ Advance(n)
    /\ UNCHANGED <<precvMemPointer, headStart, delivered, floodVars, conn>>

\* The body arrives in one piece: the packet is tested.
BodyAtOnce(n) ==
    /\ Recv(n) /\ curStat = "_PKG_BD_INIT"
    /\ n = irecvlen
    /\ Tested(n, precvMemPointer - LenMsgHeader)

\* The rest of the body arrives: the packet is not tested.
BodyRest(n) ==
    /\ Recv(n) /\ curStat = "_PKG_BD_RECVING"
    /\ n = irecvlen
    /\ \E fast \in BOOLEAN : NotTested(fast)
    /\ Last(n, precvMemPointer - LenMsgHeader, FALSE)

-----------------------------------------------------------------------------
\* recv returns 0 or an error because the client is gone.
PeerGone ==
    /\ conn = "open"
    /\ conn' = "peer"
    /\ UNCHANGED <<packets, pos, recvVars, delivered, floodVars>>

\* Bytes wait to be read, recv is asked for 0 of them and returns 0, which recvproc
\* takes for the end.
RecvNothing ==
    /\ conn = "open" /\ irecvlen = 0 /\ pos < Total
    /\ conn' = "zero"
    /\ UNCHANGED <<packets, pos, recvVars, delivered, floodVars>>

Next ==
    \/ \E n \in 1 .. irecvlen :
          \/ HeaderPart(n) \/ HeaderBad(n) \/ HeaderGood(n) \/ PacketNoBody(n)
          \/ BodyPart(n) \/ BodyAtOnce(n) \/ BodyRest(n)
    \/ PeerGone \/ RecvNothing

Spec == Init /\ [][Next]_vars

-----------------------------------------------------------------------------
TypeOK ==
    /\ packets \in Seq(Lengths)
    /\ pos \in Nat
    /\ curStat \in {"_PKG_HD_INIT", "_PKG_HD_RECVING", "_PKG_BD_INIT", "_PKG_BD_RECVING"}
    /\ precvbuf \in [in : {"dataHeadInfo", "packet"}, off : Nat]
    /\ irecvlen \in Nat
    /\ precvMemPointer \in Nat
    /\ headStart \in Nat
    /\ delivered \in Seq([start : Nat, len : LenPkgHeader .. MaxPkgLen])
    /\ FloodAttackCount \in Nat /\ streak \in Nat
    /\ gaps \in [slow : BOOLEAN, skipped : BOOLEAN]
    /\ conn \in {"open", "flood", "peer", "zero"}

\* The next recv writes inside the buffer it was given, whatever lengths the
\* headers declare and however the bytes are cut: in dataHeadInfo while the
\* header is read, up to the very end of the packet buffer for the body.
RecvInBounds ==
    IF InBody
    THEN /\ precvbuf.in = "packet"
         /\ precvbuf.off + irecvlen = precvMemPointer
         /\ precvMemPointer <= LenMsgHeader + MaxPkgLen
    ELSE /\ precvbuf.in = "dataHeadInfo"
         /\ precvbuf.off + irecvlen = LenPkgHeader /\ LenPkgHeader < DataBufSize
         /\ precvMemPointer = 0

\* However the stream is cut, the thread pool gets exactly the client's packets,
\* in order and whole; headers that declare too little are skipped and do not
\* shift what follows them.  (A header that declares too much does: its body is
\* read as headers, so such streams are left out.)
Valid == {i \in DOMAIN packets : packets[i] >= LenPkgHeader}
Honest == \A i \in DOMAIN packets : packets[i] <= MaxPkgLen

PacketsWhole ==
    Honest =>
        \A i \in DOMAIN delivered : \E j \in Valid :
            /\ delivered[i] = [start |-> StartOf[j], len |-> packets[j]]
            /\ \A k \in Valid : k < j => \E h \in 1 .. i - 1 : delivered[h].start = StartOf[k]

\* A client is kicked only after m_floodKickCount packets in a row that came
\* faster than the interval.
KickJustified == conn = "flood" => streak >= FloodKickCount

\* A connection is closed only because the client left or was kicked.
ClosedForAReason == conn # "zero"
=============================================================================
