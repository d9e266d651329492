-------------------------------- MODULE Handlers --------------------------------
(***************************************************************************)
(* The choice of a packet's handler and what the handlers answer           *)
(* (logic/ngx_c_slogic.cpp): threadRecvProcFunc checks the checksum, the   *)
(* sequence number and the message code, then calls the function found in  *)
(* statusHandler.                                                          *)
(*                                                                         *)
(* A packet is a record: the declared length pkgLen (header and body), the *)
(* message code, the checksum crc32 the client wrote, and sum, the         *)
(* checksum of the bytes in the body (0 of no bytes, see Crc32).           *)
(***************************************************************************)
EXTENDS Integers, Sequences

m_iLenPkgHeader == 8
m_iLenMsgHeader == 16
SizeofRegister == 100   \* STRUCT_REGISTER: an int, 56 and 40 characters
SizeofLogin == 96       \* STRUCT_LOGIN: 56 and 40 characters

_CMD_PING == 0
_CMD_REGISTER == 5
_CMD_LOGIN == 6

\* statusHandler: entries 1 to 4 are NULL; there are seven.
AUTH_TOTAL_COMMANDS == 7
statusHandler ==
    [code \in 0 .. AUTH_TOTAL_COMMANDS - 1 |->
        CASE code = 0 -> "_HandlePing" [] code = 5 -> "_HandleRegister"
          [] code = 6 -> "_HandleLogIn" [] OTHER -> "NULL"]

BodyLength(p) == p.pkgLen - m_iLenPkgHeader

\* The pointer to the body is NULL for a packet taken to have none.  The length
\* that says so is that of the message header, not of the packet's.
HasNoBody(p) == p.pkgLen = m_iLenMsgHeader

\* Mutant of ChecksumGood: the checksum of a body is not compared.
ChecksumGoodAlways(p) == HasNoBody(p) => p.crc32 = 0

ChecksumGood(p) == IF HasNoBody(p) THEN p.crc32 = 0 ELSE p.crc32 = p.sum

\* A reply: code, declared length and the length of its body, whose bytes are sent
\* as they were allocated, with their checksum.
Reply(code, bodyLength) ==
    [msgCode |-> code, pkgLen |-> m_iLenPkgHeader + bodyLength, body |-> bodyLength]

\* SendNoBodyPkgToClient
NoBodyPkg(code) == Reply(code, 0)

Nothing == [calls |-> "none", pings |-> FALSE, replies |-> <<>>]
Rejected(h) == [Nothing EXCEPT !.calls = h]

_HandlePing(p) ==
    IF BodyLength(p) # 0 THEN Rejected("_HandlePing")
    ELSE [calls |-> "_HandlePing", pings |-> TRUE, replies |-> <<NoBodyPkg(_CMD_PING)>>]

\* _HandleRegister and _HandleLogIn differ in the structure they expect and send.
Answers(h, p, code, size) ==
    IF HasNoBody(p) \/ BodyLength(p) # size THEN Rejected(h)
    ELSE [calls |-> h, pings |-> FALSE, replies |-> <<Reply(code, size)>>]

_HandleRegister(p) == Answers("_HandleRegister", p, _CMD_REGISTER, SizeofRegister)
_HandleLogIn(p) == Answers("_HandleLogIn", p, _CMD_LOGIN, SizeofLogin)

\* The packet is the present client's: p.current stands for the comparison of
\* the sequence numbers, which ConnPool has in full.
threadRecvProcFunc(p) ==
    IF \/ ~ChecksumGood(p)
       \/ ~p.current
       \/ p.msgCode >= AUTH_TOTAL_COMMANDS
    THEN Nothing
    ELSE CASE statusHandler[p.msgCode] = "_HandlePing" -> _HandlePing(p)
           [] statusHandler[p.msgCode] = "_HandleRegister" -> _HandleRegister(p)
           [] statusHandler[p.msgCode] = "_HandleLogIn" -> _HandleLogIn(p)
           [] statusHandler[p.msgCode] = "NULL" -> Nothing

-----------------------------------------------------------------------------
\* What the comments say of each command: a ping has no body; the other two have
\* exactly their structure as body; the checksum of a packet is that of its body,
\* and 0 if it has none.  A packet that keeps this is answered with its own code.
BodyOf(code) == CASE code = _CMD_PING -> {0} [] code = _CMD_REGISTER -> {SizeofRegister}
                  [] code = _CMD_LOGIN -> {SizeofLogin} [] OTHER -> {}

Proper(p) ==
    /\ p.current
    /\ BodyLength(p) \in BodyOf(p.msgCode)
    /\ p.crc32 = IF BodyLength(p) = 0 THEN 0 ELSE p.sum
=============================================================================
