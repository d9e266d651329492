------------------------------ MODULE MCCalls ------------------------------
(* Calls with small sets of arguments. *)
EXTENDS Calls

\* No byte, every single byte, and messages of two to six chosen bytes.
SomeBytes == {{}, {0}, {7}, {0, 1, 2, 3, 4, 5, 6, 7}, {1, 4, 6}}
SmallBuffers ==
    {<<>>} \cup {<<b>> : b \in SUBSET Byte} \cup {<<b, c>> : b, c \in SomeBytes}
    \cup {<<{0}, {}, {7}>>, <<{}, {}, {}, {}, {}, {}>>}

\* The checksum of no bytes is 0; that of a body may be 0 too.
SmallPackets ==
    {p \in [pkgLen : {8, 9, 15, 16, 17, 103, 104, 105, 107, 108, 109},
            msgCode : 0 .. 8, crc32 : {0, 1, 2}, sum : {0, 1}, current : BOOLEAN] :
        p.pkgLen = m_iLenPkgHeader => p.sum = 0}

Signs == {Letter("a", FALSE), Letter("a", TRUE), Letter("b", FALSE), Sign("5"),
          Blank, Equals, Sign(";"), Section}
FewSigns == {Letter("a", FALSE), Letter("a", TRUE), Equals, Sign("5")}
Strings(S, n) == UNION {[1 .. k -> S] : k \in 0 .. n}
Ended(S) == {Append(s, NL) : s \in S}

\* One line, with or without its end, and two lines.
SmallFiles ==
    {<<>>} \cup {<<s>> : s \in (Strings(Signs, 4) \ {<<>>}) \cup Ended(Strings(Signs, 3))}
    \cup {<<s \o <<CR, NL>>>> : s \in Strings(Signs, 2)}
    \cup {<<s, t>> : s \in Ended(Strings(FewSigns, 3)), t \in Ended(Strings(FewSigns, 2))}
SmallNames == {<<Letter("a", FALSE)>>, <<Letter("a", TRUE), Sign("5")>>}

Pieces ==
    {Plain(-5), String(<<>>), String(<<-5, -6, -7>>)}
    \cup {Number(z, w, FALSE, n) : z \in BOOLEAN, w \in {0, 2, 4},
                                   n \in {-120, -7, 0, 9, 10, 171, 4095}}
    \cup {Number(z, w, TRUE, n) : z \in BOOLEAN, w \in {0, 2, 4},
                                  n \in {0, 9, 16, 171, 4095}}
    \cup {Float(z, w, d, f) : z \in BOOLEAN, w \in {0, 3}, d \in 0 .. 3,
                              f \in {-12999, -4, 0, 125, 996, 999, 2625, 12537}}
FewPieces ==
    {Plain(-5), String(<<-5, -6>>), Number(FALSE, 3, FALSE, -12), Number(TRUE, 0, TRUE, 31),
     Float(TRUE, 2, 2, 1996)}
SmallFormats == {<<>>} \cup {<<p>> : p \in Pieces} \cup {<<p, q>> : p, q \in FewPieces}
                \cup {<<p, q, r>> : p, q, r \in FewPieces}

\* Messages of up to 14 characters, each character another.
SmallMessages == {[i \in 1 .. n |-> i] : n \in 0 .. 14}
SmallLogs ==
    [log_level : 0 .. 2, fd : {-1, 2, 3}, write : {"ok", "ENOSPC", "error"}]

\* Up to three arguments and two strings of the environment, with up to two characters.
Words == Strings({1, 2}, 2)
SmallArguments == UNION {[1 .. n -> Words] : n \in 1 .. 2} \cup {<<<<1>>, <<>>, <<2>>>>}
SmallEnvironments == UNION {[1 .. n -> Words] : n \in 0 .. 2}
TheMaster == <<3, 4, 5>>
TheWorker == <<6, 7>>
=============================================================================
