--------------------------------- MODULE Crc32 ---------------------------------
(***************************************************************************)
(* CCRC32 (misc/ngx_c_crc32.cpp), the checksum of a packet's body.         *)
(*                                                                         *)
(* An unsigned number is the set of its bits that are 1, bit 0 the lowest: *)
(* exclusive or is the symmetric difference, a shift moves the elements,   *)
(* and bits shifted out of the word's 32 are lost.                         *)
(***************************************************************************)
EXTENDS Integers, Sequences

Word == 0 .. 31
Byte == 0 .. 7

Xor(a, b) == (a \ b) \cup (b \ a)
ShiftLeft(a, n) == {b + n : b \in a} \cap Word
ShiftRight(a, n) == {b - n : b \in {c \in a : c >= n}}

\* Swaps bit 0 for bit ch - 1, bit 1 for bit ch - 2, and so on.
Reflect(ref, ch) == {ch - 1 - b : b \in ref \cap 0 .. ch - 1}

\* 0x04c11db7
ulPolynomial == {26, 23, 22, 16, 12, 11, 10, 8, 7, 5, 4, 2, 1, 0}

\* One of the eight steps that divide an entry of the table.
DivideStep(entry) ==
    Xor(ShiftLeft(entry, 1), IF 31 \in entry THEN ulPolynomial ELSE {})

Init_CRC32_Table(i) ==
    LET entry[j \in 0 .. 8] ==
            IF j = 0 THEN ShiftLeft(Reflect(i, 8), 24) ELSE DivideStep(entry[j - 1])
    IN  Reflect(entry[8], 32)

crc32_table == [i \in SUBSET Byte |-> Init_CRC32_Table(i)]

\* Mutant of NextCrc: the byte is not mixed into the index.
NextCrcUnmixed(crc, byte) == Xor(ShiftRight(crc, 8), crc32_table[crc \cap Byte])

NextCrc(crc, byte) == Xor(ShiftRight(crc, 8), crc32_table[Xor(crc \cap Byte, byte)])

\* The buffer is a sequence of bytes.
Get_CRC(buffer) ==
    LET crc[n \in 0 .. Len(buffer)] ==
            IF n = 0 THEN Word ELSE NextCrc(crc[n - 1], buffer[n])
    IN  Xor(crc[Len(buffer)], Word)

-----------------------------------------------------------------------------
(* What the checksum stands for: the remainder of a division of polynomials *)
(* over GF(2).  A polynomial is the set of its exponents.                   *)

Divisor == ulPolynomial \cup {32}

\* The remainder of p, whose exponents are below top, by long division.
Remainder(p, top) ==
    LET rest[n \in 32 .. top] ==
            IF n = top THEN p
            ELSE LET r == rest[n + 1]
                 IN  IF n \in r THEN Xor(r, {d + n - 32 : d \in Divisor}) ELSE r
    IN  rest[32]

\* The message as a polynomial: bytes in order, the lowest bit of a byte first,
\* so it has the highest exponent; 32 exponents are kept free for the checksum.
Message(buffer) ==
    LET bits == 8 * Len(buffer)
    IN  UNION {{bits + 31 - (8 * (i - 1) + b) : b \in buffer[i]} : i \in DOMAIN buffer}

\* The first 32 bits are inverted, then the message is divided, and the
\* remainder is inverted and reflected.
PolynomialChecksum(buffer) ==
    LET top == 8 * Len(buffer) + 32
        start == {top - 1 - b : b \in Word}
    IN  Xor(Reflect(Remainder(Xor(Message(buffer), start), top), 32), Word)
=============================================================================
