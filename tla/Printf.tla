--------------------------------- MODULE Printf ---------------------------------
(***************************************************************************)
(* ngx_vslprintf and ngx_sprintf_num (app/ngx_printf.cpp): formatted text  *)
(* into a buffer that ends at last.                                        *)
(*                                                                         *)
(* The format is a sequence of pieces: a plain character, or a conversion  *)
(* with the flags between '%' and its letter and the argument it takes.    *)
(* The text is a sequence of characters: a digit is its value, any other   *)
(* character a negative number.  room is last - buf at the start.  A       *)
(* floating-point argument is a number of thousandths, and at most three   *)
(* decimals are asked for.                                                 *)
(***************************************************************************)
EXTENDS Integers, Sequences

\* Characters other than those of the format's plain text.
Minus == -1
Point == -2
Space == -3
Percent == -4

\* "%%" puts a character as a plain one does, and so does "%" before a letter that is
\* none of the conversions: it puts the letter.
Plain(c) == [conv |-> "plain", ch |-> c]
String(s) == [conv |-> "s", str |-> s]
Number(zero, width, hex, arg) ==
    [conv |-> "d", zero |-> zero, width |-> width, hex |-> hex, arg |-> arg]
Float(zero, width, frac_width, arg) ==
    [conv |-> "f", zero |-> zero, width |-> width, frac_width |-> frac_width, arg |-> arg]

\* *buf++ = c: one character, without a look at the end of the buffer.
Put(buf, c) == Append(buf, c)

Repeated(c, n) == [i \in 1 .. n |-> c]
Least(a, b) == IF a <= b THEN a ELSE b
Most(a, b) == IF a >= b THEN a ELSE b

\* The digits of n, the highest first; at least one.
Digits(n, base) ==
    LET d[k \in 0 .. n] ==
            IF k < base THEN <<k>> ELSE Append(d[k \div base], k % base)
    IN  d[n]

\* Mutant of ngx_sprintf_num: the padding does not look at the end of the buffer.
SprintfNumPadsOn(buf, room, n, zero, hex, width) ==
    LET digits == Digits(n, IF hex THEN 16 ELSE 10)
        padded == buf \o Repeated(zero, Most(width - Len(digits), 0))
        len == Least(Len(digits), Most(room - Len(padded), 0))
    IN  padded \o SubSeq(digits, 1, len)

\* ngx_sprintf_num: pads to width while there is room, then copies what fits.
ngx_sprintf_num(buf, room, n, zero, hex, width) ==
    LET digits == Digits(n, IF hex THEN 16 ELSE 10)
        pad == Least(Most(width - Len(digits), 0), room - Len(buf))
        padded == buf \o Repeated(zero, pad)
        len == IF Len(padded) + Len(digits) >= room THEN room - Len(padded)
               ELSE Len(digits)
    IN  padded \o SubSeq(digits, 1, len)

Filler(piece) == IF piece.zero THEN 0 ELSE Space

\* %s: characters while there are any and while they fit.
CopyString(buf, room, s) == buf \o SubSeq(s, 1, Least(Len(s), room - Len(buf)))

\* %d, %i, %L, %P: the sign, then the number.  With u, or with x or X (hex, and
\* both in the same digits here), the argument is a natural number.
PutInteger(buf, room, piece) ==
    LET signed == IF piece.arg < 0 THEN Put(buf, Minus) ELSE buf
        ui64 == IF piece.arg < 0 THEN -piece.arg ELSE piece.arg
    IN  ngx_sprintf_num(signed, room, ui64, Filler(piece), piece.hex, piece.width)

Power10 == <<10, 100, 1000>>

\* (uint64_t) ((f - ui64) * scale + 0.5), of f in thousandths.
Fraction(f, scale) == (2 * (f % 1000) * scale + 1000) \div 2000

\* %f, %.nf: the whole number, rounded up if the decimals carry, the point if it
\* fits, the decimals filled with zeros.
PutFloat(buf, room, piece) ==
    LET signed == IF piece.arg < 0 THEN Put(buf, Minus) ELSE buf
        f == IF piece.arg < 0 THEN -piece.arg ELSE piece.arg
        scale == IF piece.frac_width = 0 THEN 1 ELSE Power10[piece.frac_width]
        rounded == Fraction(f, scale)
        carries == piece.frac_width # 0 /\ rounded = scale
        ui64 == f \div 1000 + IF carries THEN 1 ELSE 0
        frac == IF carries THEN 0 ELSE rounded
        whole == ngx_sprintf_num(signed, room, ui64, Filler(piece), FALSE, piece.width)
    IN  IF piece.frac_width = 0 THEN whole
        ELSE ngx_sprintf_num(IF Len(whole) < room THEN Put(whole, Point) ELSE whole,
                             room, frac, 0, FALSE, piece.frac_width)

PutPiece(buf, room, piece) ==
    CASE piece.conv = "plain" -> Put(buf, piece.ch)
      [] piece.conv = "s" -> CopyString(buf, room, piece.str)
      [] piece.conv = "f" -> PutFloat(buf, room, piece)
      [] piece.conv = "d" -> PutInteger(buf, room, piece)

\* ngx_vslprintf: piece by piece while the buffer has room.
ngx_vslprintf(fmt, room) ==
    LET out[n \in 0 .. Len(fmt)] ==
            IF n = 0 THEN <<>>
            ELSE LET buf == out[n - 1]
                 IN  IF Len(buf) < room THEN PutPiece(buf, room, fmt[n]) ELSE buf
    IN  out[Len(fmt)]

-----------------------------------------------------------------------------
(* What printf promises, without a buffer. *)

\* The number that digits in this base stand for.
ValueOf(digits, base) ==
    LET v[k \in 0 .. Len(digits)] == IF k = 0 THEN 0 ELSE v[k - 1] * base + digits[k]
    IN  v[Len(digits)]

\* t is n in this base, right-aligned in width characters with fill before it.
Shows(t, n, base, width, fill) ==
    \E k \in 0 .. Len(t) :
        LET digits == SubSeq(t, k + 1, Len(t))
        IN  /\ \A i \in 1 .. k : t[i] = fill
            /\ k > 0 => Len(t) = width
            /\ Len(t) >= width
            /\ digits # <<>> /\ \A i \in DOMAIN digits : digits[i] \in 0 .. base - 1
            /\ Len(digits) > 1 => digits[1] # 0
            /\ ValueOf(digits, base) = n

Magnitude(n) == IF n < 0 THEN -n ELSE n

\* A minus sign, if the number is negative, and then the number.
ShowsSigned(t, n, base, width, fill) ==
    /\ n < 0 => t # <<>> /\ Head(t) = Minus
    /\ Shows(IF n < 0 THEN Tail(t) ELSE t, Magnitude(n), base, width, fill)

\* t shows f, of thousandths, with d decimals, rounded to the nearest value, halves
\* away from 0.
ShowsFloat(t, f, d, width, fill) ==
    LET unit == IF d = 0 THEN 1000 ELSE 1000 \div Power10[d]
        nearest == IF d = 0 THEN Magnitude(f) \div 1000
                   ELSE (Magnitude(f) + unit \div 2) \div unit
        body == IF f < 0 THEN Tail(t) ELSE t
    IN  /\ f < 0 => t # <<>> /\ Head(t) = Minus
        /\ IF d = 0 THEN Shows(body, nearest, 10, width, fill)
           ELSE /\ Len(body) > d + 1 /\ body[Len(body) - d] = Point
                /\ LET decimals == SubSeq(body, Len(body) - d + 1, Len(body))
                   IN  /\ \A i \in DOMAIN decimals : decimals[i] \in 0 .. 9
                       /\ ValueOf(decimals, 10) = nearest % Power10[d]
                /\ Shows(SubSeq(body, 1, Len(body) - d - 1), nearest \div Power10[d],
                         10, width, fill)
=============================================================================
