---------------------------------- MODULE Conf ----------------------------------
(***************************************************************************)
(* The configuration file (app/ngx_c_conf.cpp, Trim of app/ngx_string.cpp):*)
(* what Load takes from a line, and how items are looked up afterwards.    *)
(*                                                                         *)
(* A line is a sequence of characters, the end of line among them; each    *)
(* is a pair of the letter and its case, which the lookup ignores.  A line *)
(* has at most 510 characters: fgets would cut a longer one in two.        *)
(***************************************************************************)
EXTENDS Integers, Sequences

Letter(name, upper) == <<name, upper>>
Sign(c) == <<c, FALSE>>

Blank == Sign(" ")
NL == Sign("newline")
CR == Sign("return")
TabChar == Sign("tab")
Equals == Sign("=")

\* Characters at the start of a line that make it a comment, and those removed
\* from its end.
CommentStart == {Sign(";"), Blank, Sign("#"), TabChar, NL}
LineEnd == {NL, CR, Blank}
Section == Sign("[")

\* s without its last characters that are in C.
StripEnd(s, C) ==
    LET n == CHOOSE k \in 0 .. Len(s) :
                /\ \A i \in k + 1 .. Len(s) : s[i] \in C
                /\ k > 0 => s[k] \notin C
    IN  SubSeq(s, 1, n)

\* Mutant of Trim: only the end is trimmed.
TrimEnd(s) ==
    IF \A i \in DOMAIN s : s[i] = Blank THEN s ELSE StripEnd(s, {Blank})

\* Trim: find_first_not_of and find_last_not_of find nothing in a string of spaces
\* alone, which therefore stays as it is.
Trim(s) ==
    IF \A i \in DOMAIN s : s[i] = Blank THEN s
    ELSE LET first == CHOOSE k \in DOMAIN s :
                        s[k] # Blank /\ \A i \in 1 .. k - 1 : s[i] = Blank
         IN  StripEnd(SubSeq(s, first, Len(s)), {Blank})

\* strchr(linebuf, '=')
FirstEquals(s) ==
    CHOOSE k \in DOMAIN s : s[k] = Equals /\ \A i \in 1 .. k - 1 : s[i] # Equals

Item(name, content) == [ItemName |-> name, ItemContent |-> content]

\* The items of a line: one or none.
ItemsOf(line) ==
    LET stripped == StripEnd(line, LineEnd)
    IN  IF \/ line = <<>> \/ line[1] \in CommentStart
           \/ stripped = <<>> \/ stripped[1] = Section
           \/ \A i \in DOMAIN stripped : stripped[i] # Equals
        THEN <<>>
        ELSE LET k == FirstEquals(stripped)
             IN  <<Item(Trim(SubSeq(stripped, 1, k - 1)),
                        Trim(SubSeq(stripped, k + 1, Len(stripped))))>>

\* Load: m_ConfigItemList of a file, which is a sequence of lines.
Load(file) ==
    LET list[n \in 0 .. Len(file)] ==
            IF n = 0 THEN <<>> ELSE list[n - 1] \o ItemsOf(file[n])
    IN  list[Len(file)]

\* strcasecmp(a, b) == 0
SameName(a, b) == Len(a) = Len(b) /\ \A i \in DOMAIN a : a[i][1] = b[i][1]

Named(list, name) == {k \in DOMAIN list : SameName(list[k].ItemName, name)}

\* The loop of GetString and GetIntDefault: the content of the first item of the
\* name, if there is one.
Lookup(list, name) ==
    {list[k].ItemContent : k \in {n \in Named(list, name) : \A i \in Named(list, name) : n <= i}}

\* atoi: the digits at the start.
DigitOf == [c \in {Sign("0"), Sign("5"), Sign("9")} |->
                CASE c = Sign("0") -> 0 [] c = Sign("5") -> 5 [] c = Sign("9") -> 9]

atoi(s) ==
    LET n == CHOOSE k \in 0 .. Len(s) :
                /\ \A i \in 1 .. k : s[i] \in DOMAIN DigitOf
                /\ k < Len(s) => s[k + 1] \notin DOMAIN DigitOf
        v[k \in 0 .. n] == IF k = 0 THEN 0 ELSE v[k - 1] * 10 + DigitOf[s[k]]
    IN  v[n]

NULL == <<Sign("NULL")>>
GetString(list, name) ==
    IF Lookup(list, name) = {} THEN NULL ELSE CHOOSE c \in Lookup(list, name) : TRUE
GetIntDefault(list, name, def) ==
    IF Lookup(list, name) = {} THEN def ELSE atoi(CHOOSE c \in Lookup(list, name) : TRUE)

-----------------------------------------------------------------------------
(* What a line means to the person who wrote it. *)

\* x without spaces around it.
Bare(x) == x # <<>> => x[1] # Blank /\ x[Len(x)] # Blank

\* A line that is neither comment nor section and has a "=" defines a name.
IsDefinition(line) ==
    /\ line # <<>> /\ line[1] \notin CommentStart \cup {Section}
    /\ \E i \in DOMAIN line : line[i] = Equals

\* It is "name = content", with spaces around both and any line end.
Defines(line, name, content) ==
    /\ Bare(name) /\ Bare(content)
    /\ content # <<>> => content[Len(content)] \notin LineEnd
    /\ \E e \in DOMAIN line : \E i \in 1 .. e : \E k \in e + 1 .. Len(line) + 1 :
          /\ line[e] = Equals /\ \A n \in 1 .. e - 1 : line[n] # Equals
          /\ SubSeq(line, i, i + Len(name) - 1) = name
          /\ SubSeq(line, k, k + Len(content) - 1) = content
          /\ \A n \in (1 .. i - 1) \cup (i + Len(name) .. e - 1) \cup (e + 1 .. k - 1) :
                line[n] = Blank
          /\ \A n \in k + Len(content) .. Len(line) : line[n] \in LineEnd
=============================================================================
