---------------------------------- MODULE Calls ----------------------------------
(***************************************************************************)
(* Calls of the functions that keep no state: the checksum of a packet,    *)
(* the choice and the answer of its handler, the configuration, formatted  *)
(* text, the lines of the log and the titles of the processes.  A          *)
(* behaviour is one call, with arguments of the constants' sets, and its   *)
(* result, which the properties compare with what the function promises.   *)
(***************************************************************************)
EXTENDS Crc32, Handlers, Conf, Printf, Log, Title

CONSTANTS
    Buffers,            \* bodies of packets
    Packets,            \* packets for threadRecvProcFunc, see Handlers
    Files, Names,       \* configuration files and names looked up in them
    Formats, Rooms,     \* formats, and sizes of the buffer
    Unbounded,          \* size of a buffer that is large enough for any of them
    Logs, Levels, Messages, ErrLengths,    \* states of the log, and what is written
    Arguments, Environments                \* that a process is started with

\* What the program calls the functions with: a body is a sequence of bytes; a packet
\* has the length of its header at least, and a body of no bytes the checksum 0; the
\* level of a log lets through what is always written; it has no file, or the standard
\* error, or a file that was opened later; a process has a name; no string has a NUL.
ASSUME CallsOfCrc == Buffers \subseteq Seq(SUBSET Byte)

ASSUME CallsOfPackets ==
    \A p \in Packets :
        /\ p \in [pkgLen : Nat, msgCode : Nat, crc32 : Nat, sum : Nat, current : BOOLEAN]
        /\ p.pkgLen >= m_iLenPkgHeader
        /\ p.pkgLen = m_iLenPkgHeader => p.sum = 0

ASSUME CallsOfConf ==
    /\ \A f \in Files : f \in Seq(Seq(STRING \X BOOLEAN))
    /\ \A n \in Names : n \in Seq(STRING \X BOOLEAN)

ASSUME CallsOfLog ==
    /\ \A log \in Logs :
          /\ log \in [log_level : Int, fd : Int, write : {"ok", "ENOSPC", "error"}]
          /\ log.log_level >= NGX_LOG_STDERR
          /\ log.fd = -1 \/ log.fd >= STDERR_FILENO
    /\ Levels \subseteq Int /\ Messages \subseteq Seq(Nat \ {NUL}) /\ ErrLengths \subseteq Nat

ASSUME CallsOfTitles ==
    /\ \A a \in Arguments : a # <<>> /\ a \in Seq(Seq(Nat \ {NUL}))
    /\ \A e \in Environments : e \in Seq(Seq(Nat \ {NUL}))

VARIABLES
    call,    \* the function and its arguments
    result   \* <<>>, then <<what it returns>>

vars == <<call, result>>

Init ==
    /\ result = <<>>
    /\ \/ \E b \in Buffers : call = [fn |-> "Get_CRC", buffer |-> b]
       \/ \E p \in Packets : call = [fn |-> "threadRecvProcFunc", packet |-> p]
       \/ \E f \in Files, n \in Names : call = [fn |-> "GetString", file |-> f, name |-> n]
       \/ \E f \in Files, n \in Names :
            call = [fn |-> "GetIntDefault", file |-> f, name |-> n]
       \/ \E f \in Formats, r \in Rooms : call = [fn |-> "ngx_vslprintf", fmt |-> f, room |-> r]
       \/ \E log \in Logs, v \in Levels, t \in Messages, e \in ErrLengths :
            call = [fn |-> "ngx_log_error_core", log |-> log, level |-> v, text |-> t, err |-> e]
       \/ \E log \in Logs, t \in Messages, e \in ErrLengths :
            call = [fn |-> "ngx_log_stderr", log |-> log, text |-> t, err |-> e]
       \/ \E fd \in {-1, STDERR_FILENO + 1}, v \in Levels, t \in Messages, e \in ErrLengths \ {0} :
            call = [fn |-> "ngx_log_init", fd |-> fd, level |-> v, text |-> t, err |-> e]
       \/ \E a \in Arguments, e \in Environments :
            call = [fn |-> "ngx_setproctitle", argv |-> a, env |-> e]

Returns(fn, r) == call.fn = fn /\ result = <<>> /\ result' = <<r>> /\ UNCHANGED call

CallChecksum == Returns("Get_CRC", Get_CRC(call.buffer))

CallHandler == Returns("threadRecvProcFunc", threadRecvProcFunc(call.packet))

CallString == Returns("GetString", GetString(Load(call.file), call.name))

\* -1 is a default that no content of the file has.
CallInt == Returns("GetIntDefault", GetIntDefault(Load(call.file), call.name, -1))

CallPrintf == Returns("ngx_vslprintf", ngx_vslprintf(call.fmt, call.room))

CallLog ==
    Returns("ngx_log_error_core", ngx_log_error_core(call.log, call.level, call.text, call.err))

CallStderr == Returns("ngx_log_stderr", ngx_log_stderr(call.log, call.text, call.err))

CallInit == Returns("ngx_log_init", ngx_log_init(call.level, call.fd, call.text, call.err))

CallTitles == Returns("ngx_setproctitle", Titles(call.argv, call.env))

Next ==
    \/ CallChecksum \/ CallHandler \/ CallString \/ CallInt
    \/ CallPrintf \/ CallLog \/ CallStderr \/ CallInit \/ CallTitles

Spec == Init /\ [][Next]_vars

Returned(fn) == call.fn = fn /\ result # <<>>
value == result[1]

-----------------------------------------------------------------------------
(* The checksum and the handlers. *)

\* The table-driven checksum (ngx_c_crc32.cpp:73) is the remainder of the division
\* of the message by the CRC polynomial, its first 32 bits inverted, as the clients
\* compute it too.
ChecksumIsRemainder ==
    Returned("Get_CRC") => value = PolynomialChecksum(call.buffer)

\* A packet changes something, and is answered, exactly if it is the present
\* client's, has the body its code calls for and the checksum of that body: the test
\* for "no body" of slogic.cpp:81, which compares with the wrong header's size,
\* neither lets another packet through nor stops one of these.  The answer is one
\* packet of the same kind, with a body the client expects and its true length.
ProperAnswered ==
    Returned("threadRecvProcFunc") =>
        /\ value.pings = (Proper(call.packet) /\ call.packet.msgCode = _CMD_PING)
        /\ Len(value.replies) = IF Proper(call.packet) THEN 1 ELSE 0
        /\ \A i \in DOMAIN value.replies :
              LET r == value.replies[i]
              IN  /\ r.msgCode = call.packet.msgCode
                  /\ r.body \in BodyOf(r.msgCode)
                  /\ r.pkgLen = r.body + m_iLenPkgHeader

-----------------------------------------------------------------------------
(* The configuration. *)

\* The lines of the file that define the name, in either case of its letters.
Defining(file, name) ==
    {i \in DOMAIN file :
        ItemsOf(file[i]) # <<>> /\ SameName(ItemsOf(file[i])[1].ItemName, name)}

\* Load (ngx_c_conf.cpp:36) takes from a line what its writer meant: the name before
\* the first "=" and the content after it, without spaces around them and without
\* the line's end, and nothing from a comment, a section or a line without "=".
\* A name defined twice has the content of its first definition, whatever stands
\* between or after; only a name without a definition gets the default (lines 95 and
\* 106).
ItemsAsWritten ==
    call.fn \in {"GetString", "GetIntDefault"} /\ result # <<>> =>
        LET D == Defining(call.file, call.name)
            first == ItemsOf(call.file[CHOOSE i \in D : \A j \in D : i <= j])[1]
        IN  /\ \A n \in DOMAIN call.file :
                  LET line == call.file[n]
                      items == ItemsOf(line)
                  IN  IF IsDefinition(line)
                      THEN Len(items) = 1 /\ Defines(line, items[1].ItemName, items[1].ItemContent)
                      ELSE items = <<>>
            /\ value = CASE call.fn = "GetString" -> IF D = {} THEN NULL ELSE first.ItemContent
                         [] OTHER -> IF D = {} THEN -1 ELSE atoi(first.ItemContent)

-----------------------------------------------------------------------------
(* Formatted text. *)

\* The pieces have arguments of their conversion; a number that is shown in base 16 has
\* no sign; a buffer of the size Unbounded has room for the text of every format.
ASSUME CallsOfPrintf ==
    /\ Rooms \subseteq Nat /\ Unbounded \in Nat
    /\ \A fmt \in Formats :
          /\ fmt \in Seq([conv : {"plain"}, ch : Int] \cup [conv : {"s"}, str : Seq(Int)]
                         \cup [conv : {"d"}, zero : BOOLEAN, width : Nat, hex : BOOLEAN, arg : Int]
                         \cup [conv : {"f"}, zero : BOOLEAN, width : Nat, frac_width : 0 .. 3,
                               arg : Int])
          /\ \A i \in DOMAIN fmt : fmt[i].conv = "d" => ~(fmt[i].hex /\ fmt[i].arg < 0)
          /\ Len(ngx_vslprintf(fmt, Unbounded)) < Unbounded

\* t shows the argument of the conversion p: an integer in its base, a fraction
\* rounded to its decimals, both with their sign and padded on the left to the width.
ShowsArgument(t, p) ==
    CASE p.conv = "d" -> ShowsSigned(t, p.arg, IF p.hex THEN 16 ELSE 10, p.width, Filler(p))
      [] p.conv = "f" -> ShowsFloat(t, p.arg, p.frac_width, p.width, Filler(p))
      [] p.conv = "s" -> t = p.str
      [] p.conv = "plain" -> t = <<p.ch>>

\* Whatever the format, its widths and its arguments, nothing is written behind the
\* end of the buffer (last, ngx_printf.cpp:52), and a buffer that is too small holds
\* the beginning of the text the format asks for, never other text: a number, its
\* padding or its decimals are cut where the buffer ends, and the carry of the
\* decimals (line 231) is in the whole number before them.
TextAsAsked ==
    Returned("ngx_vslprintf") =>
        LET text == ngx_vslprintf(call.fmt, Unbounded)
        IN  /\ Len(call.fmt) = 1 => ShowsArgument(text, call.fmt[1])
            /\ value = SubSeq(text, 1, Least(call.room, Len(text)))

-----------------------------------------------------------------------------
(* The lines of the log. *)

Logging == {"ngx_log_error_core", "ngx_log_stderr", "ngx_log_init"}

\* What a call of the log wrote, and where to.
Written == IF call.fn = "ngx_log_init" THEN value.out ELSE value
Lines(out) == {out.stderr[i] : i \in DOMAIN out.stderr} \cup {out.file[i] : i \in DOMAIN out.file}

\* The line that was put together first: a second one repeats it as its message.
FirstLine(out) == IF out.stderr # <<>> THEN out.stderr[1] ELSE out.file[1]

\* How many lines reach the standard error and the file: a message of the log is
\* written in one place unless its level is above the configured one or the disk is
\* full; one for the standard error is there, and in an open log file too.
InItsPlace(out) ==
    CASE call.fn = "ngx_log_error_core" ->
            Len(out.stderr) + Len(out.file) =
                IF \/ call.level > call.log.log_level
                   \/ call.log.fd > STDERR_FILENO /\ call.log.write = "ENOSPC"
                THEN 0 ELSE 1
      [] call.fn = "ngx_log_stderr" ->
            LET file == call.log.fd > STDERR_FILENO
            IN  /\ Len(out.stderr) = IF file /\ call.log.write = "error" THEN 2 ELSE 1
                /\ Len(out.file) = IF file /\ call.log.write = "ok" THEN 1 ELSE 0
      [] call.fn = "ngx_log_init" ->
            /\ Len(out.stderr) = IF call.fd = -1 THEN 1 ELSE 0
            /\ out.file = <<>> /\ value.log.fd >= STDERR_FILENO

\* The line is what stands before a message, the message's own characters from the
\* first on, the text of the error and one new line.  The message is cut only where the
\* buffer ends; the error's text is whole, or for want of room without the blank at its
\* end, or left out.
Tells(line, head, text, err) ==
    \E n \in {0, err - 1, err} :
        LET t == Lower(Len(text), NGX_MAX_ERROR_STR - 2 - head)
        IN  /\ line = Marks(Head_, head) \o SubSeq(text, 1, t) \o Marks(Info, n) \o <<NewLine>>
            /\ Len(line) < NGX_MAX_ERROR_STR
            /\ n < err => head + t + err >= NGX_MAX_ERROR_STR - 1

\* No message vanishes, also when the log file cannot be opened or written
\* (ngx_log.cpp:182).  Every line that is written tells the message it was called with
\* and ends in its one new line, within the buffer and with room for the 0 behind it,
\* however long the message and the error text are (lines 59, 100 and 162); the line
\* of the log that repeats one for the standard error (line 74) tells all of it, with
\* its error, as far as there is room.
LinesWhole ==
    call.fn \in Logging /\ result # <<>> =>
        /\ InItsPlace(Written)
        /\ Lines(Written) # {} =>
              LET first == FirstLine(Written)
                  head == IF call.fn = "ngx_log_error_core" THEN CoreHead ELSE StderrHead
              IN  /\ Tells(first, head, call.text, call.err)
                  /\ \A line \in Lines(Written) \ {first} :
                        Tells(line, CoreHead, SubSeq(first, 1, Len(first) - 1), 0)

-----------------------------------------------------------------------------
(* The titles of the processes. *)

ShownIn(p, title, size) == p.args = title \o Zeros(size - Len(title))

\* What ps shows of the master and of a worker is its own title without remains of a
\* longer one before, of the arguments or of the environment (ngx_setproctitle.cpp:53),
\* and exactly their memory is written, also by a title that just fits or is just too
\* long (line 36); the master's fits the buffer it is built in (process_cycle.cpp:57).
TitleAlone ==
    Returned("ngx_setproctitle") =>
        LET size == Len(value.moved.args)
            title == MasterTitle(value.moved)
        IN  /\ IF TitleFits(value.moved)
               THEN Len(title) < TitleSize
                    /\ IF Len(title) < size THEN ShownIn(value.master, title, size)
                       ELSE value.master = value.moved
               ELSE value.master = value.moved
            /\ IF Len(WorkerName) < size THEN ShownIn(value.worker, WorkerName, size)
               ELSE value.worker = value.master

\* The environment a process was started with can be read unchanged after its title,
\* and the title of the process it was forked from, were written over the place where
\* it was (ngx_setproctitle.cpp:22).
EnvironmentKept ==
    Returned("ngx_setproctitle") =>
        \A i \in DOMAIN call.env :
            EnvString(value.master, i) = call.env[i] /\ EnvString(value.worker, i) = call.env[i]
=============================================================================
