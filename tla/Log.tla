----------------------------------- MODULE Log -----------------------------------
(***************************************************************************)
(* The log (app/ngx_log.cpp): a line is put together in a buffer on the    *)
(* stack and written to the standard error, to the log file, or to both.   *)
(*                                                                         *)
(* A line is a sequence of characters: those of the message, which are     *)
(* positive numbers, and marks, one for each character, for the rest: Head *)
(* for what stands before the message ("nginx: ", or time, level and       *)
(* process), Info for the error number and its text, NewLine.              *)
(* ngx_vslprintf, which puts the message in, is in Printf.                 *)
(***************************************************************************)
EXTENDS Integers, Sequences

CONSTANTS
    NGX_MAX_ERROR_STR,  \* 2048
    StderrHead,         \* length of "nginx: "
    CoreHead,           \* length of time, level and process number
    NGX_LOG_STDERR,     \* 0, the level that is always written
    STDERR_FILENO       \* 2

ASSUME LogSizes ==
    /\ {NGX_MAX_ERROR_STR, StderrHead, CoreHead, STDERR_FILENO} \subseteq Nat
    /\ NGX_LOG_STDERR \in Int
    /\ NGX_MAX_ERROR_STR > StderrHead + 3 /\ NGX_MAX_ERROR_STR > CoreHead + 3

Head_ == -1
Info == -2
NewLine == -3

Marks(mark, n) == [i \in 1 .. n |-> mark]
Lower(a, b) == IF a <= b THEN a ELSE b

\* ngx_vslprintf into the rest of the buffer: the beginning that there is room for.
AddText(line, text) == line \o SubSeq(text, 1, Lower(Len(text), NGX_MAX_ERROR_STR - Len(line)))

\* ngx_log_errno: " (number: text) " of length n, whole or not at all.
ngx_log_errno(line, n) ==
    IF Len(line) + n < NGX_MAX_ERROR_STR THEN line \o Marks(Info, n) ELSE line

\* Mutant of EndLine: the end of a full buffer is not made free.
EndLineOver(line) == Append(line, NewLine)

\* The new line; the last characters of a line that is too long give way to it.
EndLine(line) ==
    Append(IF Len(line) >= NGX_MAX_ERROR_STR - 1
           THEN SubSeq(line, 1, NGX_MAX_ERROR_STR - 2) ELSE line, NewLine)

\* The message text with, if err is not 0, error text of length err.
Line(head, text, err) ==
    LET t == AddText(Marks(Head_, head), text)
    IN  EndLine(IF err # 0 THEN ngx_log_errno(t, err) ELSE t)

\* A descriptor, the level of the configuration and what write() to the file says.
\* The outcome: the lines that reach the standard error and the file.
Out(stderr, file) == [stderr |-> stderr, file |-> file]
Both(a, b) == Out(a.stderr \o b.stderr, a.file \o b.file)

\* write() to the log's descriptor, and to the standard error when it fails for
\* another reason than a full disk.
Write(log, line) ==
    CASE log.fd = STDERR_FILENO -> Out(<<line>>, <<>>)
      [] log.fd = -1 -> Out(<<line>>, <<>>)
      [] log.fd > STDERR_FILENO /\ log.write = "ok" -> Out(<<>>, <<line>>)
      [] log.fd > STDERR_FILENO /\ log.write = "ENOSPC" -> Out(<<>>, <<>>)
      [] log.fd > STDERR_FILENO /\ log.write = "error" -> Out(<<line>>, <<>>)

ngx_log_error_core(log, level, text, err) ==
    IF level > log.log_level THEN Out(<<>>, <<>>) ELSE Write(log, Line(CoreHead, text, err))

\* ngx_log_stderr: to the standard error; then, when there is a log file, what was
\* written without its new line is the message of a line of the file.
ngx_log_stderr(log, text, err) ==
    LET line == Line(StderrHead, text, err)
    IN  Both(Out(<<line>>, <<>>),
             IF log.fd > STDERR_FILENO
             THEN ngx_log_error_core(log, NGX_LOG_STDERR, SubSeq(line, 1, Len(line) - 1), 0)
             ELSE Out(<<>>, <<>>))

\* ngx_log_init: fd is what open() returns.  If it is -1 the failure is reported
\* with the error text err, before the standard error takes the file's place.
ngx_log_init(conf_level, fd, report, err) ==
    LET log == [log_level |-> conf_level, fd |-> fd, write |-> "ok"]
    IN  [log |-> IF fd = -1 THEN [log EXCEPT !.fd = STDERR_FILENO] ELSE log,
         out |-> IF fd = -1 THEN ngx_log_stderr(log, report, err) ELSE Out(<<>>, <<>>)]
=============================================================================
