---------------------------------- MODULE Title ----------------------------------
(***************************************************************************)
(* The title of a process (app/ngx_setproctitle.cpp, proc/                 *)
(* ngx_process_cycle.cpp), which `ps' reads from the memory of argv: the   *)
(* title is written over the arguments and over the environment that       *)
(* follows them, so the environment has to move away first.                *)
(*                                                                         *)
(* Memory is a sequence of characters, NUL or a positive number; a string  *)
(* in it ends before the first NUL.  A process is a record of this memory  *)
(* (args), the copy of the environment (gp_envmem), where the strings of   *)
(* environ are, and whether argv has more than its first element.          *)
(***************************************************************************)
EXTENDS Integers, Sequences, SequencesExt

CONSTANTS
    MasterName,    \* "master process"
    WorkerName,    \* "worker process"
    BlankChar,
    TitleSize      \* 1000, of the buffer in ngx_master_process_cycle

NUL == 0

ASSUME TitleTexts ==
    /\ MasterName \in Seq(Nat \ {NUL}) /\ WorkerName \in Seq(Nat \ {NUL})
    /\ BlankChar \in Nat \ {NUL} /\ TitleSize \in Nat
Zeros(n) == [i \in 1 .. n |-> NUL]

\* The strings one after the other, each with its NUL; and where one of them starts.
InMemory(strings) == FlattenSeq([i \in DOMAIN strings |-> Append(strings[i], NUL)])
PlaceOf(strings, i) == Len(InMemory(SubSeq(strings, 1, i - 1))) + 1

StringAt(mem, at) ==
    SubSeq(mem, at, CHOOSE k \in at - 1 .. Len(mem) :
                        /\ \A j \in at .. k : mem[j] # NUL
                        /\ k < Len(mem) => mem[k + 1] = NUL)

\* The memory after s was written to its start; it is longer if s went beyond its end.
Over(mem, s) == s \o SubSeq(mem, Len(s) + 1, Len(mem))

\* The process as the kernel starts it.
Started(argv, env) ==
    [args |-> InMemory(argv \o env), gp_envmem |-> <<>>,
     argv |-> [i \in DOMAIN argv |-> PlaceOf(argv, i)],
     environ |-> [i \in DOMAIN env |-> [moved |-> FALSE, at |-> PlaceOf(argv \o env, Len(argv) + i)]]]

EnvString(p, i) ==
    StringAt(IF p.environ[i].moved THEN p.gp_envmem ELSE p.args, p.environ[i].at)

\* Mutant of ngx_init_setproctitle: the strings are copied, environ stays.
InitCopiesOnly(p) ==
    [p EXCEPT !.gp_envmem = InMemory([i \in DOMAIN p.environ |-> EnvString(p, i)])]

ngx_init_setproctitle(p) ==
    LET env == [i \in DOMAIN p.environ |-> EnvString(p, i)]
    IN  [p EXCEPT !.gp_envmem = InMemory(env),
                  !.environ = [i \in DOMAIN env |-> [moved |-> TRUE, at |-> PlaceOf(env, i)]]]

\* Mutant of ngx_setproctitle: the rest of the memory is not cleared.
SetTitleOver(p, title) ==
    IF Len(p.args) <= Len(title) THEN p
    ELSE [p EXCEPT !.argv = <<@[1]>>, !.args = Over(@, Append(title, NUL))]

\* strcpy, then memset of what is left of the g_argvneedmem + g_envneedmem bytes.
ngx_setproctitle(p, title) ==
    IF Len(p.args) <= Len(title) THEN p
    ELSE [p EXCEPT !.argv = <<@[1]>>,
                   !.args = Over(Over(@, Append(title, NUL)),
                                 title \o Zeros(Len(p.args) - Len(title)))]

\* The text ngx_master_process_cycle builds: its name, a blank, and the arguments
\* without anything between them, if the sum of the sizes is small enough.
MasterTitle(p) ==
    Append(MasterName, BlankChar)
        \o FlattenSeq([i \in DOMAIN p.argv |-> StringAt(p.args, p.argv[i])])

TitleFits(p) == Len(MasterName) + 1 + Len(p.args) - Len(p.gp_envmem) < TitleSize
MasterTitled(p) ==
    IF TitleFits(p)
    THEN ngx_setproctitle(p, MasterTitle(p)) ELSE p

\* main, then ngx_master_process_cycle, then ngx_worker_process_cycle after fork().
Titles(argv, env) ==
    LET moved == ngx_init_setproctitle(Started(argv, env))
        master == MasterTitled(moved)
    IN  [moved |-> moved, master |-> master, worker |-> ngx_setproctitle(master, WorkerName)]
=============================================================================
