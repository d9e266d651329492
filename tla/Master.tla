--------------------------------- MODULE Master ---------------------------------
(***************************************************************************)
(* The life of the processes (app/nginx.cpp, proc/, signal/): main reads   *)
(* the configuration, opens the listening sockets and becomes a daemon;    *)
(* the master forks the workers with its signals blocked, then waits in    *)
(* sigsuspend; ngx_signal_handler reaps the workers that died.             *)
(*                                                                         *)
(* The signals are two: "CHLD", and "TERM" for all the others the table    *)
(* signals[] gives to the handler, which only logs them.  A pending signal *)
(* is pending once, however often it is sent.                              *)
(***************************************************************************)
EXTENDS Integers, FiniteSets

CONSTANTS
    Conf,           \* the configuration: a function from item names to values
    MaxWorkers      \* bound: worker processes that the model has room for

ASSUME ConfIsInts == \A item \in DOMAIN Conf : Conf[item] \in Nat
ASSUME MaxWorkersIsNat == MaxWorkers \in Nat

VARIABLES
    launcher,       \* the process that was started: it runs, or its exit status
                    \* (success is 0, failure 1, noconf 2), or a signal killed it
    master,         \* step of main or ngx_master_process_cycle in the master
    m_ListenSocketList,  \* are the listening sockets open?
    blocked,        \* are the signals of set blocked in the master?
    pending,        \* signals pending in the master
    handling,       \* is ngx_process_get_status running?
    worker          \* of each worker process, its step

vars == <<launcher, master, m_ListenSocketList, blocked, pending, handling, worker>>

Procs == 0 .. MaxWorkers - 1     \* inum of the worker processes
Signals == {"CHLD", "TERM"}

GetIntDefault(item, def) == IF item \in DOMAIN Conf THEN Conf[item] ELSE def

IsDaemon == GetIntDefault("Daemon", 0) = 1
workprocess == GetIntDefault("WorkProcesses", 1)

Init ==
    /\ launcher = "runs"
    /\ master = "load"
    /\ m_ListenSocketList = FALSE
    /\ blocked = FALSE
    /\ pending = {}
    /\ handling = FALSE
    /\ worker = [w \in Procs |-> "none"]

-----------------------------------------------------------------------------
(* main, up to ngx_master_process_cycle *)

\* A step of the master outside its signal handler.
Step(from, to) == master = from /\ master' = to /\ ~handling

\* The process that was started leaves main with this status, if it is the master.
Leave(status) == launcher' = IF launcher = "runs" THEN status ELSE launcher

\* CConfig::Load fails: exit status 2.
LoadFails ==
    /\ Step("load", "exited")
    /\ Leave("noconf")
    /\ UNCHANGED <<m_ListenSocketList, blocked, pending, handling, worker>>

Load ==
    /\ Step("load", "signals")
    /\ UNCHANGED <<launcher, m_ListenSocketList, blocked, pending, handling, worker>>

\* ngx_init_signals: the handlers are installed; or sigaction fails.
InitSignals ==
    /\ Step("signals", "listen")
    /\ UNCHANGED <<launcher, m_ListenSocketList, blocked, pending, handling, worker>>

InitSignalsFails ==
    /\ Step("signals", "exited")
    /\ Leave("failure")
    /\ UNCHANGED <<m_ListenSocketList, blocked, pending, handling, worker>>

\* CSocket::Initialize: the listening sockets.
Listen ==
    /\ Step("listen", IF IsDaemon THEN "daemon" ELSE "block")
    /\ m_ListenSocketList' = TRUE
    /\ UNCHANGED <<launcher, blocked, pending, handling, worker>>

\* Mutant of ListenFails: the status is that of success.
ListenFailsUnseen ==
    /\ Step("listen", "exited")
    /\ Leave("success")
    /\ UNCHANGED <<m_ListenSocketList, blocked, pending, handling, worker>>

ListenFails ==
    /\ Step("listen", "exited")
    /\ Leave("failure")
    /\ UNCHANGED <<m_ListenSocketList, blocked, pending, handling, worker>>

\* ngx_daemon: the child goes on as the master, without the signals pending in
\* its parent, which exits with status 0.
Daemon ==
    /\ Step("daemon", "detach")
    /\ launcher' = "success"
    /\ pending' = {}
    /\ UNCHANGED <<m_ListenSocketList, blocked, handling, worker>>

\* fork fails; or setsid, open, dup2 or close does in the child, after status 0 was given.
DaemonFails ==
    /\ master \in {"daemon", "detach"} /\ master' = "exited" /\ ~handling
    /\ Leave("failure")
    /\ UNCHANGED <<m_ListenSocketList, blocked, pending, handling, worker>>

Detach ==
    /\ Step("detach", "block")
    /\ UNCHANGED <<launcher, m_ListenSocketList, blocked, pending, handling, worker>>

-----------------------------------------------------------------------------
(* ngx_master_process_cycle *)

\* Mutant of Block: no signal is blocked.
BlockNothing ==
    /\ Step("block", "fork")
    /\ UNCHANGED <<launcher, m_ListenSocketList, blocked, pending, handling, worker>>

Block ==
    /\ Step("block", "fork")
    /\ blocked' = TRUE
    /\ UNCHANGED <<launcher, m_ListenSocketList, pending, handling, worker>>

\* ngx_start_worker_processes forks worker w next.
IsNext(w) == worker[w] = "none" /\ \A v \in Procs : v < w => worker[v] # "none"

Spawn(w) ==
    /\ Step("fork", "fork")
    /\ IsNext(w) /\ w < workprocess
    /\ worker' = [worker EXCEPT ![w] = "pool"]
    /\ UNCHANGED <<launcher, m_ListenSocketList, blocked, pending, handling>>

\* fork() fails: the loop goes on with the next worker.
SpawnFails(w) ==
    /\ Step("fork", "fork")
    /\ IsNext(w) /\ w < workprocess
    /\ worker' = [worker EXCEPT ![w] = "failed"]
    /\ UNCHANGED <<launcher, m_ListenSocketList, blocked, pending, handling>>

AllSpawned ==
    /\ Step("fork", "suspend")
    /\ \A w \in Procs : w < workprocess => worker[w] # "none"
    /\ UNCHANGED <<launcher, m_ListenSocketList, blocked, pending, handling, worker>>

\* sleep(1) is over: the loop calls sigsuspend again.
Slept ==
    /\ Step("sleep", "suspend")
    /\ UNCHANGED <<launcher, m_ListenSocketList, blocked, pending, handling, worker>>

-----------------------------------------------------------------------------
(* The master's signals *)

\* The handlers are installed by ngx_init_signals.  sigsuspend unblocks every
\* signal until the handlers return.
Deliverable(sig) ==
    /\ sig \in pending
    /\ master \notin {"load", "signals", "exited", "killed"}
    /\ ~blocked \/ master = "suspend"

\* sigsuspend returns after the handler; other handlers interrupt nothing else.
AfterHandler == IF master = "suspend" THEN "sleep" ELSE master

Reap ==
    /\ Deliverable("CHLD") /\ ~handling
    /\ handling' = TRUE
    /\ pending' = pending \ {"CHLD"}
    /\ UNCHANGED <<launcher, master, m_ListenSocketList, blocked, worker>>

Zombies == {w \in Procs : worker[w] = "zombie"}

\* Mutant of WaitPid: the handler calls waitpid once.
WaitPidOnce(w) ==
    /\ handling /\ w \in Zombies
    /\ worker' = [worker EXCEPT ![w] = "reaped"]
    /\ handling' = FALSE /\ master' = AfterHandler
    /\ UNCHANGED <<launcher, m_ListenSocketList, blocked, pending>>

\* waitpid returns the pid of a worker that ended; the handler calls it again.
WaitPid(w) ==
    /\ handling /\ w \in Zombies
    /\ worker' = [worker EXCEPT ![w] = "reaped"]
    /\ UNCHANGED <<launcher, master, m_ListenSocketList, blocked, pending, handling>>

\* waitpid returns 0, or fails because there is no child.  The kernel delivers
\* the other signals before sigsuspend returns.
WaitPidNone ==
    /\ handling /\ Zombies = {}
    /\ ~Deliverable("TERM")
    /\ handling' = FALSE /\ master' = AfterHandler
    /\ UNCHANGED <<launcher, m_ListenSocketList, blocked, pending, worker>>

\* The handler of another signal, which may interrupt that of SIGCHLD.
LogSignal ==
    /\ Deliverable("TERM")
    /\ ~Deliverable("CHLD") \/ handling
    /\ pending' = pending \ {"TERM"}
    /\ master' = IF handling THEN master ELSE AfterHandler
    /\ UNCHANGED <<launcher, m_ListenSocketList, blocked, handling, worker>>

-----------------------------------------------------------------------------
(* Workers: ngx_worker_process_init, then the event loop *)

InitStep == [pool |-> "net", net |-> "epoll", epoll |-> "loop"]

WorkerInit(w) ==
    /\ worker[w] \in DOMAIN InitStep
    /\ worker' = [worker EXCEPT ![w] = InitStep[@]]
    /\ UNCHANGED <<launcher, master, m_ListenSocketList, blocked, pending, handling>>

Alive(w) == worker[w] \in {"pool", "net", "epoll", "loop"}
MasterAlive == master \notin {"exited", "killed"}

\* exit(-2) or exit(2) in ngx_worker_process_init, or a signal kills it.  init
\* reaps the orphans.
WorkerDies(w) ==
    /\ Alive(w)
    /\ worker' = [worker EXCEPT ![w] = IF MasterAlive THEN "zombie" ELSE "reaped"]
    /\ pending' = IF MasterAlive THEN pending \cup {"CHLD"} ELSE pending
    /\ UNCHANGED <<launcher, master, m_ListenSocketList, blocked, handling>>

-----------------------------------------------------------------------------
(* Outside: signals are sent.  SIGCHLD is also sent when a worker is stopped. *)

Kill(sig) ==
    /\ MasterAlive /\ master \notin {"load", "signals"}
    /\ sig = "CHLD" => \E w \in Procs : Alive(w)
    /\ pending' = pending \cup {sig}
    /\ UNCHANGED <<launcher, master, m_ListenSocketList, blocked, handling, worker>>

\* SIGKILL, or a signal without a handler once sigsuspend unblocks it.
MasterKilled ==
    /\ MasterAlive
    /\ master' = "killed" /\ handling' = FALSE /\ pending' = {}
    /\ Leave("signal")
    /\ worker' = [w \in Procs |-> IF w \in Zombies THEN "reaped" ELSE worker[w]]
    /\ UNCHANGED <<m_ListenSocketList, blocked>>

-----------------------------------------------------------------------------
MainStep ==
    \/ LoadFails \/ Load \/ InitSignals \/ InitSignalsFails \/ Listen \/ ListenFails
    \/ Daemon \/ DaemonFails \/ Detach
    \/ Block \/ AllSpawned \/ Slept
    \/ \E w \in Procs : Spawn(w) \/ SpawnFails(w)

HandlerStep == Reap \/ WaitPidNone \/ LogSignal \/ \E w \in Procs : WaitPid(w)

Next ==
    \/ MainStep \/ HandlerStep \/ MasterKilled
    \/ \E w \in Procs : WorkerInit(w) \/ WorkerDies(w)
    \/ \E sig \in Signals : Kill(sig)

Spec == Init /\ [][Next]_vars

(* The master runs; signals and crashes may come or not.  The handler is     *)
(* entered although other signals keep coming: the kernel delivers a pending *)
(* SIGCHLD before sigsuspend returns.                                        *)
FairSpec ==
    /\ Spec
    /\ WF_vars(MainStep) /\ WF_vars(Reap) /\ WF_vars(WaitPidNone)
    /\ WF_vars(LogSignal)
    /\ \A w \in Procs : WF_vars(WaitPid(w)) /\ WF_vars(WorkerInit(w))

-----------------------------------------------------------------------------
TypeOK ==
    /\ launcher \in {"runs", "success", "failure", "noconf", "signal"}
    /\ master \in {"load", "signals", "listen", "daemon", "detach", "block", "fork", "suspend",
                   "sleep", "exited", "killed"}
    /\ m_ListenSocketList \in BOOLEAN
    /\ blocked \in BOOLEAN
    /\ pending \in SUBSET Signals
    /\ handling \in BOOLEAN
    /\ worker \in [Procs -> {"none", "failed", "pool", "net", "epoll", "loop",
                             "zombie", "reaped"}]
    /\ \A w \in Procs : worker[w] # "none" => w < workprocess

\* A worker that died is never forgotten: while one is a zombie the handler
\* runs or SIGCHLD is pending, although signals that come together are merged
\* and workers die while the handler runs, while the master forks or sleeps.
NoForgottenZombie == Zombies # {} => handling \/ "CHLD" \in pending

\* The comment on the blocked signals: no handler interrupts the forking.
ForksUninterrupted == handling => \A w \in Procs : w < workprocess => worker[w] # "none"

\* What the status of the process that was started tells.  While it runs, so does the
\* master.  Status 0 tells that the configuration asks for a daemon, that the listening
\* sockets were opened and that a child was forked that goes on from there; it does not
\* tell that the child detached, for ngx_daemon returns to the parent before setsid,
\* open and dup2, which may fail in the child unseen.  Any other exit status tells that
\* nothing is left behind: the master has exited and no worker was ever forked.
StatusTrue ==
    /\ launcher = "runs" => MasterAlive
    /\ launcher = "success" =>
          m_ListenSocketList /\ IsDaemon /\ master \notin {"load", "signals", "listen", "daemon"}
    /\ launcher \in {"failure", "noconf"} =>
          master = "exited" /\ \A w \in Procs : worker[w] = "none"

\* Every worker that died is reaped, by the master or after it.
EveryWorkerReaped == \A w \in Procs : (worker[w] = "zombie") ~> (worker[w] = "reaped")
=============================================================================
