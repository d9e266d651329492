----------------------------- MODULE Master_proofs -----------------------------
(***************************************************************************)
(* Proofs about Master, for every configuration and number of workers.     *)
(* Whether a zombie can be forgotten depends on where the handler can run: *)
(* only in sigsuspend, because the signals are blocked from the first fork *)
(* on and before it there is no child to send SIGCHLD (Masked).            *)
(***************************************************************************)
EXTENDS Master, TLAPS

Masked ==
    /\ master \in {"load", "signals", "listen", "daemon", "detach", "block"} =>
          /\ \A w \in Procs : worker[w] = "none"
          /\ "CHLD" \notin pending
    /\ master \in {"fork", "suspend", "sleep"} => blocked
    /\ master \in {"suspend", "sleep"} =>
          \A w \in Procs : w < workprocess => worker[w] # "none"
    /\ handling => master = "suspend"

IInv == TypeOK /\ Masked /\ NoForgottenZombie

\* ngx_daemon is reached with the sockets open and the daemon asked for; the first
\* worker is forked behind the last exit of main.
Opened ==
    /\ master = "daemon" => m_ListenSocketList /\ IsDaemon
    /\ master \in {"load", "signals", "listen"} => launcher = "runs"

-----------------------------------------------------------------------------
(* Every action leaves the type of the state as it is. *)
LEMMA TypeStep == TypeOK /\ Masked /\ [Next]_vars => TypeOK'
<1> SUFFICES ASSUME TypeOK, Masked, [Next]_vars PROVE TypeOK'
    OBVIOUS
<1> USE DEF TypeOK, Procs, Signals, workprocess, GetIntDefault
<1>1. CASE \/ LoadFails \/ Load \/ InitSignals \/ InitSignalsFails \/ Listen
           \/ ListenFails \/ Daemon \/ DaemonFails \/ Detach
    BY <1>1 DEF LoadFails, Load, InitSignals, InitSignalsFails, Listen, ListenFails,
                Daemon, DaemonFails, Detach,
                Step, Leave
<1>2. CASE Block \/ AllSpawned \/ Slept
    BY <1>2 DEF Block, AllSpawned, Slept, Step
<1>3. ASSUME NEW w \in Procs, Spawn(w) \/ SpawnFails(w) PROVE TypeOK'
    BY <1>3 DEF Spawn, SpawnFails, Step
<1>4. CASE Reap \/ WaitPidNone \/ LogSignal
    BY <1>4 DEF Reap, WaitPidNone, LogSignal, AfterHandler
<1>5. ASSUME NEW w \in Procs, WaitPid(w) PROVE TypeOK'
    BY <1>5 DEF WaitPid, Zombies
<1>6. ASSUME NEW w \in Procs, WorkerInit(w) PROVE TypeOK'
    BY <1>6 DEF WorkerInit, InitStep
<1>7. ASSUME NEW w \in Procs, WorkerDies(w) PROVE TypeOK'
    BY <1>7 DEF WorkerDies, Alive
<1>8. ASSUME NEW sig \in Signals, Kill(sig) PROVE TypeOK'
    BY <1>8 DEF Kill
<1>9. CASE MasterKilled
    BY <1>9 DEF MasterKilled, Leave, Zombies
<1>10. CASE UNCHANGED vars
    BY <1>10 DEF vars
<1> QED
    BY <1>1, <1>2, <1>3, <1>4, <1>5, <1>6, <1>7, <1>8, <1>9, <1>10
    DEF Next, MainStep, HandlerStep

(* Where the handler can run, and what was forked by then. *)
LEMMA MaskedStep == TypeOK /\ Masked /\ [Next]_vars => Masked'
<1> SUFFICES ASSUME TypeOK, Masked, [Next]_vars PROVE Masked'
    OBVIOUS
<1> USE DEF TypeOK, Masked, Procs, Signals, workprocess, GetIntDefault
<1>1. CASE \/ LoadFails \/ Load \/ InitSignals \/ InitSignalsFails \/ Listen
           \/ ListenFails \/ Daemon \/ DaemonFails \/ Detach
  <2>1. CASE LoadFails \/ InitSignalsFails \/ ListenFails
    BY <2>1 DEF LoadFails, InitSignalsFails, ListenFails, Step
  <2>2. CASE Load \/ InitSignals
    <3>1. CASE Load
      BY <3>1 DEF Load, Step
    <3>2. CASE InitSignals
      BY <3>2 DEF InitSignals, Step
    <3> QED
      BY <2>2, <3>1, <3>2
  <2>3. CASE Listen
    BY <2>3 DEF Listen, Step
  <2>4. CASE Daemon
    BY <2>4 DEF Daemon, Step
  <2>5. CASE DaemonFails
    BY <2>5 DEF DaemonFails, Step
  <2>6. CASE Detach
    BY <2>6 DEF Detach, Step
  <2> QED
    BY <1>1, <2>1, <2>2, <2>3, <2>4, <2>5, <2>6
<1>2. CASE Block \/ AllSpawned \/ Slept
  <2>1. CASE Block
    BY <2>1 DEF Block, Step
  <2>2. CASE AllSpawned
    BY <2>2 DEF AllSpawned, Step
  <2>3. CASE Slept
    BY <2>3 DEF Slept, Step
  <2> QED
    BY <1>2, <2>1, <2>2, <2>3
<1>3. ASSUME NEW w \in Procs, Spawn(w) \/ SpawnFails(w) PROVE Masked'
    BY <1>3 DEF Spawn, SpawnFails, Step
<1>4. CASE Reap
    BY <1>4 DEF Reap, Deliverable
<1>5. CASE WaitPidNone \/ LogSignal
  <2>1. CASE WaitPidNone
    BY <2>1 DEF WaitPidNone, AfterHandler
  <2>2. CASE LogSignal
    BY <2>2 DEF LogSignal, AfterHandler, Deliverable
  <2> QED
    BY <1>5, <2>1, <2>2
<1>6. ASSUME NEW w \in Procs, WaitPid(w) PROVE Masked'
    BY <1>6 DEF WaitPid, Zombies
<1>7. ASSUME NEW w \in Procs, WorkerInit(w) PROVE Masked'
    BY <1>7 DEF WorkerInit, InitStep
<1>8. ASSUME NEW w \in Procs, WorkerDies(w) PROVE Masked'
    BY <1>8 DEF WorkerDies, Alive
<1>9. ASSUME NEW sig \in Signals, Kill(sig) PROVE Masked'
    BY <1>9 DEF Kill, Alive
<1>10. CASE MasterKilled
    BY <1>10 DEF MasterKilled
<1>11. CASE UNCHANGED vars
    BY <1>11 DEF vars
<1> QED
    BY <1>1, <1>2, <1>3, <1>4, <1>5, <1>6, <1>7, <1>8, <1>9, <1>10, <1>11
    DEF Next, MainStep, HandlerStep

(* A zombie appears with SIGCHLD; the handler ends when there is none. *)
LEMMA ZombieStep ==
    TypeOK /\ Masked /\ NoForgottenZombie /\ [Next]_vars => NoForgottenZombie'
<1> SUFFICES ASSUME TypeOK, Masked, NoForgottenZombie, [Next]_vars
             PROVE  NoForgottenZombie'
    OBVIOUS
<1> USE DEF TypeOK, Masked, NoForgottenZombie, Zombies, Procs, Signals
<1>1. CASE \/ LoadFails \/ Load \/ InitSignals \/ InitSignalsFails \/ Listen
           \/ ListenFails \/ Daemon \/ DaemonFails \/ Detach
    BY <1>1 DEF LoadFails, Load, InitSignals, InitSignalsFails, Listen, ListenFails,
                Daemon, DaemonFails, Detach, Step
<1>2. CASE Block \/ AllSpawned \/ Slept
    BY <1>2 DEF Block, AllSpawned, Slept, Step
<1>3. ASSUME NEW w \in Procs, Spawn(w) \/ SpawnFails(w) PROVE NoForgottenZombie'
    BY <1>3 DEF Spawn, SpawnFails, Step
<1>4. CASE Reap \/ WaitPidNone \/ LogSignal
    BY <1>4 DEF Reap, WaitPidNone, LogSignal
<1>5. ASSUME NEW w \in Procs, WaitPid(w) PROVE NoForgottenZombie'
    BY <1>5 DEF WaitPid
<1>6. ASSUME NEW w \in Procs, WorkerInit(w) PROVE NoForgottenZombie'
    BY <1>6 DEF WorkerInit, InitStep
<1>7. ASSUME NEW w \in Procs, WorkerDies(w) PROVE NoForgottenZombie'
    BY <1>7 DEF WorkerDies
<1>8. ASSUME NEW sig \in Signals, Kill(sig) PROVE NoForgottenZombie'
    BY <1>8 DEF Kill
<1>9. CASE MasterKilled
    BY <1>9 DEF MasterKilled
<1>10. CASE UNCHANGED vars
    BY <1>10 DEF vars
<1> QED
    BY <1>1, <1>2, <1>3, <1>4, <1>5, <1>6, <1>7, <1>8, <1>9, <1>10
    DEF Next, MainStep, HandlerStep

LEMMA Invariance == Spec => []IInv
<1>1. Init => IInv
    BY DEF Init, IInv, TypeOK, Masked, NoForgottenZombie, Zombies, Procs, Signals
<1>2. IInv /\ [Next]_vars => IInv'
    BY TypeStep, MaskedStep, ZombieStep DEF IInv
<1> QED
    BY <1>1, <1>2, PTL DEF Spec

(* Only ngx_daemon ends the process that was started with status 0; the other exits *)
(* of main come before the first fork.                                              *)
LEMMA StatusStep ==
    TypeOK /\ Masked /\ Opened /\ StatusTrue /\ [Next]_vars => Opened' /\ StatusTrue'
<1> SUFFICES ASSUME TypeOK, Masked, Opened, StatusTrue, [Next]_vars
             PROVE  Opened' /\ StatusTrue'
    OBVIOUS
<1> USE DEF Opened, StatusTrue, MasterAlive
<1>1. CASE LoadFails \/ InitSignalsFails \/ ListenFails \/ DaemonFails
    BY <1>1 DEF LoadFails, InitSignalsFails, ListenFails, DaemonFails, Step, Leave, Masked,
                TypeOK
<1>2. CASE Load \/ InitSignals \/ Detach \/ Block \/ AllSpawned \/ Slept
    BY <1>2 DEF Load, InitSignals, Detach, Block, AllSpawned, Slept, Step
<1>3. CASE Listen
  <2>1. ~IsDaemon => master' # "daemon"
    BY <1>3 DEF Listen, Step
  <2> QED
    BY <1>3, <2>1 DEF Listen, Step, IsDaemon, GetIntDefault
<1>4. CASE Daemon
  <2>1. /\ master = "daemon" /\ master' = "detach" /\ launcher' = "success"
        /\ UNCHANGED m_ListenSocketList
    BY <1>4 DEF Daemon, Step
  <2> QED
    BY <2>1 DEF IsDaemon, GetIntDefault
<1>5. ASSUME NEW w \in Procs, Spawn(w) \/ SpawnFails(w) PROVE Opened' /\ StatusTrue'
    BY <1>5 DEF Spawn, SpawnFails, Step
<1>6. CASE Reap \/ WaitPidNone \/ LogSignal
    BY <1>6 DEF Reap, WaitPidNone, LogSignal, AfterHandler, Deliverable, Masked
<1>7. ASSUME NEW w \in Procs, WaitPid(w) \/ WorkerInit(w) \/ WorkerDies(w)
      PROVE  Opened' /\ StatusTrue'
    BY <1>7 DEF WaitPid, WorkerInit, WorkerDies, Zombies, InitStep, Alive, TypeOK
<1>8. ASSUME NEW sig \in Signals, Kill(sig) PROVE Opened' /\ StatusTrue'
    BY <1>8 DEF Kill
<1>9. CASE MasterKilled
    BY <1>9 DEF MasterKilled, Leave
<1>10. CASE UNCHANGED vars
    BY <1>10 DEF vars
<1> QED
    BY <1>1, <1>2, <1>3, <1>4, <1>5, <1>6, <1>7, <1>8, <1>9, <1>10
    DEF Next, MainStep, HandlerStep

-----------------------------------------------------------------------------
(* The state keeps its type and no worker beyond the configured number is forked. *)
THEOREM TypeCorrect == Spec => []TypeOK
<1>1. IInv => TypeOK
    BY DEF IInv
<1> QED
    BY <1>1, Invariance, PTL

(* ngx_process_get_status reaps every worker that died, or will be called again. *)
THEOREM NoZombieForgotten == Spec => []NoForgottenZombie
<1>1. IInv => NoForgottenZombie
    BY DEF IInv
<1> QED
    BY <1>1, Invariance, PTL

(* sigprocmask in ngx_master_process_cycle protects the forks from the handler. *)
THEOREM ForkingProtected == Spec => []ForksUninterrupted
<1>1. IInv => ForksUninterrupted
    BY DEF IInv, Masked, ForksUninterrupted
<1> QED
    BY <1>1, Invariance, PTL

(* Who starts the program and gets status 0 knows that every listening socket was   *)
(* opened and that a child was forked, not that it became a daemon; who gets another *)
(* exit status knows that no worker was forked and that the master has exited: the   *)
(* failures of main come before ngx_daemon and before the first fork of a worker.    *)
THEOREM StatusTells == Spec => []StatusTrue
<1>1. Init => Opened /\ StatusTrue
    BY DEF Init, Opened, StatusTrue, MasterAlive
<1>2. IInv => TypeOK /\ Masked
    BY DEF IInv
<1> QED
    BY <1>1, <1>2, Invariance, StatusStep, PTL DEF Spec
=============================================================================
