# A verification development for my_nginx

`my_nginx` is a small server framework in C++: a master process forks workers; each worker
accepts TCP clients with epoll, cuts their bytes into packets, lets a pool of threads handle the
packets and a thread send the replies, and kicks clients that are silent or too fast. The
repository has no manual and no tests; what the program promises is in its comments and in
`nginx.conf`. This directory holds TLA+ models of it, the TLC runs that check them, and theorems
that TLAPS proves for every value of the constants.

Paths below are relative to the repository's `src/` directory.

## 1. The system

### Components, their state and their operations

| component | source | state | operations |
|---|---|---|---|
| thread pool | `misc/ngx_c_threadpool.cpp` | `m_msgRecvQueue` and its count, mutex and condition variable, `m_shutdown`, `ifRunning` of each thread, `m_iRunningThreadNum` | `create`, `threadFunc`, `inMsgRecvQueueAndSignal`, `call`, `stopAll` |
| connection pool | `net/ngx_c_socket_conn.cpp` | lists of all, free and recycled connections, `m_onlineUserCount`; per connection `fd`, `iCurrsequence` | `initconnection`, `ngx_get_connection`, `ngx_free_connection`, `inRecyConnectQueue`, `ServerRecyConnectionThread`, `ngx_close_connection` |
| accepting | `net/ngx_c_socket_accept.cpp` | (the above) | `ngx_event_accept` |
| event loop | `net/ngx_c_socket.cpp`, `proc/ngx_event.cpp` | epoll set, `m_events` | `ngx_epoll_init`, `ngx_epoll_oper_event`, `ngx_epoll_process_events` |
| closing | `net/ngx_c_socket.cpp` | (the above) | `zdClosesocketProc` |
| receiving | `net/ngx_c_socket_request.cpp` | per connection `curStat`, `precvbuf`, `irecvlen`, `precvMemPointer` | `ngx_read_request_handler`, `recvproc`, `..._proc_p1`, `..._proc_plast` |
| flood check | `net/ngx_c_socket.cpp` | `FloodkickLastTime`, `FloodAttackCount` | `TestFlood` |
| sending | `net/ngx_c_socket.cpp`, `..._request.cpp` | `m_MsgSendQueue` and its count, mutex, semaphore; `iSendCount`, `psendMemPointer`, `iThrowsendCount` | `msgSend`, `ServerSendQueueThread`, `sendproc`, `ngx_write_request_handler`, `Shutdown_subproc` |
| heartbeat timer | `net/ngx_c_socket_time.cpp` | `m_timerQueuemap`, `m_cur_size_`, `m_timer_value_`, mutex; `lastPingTime` | `AddToTimerQueue`, `GetOverTimeTimer`, `DeleteFromTimerQueue`, `ServerTimerQueueMonitorThread`, `procPingTimeOutChecking` |
| handlers | `logic/ngx_c_slogic.cpp`, `_include/ngx_logiccomm.h` | `logicPorcMutex` per connection, the table `statusHandler` | `threadRecvProcFunc`, `_HandleRegister`, `_HandleLogIn`, `_HandlePing` |
| processes, signals | `app/nginx.cpp`, `proc/`, `signal/` | processes, blocked and pending signals, `ngx_reap` | `main`, `ngx_daemon`, `ngx_master_process_cycle`, `ngx_spawn_process`, `ngx_worker_process_init`, `ngx_signal_handler` |
| configuration | `app/ngx_c_conf.cpp`, `app/ngx_string.cpp` | list of items | `Load`, `GetString`, `GetIntDefault`, `Trim` |
| checksum | `misc/ngx_c_crc32.cpp` | a table | `Init_CRC32_Table`, `Get_CRC` |
| formatted output | `app/ngx_printf.cpp` | none | `ngx_vslprintf`, `ngx_sprintf_num` |
| log file | `app/ngx_log.cpp` | descriptor and level | `ngx_log_init`, `ngx_log_error_core`, `ngx_log_stderr`, `ngx_log_errno` |
| process title | `app/ngx_setproctitle.cpp` | memory of `argv` and `environ` | `ngx_init_setproctitle`, `ngx_setproctitle` |
| address and memory helpers | `net/ngx_c_socket_inet.cpp`, `misc/ngx_c_memory.cpp`, `_include/ngx_c_lockmutex.h` | none | not modelled |

### How they interact

A worker has four kinds of threads. The *main thread* runs the event loop: it accepts clients,
reads, and closes. A packet goes through the pool's queue (`m_pthreadMutex`, condition variable) to
a *pool thread*, whose handler holds the connection's `logicPorcMutex` and calls `msgSend`
(`m_sendMessageQueueMutex`), which posts a semaphore for the *send thread*. The *timer thread*
takes expired entries from the timer queue (`m_timequeueMutex`) and may close their connections. A
*recycling thread* would move closed connections back to the free list (`m_recyconnqueueMutex`,
then `m_connectionMutex`); it is written but nothing starts it. Main, timer and pool threads all
close connections through `zdClosesocketProc`, which takes the timer and recycle mutexes in turn and
reads and writes `fd` under none. A packet, a timer entry and a reply carry the `iCurrsequence` of
their connection, and whoever uses one compares it with the connection's current number.
Locks nest in one order: `logicPorcMutex`, `m_sendMessageQueueMutex`, then `m_timequeueMutex` or
`m_recyconnqueueMutex`, then `m_connectionMutex`; `Worker` checks that no circle of waiting threads
arises.

### What is hard, and what makes each component correct

- *Thread pool*: wake-ups lost or spurious, the flag set without the mutex. Correct if each packet is
  handled once, none waits while a thread sleeps, and `stopAll` ends.
- *Connections*: three closers and an accepter that share `fd`, the lists, the count and the kernel's
  descriptor numbers. Correct if nobody takes an old client for the present one, sockets are neither
  leaked nor closed under another client, the count is right and the limits hold.
- *Receiving*: TCP cuts the stream anywhere; declared lengths are arbitrary. Correct if receives stay
  inside buffers and the pool gets the client's packets.
- *Sending*: the counter is read without the mutex; replies become stale; two limits. Correct if no
  reply is forgotten or released twice, and is sent if its client stays.
- *Timer*: cached values read without the mutex, entries checked after the lock is released. Correct
  if every connected client has an entry, and exactly the silent ones are kicked.
- *The threads together*: a pool thread closes a connection inside `msgSend`, with two mutexes held,
  and a packet's sequence number is compared before its handler waits for the connection's mutex.
  Correct if no threads wait for one another in a circle, nobody waits for ever, and a reply goes to
  the client whose packet it answers.
- *Processes*: signals are merged, arrive during handlers and forks; each start-up step can fail.
  Correct if dead workers are reaped and the exit status tells what happened.
- *Functions without state*: limits of buffers, carries, an item defined twice, memory that is
  overwritten on purpose. Correct if each gives what its caller counts on, for every argument.

`PROJECT.json` lists these hazards at their lines, with the properties that answer each.

## 2. The modules

Each module says in its header what a value stands for. Names of variables and actions are those of
the source wherever there is one. Definitions marked "Mutant" are deliberately wrong versions
of the definition they precede; no specification uses them; they serve to confirm that
each property notices a plausible bug.

### `ThreadPool`

One action for each stretch of `threadFunc` between points where another thread may matter: `Lock`,
`FindNothing` (sets `ifRunning`), `Park` (atomically unlocks and sleeps), `Take`, `Begin`,
`Handled`, `End`, `Quit`. Steps that touch only what the mutex protects are merged; `m_shutdown` and
`ifRunning`, which are not protected, have steps of their own. `SpuriousWakeup` is what POSIX allows.
The main thread is `Create`/`CreateFails`/`CreateReturns`, `Push` then `Signal`
(after the unlock, as in the code), and `Shutdown`, `Broadcast`, `Join`, `Destroy`. The shipped
worker never reaches `stopAll` (its loop is endless); the run includes it (`StopAllCalled`).
A thread that runs a handler is in `run`; the handler itself is in the other modules.

### `JobQueue`

What the pool promises to its callers, without threads, mutexes or signals: packets arrive, at most
`Size` are handled at a time, they are taken up in the order they came in, each is released once,
after its handler or, if it was never taken up, when the stopped pool is cleared. `ThreadPool`
implements it: the instance `JQ` in `ThreadPool` is the refinement mapping, and `ImplementsJobQueue` says
that every step of the pool is a step of `JobQueue` or none. A packet counts as waiting until a thread
erases it from the list, and as being handled until its memory is released.

### `ConnPool`

The life of a connection object in a worker. `zdClosesocketProc` is five steps (`Unlist`, `TestFd`,
`CloseFd`, `ClearFd`, `Recycle`) taken by any closer, so that two of them interleave everywhere.
`CloseFd` reads `fd` again, as the compiled code may; the kernel closes whatever client has
this number now. Descriptors are given lowest first (POSIX). `Accept` is `ngx_event_accept` up to
`epoll_ctl`; `AddTimer` and `CountOnline` follow as separate steps because other threads see the
connection from then on. `m_events` is the batch of one `epoll_wait`, handled in any order.
Time is left out: any timer entries may be due, any recycled connection may have waited long enough.
`ReadFlood` is `proc_plast` with `isflood`: the object goes back to the allocator (`released`), the
allocator may overwrite `fd` or not, and may return the same address for a later connection.
`flooded` remembers these objects.
`hung` is the endless loop of the timer thread (see `TimerQueue`), behind which the closers block.
Switches select the configuration (timer, kick at once, flood check, backlog, recycler).

### `PacketRecv`

One connection's receive state machine. Bytes are positions in the stream; only the length a header
declares is data. `recv` may return any part of what was asked for. The actions are the branches of
`ngx_read_request_handler` with `proc_p1` and `proc_plast` inside them. If body bytes are taken
for a header, the declared length is arbitrary. `gaps` says whether the time since the last *tested*
packet was long, which is what `TestFlood` measures; `streak` is what really happened. In
`_PKG_HD_INIT` the number of bytes received is compared with the size of the message header (16) as
the code does, so a packet header (8) that arrives at once is "incomplete".

### `SendQueue`

Handlers that make one reply each, `msgSend` with its three outcomes (`DropReply`, `CutOff`,
`Queue`), the send thread with its read of the counter before the lock, and `Shutdown_subproc`.
`psendbuf` is assigned nowhere, so `send()` gets a null pointer and fails: `SendFails` is the only
outcome, and the code after a partial or blocked send cannot be reached (also because `sendproc`
returns 0 when `send` succeeded). It is left out rather than modelled as if it ran. A reply whose
client has gone is erased without being counted off (`EraseStale`), as in the code.

### `TimerQueue`

Time in seconds. `Accept`, then `AddToTimerQueue` under the mutex; `Ping`; `Leave`. The timer thread:
`Due` (reads the cached values without the mutex), `Lock`, one `GetOverTimeTimer` per expired entry,
`ScanEnds` or `NothingExpired`, then a check per entry (`CheckPasses`, or `CheckKicks` and later
`Kick`, so that a ping or a departure may come between). `UnsetPTmp` is the set of values that
the uninitialised pointer of `GetOverTimeTimer` may have. `StopEvent`, `Exit` and `JoinAndClear` are
the thread's part of `Shutdown_subproc` with `clearAllFromTimerQueue`.

### `Master`

`main` (load, install the handlers, listen, daemonise), each with its failure, the master (block signals, fork, `sigsuspend`, sleep) and its
signal handlers, and each worker's start. `pending` is a set because signals are merged. In
`sigsuspend` handlers nest: another signal may interrupt the reaping. `launcher` is the process that was
started. Without `Daemon` it is the master; with it, it exits with status 0 right after the `fork` in `ngx_daemon`,
and its child may still fail in `setsid`, `open`, `dup2` or `close` (`DaemonFails` in `"detach"`). `StatusTrue`
therefore claims of status 0 only what the code makes true of it, that the sockets are open and a child was
forked; of the statuses 1 and 2 it claims that the master has exited and no worker was forked.

### `Worker`

All the threads of a worker, lock by lock: the main thread accepts, reads and closes; pool threads take
packets, wait for `logicPorcMutex`, then for `m_sendMessageQueueMutex`, and either queue a reply or close
the backlogged client with both mutexes held; the timer thread scans, may hang with its mutex locked,
and closes; the send thread makes its passes with the mutex locked; the recycling thread frees
connections. Each module above has its component in detail; here are the mutexes that are
held while another is waited for, and the state that threads of different components share. To
keep the product small, `DeleteFromTimerQueue` and `close()` are one step, taking a packet and comparing its
sequence number are one step, the semaphore, `msgSend`'s limit on the whole queue (both in `SendQueue`) and the
clock (in `TimerQueue`) are left out. Packets, timer entries and replies carry the client they belong
to, for the properties only. `twice` remembers connections that two threads closed for one client: the
same object is then in the list for recycling twice, and `RightClient` excepts it. A connection is recycled
only when the send thread is not at it: it waits 60 seconds in the list, and one call of `send()` on a
non-blocking socket is taken to be shorter. Since `psendbuf` is never set, `RightClient` is about the reply
that is handed to `send()`, not about bytes on the wire.

### `Crc32`, `Handlers`, `Conf`, `Printf`, `Log`, `Title`, and `Calls`

The functions without state are operators and recursive functions. `Calls` makes a behaviour of each
call: the initial state chooses the function and its arguments, the step returns the result, and the
properties compare it with a definition made independently of the code's steps.

- `Crc32`: an unsigned number is the set of its 1 bits, so shifts and exclusive or are set
  operations. The table and `Get_CRC` are those of the code; the reference is the remainder of the
  division of polynomials.
- `Handlers`: `threadRecvProcFunc` with its comparison of the declared length with the *message*
  header's size (line 81), the checksum, the sequence number, the code and the table; the handlers'
  replies with their lengths. A body is its length and its checksum. The reference is the set of proper packets.
- `Conf`: `Load` and `Trim` on lines of characters; lookup without regard to case. `atoi` is taken of
  numbers without a sign; lines have at most 510 characters (a longer one would be read in two pieces);
  the sizes of `ItemName` and `ItemContent` are not modelled.
- `Printf`: pieces of a format with their flags and arguments. Every character is put with the test
  the code makes there, or without one where it makes none. A fraction is a number of thousandths;
  `%f` without decimals drops the fraction, it does not round. Fractions that lie between two
  decimals are among the arguments only if a `double` represents them exactly. Hexadecimal arguments are
  not negative, and -2^63, which `%L` cannot negate, is not modelled. A `%` before a letter that is no
  conversion puts the letter, as a plain character is put; one at the end of the format, behind which the code
  would go on reading, is not modelled.
- `Log`: a line is a sequence of characters: those of the message, and marks for what stands before it, for the
  error's text and for the new line. What matters is which of them end up in a buffer of limited size, and which
  descriptor a line is written to. The text of the error may lose the blank at its end to the new line. A message is
  any sequence of characters; the run's are of every length up to two more than the buffer has, no two
  characters the same. The second formatting of a finished text (line 74) is not modelled: a
  `%` in it takes an argument that is not there.
- `Title`: the memory of `argv` and `environ`, written over by the master's title and then, in a forked
  copy, by the worker's. It assumes that the environment follows the arguments in memory, as the
  program does.

### How the modules fit together

`ThreadPool`, `ConnPool`, `PacketRecv`, `SendQueue` and `TimerQueue` each take their neighbours'
steps as unconstrained: `ThreadPool` does not ask where packets come from, `ConnPool` lets a read
yield part of a packet, a packet or the end, `PacketRecv` ends in the pool's `Push`, `SendQueue` lets
connections close at any time, `TimerQueue` has closing in one or two steps where `ConnPool` has
five. `Worker` composes what they share. `Master` starts the workers; `Conf`, `Log` and `Title` serve it;
`Handlers` is the function a thread in `run` calls, `Crc32` is the checksum it compares.

## 3. What the runs show

| run | configuration | bounds | properties and result |
|---|---|---|---|
| `pool` | `MCThreadPool.cfg` | 3 threads, 3 packets, a stop at any moment | `WorkConserving`, `NoFalseAlarm`, `StoppedClean`, `EveryPacketHandled`, `ImplementsJobQueue`: no lost wake-up, packets handled unless the pool is stopped, the alarm true, nothing left behind by a `stopAll` that returns, and all of it a plain queue of jobs |
| `conn` | `MCConnPool.cfg` | limit 1, 2 descriptors, 6 clients, recycler on, main thread the only closer | `PoolBound`, `FdIsOwn`, `AdmissionLimit`, `StaleDetected`, `FreeConnsIdle` |
| `conn_threads` | `MCConnPoolThreads.cfg` | 3 closers, 2 clients, flood check and backlog on | `SocketReachable`, `CountNeverHigh`: no unreachable socket but those of flooded connections, count never too high |
| `conn_limit` | `MCConnPoolLimit.cfg` | main and timer close, 3 clients | **violated**: `AdmissionLimit` |
| `recv` | `MCPacketRecv.cfg` | 4 packets, 5 lengths, kick after 2 | `RecvInBounds`, `PacketsWhole`, `KickJustified` |
| `recv_whole_header` | `MCPacketRecvWholeHeader.cfg` | 1 packet | **violated**: `ClosedForAReason`, a whole header closes the connection |
| `send` | `MCSendQueue.cfg` | 2 handlers, 2 clients, 4 replies, limits 2 and 1, shutdown at any moment | `NoPostLost`, `RepliesAccounted`, `BacklogExact`, `EveryReplyReleased`, `ShutdownReturns` |
| `send_sent` | `MCSendQueueSent.cfg` | 2 replies | **violated**: `RepliesSent`, nothing is sent |
| `master` | `MCMaster.cfg` | 3 workers, room for 4 | `NoForgottenZombie`, `ForksUninterrupted`, `StatusTrue`, `EveryWorkerReaped` |
| `timer` | `MCTimerQueue.cfg` | 2 clients, 6 seconds, any pointer, stop at any moment | `CacheExact`, `OneEntryEach`, `KickedOnlySilent`, `SilentKickedOrHung`, `StopReturns` |
| `calls` | `MCCalls.cfg` | every call over the small arguments of `MCCalls` | `ChecksumIsRemainder`, `ProperAnswered`, `ItemsAsWritten`, `TextAsAsked`, `LinesWhole`, `TitleAlone`, `EnvironmentKept` |
| `worker` | `MCWorker.cfg` | 2 pool threads, 2 connections, 2 clients, 2 packets, backlog limit 0 | `NoCircularWait`, `RightClient`, `BacklogCovered`, `EveryThreadReturns` |

The runs check no type invariant: those of the seven modules with a state that evolves are theorems (section 5).

`CHECK_DEADLOCK FALSE` is set throughout: every model is bounded (packets, clients, seconds) and stops
when its bound is reached; the liveness properties catch what would be a real deadlock.

### Bounds, and why they are enough

- *Threads*: two pool threads show every race between two waiters; the third makes `Signal` choose
  while another is busy. The theorems lift the bound.
- *Connections*: `m_worker_connections = 1` makes every limit reachable with few clients:
  the pool's limit is 6 objects, so `MaxConns = 7` has one spare and `MaxClients = 6` lets a client
  ask for one more. Two descriptors are the fewest where a late close can hit a reused number.
  `MaxRecy` keeps the recycle queue finite; it cuts only `conn_threads`, where released objects may
  be reported and closed again and again.
- *Packets*: the real header sizes 8 and 16 with bodies up to 4 bytes and lengths on either side of each
  limit (7, 8, 9, 12, 13). The lengths between behave alike. `DataBufSize` 20 and `MaxPkgLen` are
  parameters of the theorems. Four packets are the fewest that show a count kept over a slow packet.
- *Replies*: limits of 2 and 1 instead of 50000 and 400, so both are crossed with four replies.
- *Time*: a wait time of 1 second instead of 20 (the code's minimum is 5) and a grace of 0
  instead of 10 scale the clock; the conditions compare only sums of them. Six seconds leave
  room for an entry to be queued again twice.
- *Calls*: widths, buffers, lines and texts on either side of every limit (a buffer of 12 characters
  with heads of 2 and 4 stands for the log's 2048; rooms of 0 to 20 characters for numbers of up to
  five; titles of three and two characters over memory of 1 to 12 characters). Checksums are taken of every
  message of one byte and chosen longer ones; a longer message repeats the same step.
- *Worker*: two pool threads may both be inside `msgSend`; two connections are the fewest for a circle
  through `logicPorcMutex`; one of them is prepared and one is made on demand; two clients are a client and the one that comes after it
  on the same connection; two packets with a backlog limit of 0 reach the close inside `msgSend`.
- *Signals*: two, because the handler treats all signals other than SIGCHLD alike.

### Fairness

`WF` on each thread's steps: a runnable thread is scheduled, a handler returns. In `SendQueue` the
handlers get `SF`, since the send thread may take the mutex between any two of their attempts and a
pthread mutex is not first-come first-served; a thread that waits for a mutex free infinitely often
gets it in the end. Clients (packets, pings, departures), failures, spurious wake-ups, closes and
signals have no fairness. In `TimerQueue` time itself passes (up to its bound). In `Master` the
kernel delivers a pending signal to a process that waits for it. `ConnPool` and `PacketRecv` state no
fairness: what is asked of them is safety. In `Worker` each thread has `WF`; a waiter does not need `SF`,
because the packets of a behaviour are bounded and a mutex becomes free for good once its owners let
it go, if they do. `Recycle` has `SF`: a connection in the list grows old enough, and the send thread is not
at it for ever. The timer thread's scans and its hanging have none.

Four liveness properties name their exception. `EveryPacketHandled` promises a packet that is pushed
a handler *unless* the pool is stopped: `stopAll` may leave threads asleep (section 4). `SilentKickedOrHung`
promises that a silent client is kicked *unless* the timer thread hangs, and `StopReturns` and
`EveryThreadReturns` make the same exception.

## 4. Where the code departs from its comments

These have a run with a counterexample; `PROJECT.json` quotes the lines.

1. Double close (`net/ngx_c_socket.cpp:340`): two threads close one connection, the count of clients
   is decremented twice, and the limit of clients is exceeded (`conn_limit`). It never errs the other
   way (`CountNeverHigh`).
2. The header length is compared with the wrong constant (`net/ngx_c_socket_request.cpp:40`,
   `recv_whole_header`).
3. `psendbuf` is never set (`net/ngx_c_socket.cpp:659`, `send_sent`).

These are in the models as well, without a run of their own:

- An uninitialised pointer ends, or does not end, the loop of the timer thread that holds
  `m_timequeueMutex` (`net/ngx_c_socket_time.cpp:77`); the threads that close or accept then wait for
  ever. It is the exception the liveness properties of `TimerQueue` and `Worker` name.
- The flood check releases the connection object instead of the packet
  (`net/ngx_c_socket_request.cpp:228`): the object may be allocated anew and its sequence number starts
  again, so an old packet may pass for a new one. It is why `StaleDetected` is checked and proved
  without the flood check.
- `stopAll` sets its flag without the mutex (`misc/ngx_c_threadpool.cpp:150`), so a thread that has just
  tested the flag sleeps through the broadcast and the join waits for ever. At present nothing reaches
  the call.
- No recycling thread is started (`net/ngx_c_socket.cpp:117`): a worker that never recycles stops
  accepting at `5 * worker_connections + 1` objects, which is what `PoolBound` bounds.
- The flood check leaves the kicked client's socket open, which is why `SocketReachable` excepts
  `flooded` objects; and a packet whose body comes in pieces is not counted by it
  (`..._request.cpp:87`), so `KickJustified` is stated in one direction only.
- A reply whose client has gone is erased without being taken off `iSendCount`
  (`net/ngx_c_socket.cpp:620`): a count may be too high, never too low (`BacklogCovered`).
- The test for a packet without body compares with the message header's size
  (`logic/ngx_c_slogic.cpp:81`). It does no harm with the bodies there are: `ProperAnswered` holds
  because the checksum of no bytes is 0 and no code takes a body of 8 bytes.
- The number of workers is read as `WorkProcesses`, and `nginx.conf` says `WorkerProcesses`
  (`proc/ngx_process_cycle.cpp:73`).

## 5. What is proved

Every safety invariant that a passing run checks is a theorem, and so is the refinement
`ImplementsJobQueue`: the runs show them on small instances, the theorems for every value of the constants.
The proofs are in `<Module>_proofs.tla`. They assume the named `ASSUME`s of the modules (finite sets of
threads, natural bounds, sizes in the right order, the arguments the program can call a function
with), which TLC evaluates in every run, and where a theorem says so, a configuration.

| module | theorem | property | holds for |
|---|---|---|---|
| `ThreadPool` | `TypeCorrect`, `CreateWaitsForAll`, `NoPacketLost` | (not in a run) | any threads, packets |
| | `NoLostWakeup`, `AlarmRight`, `StopsClean` | `WorkConserving`, `NoFalseAlarm`, `StoppedClean` | the same |
| | `PoolIsJobQueue` | `ImplementsJobQueue` | the same |
| `ConnPool` | `TypeCorrect`, `PoolIsBounded`, `CountAtMostOnline` | `PoolBound`, `CountNeverHigh` | any switches, threads, sizes |
| | `StaleNeverFresh` | `StaleDetected` | no flood check |
| | `NoSocketLost` | `SocketReachable` | no recycling thread |
| | `FreeUntilUsed`, `FreeMeansIdle` | `FreeConnsIdle` | neither recycling nor flood check; or one closer |
| | `DescriptorIsOwn`, `AtMostWorkerConnections` | `FdIsOwn`, `AdmissionLimit` | one closer |
| `PacketRecv` | `TypeCorrect`, `NeverOutOfBounds`, `KicksAreJustified`, `PacketsArriveWhole` | `RecvInBounds`, `KickJustified`, `PacketsWhole` | any header sizes, lengths, streams, cuts |
| `SendQueue` | `TypeCorrect`, `PostsAreKept`, `NoReplyLost`, `BacklogIsQueued` | `NoPostLost`, `RepliesAccounted`, `BacklogExact` | any handlers, clients, limits |
| `TimerQueue` | `TypeCorrect`, `CacheIsExact`, `OnlySilentKicked`, `EveryClientWatched` | `CacheExact`, `KickedOnlySilent`, `OneEntryEach` | any clients, times, switches, pointer |
| `Master` | `TypeCorrect`, `NoZombieForgotten`, `ForkingProtected`, `StatusTells` | `NoForgottenZombie`, `ForksUninterrupted`, `StatusTrue` | any configuration, number of workers |
| `Worker` | `TypeCorrect`, `NobodyWaitsInACircle`, `ReplyToItsClient`, `NoBacklogHidden` | `NoCircularWait`, `RightClient`, `BacklogCovered` | any threads, connections, clients, recycling or not |
| `Calls` | `ChecksumDivides`, `AnsweredIfProper`, `FirstDefinitionCounts`, `TextIsAsked`, `NoLineLost`, `OwnTitleShown`, `EnvironmentStays` | `ChecksumIsRemainder`, `ProperAnswered`, `ItemsAsWritten`, `TextAsAsked`, `LinesWhole`, `TitleAlone`, `EnvironmentKept` | all arguments |

How the proofs go:

- **`ThreadPool_proofs`**. The invariant first fixes who may hold
  the mutex (`m_pthreadMutex = t` exactly when `t` is in `test` or `park`) and that the counters
  match the control points (`m_iRunningThreadNum` is the number of threads in `run` or `ran`).
  `WorkConserving` then needs that a thread in `park` saw an empty queue and holds the mutex, so
  nothing was pushed since; the counting argument moves one thread at a time with the library's
  cardinality theorems. `PacketsAccounted` is inductive with the types and the fact that only threads in `taken` and `run` hold
  a packet; `StoppedClean` follows from it. `PoolIsJobQueue` is the refinement: each action of the pool maps to
  one of `JobQueue` or to a stutter, with the invariant for the steps' guards (at most as many packets are in hands as there
  are threads; what a thread releases is not released yet).
- **`ConnPool_proofs`** has an invariant for each degree of calm. For any switches: the tail of the
  free list never exceeds what the limit tests, and the list of all connections grows only when the
  free list is empty (`PoolBound`); and the count is at most the open sockets and the
  closers that have closed one and not counted it off yet (`CountInv`). Without the flood check: sequence
  numbers only grow, no tag is ahead of its connection, and a connection on the free list or not yet created
  has no tag that is fresh or could become so (`SeqInv`). Without recycling: a connection that a list,
  an event, a descriptor, a thread or a tag may name is never on the free list again, unless it was
  flooded (`PoolApart`), and who clears `fd` has closed what it held (`ClosedBefore`), from which
  `SocketReachable` follows. With one closer (`OneCloser`: no kickTime timer, no flood check, no backlog): each
  connection is in one place, the watched descriptors are the open ones, and the count is exact but for
  a client that is just coming or going (`CalmInv`). These conditions cannot be dropped: TLC violates
  `AdmissionLimit` (run `conn_limit`), `FdIsOwn` and, with the recycling thread, `FreeConnsIdle` as soon as
  a second thread closes. The shipped `nginx.conf` switches the timer and the flood check on, so
  what is proved of it is `PoolBound`, `CountNeverHigh` and `SocketReachable`.
- **`PacketRecv_proofs`**. `RecvInBounds` from an invariant that relates `curStat`,
  `precvbuf`, `irecvlen` and the buffer's size; `KickJustified` since the count never exceeds the
  streak. For `PacketsWhole` the invariant says which packet is being read and that the position in the stream is that
  packet's start plus what was read of it (`At`); the starts are a recursive function, shown to exist and to
  grow by an induction over the stream.
- **`SendQueue_proofs`**. The counters are at most one above the limits `msgSend` tests.
  `NoPostLost` needs that the counter equals the length of the queue whenever the send thread may
  look at it. For `RepliesAccounted` the replies of the queue have distinct numbers, and those in the
  queue, in the send thread and in the handlers are disjoint from each other and from the
  released ones (`OnePlace`). For `BacklogExact`, every reply was made while its
  connection was open (`Fresh`), and the count is the number of its places in the queue, which moves by one
  with each `Append` and `Tail`.
- **`TimerQueue_proofs`**. `CacheExact` since each of the three operations on the map leaves
  the size and the earliest time of what results. `KickedOnlySilent` since the time of the check and all
  pings are past when the decision is made. `OneEntryEach` from: no two entries of one connection,
  entries only of open ones, none but the new one while it is added, and every open connection
  queued or in the timer thread's hands (`UnderClock`).
- **`Master_proofs`**. The signals are blocked from the first `fork` on, the handler runs
  only in `sigsuspend`, and before `fork` there is no child (`Masked`). `ngx_daemon` is reached only with the
  sockets open, and until then the process that was started runs (`Opened`); every exit of `main` comes before the
  first `fork` of a worker, so `Masked` also gives that a failure leaves none behind.
- **`Worker_proofs`**. `NoCircularWait` from where a thread can be when it owns a mutex (`Owners`): who
  owns a `logicPorcMutex` waits at most for `m_sendMessageQueueMutex` or the later ones, who owns that one at
  most for `m_timequeueMutex` or `m_recyconnqueueMutex`, and who owns one of these waits for nothing
  that another waiter owns. `RightClient` needs to know where a connection can be while tags of former
  clients are under way: the sequence number tells them apart (`TagFits`), a connection is in one list
  once and never open meanwhile (`ListsApart`), who closes one closes it for the client
  that has it (`ClosersKnow`), unless two threads closed it at once. `BacklogCovered` counts the places in the
  queue of the present client's replies.
- **`Calls_proofs`**. What a loop computes is proved for arguments of any length. The library's induction theorems
  take a predicate as a parameter, which the provers cannot instantiate; stated with a *set* of
  numbers (`SetInduction`), the principle follows from the library's well-foundedness of the
  naturals, and a recursive function is then shown equal to one that is given step by step. The text that
  `ngx_vslprintf` puts is the beginning of a text that does not depend on the room; of a single
  conversion, that text's digits are shown to stand for its argument (`NumShows`, `FloatShows`). The
  checksum: a step of the reflected register is linear, so eight steps are one look at the table, and
  eight steps of the register are eight of the long division, whose remainder it holds, reflected. A title: the memory of the
  arguments and that of the environment are disjoint ranges, so what is written in one is not read in the other.
  `AnsweredIfProper` is a distinction of cases and needs that a body of no bytes has the checksum 0 and that no code
  takes a body of 8 bytes. The arguments are those the program can call the functions with (`CallsOfCrc`,
  `CallsOfPackets`, `CallsOfConf`, `CallsOfPrintf`, `CallsOfLog`, `CallsOfTitles`; `LogSizes` and `TitleTexts` for the
  constants).

`NoLineLost` is about the characters: a line is shown equal to its head, the first characters of its message, as
many as there is room for, what there is room for of the error's text, and the new line (`Tells`). The proof gives the
line character by character (`LineIs`), and then as the four parts one after the other (`LineJoins`); what is left is
arithmetic on the lengths (`LineTells`): what a full line gives up at its end is of the message only if
the message does not fit in front of the last two places. The second line of `ngx_log_stderr` has all of the first but its new line as its message, so the same
lemma covers it, and the error's text in it is part of that message.

Only model-checked: the liveness properties (`EveryPacketHandled`, `EveryReplyReleased`, `ShutdownReturns`,
`EveryWorkerReaped`, `SilentKickedOrHung`, `StopReturns`, `EveryThreadReturns`), since the prover has neither fairness nor
ENABLED; and the three counterexamples of section 4, which are about what the code does not do.

## 6. Not modelled, and the plan

Not modelled, and why:

- the helpers for addresses and memory and the scoped lock: stateless; the models use what they
  guarantee (a lock is held for a block, a buffer is allocated or released);
- the write-event path (`ngx_write_request_handler`, `EPOLLOUT`, a full socket buffer): unreachable,
  see `SendQueue`;
- `clearconnection` and the recycling thread's branch for the shutdown: nothing starts the thread,
  and the worker never leaves its loop; the branch would erase an iterator of one list from another
  (`net/ngx_c_socket_conn.cpp:248`);
- the `accept()` fallback for kernels without `accept4`;
- what the C library and the kernel do inside `printf`-like calls in a signal handler
  (`signal/ngx_signal.cpp:115`), and an error of reading the configuration, on which `Load` loops for ever;
- the replacement of a worker that died: `ngx_reap` is set and never read, and no document promises it.

Plan of what is left, in order:

1. A theorem that `Worker` does what `SendQueue` and `ConnPool` assume of their neighbours: each takes the others'
   steps as unconstrained, so their theorems hold in the composition, but no refinement states it.
2. Of the liveness properties, the safety halves that their arguments rest on (a thread that waits for a mutex is
   always behind an owner that can go on), as invariants with proofs.
