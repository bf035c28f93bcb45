# TLA+ models of the eltex_embedded_c programs

The repository is a collection of small C programs, one directory per exercise. Most are
sequential; the ones worth verifying are the servers, chats, hand-shakes, shells and
simulations in which threads, processes or sockets meet. This directory holds TLA+ modules for them, TLC
configurations that check the modules on small instances, and TLAPS proofs for every value
of the constants. All paths below are relative to `src/`.

Running the tools (in this directory):

    tlc -workers 2 -config MCWorkerPool.cfg MCWorkerPool
    tlapm WorkerPoolProofs.tla

`PROJECT.json` lists the runs, the code lines each definition stands for, the hazards, the
mutants (each property with a plausible bug that it catches), the findings and the theorems.

## 1. Inventory

| Part | State | Operations | Interacts through | Hard behaviour |
|---|---|---|---|---|
| Thread-pool time server, `16_homework/lec47/3/server.c` | ring `items, head, tail, size`; mutex; two conditions; flag `running` | `queue_push`, `queue_pop`, `worker`, accept loop, shutdown with pills | shared ring, sockets, SIGINT/SIGTERM | single-waiter signals, full and empty ring, pills behind tasks, a signal at the wrong moment |
| Shared-memory chat, `14_homework/2` | ring of messages with `msg_count`, `write_index`; `mutex_sem`, `event_sem`; table of clients; one read position per reader | push, broadcast, join, text, leave, registration polling, receiving thread | shared memory, two semaphores | everybody writes one ring that wraps; posts cover several messages; stale answers; time-out of registration |
| Message-queue chat, `13_homework/2` | table, history ring, one bounded queue per process | `history_add`, `send_history`, `broadcast`, join, text, leave, receiving thread | POSIX queues, blocking sends | history against live texts, blocking on a full queue, signals inside a send, clients that die |
| Epoll time server, `16_homework/lec47/4/server.c` | epoll set, a context per client, `buf_sent`, `g_running` | accept loop, partial send, UDP answer, close | edge-triggered events, TCP, UDP | lost edges, events of a batch that have become stale, freed contexts |
| Market, `11_homework` | stalls with count and mutex, buyers' needs, `loader_running` | buyer's visit, loader's visit, joins, destruction | `pthread_mutex_trylock`, a volatile flag | lost updates, skipped turns, closing while the loader is on its way |
| Phonebooks, `4_homework`, `5_homework/1.c`, `6_homework` | array and `count`; doubly linked list | add, delete, find, show, exit | nothing: sequential | pointers at both ends, shifting, the capacity |
| Thread servers, `16_homework/lec47/1`, `lec47/2` | detached threads; threads that all call `accept`; the C library's one `struct tm` | accept, answer, close | sockets, `localtime` | answers formatted at once by several threads; detached threads when the process ends |
| Hand-shakes, `13_homework/1`, `14_homework/1` (POSIX and System V) | two semaphores or two message types; names of kernel objects | one greeting, one answer | semaphores, shared memory, queues | objects left by a killed run; several clients; removal while somebody opens |
| Shells, pipes, trees, `10_homework`, `12_homework` | processes, pipe ends, a FIFO, exit statuses | fork, exec, wait, dup2 | parent and child | failing forks, pipe ends left open, children that fail or are killed |
| File manager, `9_homework/2` | two panels: path, listing, selection, scroll offset | keys, loading a directory | ncurses, the file system | boundaries of selection and scroll; directories that cannot be opened |
| Socket examples, `16_homework/lec45` | none | one request, one answer | sockets | straight-line code |
| Signal exercises, `15_homework` | masks, handlers | a few calls | signals | small |
| Number and text exercises, `1_homework`-`3_homework`, `5_homework/2.c`, `9_homework/1` | none | functions of their input | nothing | bit and index arithmetic |
| Calculators, `7_homework`, `8_homework` | none | four functions | libraries | none |

What makes each of the first ten correct is stated as properties in section 3.

## 2. Modules

| Module | Models | Used by |
|---|---|---|
| `WorkerPool` | the thread-pool server | `MCWorkerPool`, `WorkerPoolProofs` |
| `TaskFifo` | what the pool's ring promises (abstract) | `WorkerPool` (refinement) |
| `ShmChat` | server and clients of the shared-memory chat | `MCShmChat`, `ShmChatProofs` |
| `MqChat` | server and clients of the message-queue chat | `MCMqChat`, `MqChatProofs` |
| `EpollServer` | the epoll server, its kernel and its clients | `MCEpollServer`, `EpollServerProofs` |
| `Market` | stalls, buyers, loader, main | `MCMarket`, `MarketProofs` |
| `TimeServer` | the two servers that answer in a thread | `MCSmall`, `TimeServerProofs` |
| `SemShake`, `QueueShake` | the hand-shakes of `14_homework/1` and `13_homework/1` | `MCSmall`, `HandShakeProofs` |
| `Shell` | the shell with a pipe, its children and their pipe ends | `MCSmall`, `SmallProofs` (types) |
| `ProcTree` | the tree of six processes | `MCSmall`, `SmallProofs` |
| `Panel` | the panels of the file manager | `MCSmall`, `SmallProofs` |
| `PhoneBook` | what a phonebook promises (abstract) | `PhoneArray`, `PhoneList` (refinement) |
| `PhoneArray`, `PhoneList` | the array and the linked list | `MCSmall`, `SmallProofs` |

`MCSmall` checks the programs from `TimeServer` on one at a time: `which` picks the one that
runs, and the variables of the others stay in an initial state. It is one run over the union of
their state spaces, never over the product.

A variable has the name of the C variable it stands for (`head`, `tail`, `msg_count`,
`hist_count`, `loader_running`); program counters (`mpc`, `wpc`, `spc`, `cpc`, `rpc`, `pc`)
stand for the place of a thread in its code, at the points where another thread can see a
difference. A critical section that nobody can look into is one step. Ghost variables
(marked in the declarations) are read by properties only.

### WorkerPool
`Accept`, `PushLock`, `PushWait`, `PushStore`, `PushUnlock` are main's way through
`accept` and `queue_push`; `PopLock` .. `PopUnlock`, `Send`, `Close` a worker's way through
`queue_pop` and `worker`. `SignalNotEmpty` and `SignalNotFull` wake one waiter, chosen
freely. `SpuriousWakeup` lets a waiter return from `pthread_cond_wait` on its own. `Signal`
interrupts `accept` when it finds main asleep there, and otherwise only clears `running`.
`CloseListener`, the pushes of `Pill` (the task with `fd = -1`) and `Join` are the shutdown.
The answer's text is left out; `localtime`'s static struct, which the workers share as the
threads of `lec47/1` do, is modelled in `TimeServer`.

### ShmChat
A client's `sem_wait(mutex_sem)` .. `sem_post(mutex_sem)` is one step; the post of
`event_sem` after it is another, because the order matters. The server's critical section is
one step per message (`HandleJoin`, `HandleRefusedJoin`, `HandleLeave`, `HandleOther`), and it
holds `mutex` between them. `PollFinds`, `PollMisses`, `GiveUp`, `CatchUp` are the client's
registration: `Collected` is `history[]`, filled by the polls and by the second loop
(client.c:309-318) up to its capacity `MaxHistory`. `ShowHistory` displays it and starts the
receiving thread, of which `RecvTurn` is one round: `View` is what that round displays, and the
ghost `shown` keeps the last position on the screen, so that rounds can be compared with each
other. What `display_message` prints for each type, the ncurses screen and `ui_mtx` are left
out, so are crashes of processes.

### MqChat
The server answers one message with a *script*: the sends, and the changes of the table,
in the order of the code. Each send waits for room. `history_add` works on the ring
`hist_buf` with `hist_head` and `hist_count` as in the code. A signal inside a blocked
`mq_send` drops that message (the server is built with `-std=c99`: no restart, and the
handler is reset, so a second signal kills). An `mq_receive` that fails otherwise ends the
server (`ReceiveFails`). `Without` is the loop that closes the gap in the table. `Killed` ends a
client without LEAVE.

### EpollServer
The kernel is three rules taken from epoll's documentation and marked external: an edge puts
a socket on the ready list; `epoll_wait` takes some sockets off it and returns those that are
still ready; `EPOLL_CTL_ADD` and `MOD` look at the socket at once. Edges come between any two
system calls of the server. `HangUp` is the branch for `EPOLLERR | EPOLLHUP`. A client's bytes
are kept by their place in the server's `buf` (`got`), apart from `buf_sent` (`sent`), so a wrong
offset would show. Each call in the loops may fail otherwise than with EAGAIN: `AcceptDropped`,
`AcceptFails`, `SendFails`, `UdpFails`; the ghosts `missed` and `unread` record what the last
accept and recvfrom loops left in their queues, which is nothing unless an error ended them.
Left out: an error event on one of the two server sockets (server.c:321-323), which these
sockets do not report, and failures in the set-up.

### Market
A visit is two steps, trylock with the load of the count, and the store with the unlock. The
loader reads `loader_running` in a step before its visit, because main may clear it in
between. `rand_r` is a free choice.

### TimeServer
`program` says which server an instance is. In `lec47/1` main accepts (`AcceptFor`), hands the
argument over (`CreateFor`, where a failing `pthread_create` ends the program and every detached
thread with it) and the thread frees it and detaches itself (`Detach`). In `lec47/2` main starts
the threads (`CreatePool`) and joins them (`Join`), and each accepts for itself (`AcceptSelf`).
Both answer in the same steps: `ReadClock`, `LocalTime` writes the one struct of the C library,
`Format` reads two of its fields one after the other, `SendAndClose`. The lock inside
`localtime` covers the conversion only. The ghosts `accepted` and `since` date a connection and
the oldest one open at that moment.

### SemShake, QueueShake
A name (of a semaphore, a memory, a queue) stands for a numbered object until it is unlinked;
who has opened the object keeps it. Each call of server and client is a step, and `Kill` may
come between any two. Servers run one after the other, because two at a time is not how the
exercise is used; clients come whenever they like, and are refused when a name is missing. In
`SemShake` the POSIX and the System V program differ in their memory and share the names of
their semaphores, as in the code. In `QueueShake` calls on a System V queue that is gone fail,
and a message is the number of the exchange it belongs to, which the programs do not send.
The ghost `crashed` records that a server was killed.

### Shell
A child is `<<role, line>>`; `holds` are the pipe ends each process has open. `ReadLine` parses
and makes the pipe, `ForkLeft`, `ForkRight` and `ForkAlone` may fail and then leave the shell
with what it has open, `CloseEnds` and the three waits follow. A child copies the shell's
descriptors, so later children also hold ends of earlier pipes. The commands are external: a
left one writes and ends or dies of SIGPIPE, a right one reads to the end of its input or quits.

### ProcTree
`ForkFirst`, `ForkSecond`, `Wait0` .. `Wait2`, `Exit`; any fork may fail, `Kill` any process.
When process 5 fails, process 2 leaves its block and reaches the code of its parent
(`FallThrough`), where it reads `status1` and `status2`, which nobody has written in it: the
outcome is a free choice.

### Panel
One action per key. `Load` takes any listing, or leaves an empty one when `opendir` fails, in
which case `selected` and `scroll` keep their values. A path is its depth.

### PhoneBook, PhoneArray, PhoneList
Each command is one step. `PhoneList` keeps `prev` and `next` as functions on the nodes and
treats the four cases of unlinking one by one; its book is what a walk along `next` from
`head` finds. Finding and showing only read. `findByName` of homework 6 is not modelled: it
reads the name only while something other than a newline follows the command (server.c:154),
so with the usual input, a command and then a name on its own line, it compares a buffer that
was never written.

## 3. Runs

| Run | Instance | Shows |
|---|---|---|
| `pool` | 2 workers, 3 connections, ring of 2 | `OneOwner`: an accepted connection is in exactly one place until it is closed. `NoLostWakeup`: signalling one waiter never leaves tasks with everybody asleep. `DrainBeforeExit`, `SafeDestroy`, `CleanShutdown`: pills come last, the pool ends, its queue is destroyed when every worker has ended. `AcceptedServed`: every accepted connection is closed. `FifoRefinement`: the ring implements `TaskFifo`. `PoolInv`: the inductive invariant. |
| `pool_ctrlc` | 2 workers, 1 connection | violation, see section 5 |
| `shm` | 2 clients, ring of 2, 1 text | `RingHoldsLast`: positions and slots agree after wrapping. `EventCoversBacklog`, `QuietMeansDone`: the server never sleeps over unread messages. `HandledOnce`: its own answers overwriting the ring never make it handle a request twice. `SoleNameListed`: registration. `ShownInOrder`: turn after turn, the receiving thread displays each message once and in order, from where the history ends, and marks every gap. `HistoryMeetsThread`: the history has every significant message before that place, unless it was overwritten or `history[]` is full, and none after it. |
| `shm_live` | 2 clients, one name, ring of 3 | `LeaveTakesEffect` under fairness |
| `shm_join_ok`, `shm_history`, `shm_failed` | ring of 3 | violations, see section 5 |
| `mq` | 2 clients, queues of 1, history of 2, 3 texts | `NothingMissed`: history and broadcasts join without a gap, but for at most one text per signal. `WelcomeEndsHistory`: JOIN_OK comes between them. `LeaverInFlight`: no entry of the table outlives its client's LEAVE. `TypeOK`: the types. `StuckOnlyOnLeaver` under fairness: only a client whose receiving thread has ended can hold the server for ever. |
| `mq_leave` | 2 clients, queues of 1, 1 text | violation, see section 5 |
| `epoll` | 2 clients, answers of 2 bytes, send buffer of 1, 2 events a turn, 1 UDP request | `NoLostEdge`: work on a socket is never stranded; a loop that an error ended leaves what was queued then and no more. `NoDangling`: no freed context is used. `WholeAnswer`: each byte of an answer is sent once and in order. `Answered` and `EdgesServed` under fairness. |
| `market` | 2 stalls, 2 buyers | `StockConserved`: no purchase or delivery is lost. `SafeClosing`: no mutex is destroyed in use. `MarketCloses` under fairness. |
| `small` | the small programs, one at a time | `ArrayIsBook`, `ListIsBook`, `WellLinked`: the phonebooks. `PromptReturns`, `NobodyLeftOver`: the shell comes back to its prompt after every line, and leaves no blocked command when it ends, because no pipe end stays open too long. `SuccessMeansAll`: the root of the tree reports success only for all. `InStep`: in both hand-shakes each side displays the other's text of this exchange, unless a server was killed before, or a semaphore client mixed two exchanges. `CutOffOnlyByFailure`, `AnswerNotOlder`: the thread servers answer every connection they accept, and no answer is older than the oldest connection open when its own was accepted. `SelectionVisible`: the selected line is on the screen. `MCTypeOK`: all types. |

### Bounds
* The ring of the pool has fewer slots than connections plus pills, so it fills, wraps, and
  main waits both with a connection and with a pill; three connections for two workers let a
  worker come back while another one sleeps.
* The chat's rings are shorter than one conversation, so they wrap and overflow; `MaxTexts`
  bounds the texts, `Timeout` the registration polls (500 in the code; one poll already gives
  both outcomes). `MaxHistory = 3` is the capacity of `history[]` (1000 in the code) and is
  reached, too.
* The queues of `mq` hold one message while joining sends up to four, so every send of a
  script meets a full queue; with `H = 2` and three texts the history overflows. Queues of two
  messages were tried as well, for the safety properties (1.2 million states), and hold; the
  proofs are for any capacity.
* An answer of two bytes over a send buffer of one forces `EAGAIN` after a partial send; with
  two events a turn and four sockets `epoll_wait` may leave ready sockets for the next turn. Two
  bytes are also enough to see one repeated, skipped or out of its place.
  `MaxAsk` bounds UDP requests.
* `MaxStock` bounds a stall (a delivery over it is skipped); needs of 2 or 3 against stocks of
  1 or 2 make buyers come back, and meet the loader and each other.
* Three nodes are enough for an only, first, middle and last node; an array of four entries
  holds three abonents, its limit.
* The shell reads `MaxLines = 3` lines, so that children of a second and third line inherit what
  a failed fork of the first left open; a left command writes `Output = 2` into pipes that hold
  `PipeSize = 1`, so it blocks.
* Two servers in turn and two clients make an exchange that ends, or is killed, under a client
  of the next; `MaxObject` is the number of servers, each makes at most one object of a name.
* Two threads and `MaxTime = 2` give answers that mix two threads' times and ticks between
  reading the clock and formatting. (Three threads with `MaxTime = 1` were tried as well and
  hold; the proof is for any number.)
* Three listings, one longer than the window of `Rows = 2`, one shorter, one empty, at three
  depths.

`CHECK_DEADLOCK FALSE` is said where processes end and the environment may stop asking (both
chats, epoll, small: in the hand-shakes, for example, a server without a client waits for ever). The pool and the market have a final stuttering step instead, so a real
deadlock of their threads would be reported.

### Fairness
* `WF` on the steps of each thread or process: the operating system schedules it.
* `SF` on taking a mutex or semaphore (`PushLock`, `PopLock`, `ClientLocked`, `RecvTurn`,
  `WakeUp`): the lock is free again and again, and a waiter gets it at some time. Neither
  glibc nor Linux promises this in theory; critical sections here are short and followed by
  sleeps or system calls, and every liveness property of threaded code needs it. The receiving
  thread of both chats also needs `ui_mtx`, which the input loop drops only for a moment in
  every 50 ms; that it is handed over is part of the assumption on `RecvTurn`.
* `SF` on `Accept`: a connection in the backlog is accepted when accept is called again and
  again without a signal. On `SendLeave` and `Join` of `MqChat`: a sender that waits for room in the
  server's queue gets it when there is room again and again.
* `WF` on `PeerReads` in the epoll server: clients read what they are sent, as
  `tcp_client.c` does until the end of the stream (lines 40-51). A client
  that does not read keeps its context for ever; the code has no time-out.
* `Market`: `rand_r` brings every thread to every stall again and again, and the trylock
  does not fail each time (`LoaderGetsIn` for the loader, strong fairness for buyers).
* `small`: `WF` on the shell's steps and on the children of each line (`MCFairness`); typing,
  and a right command that quits early (`Quits`), have none. The other programs of that run are
  checked for safety only.
* Signals, resets, kills, failed calls and user input have no fairness.

## 4. Proofs

| Module | Theorems | Argument |
|---|---|---|
| `WorkerPoolProofs` | `TypeCorrect`, `PoolInvariant`, `WakeupsKept`, `Drained`, `DestroySafe`, `OwnedOnce`, `FifoImplemented` | below |
| `ShmChatProofs` | `RingKept`, `BacklogCovered`, `DisplayInOrder`, `HandledInOrder`, `SoleNamesListed`, `QuietIsDone` | below |
| `MqChatProofs` | `MqTypes`, `LeaverTracked`, `HistoryReplayed`, `NothingIsMissed`, `WelcomeIsLast` | below |
| `EpollServerProofs` | `EpollTypes`, `EpollInvariant`, `NothingDangles`, `EdgesKept`, `AnswersWhole` | below |
| `MarketProofs` | `MarketTypes`, `MarketInvariant`, `NothingLost`, `ClosesSafely` | below |
| `TimeServerProofs` | `CutOnlyByFailure`, `AnswersNotOlder` | below |
| `HandShakeProofs` | `SharedMemoryInStep`, `QueueAnswersMatch`, `HandShakesInStep` | below |
| `SmallProofs` | `ArrayTypes`, `ArrayImplements`, `ListWellLinked`, `ListImplements`, `SuccessIsTrue`, `SelectionStaysVisible`, `TypesKept`, `SmallPrograms` | below |

Assumptions are the named `ASSUME`s of the modules: sets of threads are finite and not empty
where they are counted, capacities are positive, special values are different from ordinary
ones. Nothing bounds the number of workers, connections, clients, threads, stalls, rows, nodes or
entries. Those of `MCSmall` say that `Null` is no node and there are finitely many nodes
(`ListAssumption`), that bounds are natural numbers (`ShellAssumption`), and that no process is
both server and client (`ShakeAssumption`).

**Pool.** `NoLostWakeup` is not inductive without types and the ring's shape, `SafeDestroy`
not without knowing how many pills are where. `PoolInv` adds: the ring's indices agree
(`RingInv`), one thread holds the mutex (`MutexInv`), main's and the workers' program counters
fit their local tasks (`MainInv`, `WorkerInv`), undrawn pills are the last entries of the ring
(`PillInv`), and an open connection is held somewhere. The step of `NoLostWakeup` counts:
a push adds one task and moves one waiter to the arriving workers; a pop takes both away. When
main is in `exit`, all workers have drawn their pills, so the ring is empty and nothing is
open. For `FifoImplemented` each step of the ring maps to `Put`, `Take`, `Finish` or stutters.
`OneOwner` is about all places a connection can be in, so its step is proved for one connection
at a time (`Sole(c)`): a push moves it from main into one slot, a pop from that slot to one
worker, and all other slots and workers keep what they had.

**Shared-memory chat.** Messages have positions 0, 1, 2, ...; position `k` is in slot
`k % HISTORY_SIZE`. `RingAt` says that the last `HISTORY_SIZE` positions are in their
slots (`RingKept`), which needs that `write_index` and `msg_count` agree modulo the size:
lemmas on division (`Unique`, `NextSlot`, `OtherSlot`) carry it over a push. `Backlog` says that
unread messages are covered by a pending post, by a client about to post, or by the server being
awake (`BacklogCovered`); it must hold in the server's state `post` too, after its own answers.
`HandledInOrder` needs `Draining`: while the server works through the ring, its answers may have
overwritten unread positions, and each unread slot then holds either the client message of that
position or a message of the server itself, which it skips. `DisplayInOrder` needs that no reader
is ahead of the ring, and `DisplayInv`: the last position on the screen is the one before
`my_last`, because main hands its own position over and each turn moves both. The last two theorems rest on two more invariants. `TableInv`: names, and
so pids, are unique in the table; every request in the ring is signed with its writer's own name;
and a JOIN_OK with a name that only one client uses is in the ring only while that client is
listed or has written its LEAVE. `LeaveInv`: of a client that has written its LEAVE the server
either knows nothing any more, or the LEAVE is unread with no request of that client behind it,
or an unread message has been overwritten (`Missed`) - which the server then counts as an
overflow or comes upon while it drains.

**Message-queue chat.** `LeaverInFlight` needs that the script of the message being answered
changes the table at most once and never adds a client that is listed (`ScriptInv`), that no
client is in the table twice (`Distinct`), and that a LEAVE in the server's queue is behind its
client's JOIN (`AskedFirst`). `HistoryReplayed` is about `send_history`: what it reads from the
ring, oldest first, are the newest messages recorded, each once.

`NothingMissed` and `WelcomeEndsHistory` speak of `Sent(c)`: what `c` has been sent, followed by
what the script holds for it, with an entry `other` for each step of the script that is not for
`c`. With these entries no step has to filter a sequence, and each step does one of four things to
`Sent(c)`: a client's receiving and a send to `c` leave it as it is (the message moves from one part
to the next); any other step of the script cuts one `other` (`PopTo`, `PopCut`); a new script
appends its steps (`Grows..`); a signal in a blocked send cuts a message of `c`. Neither property is
inductive; `DeliveryOf(c)` adds

* `Asked`: a client asks once, and until its JOIN is read it is not in the table and nothing is
  sent to it; so a history always goes to a client that has nothing yet;
* `OrderlyIn(Sent(c), Len(Line(c)))`: before a HIST or JOIN_OK there is only HIST, and what is
  neither comes after a JOIN_OK that *has been sent*. With "is to be sent" instead it would not
  survive the signal that drops the JOIN_OK;
* `Greeted`: who is in the table has been sent its JOIN_OK, and who is being added is before it is
  there, unless a signal ended the server's loop, which then reads no further message. So a
  broadcast goes only to clients that have been welcomed;
* `Newest`, `Covers` and `InOrder`: the texts of `c` are those from some `first` to `stored`, where
  `first` is not after the oldest one in the ring, without a set of lost ones that is no larger than
  the number of signals: a signal adds the one text it cuts (`LostCount`). Reading a text increases `stored` and sends it to everybody
  in the table in the same step; reading a JOIN appends what `Replay` says of the ring.

**Epoll.** `NoLostEdge` alone is not inductive: when a client reads, the socket may become
writable while its context is on no list. `EpollInv` says such a context's socket has found no
room (`nospace`), so the read is an edge. `EPOLL_CTL_MOD` needs the same for the moment between
`EAGAIN` and the call, and `epoll_wait` needs that no events of the turn before are left.
`WholeAnswer` needs `Streamed`: the bytes a client has got are the first `buf_sent` ones of its
answer, in their order; a send appends the next ones.
`NoDangling` rests on each context being in the batch at most once, and out of it while it is
handled. The bound `MaxAsk` is a guard of the environment and is arbitrary in the proofs.

**Market.** A thread inside a stall owns its mutex, and what it loaded is still the count;
then its store loses nothing (`NothingLost`). The joins give `ClosesSafely`. `MaxStock` is an
arbitrary bound in the guards.

**Thread servers.** `CutInv` adds to `CutOffOnlyByFailure` what each place of a thread means for
its connection and argument (`Held`), and that the program runs exactly while it has no result.
`AgeInv` adds that `since` of an open connection is not after the acceptance of any other open
one (`SinceIsOldest`): then whoever overwrites the shared struct does so with a time read for a
connection that is open, so not before `since` (`Fresh`).

**File manager.** `SelectionVisible` is inductive with the types; the case to look at is a failed
`opendir`, which keeps `selected` and `scroll` over an empty listing.

**Phonebooks.** The contents of the array are the entries below `count`; writing the entry at
`count` appends, shifting closes the gap of the first match (`ArrayImplements`). For the list
`ListInv` says that there is a sequence of distinct nodes, exactly those in use, of length `count`,
which `next` follows from `head` and `prev` from `tail`, and that a free node points nowhere. There
is only one such sequence (`WalksAre`), so it is what a walk finds, and the book is its data. An
addition appends a node to it; the four ways to unlink a node all take one entry out of it, and the
entry is the first match, which is what the abstract book deletes (`ListImplements`). After
`exit`, which walks `head` to NULL and frees the nodes, only `head` no longer fits the sequence.

**Hand-shakes.** Both invariants are claimed while no server has been killed. A name stands for an
object of the one server at work (`NamesOfWorker`), numbers are given once (`Numbered`), and each
process opens its objects in order; so if a client has objects of two servers, the first was done
when it opened the later one (`OpenedInOrder`). For the semaphores, a greeting has one token, which
one client takes, who then has both semaphores of that server (`OneGreeting`); a server has an
answer only from that client (`OneAnswer`), and the memory holds the greeting until it answers
(`MemoryInStep`). For the queues, those of a server hold only its own exchange's messages until it is
done (`OwnMessages`).

**Process tree.** `TreeInv`: success is the status of a process that has ended; who has started
nobody has nobody below it; and a process past its wait with success has seen all its children end,
all of them with success but perhaps process 5. `SuccessMeansAll` follows from the root down.

**All small programs.** A step of `MCSmall` is a step of one program and leaves the others as they
are, so its specification implies that of each (`EachRuns`); `TypesKept` and `SmallPrograms` state
for it what the run `small` checks.

The library's induction rules take an operator as a parameter, which the provers cannot instantiate.
The one argument that goes by induction on a natural number, that there is only one walk along a
list, uses `Smallest`: a set of naturals that is not empty has a least element.

Only model-checked: liveness under fairness, which is `AcceptedServed`, `CleanShutdown`,
`LeaveTakesEffect`, `StuckOnlyOnLeaver`, `Answered`, `EdgesServed`, `MarketCloses`,
`PromptReturns` and `NobodyLeftOver`. Of `Shell` only the types are proved, because both its
properties are of this kind. So is `HistoryMeetsThread` model-checked only: `history[]` is filtered
from the ring, and what a filter keeps goes by induction over its input. Every other invariant and
every refinement that a run checks is a theorem.

## 5. Findings

1. `pool_ctrlc`: lec47/3/server.c:181 says that ctrl+c ends the threads. The signal is noticed
   only as `EINTR` of `accept`; when it comes while main is elsewhere, nothing reads `running`.
2. `shm_join_ok`: 14_homework/2/client.c:283 takes any JOIN_OK with its name, and starts at
   position 0: a refused second user of a name registers with the first one's answer.
3. `shm_history`: the registration loop (client.c:280-295) has no overflow test: after the ring
   has wrapped, the collected history repeats messages and is out of order.
4. `shm_failed`: a client that gives up its registration, or is interrupted in it, says
   "Registration failed" (client.c:302) and sends no LEAVE; its JOIN_REQ is still answered, and
   the name stays taken for as long as the server runs.
5. `mq_leave`: message.h:17 calls LEAVE graceful. A client stops receiving before it sends
   LEAVE (13_homework/2/client.c:355-359), and the server may be blocked on its full queue.

Observations that contradict no text of the repository, stated as exceptions in the properties:

* 10_homework/2/main.c:97-104: process 2 reaches the waits of its parent when process 5 failed,
  and decides by two variables nobody wrote; the root may then report success
  (`SuccessMeansAll`).
* 14_homework/1: a client that opens its objects while one exchange ends and the next begins may
  hold objects of both, and without any crash display "Hello!", or leave "Hi!" for the server
  (`InStep`). After a kill, left-over semaphores put the next exchange out of step.
* lec47/1/server.c:24-28, the same function in lec47/2 and lec47/3: two threads that format at
  once share a `struct tm`; an answer may mix two times, which are at least not old
  (`AnswerNotOlder`).
* 12_homework/3/main.c:84-88: a second fork that fails leaves the pipe open in the shell and the
  first child unreaped; the child may block until the shell ends (`NobodyLeftOver`).
* 9_homework/2 assumes a window of at least one line and never recomputes the offset when the
  terminal is resized.

## 6. Not modelled, and plan

The plan went from what can go wrong most to what can go wrong least: the pool, the two chats,
the epoll server and the market first, then the small programs, each with the hazards that it
has. What is left, and why:

* `10_homework/1`, `12_homework/1` and `12_homework/2`: one fork, one pipe or one FIFO, with no
  choice in them. `10_homework/3` is the branch of `Shell` for a line without a pipe.
* Crashes of the processes of `14_homework/2`. Nothing recovers from one: a process killed
  between `sem_wait` and `sem_post` leaves `mutex_sem` at 0 and the next run hangs. `SemShake`
  has the same kind of left-over with its crashes modelled.
* The ncurses screens of both chats and the fairness of `ui_mtx`, see section 3.
* Searching in the phonebooks, which only reads (for `findByName` see section 2).
* The clients of the time servers: they connect, read to the end and close, and are actions of
  the servers' modules.
* The socket examples of `16_homework/lec45` (one request, one answer, straight-line calls), the
  signal exercises of `15_homework` (a handler or a mask and a wait), the number and text
  exercises and the calculators (functions of their input; no state that lasts).
* Set-up calls that fail before a program does anything, an error event on one of the epoll
  server's own sockets, and a terminal of less than four lines.
