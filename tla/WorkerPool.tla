--------------------------- MODULE WorkerPool ---------------------------
(***************************************************************************)
(* The thread-pool time server, 16_homework/lec47/3/server.c: main accepts *)
(* connections and pushes them on a ring of QUEUE_CAP tasks guarded by a   *)
(* mutex and two condition variables; POOL_SIZE workers pop tasks, send    *)
(* the time and close the connection.  An accept interrupted by a signal   *)
(* ends the loop: main closes the listening socket, pushes one task with   *)
(* fd = -1 for each worker, joins the workers and destroys the queue.      *)
(*                                                                         *)
(* A connection stands for its descriptor and its client.  A thread that   *)
(* holds the mutex runs to its unlock in two steps, one under the lock and *)
(* the unlock itself, so other threads interleave where the code lets them.*)
(***************************************************************************)
EXTENDS Integers, Sequences, FiniteSets

CONSTANTS Workers,    \* pool[0 .. POOL_SIZE - 1]
          Conns,      \* the connections clients will try to open
          Cap,        \* QUEUE_CAP
          Main,       \* the main thread
          NoThread,   \* the owner of a free mutex
          Pill,       \* the task with fd = -1
          NoTask      \* an empty slot or local variable

ASSUME PoolAssumption ==
    /\ IsFiniteSet(Workers)
    /\ Workers # {}
    /\ Cap \in Nat \ {0}
    /\ Main \notin Workers
    /\ NoThread \notin Workers \cup {Main}
    /\ Pill \notin Conns
    /\ NoTask \notin Conns \cup {Pill}

Tasks == Conns \cup {Pill}

VARIABLES
    items, head, tail, size,  \* fd_queue_t
    mu,                       \* the thread that holds queue.mu
    mpc, pending, pills,      \* main: where it is, its task, the pills pushed
    wpc, task,                \* each worker: where it is, its task
    conn,                     \* what has become of each connection
    listening,                \* the listening socket is open
    running                   \* the flag of the signal handler

ring    == <<items, head, tail, size>>
main    == <<mpc, pending, pills>>
pool    == <<wpc, task>>
outside == <<conn, listening, running>>
vars    == <<ring, mu, main, pool, outside>>

\* "loop": before accept; "accept": inside accept; "closing": after the break;
\* "push": at pthread_mutex_lock (also after a wake-up); "pushing": holds mu;
\* "wait": in pthread_cond_wait; "pushed": holds mu, about to unlock.
MainPc == {"loop", "accept", "closing", "push", "pushing", "wait", "pushed",
           "join", "exit"}

\* "pop", "popping", "wait", "popped" as for main; then send and close.
WorkerPc == {"pop", "popping", "wait", "popped", "send", "close", "exited"}

\* "idle": not connected; "backlog": connected, not accepted; "open": accepted;
\* "answered": send was called; "closed": closed by the worker; "refused": the
\* listening socket was closed before the connection was accepted.
ConnState == {"idle", "backlog", "open", "answered", "closed", "refused"}

TypeOK ==
    /\ items \in [0 .. Cap - 1 -> Tasks \cup {NoTask}]
    /\ head \in 0 .. Cap - 1
    /\ tail \in 0 .. Cap - 1
    /\ size \in 0 .. Cap
    /\ mu \in Workers \cup {Main, NoThread}
    /\ mpc \in MainPc
    /\ pending \in Tasks \cup {NoTask}
    /\ pills \in 0 .. Cardinality(Workers)
    /\ wpc \in [Workers -> WorkerPc]
    /\ task \in [Workers -> Tasks \cup {NoTask}]
    /\ conn \in [Conns -> ConnState]
    /\ listening \in BOOLEAN
    /\ running \in 0 .. 1

Init ==
    /\ items = [i \in 0 .. Cap - 1 |-> NoTask]
    /\ head = 0 /\ tail = 0 /\ size = 0
    /\ mu = NoThread
    /\ mpc = "loop" /\ pending = NoTask /\ pills = 0
    /\ wpc = [w \in Workers |-> "pop"]
    /\ task = [w \in Workers |-> NoTask]
    /\ conn = [c \in Conns |-> "idle"]
    /\ listening = TRUE
    /\ running = 1

Waiting == {w \in Workers : wpc[w] = "wait"}
Backlog == {c \in Conns : conn[c] = "backlog"}

-------------------------------------------------------------------------
(* Clients and the terminal.                                             *)

Connect(c) ==
    /\ conn[c] = "idle"
    /\ conn' = [conn EXCEPT ![c] = IF listening THEN "backlog" ELSE "refused"]
    /\ UNCHANGED <<ring, mu, main, pool, listening, running>>

\* SIGINT or SIGTERM: the handler clears running, and since SA_RESTART is not
\* set an accept that is asleep returns EINTR.
Signal ==
    /\ mpc # "exit"
    /\ running' = 0
    /\ mpc' = IF mpc = "accept" /\ Backlog = {} THEN "closing" ELSE mpc
    /\ UNCHANGED <<ring, mu, pending, pills, pool, conn, listening>>

-------------------------------------------------------------------------
(* main: the accept loop and the shutdown.                               *)

EnterAccept ==
    /\ mpc = "loop"
    /\ mpc' = "accept"
    /\ UNCHANGED <<ring, mu, pending, pills, pool, outside>>

Accept(c) ==
    /\ mpc = "accept"
    /\ conn[c] = "backlog"
    /\ conn' = [conn EXCEPT ![c] = "open"]
    /\ pending' = c
    /\ mpc' = "push"
    /\ UNCHANGED <<ring, mu, pills, pool, listening, running>>

\* accept fails with an errno other than EINTR: perror, continue.
AcceptFails ==
    /\ mpc = "accept"
    /\ mpc' = "loop"
    /\ UNCHANGED <<ring, mu, pending, pills, pool, outside>>

CloseListener ==
    /\ mpc = "closing"
    /\ listening' = FALSE
    /\ conn' = [c \in Conns |-> IF c \in Backlog THEN "refused" ELSE conn[c]]
    /\ pending' = Pill
    /\ mpc' = "push"
    /\ UNCHANGED <<ring, mu, pills, pool, running>>

\* Mutant of Join: only the first of the threads is joined.
JoinOne ==
    /\ mpc = "join"
    /\ \E w \in Workers : wpc[w] = "exited"
    /\ mpc' = "exit"
    /\ UNCHANGED <<ring, mu, pending, pills, pool, outside>>

\* The pthread_join loop; what follows it destroys the mutex and the conditions.
Join ==
    /\ mpc = "join"
    /\ \A w \in Workers : wpc[w] = "exited"
    /\ mpc' = "exit"
    /\ UNCHANGED <<ring, mu, pending, pills, pool, outside>>

-------------------------------------------------------------------------
(* queue_push, called by main only.                                      *)

PushLock ==
    /\ mpc = "push"
    /\ mu = NoThread
    /\ mu' = Main
    /\ mpc' = "pushing"
    /\ UNCHANGED <<ring, pending, pills, pool, outside>>

PushWait ==
    /\ mpc = "pushing"
    /\ size = Cap
    /\ mu' = NoThread
    /\ mpc' = "wait"
    /\ UNCHANGED <<ring, pending, pills, pool, outside>>

\* Mutants of SignalNotEmpty: a signal only when the ring was empty, and none.
SignalWasEmpty ==
    IF Waiting = {} \/ size > 0
    THEN UNCHANGED wpc
    ELSE \E w \in Waiting : wpc' = [wpc EXCEPT ![w] = "pop"]
SignalNobody == UNCHANGED wpc

\* pthread_cond_signal(&not_empty): one waiter, if there is any, is woken.
SignalNotEmpty ==
    IF Waiting = {}
    THEN UNCHANGED wpc
    ELSE \E w \in Waiting : wpc' = [wpc EXCEPT ![w] = "pop"]

PushStore ==
    /\ mpc = "pushing"
    /\ size < Cap
    /\ items' = [items EXCEPT ![tail] = pending]
    /\ tail' = (tail + 1) % Cap
    /\ size' = size + 1
    /\ SignalNotEmpty
    /\ pills' = IF pending = Pill THEN pills + 1 ELSE pills
    /\ pending' = NoTask
    /\ mpc' = "pushed"
    /\ UNCHANGED <<head, mu, task, outside>>

\* The unlock, and the return into the accept loop or into the loop of pills.
PushUnlock ==
    /\ mpc = "pushed"
    /\ mu' = NoThread
    /\ \/ /\ listening
          /\ mpc' = "loop"
          /\ UNCHANGED pending
       \/ /\ ~listening
          /\ pills < Cardinality(Workers)
          /\ mpc' = "push"
          /\ pending' = Pill
       \/ /\ ~listening
          /\ pills = Cardinality(Workers)
          /\ mpc' = "join"
          /\ UNCHANGED pending
    /\ UNCHANGED <<ring, pills, pool, outside>>

-------------------------------------------------------------------------
(* queue_pop and the rest of the worker's loop.                          *)

PopLock(w) ==
    /\ wpc[w] = "pop"
    /\ mu = NoThread
    /\ mu' = w
    /\ wpc' = [wpc EXCEPT ![w] = "popping"]
    /\ UNCHANGED <<ring, main, task, outside>>

PopWait(w) ==
    /\ wpc[w] = "popping"
    /\ size = 0
    /\ mu' = NoThread
    /\ wpc' = [wpc EXCEPT ![w] = "wait"]
    /\ UNCHANGED <<ring, main, task, outside>>

\* Mutant of SignalNotFull: pop does not signal.
SignalNotFullNot == UNCHANGED mpc

\* pthread_cond_signal(&not_full): only main ever waits on it.
SignalNotFull == mpc' = IF mpc = "wait" THEN "push" ELSE mpc

\* Mutants of PopTake: head stays where it is; the newest task is taken first.
PopHeadStays(w) ==
    /\ wpc[w] = "popping"
    /\ size > 0
    /\ task' = [task EXCEPT ![w] = items[head]]
    /\ size' = size - 1
    /\ SignalNotFull
    /\ wpc' = [wpc EXCEPT ![w] = "popped"]
    /\ UNCHANGED <<items, head, tail, mu, pending, pills, outside>>
PopNewest(w) ==
    /\ wpc[w] = "popping"
    /\ size > 0
    /\ tail' = (tail + Cap - 1) % Cap
    /\ task' = [task EXCEPT ![w] = items[tail']]
    /\ size' = size - 1
    /\ SignalNotFull
    /\ wpc' = [wpc EXCEPT ![w] = "popped"]
    /\ UNCHANGED <<items, head, mu, pending, pills, outside>>

PopTake(w) ==
    /\ wpc[w] = "popping"
    /\ size > 0
    /\ task' = [task EXCEPT ![w] = items[head]]
    /\ head' = (head + 1) % Cap
    /\ size' = size - 1
    /\ SignalNotFull
    /\ wpc' = [wpc EXCEPT ![w] = "popped"]
    /\ UNCHANGED <<items, tail, mu, pending, pills, outside>>

PopUnlock(w) ==
    /\ wpc[w] = "popped"
    /\ mu' = NoThread
    /\ wpc' = [wpc EXCEPT ![w] = IF task[w] = Pill THEN "exited" ELSE "send"]
    /\ UNCHANGED <<ring, main, task, outside>>

\* send may fail; the worker reports it and goes on to close all the same.
Send(w) ==
    /\ wpc[w] = "send"
    /\ conn' = [conn EXCEPT ![task[w]] = "answered"]
    /\ wpc' = [wpc EXCEPT ![w] = "close"]
    /\ UNCHANGED <<ring, mu, main, task, listening, running>>

Close(w) ==
    /\ wpc[w] = "close"
    /\ conn' = [conn EXCEPT ![task[w]] = "closed"]
    /\ task' = [task EXCEPT ![w] = NoTask]
    /\ wpc' = [wpc EXCEPT ![w] = "pop"]
    /\ UNCHANGED <<ring, mu, main, listening, running>>

\* pthread_cond_wait may return without a signal.
SpuriousWakeup ==
    /\ \/ mpc = "wait" /\ mpc' = "push" /\ UNCHANGED wpc
       \/ \E w \in Waiting : wpc' = [wpc EXCEPT ![w] = "pop"] /\ UNCHANGED mpc
    /\ UNCHANGED <<ring, mu, pending, pills, task, outside>>

\* After main returns the process is gone.
Terminated == mpc = "exit" /\ UNCHANGED vars

-------------------------------------------------------------------------
MainStep == EnterAccept \/ CloseListener \/ PushWait \/ PushStore \/ PushUnlock
            \/ Join

WorkerStep(w) == PopWait(w) \/ PopTake(w) \/ PopUnlock(w) \/ Send(w) \/ Close(w)

Next ==
    \/ \E c \in Conns : Connect(c) \/ Accept(c)
    \/ Signal
    \/ AcceptFails
    \/ MainStep
    \/ PushLock
    \/ \E w \in Workers : PopLock(w) \/ WorkerStep(w)
    \/ SpuriousWakeup
    \/ Terminated

Spec == Init /\ [][Next]_vars

\* Each thread is scheduled; a thread that keeps finding the mutex free gets it;
\* accept does not fail for ever while a connection is waiting.
Fairness ==
    /\ WF_vars(MainStep)
    /\ SF_vars(PushLock)
    /\ \A w \in Workers : WF_vars(WorkerStep(w)) /\ SF_vars(PopLock(w))
    /\ \A c \in Conns : SF_vars(Accept(c))

FairSpec == Spec /\ Fairness
-------------------------------------------------------------------------
(* What the pool promises.                                               *)

\* An index at most one lap past the end of the ring.
Wrap(i) == IF i < Cap THEN i ELSE i - Cap

\* The tasks in the ring, oldest first.
Queued == [k \in 1 .. size |-> items[Wrap(head + k - 1)]]

\* A connection main has accepted and no worker has closed yet is in exactly one
\* place: main's local, one live slot of the ring, or one worker's local.  No
\* descriptor is dropped, served twice or closed twice (server.c:171-177, 95-115).
OneOwner ==
    \A c \in Conns :
        Cardinality({k \in 1 .. size : Queued[k] = c})
          + Cardinality({w \in Workers : task[w] = c})
          + Cardinality({t \in {Main} : pending = c})
        = IF conn[c] \in {"open", "answered"} THEN 1 ELSE 0

\* Once a worker has drawn a pill only pills are left: no accepted connection is
\* behind a pill when the workers leave (server.c:96-98, 182-187).
DrainBeforeExit ==
    (\E w \in Workers : task[w] = Pill) => \A k \in 1 .. size : Queued[k] = Pill

\* The threads that are about to look at size.
Arriving == {w \in Workers : wpc[w] \in {"pop", "popping"}}

\* No wake-up is lost although push and pop signal a single thread: a worker
\* sleeps only if every waiting task has a worker on its way to it, and main
\* sleeps only while the ring is full (server.c:69-75, 81-87).
NoLostWakeup ==
    /\ Waiting # {} => size <= Cardinality(Arriving)
    /\ mpc = "wait" => size = Cap

\* When main destroys the mutex and the conditions every worker has ended, so nobody
\* holds or waits on them, the ring is empty and no connection is left open
\* (server.c:189-195).
SafeDestroy ==
    mpc = "exit" => /\ mu = NoThread
                    /\ \A w \in Workers : wpc[w] = "exited"
                    /\ size = 0
                    /\ \A c \in Conns : conn[c] \notin {"open", "answered"}

\* The pills main has pushed and no worker has drawn.
Drawn  == {w \in Workers : task[w] = Pill}
Undrawn == pills - Cardinality(Drawn)

Held(c) == \/ pending = c
           \/ \E k \in 1 .. size : Queued[k] = c
           \/ \E w \in Workers : task[w] = c

RingInv == /\ tail = Wrap(head + size)
           /\ \A k \in 1 .. size : Queued[k] \in Tasks

MutexInv == /\ mpc \in {"pushing", "pushed"} <=> mu = Main
            /\ \A w \in Workers : wpc[w] \in {"popping", "popped"} <=> mu = w

MainInv == /\ mpc \in {"push", "pushing", "wait"} <=> pending # NoTask
           /\ mpc \in {"loop", "accept", "closing"} => listening
           /\ mpc \in {"join", "exit"} => ~listening /\ pills = Cardinality(Workers)
           /\ mpc = "exit" => \A w \in Workers : wpc[w] = "exited"
           /\ listening => pills = 0 /\ pending # Pill
           /\ ~listening => pending \in {Pill, NoTask}
           /\ pending = Pill => pills < Cardinality(Workers)

WorkerInv == \A w \in Workers :
                /\ wpc[w] \in {"pop", "popping", "wait"} <=> task[w] = NoTask
                /\ wpc[w] = "exited" => task[w] = Pill
                /\ wpc[w] \in {"send", "close"} => task[w] \in Conns

PillInv == /\ Undrawn \in 0 .. size
           /\ Drawn # {} => Undrawn = size
           /\ \A k \in 1 .. size : Queued[k] = Pill <=> k > size - Undrawn

\* The inductive invariant: the ring is consistent, the mutex has one holder,
\* the pills are behind every connection, and an accepted connection is held
\* by some thread or slot until it is closed.
PoolInv == /\ RingInv
           /\ MutexInv
           /\ MainInv
           /\ WorkerInv
           /\ PillInv
           /\ NoLostWakeup
           /\ \A c \in Conns : conn[c] \in {"open", "answered"} => Held(c)

\* The ring, its mutex and its conditions implement the abstract task queue.
Fifo == INSTANCE TaskFifo WITH q <- Queued, hand <- task, Stop <- Pill
FifoRefinement == Fifo!Spec

\* Every accepted connection is closed by a worker, shutdown or not.
AcceptedServed == \A c \in Conns : conn[c] = "open" ~> conn[c] = "closed"

\* Once the accept loop is left, the process ends (server.c:179-197).
CleanShutdown == mpc = "closing" ~> mpc = "exit"

\* server.c:181 promises that ctrl+c ends the threads.
CtrlCKillsThreads == running = 0 ~> \A w \in Workers : wpc[w] = "exited"
=========================================================================
