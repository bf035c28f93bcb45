----------------------------- MODULE TimeServer -----------------------------
(***************************************************************************)
(* The time servers that start a thread per connection, lec47/1/server.c,  *)
(* and a fixed pool of threads that each accept and answer one connection, *)
(* lec47/2/server.c.  One instance is one of the two programs.             *)
(*                                                                         *)
(* Both answer through current_time_str.  localtime converts into one      *)
(* static struct tm of the C library, under a lock; strftime reads its     *)
(* fields after that without any.  Two fields, hour and minute say, are    *)
(* enough to see what can go wrong; a field is represented by the time it  *)
(* was converted from.                                                     *)
(***************************************************************************)
EXTENDS Naturals, FiniteSets

CONSTANTS Threads,     \* the threads main can start (POOL_SIZE of them in lec47/2)
          MaxTime      \* bound: ticks of the clock

ASSUME TimeAssumption == MaxTime \in Nat

VARIABLES
    program,      \* which of the two is running
    mpc, result,  \* main, and the value it returned
    tpc,          \* each thread
    ca,           \* who has to free the argument of a thread
    conn,         \* each thread's connection
    now,          \* the clock
    tm,           \* localtime's struct
    clock,        \* t in current_time_str of each thread
    buf,          \* its timebuf
    accepted,     \* ghost: when the connection was accepted
    since         \* ghost: when the oldest connection open at that moment was

thread == <<tpc, ca, conn, clock, buf, accepted, since>>
timeVars   == <<program, mpc, result, now, tm, thread>>

Times  == 0 .. MaxTime
Fields == {"hour", "minute"}
Programs == {"per connection", "per thread"}

ThreadPc == {"none", "start", "time", "localtime", "hour", "minute", "send", "done"}

TimeTypeOK ==
    /\ program \in Programs
    /\ mpc \in {"accept", "create", "join", "ended"}
    /\ result \in {"none", "SUCCESS", "FAILURE"}
    /\ tpc \in [Threads -> ThreadPc]
    /\ ca \in [Threads -> {"none", "main", "thread", "freed"}]
    /\ conn \in [Threads -> {"none", "open", "closed", "cut off"}]
    /\ now \in Times
    /\ tm \in [Fields -> Times]
    /\ clock \in [Threads -> Times]
    /\ buf \in [Threads -> [Fields -> Times]]
    /\ accepted \in [Threads -> Times]
    /\ since \in [Threads -> Times]

TimeInit ==
    /\ program \in Programs
    /\ mpc = IF program = "per connection" THEN "accept" ELSE "create"
    /\ result = "none"
    /\ tpc = [t \in Threads |-> "none"]
    /\ ca = [t \in Threads |-> "none"]
    /\ conn = [t \in Threads |-> "none"]
    /\ now = 0
    /\ tm = [f \in Fields |-> 0]
    /\ clock = [t \in Threads |-> 0]
    /\ buf = [t \in Threads |-> [f \in Fields |-> 0]]
    /\ accepted = [t \in Threads |-> 0]
    /\ since = [t \in Threads |-> 0]

Running == mpc # "ended"
Idle(t) == tpc[t] = "none" /\ ca[t] = "none"

\* accept returns a connection for thread t.
Accepted(t) ==
    /\ conn' = [conn EXCEPT ![t] = "open"]
    /\ accepted' = [accepted EXCEPT ![t] = now]
    /\ LET open == {accepted[u] : u \in {v \in Threads : conn[v] = "open"}} \cup {now}
       IN  \E a \in open : /\ \A b \in open : a <= b
                            /\ since' = [since EXCEPT ![t] = a]

\* main returns: the process ends, and with it every thread.
Return(status) ==
    /\ mpc' = "ended" /\ result' = status

\* Connections that are still open when the process ends.
Cut(conns) == [t \in Threads |-> IF conns[t] = "open" THEN "cut off" ELSE conns[t]]

-------------------------------------------------------------------------
(* lec47/1: main accepts, and gives each connection to a thread.         *)

AcceptFor(t) ==
    /\ program = "per connection" /\ mpc = "accept" /\ Idle(t)
    /\ Accepted(t)
    /\ ca' = [ca EXCEPT ![t] = "main"]
    /\ mpc' = "create"
    /\ UNCHANGED <<program, result, now, tm, tpc, clock, buf>>

AcceptFails ==
    /\ program = "per connection" /\ mpc = "accept"
    /\ Return("FAILURE")
    /\ conn' = Cut(conn)
    /\ UNCHANGED <<program, now, tm, tpc, ca, clock, buf, accepted, since>>

CreateFor(t) ==
    /\ program = "per connection" /\ mpc = "create" /\ ca[t] = "main"
    /\ \/ /\ ca' = [ca EXCEPT ![t] = "thread"]
          /\ tpc' = [tpc EXCEPT ![t] = "start"]
          /\ mpc' = "accept"
          /\ UNCHANGED <<result, conn>>
       \/ /\ ca' = [ca EXCEPT ![t] = "freed"]
          /\ conn' = Cut([conn EXCEPT ![t] = "closed"])
          /\ Return("FAILURE")
          /\ UNCHANGED tpc
    /\ UNCHANGED <<program, now, tm, clock, buf, accepted, since>>

\* handle_client copies what it needs from its argument, frees it and detaches itself.
Detach(t) ==
    /\ program = "per connection" /\ Running /\ tpc[t] = "start"
    /\ ca' = [ca EXCEPT ![t] = "freed"]
    /\ tpc' = [tpc EXCEPT ![t] = "time"]
    /\ UNCHANGED <<program, mpc, result, now, tm, conn, clock, buf, accepted, since>>

-------------------------------------------------------------------------
(* lec47/2: main starts the threads and waits for them.                  *)

CreatePool ==
    /\ program = "per thread" /\ mpc = "create"
    /\ \/ \E t \in Threads : /\ tpc[t] = "none"
                             /\ tpc' = [tpc EXCEPT ![t] = "start"]
          /\ UNCHANGED <<mpc, result, conn>>
       \/ /\ \A t \in Threads : tpc[t] # "none"
          /\ mpc' = "join"
          /\ UNCHANGED <<tpc, result, conn>>
       \/ /\ \E t \in Threads : tpc[t] = "none"
          /\ Return("FAILURE")
          /\ conn' = Cut(conn)
          /\ UNCHANGED tpc
    /\ UNCHANGED <<program, now, tm, ca, clock, buf, accepted, since>>

\* A thread accepts for itself, or ends at once when accept fails.
AcceptSelf(t) ==
    /\ program = "per thread" /\ Running /\ tpc[t] = "start"
    /\ \/ Accepted(t) /\ tpc' = [tpc EXCEPT ![t] = "time"]
       \/ tpc' = [tpc EXCEPT ![t] = "done"] /\ UNCHANGED <<conn, accepted, since>>
    /\ UNCHANGED <<program, mpc, result, now, tm, ca, clock, buf>>

\* Mutant of Join: main waits for one thread of the pool.
JoinOne ==
    /\ program = "per thread" /\ mpc = "join"
    /\ \E t \in Threads : tpc[t] = "done"
    /\ Return("SUCCESS")
    /\ conn' = Cut(conn)
    /\ UNCHANGED <<program, now, tm, tpc, ca, clock, buf, accepted, since>>

Join ==
    /\ program = "per thread" /\ mpc = "join"
    /\ \A t \in Threads : tpc[t] = "done"
    /\ Return("SUCCESS")
    /\ conn' = Cut(conn)
    /\ UNCHANGED <<program, now, tm, tpc, ca, clock, buf, accepted, since>>

-------------------------------------------------------------------------
(* The answer, in both programs.                                         *)

\* A thread's step from one place to the next.
Step(t, from, to) ==
    /\ Running /\ tpc[t] = from
    /\ tpc' = [tpc EXCEPT ![t] = to]

\* Mutant of ReadClock: the time is read once, when the program starts.
ReadClockOnce(t) ==
    /\ Step(t, "time", "localtime")
    /\ clock' = [clock EXCEPT ![t] = 0]
    /\ UNCHANGED <<program, mpc, result, now, tm, ca, conn, buf, accepted, since>>

ReadClock(t) ==
    /\ Step(t, "time", "localtime")
    /\ clock' = [clock EXCEPT ![t] = now]
    /\ UNCHANGED <<program, mpc, result, now, tm, ca, conn, buf, accepted, since>>

LocalTime(t) ==
    /\ Step(t, "localtime", "hour")
    /\ tm' = [f \in Fields |-> clock[t]]
    /\ UNCHANGED <<program, mpc, result, now, ca, conn, clock, buf, accepted, since>>

\* strftime, one field after the other.
Format(t) ==
    /\ \/ Step(t, "hour", "minute") /\ buf' = [buf EXCEPT ![t]["hour"] = tm["hour"]]
       \/ Step(t, "minute", "send") /\ buf' = [buf EXCEPT ![t]["minute"] = tm["minute"]]
    /\ UNCHANGED <<program, mpc, result, now, tm, ca, conn, clock, accepted, since>>

\* send, whose failure is only reported, and close.
SendAndClose(t) ==
    /\ Step(t, "send", "done")
    /\ conn' = [conn EXCEPT ![t] = "closed"]
    /\ UNCHANGED <<program, mpc, result, now, tm, ca, clock, buf, accepted, since>>

Tick ==
    /\ now < MaxTime
    /\ now' = now + 1
    /\ UNCHANGED <<program, mpc, result, tm, thread>>

-------------------------------------------------------------------------
Answer(t) == ReadClock(t) \/ LocalTime(t) \/ Format(t) \/ SendAndClose(t)

TimeNext ==
    \/ AcceptFails \/ CreatePool \/ Join \/ Tick
    \/ \E t \in Threads :
          AcceptFor(t) \/ CreateFor(t) \/ Detach(t) \/ AcceptSelf(t) \/ Answer(t)

TimeSpec == TimeInit /\ [][TimeNext]_timeVars

-------------------------------------------------------------------------
Working(t) == tpc[t] \in {"time", "localtime", "hour", "minute", "send"}

\* Once a thread is at work its connection is open, and it alone answers for it: main has
\* let go of the argument and the thread has freed it (lec47/1/server.c:41, 104-122).
\* The pool's program returns SUCCESS only over connections that have been answered;
\* nothing but a failing accept or pthread_create cuts an answer off.
CutOffOnlyByFailure ==
    /\ \A t \in Threads :
          /\ Working(t) /\ Running => conn[t] = "open" /\ ca[t] \in {"freed", "none"}
          /\ conn[t] = "open" => Running
          /\ conn[t] = "cut off" => result = "FAILURE"
    /\ result = "SUCCESS" => \A t \in Threads : conn[t] \in {"none", "closed"}

\* An answer may mix the times of two threads, because both use one struct tm, and may
\* show another thread's time; but no field of it is older than the oldest connection
\* that was open when its own was accepted (lec47/1/server.c:24-28).
AnswerNotOlder ==
    \A t \in Threads : tpc[t] \in {"send", "done"} /\ conn[t] # "none" =>
        \A f \in Fields : buf[t][f] \in since[t] .. now
=============================================================================
