-------------------------- MODULE TimeServerProofs --------------------------
(***************************************************************************)
(* For every number of threads and every bound on the clock: an answer is  *)
(* cut off only by a failure, and shows no time older than the oldest      *)
(* connection it may have shared localtime's struct with.                  *)
(***************************************************************************)
EXTENDS TimeServer, TLAPS

-------------------------------------------------------------------------
(* The types.                                                            *)

\* What accept leaves has the right type.
LEMMA AcceptedType ==
    ASSUME TimeTypeOK, NEW t \in Threads, Accepted(t)
    PROVE  /\ conn' \in [Threads -> {"none", "open", "closed", "cut off"}]
           /\ accepted' \in [Threads -> Times]
           /\ since' \in [Threads -> Times]
<1>1. PICK a : /\ a \in {accepted[u] : u \in {v \in Threads : conn[v] = "open"}} \cup {now}
               /\ since' = [since EXCEPT ![t] = a]
  BY DEF Accepted
<1>2. a \in Times
  BY <1>1 DEF TimeTypeOK
<1>3. QED
  BY <1>1, <1>2 DEF Accepted, TimeTypeOK

\* Cutting connections keeps their type.
LEMMA CutType ==
    ASSUME NEW c \in [Threads -> {"none", "open", "closed", "cut off"}]
    PROVE  Cut(c) \in [Threads -> {"none", "open", "closed", "cut off"}]
  BY DEF Cut

\* The clock stays within its bound.
LEMMA LaterInTimes == ASSUME NEW n \in Times, n < MaxTime PROVE n + 1 \in Times
  BY TimeAssumption DEF Times

\* Every step keeps the types.
LEMMA TimeTypeStep == TimeTypeOK /\ [TimeNext]_timeVars => TimeTypeOK'
<1> SUFFICES ASSUME TimeTypeOK, [TimeNext]_timeVars
             PROVE  TimeTypeOK'
  OBVIOUS
<1> USE DEF TimeTypeOK, ThreadPc, Programs
<1>1. CASE AcceptFails
  BY <1>1, CutType DEF AcceptFails, Return
<1>2. CASE CreatePool
  BY <1>2, CutType DEF CreatePool, Return
<1>3. CASE Join
  BY <1>3, CutType DEF Join, Return
<1>4. CASE Tick
  <2>1. now' \in Times
    BY <1>4, LaterInTimes DEF Tick
  <2>2. QED
    BY <1>4, <2>1 DEF Tick, thread
<1>5. ASSUME NEW t \in Threads, AcceptFor(t) PROVE TimeTypeOK'
  BY <1>5, AcceptedType DEF AcceptFor
<1>6. ASSUME NEW t \in Threads, CreateFor(t) PROVE TimeTypeOK'
  <2>1. CASE UNCHANGED <<result, conn>>
    BY <1>6, <2>1 DEF CreateFor, Return
  <2>2. CASE conn' = Cut([conn EXCEPT ![t] = "closed"]) /\ Return("FAILURE")
    <3>1. [conn EXCEPT ![t] = "closed"] \in [Threads -> {"none", "open", "closed", "cut off"}]
      OBVIOUS
    <3>2. conn' \in [Threads -> {"none", "open", "closed", "cut off"}]
      BY <2>2, <3>1, CutType
    <3>3. QED
      BY <1>6, <2>2, <3>2 DEF CreateFor, Return
  <2>3. QED
    BY <1>6, <2>1, <2>2 DEF CreateFor
<1>7. ASSUME NEW t \in Threads, Detach(t) PROVE TimeTypeOK'
  BY <1>7 DEF Detach
<1>8. ASSUME NEW t \in Threads, AcceptSelf(t) PROVE TimeTypeOK'
  BY <1>8, AcceptedType DEF AcceptSelf
<1>9. ASSUME NEW t \in Threads, ReadClock(t) PROVE TimeTypeOK'
  BY <1>9 DEF ReadClock, Step
<1>10. ASSUME NEW t \in Threads, LocalTime(t) PROVE TimeTypeOK'
  BY <1>10 DEF LocalTime, Step, Fields
<1>11. ASSUME NEW t \in Threads, Format(t) PROVE TimeTypeOK'
  <2>1. ASSUME NEW f \in Fields PROVE [buf EXCEPT ![t][f] = tm[f]] \in [Threads -> [Fields -> Times]]
    OBVIOUS
  <2>2. buf' \in [Threads -> [Fields -> Times]]
    BY <1>11, <2>1 DEF Format, Fields
  <2>3. tpc' \in [Threads -> ThreadPc]
    BY <1>11 DEF Format, Step
  <2>4. QED
    BY <1>11, <2>2, <2>3 DEF Format
<1>12. ASSUME NEW t \in Threads, SendAndClose(t) PROVE TimeTypeOK'
  BY <1>12 DEF SendAndClose, Step
<1>13. CASE UNCHANGED timeVars
  BY <1>13 DEF timeVars, thread
<1>14. QED
  BY <1>1, <1>2, <1>3, <1>4, <1>5, <1>6, <1>7, <1>8, <1>9, <1>10, <1>11, <1>12, <1>13
     DEF TimeNext, Answer

\* The initial values have their types.
LEMMA TimeTypeInit == TimeInit => TimeTypeOK
<1>1. 0 \in Times
  BY TimeAssumption DEF Times
<1> SUFFICES ASSUME TimeInit PROVE TimeTypeOK
  OBVIOUS
<1>2. program \in Programs /\ mpc \in {"accept", "create", "join", "ended"}
  BY DEF TimeInit
<1>3. tpc \in [Threads -> ThreadPc]
  BY DEF TimeInit, ThreadPc
<1>4. [f \in Fields |-> 0] \in [Fields -> Times]
  BY <1>1
<1>5. buf \in [Threads -> [Fields -> Times]] /\ tm \in [Fields -> Times]
  BY <1>4 DEF TimeInit
<1>6. QED
  BY <1>1, <1>2, <1>3, <1>5 DEF TimeInit, TimeTypeOK

-------------------------------------------------------------------------
(* Who answers for a connection.                                         *)

\* While the program runs: whose connection is open, and who frees its argument.
Held(t) ==
    /\ conn[t] # "cut off"
    /\ program = "per thread" => ca[t] = "none"
    /\ program = "per thread" /\ tpc[t] \in {"none", "start"} => conn[t] = "none"
    /\ program = "per connection" /\ tpc[t] = "start" => conn[t] = "open" /\ ca[t] = "thread"
    /\ ca[t] = "main" => conn[t] = "open" /\ tpc[t] = "none"
    /\ tpc[t] = "done" => conn[t] \in {"none", "closed"}

CutInv ==
    /\ TimeTypeOK
    /\ Running <=> result = "none"
    /\ Running => \A t \in Threads : Held(t)
    /\ CutOffOnlyByFailure

\* A connection that is cut is open no more.
LEMMA CutResult ==
    ASSUME NEW c \in [Threads -> {"none", "open", "closed", "cut off"}]
    PROVE  \A t \in Threads : Cut(c)[t] # "open"
  BY DEF Cut

\* A failure that ends the program keeps the invariant.
LEMMA FailureKeeps ==
    ASSUME CutInv, TimeTypeOK', Running, Return("FAILURE"),
           NEW c \in [Threads -> {"none", "open", "closed", "cut off"}],
           \A t \in Threads : c[t] # "cut off", conn' = Cut(c)
    PROVE  CutInv'
<1>1. ~Running' /\ result' = "FAILURE"
  BY DEF Return, Running
<1>2. \A t \in Threads : conn'[t] # "open"
  BY CutResult
<1>3. QED
  BY <1>1, <1>2 DEF CutInv, CutOffOnlyByFailure

\* Every step keeps the invariant.
LEMMA CutStep == CutInv /\ [TimeNext]_timeVars => CutInv'
<1> SUFFICES ASSUME CutInv, [TimeNext]_timeVars
             PROVE  CutInv'
  OBVIOUS
<1>0. TimeTypeOK /\ TimeTypeOK'
  BY TimeTypeStep DEF CutInv
<1>c. /\ conn \in [Threads -> {"none", "open", "closed", "cut off"}]
      /\ tpc \in [Threads -> ThreadPc]
      /\ ca \in [Threads -> {"none", "main", "thread", "freed"}]
      /\ result \in {"none", "SUCCESS", "FAILURE"}
  BY <1>0 DEF TimeTypeOK
<1>u. Running => \A t \in Threads : conn[t] # "cut off"
  BY DEF CutInv, Held
<1>s. Running => result = "none"
  BY DEF CutInv
<1>1. CASE AcceptFails
  <2>1. Running /\ Return("FAILURE") /\ conn' = Cut(conn)
    BY <1>1 DEF AcceptFails, Running
  <2>2. QED
    BY <2>1, <1>0, <1>c, <1>u, FailureKeeps
<1>2. CASE CreatePool
  <2>0. Running /\ program = "per thread" /\ ca' = ca /\ program' = program
    BY <1>2 DEF CreatePool, Running
  <2>1. CASE Return("FAILURE") /\ conn' = Cut(conn)
    BY <2>0, <2>1, <1>0, <1>c, <1>u, FailureKeeps
  <2>2. ASSUME NEW t \in Threads, tpc[t] = "none", tpc' = [tpc EXCEPT ![t] = "start"],
               UNCHANGED <<mpc, result, conn>>
        PROVE  CutInv'
    <3>1. Running' /\ result' = "none"
      BY <2>0, <2>2, <1>s DEF Running
    <3>2. \A u \in Threads : Held(u)'
      BY <1>c, <2>0, <2>2 DEF CutInv, Held
    <3>3. CutOffOnlyByFailure'
      BY <1>c, <2>0, <2>2, <3>1 DEF CutInv, CutOffOnlyByFailure, Working
    <3>4. QED
      BY <1>0, <3>1, <3>2, <3>3 DEF CutInv
  <2>3. CASE mpc' = "join" /\ UNCHANGED <<tpc, result, conn>>
    <3>1. Running' /\ result' = "none"
      BY <2>0, <2>3, <1>s DEF Running
    <3>2. \A u \in Threads : Held(u)'
      BY <2>0, <2>3 DEF CutInv, Held
    <3>3. CutOffOnlyByFailure'
      BY <2>0, <2>3, <3>1 DEF CutInv, CutOffOnlyByFailure, Working
    <3>4. QED
      BY <1>0, <3>1, <3>2, <3>3 DEF CutInv
  <2>4. QED
    BY <1>2, <2>1, <2>2, <2>3 DEF CreatePool
<1>3. CASE Join
  <2>1. Running /\ \A t \in Threads : tpc[t] = "done"
    BY <1>3 DEF Join, Running
  <2>2. \A t \in Threads : conn[t] \in {"none", "closed"}
    BY <2>1 DEF CutInv, Held
  <2>3. \A t \in Threads : conn'[t] \in {"none", "closed"}
    BY <1>3, <2>2 DEF Join, Cut
  <2>4. ~Running' /\ result' = "SUCCESS"
    BY <1>3 DEF Join, Return, Running
  <2>5. QED
    BY <1>0, <2>3, <2>4 DEF CutInv, CutOffOnlyByFailure
<1>4. CASE Tick
  BY <1>0, <1>4 DEF Tick, thread, CutInv, Held, CutOffOnlyByFailure, Working, Running
<1>5. ASSUME NEW t \in Threads, AcceptFor(t) PROVE CutInv'
  <2>1. Running /\ Running' /\ result' = "none"
    BY <1>5, <1>s DEF AcceptFor, Running
  <2>2. \A u \in Threads : Held(u)'
    BY <1>5, <1>c, <2>1 DEF AcceptFor, Accepted, Idle, CutInv, Held
  <2>3. CutOffOnlyByFailure'
    BY <1>5, <1>c, <2>1 DEF AcceptFor, Accepted, Idle, CutInv, CutOffOnlyByFailure, Working
  <2>4. QED
    BY <1>0, <2>1, <2>2, <2>3 DEF CutInv
<1>6. ASSUME NEW t \in Threads, CreateFor(t) PROVE CutInv'
  <2>0. Running
    BY <1>6 DEF CreateFor, Running
  <2>1. CASE conn' = Cut([conn EXCEPT ![t] = "closed"]) /\ Return("FAILURE")
    <3>1. \A u \in Threads : [conn EXCEPT ![t] = "closed"][u] # "cut off"
      BY <1>c, <1>u, <2>0
    <3>2. [conn EXCEPT ![t] = "closed"] \in [Threads -> {"none", "open", "closed", "cut off"}]
      BY <1>c
    <3>3. QED
      BY <1>0, <2>0, <2>1, <3>1, <3>2, FailureKeeps
  <2>2. CASE /\ ca' = [ca EXCEPT ![t] = "thread"]
             /\ tpc' = [tpc EXCEPT ![t] = "start"]
             /\ mpc' = "accept"
             /\ UNCHANGED <<result, conn>>
    <3>1. Running' /\ result' = "none"
      BY <2>0, <2>2, <1>s DEF Running
    <3>2. \A u \in Threads : Held(u)'
      BY <1>6, <1>c, <2>0, <2>2 DEF CreateFor, CutInv, Held
    <3>3. CutOffOnlyByFailure'
      BY <1>6, <1>c, <2>0, <2>2, <3>1 DEF CreateFor, CutInv, CutOffOnlyByFailure, Working
    <3>4. QED
      BY <1>0, <3>1, <3>2, <3>3 DEF CutInv
  <2>3. QED
    BY <1>6, <2>1, <2>2 DEF CreateFor
<1>7. ASSUME NEW t \in Threads, Detach(t) PROVE CutInv'
  <2>1. Running /\ Running' /\ result' = "none"
    BY <1>7, <1>s DEF Detach, Running
  <2>2. \A u \in Threads : Held(u)'
    BY <1>7, <1>c, <2>1 DEF Detach, CutInv, Held
  <2>3. CutOffOnlyByFailure'
    BY <1>7, <1>c, <2>1 DEF Detach, CutInv, Held, CutOffOnlyByFailure, Working
  <2>4. QED
    BY <1>0, <2>1, <2>2, <2>3 DEF CutInv
<1>8. ASSUME NEW t \in Threads, AcceptSelf(t) PROVE CutInv'
  <2>1. Running /\ Running' /\ result' = "none"
    BY <1>8, <1>s DEF AcceptSelf, Running
  <2>2. \A u \in Threads : Held(u)'
    BY <1>8, <1>c, <2>1 DEF AcceptSelf, Accepted, CutInv, Held
  <2>3. CutOffOnlyByFailure'
    BY <1>8, <1>c, <2>1
       DEF AcceptSelf, Accepted, CutInv, Held, CutOffOnlyByFailure, Working
  <2>4. QED
    BY <1>0, <2>1, <2>2, <2>3 DEF CutInv
<1>9. ASSUME NEW t \in Threads, ReadClock(t) \/ LocalTime(t) \/ Format(t) PROVE CutInv'
  <2>1. /\ Running /\ Working(t)
        /\ \E to \in ThreadPc \ {"none", "start", "done"} : tpc' = [tpc EXCEPT ![t] = to]
        /\ UNCHANGED <<program, mpc, result, ca, conn>>
    BY <1>9 DEF ReadClock, LocalTime, Format, Step, Working, ThreadPc
  <2>2. Running' /\ result' = "none"
    BY <2>1, <1>s DEF Running
  <2>3. \A u \in Threads : Held(u)'
    BY <2>1, <1>c DEF CutInv, Held, ThreadPc, Working
  <2>4. CutOffOnlyByFailure'
    BY <2>1, <2>2, <1>c DEF CutInv, CutOffOnlyByFailure, Working, ThreadPc
  <2>5. QED
    BY <1>0, <2>2, <2>3, <2>4 DEF CutInv
<1>10. ASSUME NEW t \in Threads, SendAndClose(t) PROVE CutInv'
  <2>1. Running /\ Running' /\ result' = "none"
    BY <1>10, <1>s DEF SendAndClose, Step, Running
  <2>2. \A u \in Threads : Held(u)'
    BY <1>10, <1>c, <2>1 DEF SendAndClose, Step, CutInv, Held
  <2>3. CutOffOnlyByFailure'
    BY <1>10, <1>c, <2>1 DEF SendAndClose, Step, CutInv, CutOffOnlyByFailure, Working
  <2>4. QED
    BY <1>0, <2>1, <2>2, <2>3 DEF CutInv
<1>11. CASE UNCHANGED timeVars
  BY <1>0, <1>11 DEF timeVars, thread, CutInv, Held, CutOffOnlyByFailure, Working, Running
<1>12. QED
  BY <1>1, <1>2, <1>3, <1>4, <1>5, <1>6, <1>7, <1>8, <1>9, <1>10, <1>11
     DEF TimeNext, Answer

\* Only a failing accept or pthread_create cuts an answer off, in both programs.
THEOREM CutOnlyByFailure == TimeSpec => []CutOffOnlyByFailure
<1>1. TimeInit => CutInv
  BY TimeTypeInit DEF TimeInit, CutInv, Held, CutOffOnlyByFailure, Working, Running
<1>2. CutInv => CutOffOnlyByFailure
  BY DEF CutInv
<1>3. QED
  BY <1>1, <1>2, CutStep, PTL DEF TimeSpec

-------------------------------------------------------------------------
(* How old an answer may be.                                             *)

\* No time is in the future.
NoFuture ==
    /\ \A t \in Threads :
          /\ since[t] <= now /\ accepted[t] <= now /\ clock[t] <= now
          /\ \A f \in Fields : buf[t][f] <= now
    /\ \A f \in Fields : tm[f] <= now

\* No two open connections are further apart than one's since allows.
SinceIsOldest ==
    \A t, u \in Threads : conn[t] = "open" /\ conn[u] = "open" => since[t] <= accepted[u]

\* What each place in the answer knows of the times it has read.
Fresh(t) ==
    /\ tpc[t] \in {"localtime", "hour", "minute", "send"} => accepted[t] <= clock[t]
    /\ tpc[t] \in {"hour", "minute"} => \A f \in Fields : since[t] <= tm[f]
    /\ tpc[t] = "minute" => since[t] <= buf[t]["hour"]
    /\ tpc[t] \in {"send", "done"} /\ conn[t] # "none" =>
          \A f \in Fields : since[t] <= buf[t][f]

AgeInv == CutInv /\ NoFuture /\ SinceIsOldest /\ \A t \in Threads : Fresh(t)

\* The types, as the steps below use them.
LEMMA TimeNumbers ==
    ASSUME TimeTypeOK
    PROVE  /\ now \in Nat /\ tm \in [Fields -> Nat]
           /\ clock \in [Threads -> Nat] /\ buf \in [Threads -> [Fields -> Nat]]
           /\ accepted \in [Threads -> Nat] /\ since \in [Threads -> Nat]
           /\ tpc \in [Threads -> ThreadPc]
           /\ conn \in [Threads -> {"none", "open", "closed", "cut off"}]
<1>1. Times \subseteq Nat
  BY DEF Times
<1>2. buf \in [Threads -> [Fields -> Nat]]
  <2>1. [Fields -> Times] \subseteq [Fields -> Nat]
    BY <1>1
  <2>2. QED
    BY <2>1 DEF TimeTypeOK
<1>3. QED
  BY <1>1, <1>2 DEF TimeTypeOK

\* Accepting a connection keeps the ages right: since is the oldest open one.
LEMMA AcceptKeepsAges ==
    ASSUME AgeInv, NEW t \in Threads, Accepted(t),
           tpc[t] \in {"none", "start"}, tpc'[t] \in {"none", "time"},
           \A u \in Threads \ {t} : tpc'[u] = tpc[u],
           UNCHANGED <<now, tm, clock, buf>>
    PROVE  NoFuture' /\ SinceIsOldest' /\ \A u \in Threads : Fresh(u)'
<1>0. TimeTypeOK
  BY DEF AgeInv, CutInv
<1>1. PICK a : /\ a \in {accepted[u] : u \in {v \in Threads : conn[v] = "open"}} \cup {now}
               /\ \A b \in {accepted[u] : u \in {v \in Threads : conn[v] = "open"}} \cup {now} :
                     a <= b
               /\ since' = [since EXCEPT ![t] = a]
  BY DEF Accepted
<1>2. a \in Nat /\ a <= now /\ \A u \in Threads : conn[u] = "open" => a <= accepted[u]
  <2>1. now \in Nat /\ accepted \in [Threads -> Nat]
    BY <1>0, TimeNumbers
  <2>2. a \in Nat
    BY <1>1, <2>1
  <2>3. a <= now
    BY <1>1
  <2>4. ASSUME NEW u \in Threads, conn[u] = "open" PROVE a <= accepted[u]
    <3>1. accepted[u] \in {accepted[w] : w \in {v \in Threads : conn[v] = "open"}} \cup {now}
      BY <2>4
    <3>2. QED
      BY <1>1, <3>1
  <2>5. QED
    BY <2>2, <2>3, <2>4
<1>3. conn' = [conn EXCEPT ![t] = "open"] /\ accepted' = [accepted EXCEPT ![t] = now]
  BY DEF Accepted
<1>4. NoFuture'
  <2>1. now \in Nat /\ accepted \in [Threads -> Nat] /\ since \in [Threads -> Nat]
    BY <1>0, TimeNumbers
  <2>2. ASSUME NEW u \in Threads PROVE since'[u] <= now /\ accepted'[u] <= now
    BY <1>1, <1>2, <1>3, <2>1 DEF AgeInv, NoFuture
  <2>3. QED
    BY <2>2 DEF AgeInv, NoFuture
<1>5. SinceIsOldest'
  BY <1>0, <1>1, <1>2, <1>3, TimeNumbers DEF AgeInv, NoFuture, SinceIsOldest
<1>6. ASSUME NEW u \in Threads PROVE Fresh(u)'
  <2>1. CASE u = t
    BY <2>1 DEF Fresh
  <2>2. CASE u # t
    <3>1. Fresh(u) /\ tpc'[u] = tpc[u] /\ UNCHANGED <<tm, clock, buf>>
      BY <2>2 DEF AgeInv
    <3>2. conn'[u] = conn[u] /\ accepted'[u] = accepted[u] /\ since'[u] = since[u]
      BY <1>0, <1>1, <1>3, <2>2, TimeNumbers
    <3>3. QED
      BY <3>1, <3>2 DEF Fresh
  <2>3. QED
    BY <2>1, <2>2
<1>7. QED
  BY <1>4, <1>5, <1>6

\* Steps that leave the times alone, open nothing and go on with no answer keep the
\* ages right.
LEMMA QuietKeepsAges ==
    ASSUME AgeInv, UNCHANGED <<now, tm, clock, buf, accepted, since>>,
           \A t \in Threads :
              /\ conn'[t] = "open" => conn[t] = "open"
              /\ conn'[t] # "none" => conn[t] # "none"
              /\ \/ tpc'[t] = tpc[t]
                 \/ tpc'[t] \in {"start", "time"}
                 \/ tpc'[t] = "done" /\ (conn[t] = "none" \/ tpc[t] = "send")
    PROVE  NoFuture' /\ SinceIsOldest' /\ \A u \in Threads : Fresh(u)'
<1>1. NoFuture'
  BY DEF AgeInv, NoFuture
<1>2. SinceIsOldest'
  BY DEF AgeInv, SinceIsOldest
<1>3. ASSUME NEW u \in Threads PROVE Fresh(u)'
  <2>1. Fresh(u)
    BY DEF AgeInv
  <2>2. QED
    BY <2>1 DEF Fresh
<1>4. QED
  BY <1>1, <1>2, <1>3

\* Every step keeps the ages right.
LEMMA AgeStep == AgeInv /\ [TimeNext]_timeVars => AgeInv'
<1> SUFFICES ASSUME AgeInv, [TimeNext]_timeVars
             PROVE  AgeInv'
  OBVIOUS
<1>a. TimeTypeOK /\ CutInv /\ CutInv'
  BY CutStep DEF AgeInv, CutInv
<1>b. /\ now \in Nat /\ tm \in [Fields -> Nat]
      /\ clock \in [Threads -> Nat] /\ buf \in [Threads -> [Fields -> Nat]]
      /\ accepted \in [Threads -> Nat] /\ since \in [Threads -> Nat]
      /\ tpc \in [Threads -> ThreadPc]
      /\ conn \in [Threads -> {"none", "open", "closed", "cut off"}]
  BY <1>a, TimeNumbers
<1>n. now \in Nat
  BY <1>b
<1>d. accepted \in [Threads -> Nat] /\ since \in [Threads -> Nat] /\ clock \in [Threads -> Nat]
  BY <1>b
<1>c. \A t \in Threads : Cut(conn)[t] # "open" /\ (Cut(conn)[t] # "none" => conn[t] # "none")
  BY <1>b DEF Cut
<1>1. CASE AcceptFails
  <2>1. UNCHANGED <<now, tm, clock, buf, accepted, since, tpc>> /\ conn' = Cut(conn)
    BY <1>1 DEF AcceptFails
  <2>2. QED
    BY <1>a, <1>c, <2>1, QuietKeepsAges DEF AgeInv
<1>2. CASE CreatePool
  <2>1. UNCHANGED <<now, tm, clock, buf, accepted, since>> /\ conn' \in {conn, Cut(conn)}
    BY <1>2 DEF CreatePool
  <2>2. \A t \in Threads : tpc'[t] \in {tpc[t], "start"}
    BY <1>2, <1>b DEF CreatePool
  <2>3. QED
    BY <1>a, <1>c, <2>1, <2>2, QuietKeepsAges DEF AgeInv
<1>3. CASE Join
  <2>1. UNCHANGED <<now, tm, clock, buf, accepted, since, tpc>> /\ conn' = Cut(conn)
    BY <1>3 DEF Join
  <2>2. QED
    BY <1>a, <1>c, <2>1, QuietKeepsAges DEF AgeInv
<1>4. CASE Tick
  <2>1. now' = now + 1 /\ UNCHANGED <<tm, tpc, conn, clock, buf, accepted, since>>
    BY <1>4 DEF Tick, thread
  <2>2. NoFuture'
    <3>1. \A n \in Nat : n <= now => n <= now'
      BY <1>n, <2>1
    <3>2. QED
      BY <1>b, <2>1, <3>1 DEF AgeInv, NoFuture
  <2>3. SinceIsOldest' /\ \A t \in Threads : Fresh(t)'
    BY <2>1 DEF AgeInv, SinceIsOldest, Fresh
  <2>4. QED
    BY <1>a, <2>2, <2>3 DEF AgeInv
<1>5. ASSUME NEW t \in Threads, AcceptFor(t) PROVE AgeInv'
  <2>1. Accepted(t) /\ tpc[t] = "none" /\ UNCHANGED <<now, tm, clock, buf, tpc>>
    BY <1>5 DEF AcceptFor, Idle
  <2>2. QED
    BY <1>a, <2>1, AcceptKeepsAges DEF AgeInv
<1>6. ASSUME NEW t \in Threads, CreateFor(t) PROVE AgeInv'
  <2>1. UNCHANGED <<now, tm, clock, buf, accepted, since>>
    BY <1>6 DEF CreateFor
  <2>2. \A u \in Threads : tpc'[u] \in {tpc[u], "start"}
    BY <1>6, <1>b DEF CreateFor
  <2>3. conn[t] = "open"
    <3>1. Running /\ ca[t] = "main"
      BY <1>6 DEF CreateFor, Running
    <3>2. QED
      BY <1>a, <3>1 DEF CutInv, Held
  <2>4. conn' = conn \/ conn' = Cut([conn EXCEPT ![t] = "closed"])
    BY <1>6 DEF CreateFor
  <2>5. \A u \in Threads : (conn'[u] = "open" => conn[u] = "open")
                           /\ (conn'[u] # "none" => conn[u] # "none")
    BY <1>b, <2>3, <2>4 DEF Cut
  <2>6. QED
    BY <1>a, <2>1, <2>2, <2>5, QuietKeepsAges DEF AgeInv
<1>7. ASSUME NEW t \in Threads, Detach(t) PROVE AgeInv'
  <2>1. UNCHANGED <<now, tm, clock, buf, accepted, since, conn>>
    BY <1>7 DEF Detach
  <2>2. \A u \in Threads : tpc'[u] \in {tpc[u], "time"}
    BY <1>7, <1>b DEF Detach
  <2>3. QED
    BY <1>a, <2>1, <2>2, QuietKeepsAges DEF AgeInv
<1>8. ASSUME NEW t \in Threads, AcceptSelf(t) PROVE AgeInv'
  <2>0. UNCHANGED <<now, tm, clock, buf>> /\ tpc[t] = "start"
    BY <1>8 DEF AcceptSelf
  <2>1. CASE Accepted(t) /\ tpc' = [tpc EXCEPT ![t] = "time"]
    <3>1. tpc'[t] = "time" /\ \A u \in Threads \ {t} : tpc'[u] = tpc[u]
      BY <1>b, <2>1
    <3>2. QED
      BY <1>a, <2>0, <2>1, <3>1, AcceptKeepsAges DEF AgeInv
  <2>2. CASE tpc' = [tpc EXCEPT ![t] = "done"] /\ UNCHANGED <<conn, accepted, since>>
    <3>1. conn[t] = "none"
      <4>1. Running /\ program = "per thread" /\ tpc[t] = "start"
        BY <1>8 DEF AcceptSelf
      <4>2. QED
        BY <1>a, <4>1 DEF CutInv, Held
    <3>2. \A u \in Threads : tpc'[u] = tpc[u] \/ (tpc'[u] = "done" /\ conn[u] = "none")
      BY <1>b, <2>2, <3>1
    <3>3. QED
      BY <1>a, <2>0, <2>2, <3>2, QuietKeepsAges DEF AgeInv
  <2>3. QED
    BY <1>8, <2>1, <2>2 DEF AcceptSelf
<1>9. ASSUME NEW t \in Threads, ReadClock(t) PROVE AgeInv'
  <2>1. /\ tpc' = [tpc EXCEPT ![t] = "localtime"] /\ clock' = [clock EXCEPT ![t] = now]
        /\ UNCHANGED <<now, tm, conn, buf, accepted, since>>
    BY <1>9 DEF ReadClock, Step
  <2>2. SinceIsOldest'
    BY <2>1 DEF AgeInv, SinceIsOldest
  <2>5. NoFuture'
    <3>1. \A u \in Threads : clock'[u] <= now
      BY <1>n, <1>d, <2>1 DEF AgeInv, NoFuture
    <3>2. QED
      BY <2>1, <3>1 DEF AgeInv, NoFuture
  <2>3. \A u \in Threads : Fresh(u)'
    BY <1>b, <2>1 DEF AgeInv, NoFuture, Fresh
  <2>4. QED
    BY <1>a, <2>2, <2>3, <2>5 DEF AgeInv
<1>10. ASSUME NEW t \in Threads, LocalTime(t) PROVE AgeInv'
  <2>1. /\ Running /\ tpc[t] = "localtime" /\ tpc' = [tpc EXCEPT ![t] = "hour"]
        /\ tm' = [f \in Fields |-> clock[t]]
        /\ UNCHANGED <<now, conn, clock, buf, accepted, since>>
    BY <1>10 DEF LocalTime, Step
  <2>2. NoFuture' /\ SinceIsOldest'
    BY <1>b, <2>1 DEF AgeInv, NoFuture, SinceIsOldest
  <2>3. \A u \in Threads : conn[u] = "open" => since[u] <= clock[t]
    <3>1. conn[t] = "open" /\ accepted[t] <= clock[t]
      BY <1>a, <2>1 DEF CutInv, CutOffOnlyByFailure, Working, AgeInv, Fresh
    <3>2. QED
      BY <1>d, <3>1 DEF AgeInv, SinceIsOldest
  <2>4. \A u \in Threads : Fresh(u)'
    <3>1. ASSUME NEW u \in Threads, tpc'[u] \in {"hour", "minute"} PROVE conn[u] = "open"
      BY <1>a, <1>b, <2>1, <3>1 DEF CutInv, CutOffOnlyByFailure, Working
    <3>2. ASSUME NEW u \in Threads PROVE Fresh(u)'
      <4>1. Fresh(u) /\ (tpc'[u] = tpc[u] \/ (tpc[u] = "localtime" /\ tpc'[u] = "hour"))
        BY <1>b, <2>1 DEF AgeInv
      <4>2. tpc'[u] \in {"hour", "minute"} => \A f \in Fields : since[u] <= tm'[f]
        BY <2>1, <2>3, <3>1
      <4>3. QED
        BY <2>1, <4>1, <4>2 DEF Fresh
    <3>3. QED
      BY <3>2
  <2>5. QED
    BY <1>a, <2>2, <2>4 DEF AgeInv
<1>11. ASSUME NEW t \in Threads, Format(t) PROVE AgeInv'
  <2>0. UNCHANGED <<now, tm, conn, clock, accepted, since>>
    BY <1>11 DEF Format
  <2>1. PICK f \in Fields :
          /\ buf' = [buf EXCEPT ![t][f] = tm[f]]
          /\ \/ f = "hour" /\ Step(t, "hour", "minute")
             \/ f = "minute" /\ Step(t, "minute", "send")
    BY <1>11 DEF Format, Fields
  <2>2. /\ tpc[t] \in {"hour", "minute"}
        /\ tpc' = [tpc EXCEPT ![t] = IF f = "hour" THEN "minute" ELSE "send"]
    BY <2>1 DEF Step
  <2>3. \A u \in Threads, g \in Fields :
          buf'[u][g] = IF u = t /\ g = f THEN tm[f] ELSE buf[u][g]
    BY <1>b, <2>1
  <2>4. NoFuture' /\ SinceIsOldest'
    BY <1>b, <2>0, <2>3 DEF AgeInv, NoFuture, SinceIsOldest
  <2>5. ASSUME NEW u \in Threads PROVE Fresh(u)'
    <3>1. CASE u # t
      <4>1. Fresh(u) /\ tpc'[u] = tpc[u] /\ \A g \in Fields : buf'[u][g] = buf[u][g]
        BY <1>b, <2>2, <2>3, <3>1 DEF AgeInv
      <4>2. QED
        BY <2>0, <4>1 DEF Fresh, Fields
    <3>2. CASE u = t
      <4>1. Fresh(t)
        BY DEF AgeInv
      <4>2. CASE f = "hour"
        BY <1>b, <2>0, <2>1, <2>2, <2>3, <3>2, <4>1, <4>2 DEF Fresh, Fields
      <4>3. CASE f = "minute"
        <5>1. tpc[t] = "minute" /\ tpc'[t] = "send"
          BY <1>b, <2>1, <2>2, <4>3 DEF Step
        <5>2. \A g \in Fields : since[t] <= buf'[t][g]
          BY <2>3, <4>1, <4>3, <5>1 DEF Fresh, Fields
        <5>3. QED
          BY <2>0, <3>2, <4>1, <5>1, <5>2 DEF Fresh
      <4>4. QED
        BY <4>2, <4>3 DEF Fields
    <3>3. QED
      BY <3>1, <3>2
  <2>6. QED
    BY <1>a, <2>4, <2>5 DEF AgeInv
<1>12. ASSUME NEW t \in Threads, SendAndClose(t) PROVE AgeInv'
  <2>1. /\ UNCHANGED <<now, tm, clock, buf, accepted, since>> /\ Running
        /\ tpc[t] = "send" /\ tpc' = [tpc EXCEPT ![t] = "done"]
        /\ conn' = [conn EXCEPT ![t] = "closed"]
    BY <1>12 DEF SendAndClose, Step
  <2>2. conn[t] = "open"
    BY <1>a, <2>1 DEF CutInv, CutOffOnlyByFailure, Working
  <2>3. \A u \in Threads :
          /\ conn'[u] = "open" => conn[u] = "open"
          /\ conn'[u] # "none" => conn[u] # "none"
          /\ tpc'[u] = tpc[u] \/ (tpc'[u] = "done" /\ tpc[u] = "send")
    BY <1>b, <2>1, <2>2
  <2>4. QED
    BY <1>a, <2>1, <2>3, QuietKeepsAges DEF AgeInv
<1>13. CASE UNCHANGED timeVars
  BY <1>a, <1>13 DEF timeVars, thread, AgeInv, NoFuture, SinceIsOldest, Fresh
<1>14. QED
  BY <1>1, <1>2, <1>3, <1>4, <1>5, <1>6, <1>7, <1>8, <1>9, <1>10, <1>11, <1>12, <1>13
     DEF TimeNext, Answer

\* No answer shows a time older than the oldest connection it may have shared
\* localtime's struct with, whatever the interleaving.
THEOREM AnswersNotOlder == TimeSpec => []AnswerNotOlder
<1>1. TimeInit => AgeInv
  <2> SUFFICES ASSUME TimeInit PROVE AgeInv
    OBVIOUS
  <2>1. CutInv
    BY TimeTypeInit DEF TimeInit, CutInv, Held, CutOffOnlyByFailure, Working, Running
  <2>2. NoFuture /\ SinceIsOldest
    <3>1. now = 0 /\ \A f \in Fields : tm[f] = 0 /\ \A t \in Threads : buf[t][f] = 0
      BY DEF TimeInit
    <3>2. \A t \in Threads : since[t] = 0 /\ accepted[t] = 0 /\ clock[t] = 0
      BY DEF TimeInit
    <3>3. QED
      BY <3>1, <3>2 DEF NoFuture, SinceIsOldest
  <2>3. \A t \in Threads : Fresh(t)
    BY DEF TimeInit, Fresh
  <2>4. QED
    BY <2>1, <2>2, <2>3 DEF AgeInv
<1>2. AgeInv => AnswerNotOlder
  <2> SUFFICES ASSUME AgeInv,
                      NEW t \in Threads, tpc[t] \in {"send", "done"}, conn[t] # "none",
                      NEW f \in Fields
               PROVE  buf[t][f] \in since[t] .. now
    BY DEF AnswerNotOlder
  <2>1. TimeTypeOK /\ since[t] <= buf[t][f] /\ buf[t][f] <= now
    BY DEF AgeInv, CutInv, Fresh, NoFuture
  <2>2. since[t] \in Nat /\ buf[t][f] \in Nat /\ now \in Nat
    BY <2>1, TimeNumbers
  <2>3. QED
    BY <2>1, <2>2
<1>3. QED
  BY <1>1, <1>2, AgeStep, PTL DEF TimeSpec
=============================================================================
