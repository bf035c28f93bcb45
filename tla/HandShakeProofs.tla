-------------------------- MODULE HandShakeProofs --------------------------
(***************************************************************************)
(* Both hand-shakes stay in step for any number of servers, clients and    *)
(* objects (MCSmall's InStep).  Each half defines an inductive invariant   *)
(* of the runs in which no server was killed, and proves one lemma per     *)
(* action: whose objects the names stand for, whose a client has opened,   *)
(* and what is in them.                                                    *)
(***************************************************************************)
EXTENDS MCSmall, SequenceTheorems, TLAPS

-------------------------------------------------------------------------
(* Shared memory and semaphores.                                         *)

\* What process p has opened of the names it uses.
Uses(p) == {skind[p], "s2c", "c2s"}

\* The names server s has in place.
InPlace(s, n) ==
    \/ n = skind[s] /\ spc[s] \in {"s2c", "c2s", "write", "post", "wait", "show",
                                 "unlink memory"}
    \/ n = "s2c" /\ spc[s] \in {"c2s", "write", "post", "wait", "show", "unlink memory",
                               "unlink s2c"}
    \/ n = "c2s" /\ spc[s] \in {"write", "post", "wait", "show", "unlink memory",
                               "unlink s2c", "unlink c2s"}

\* Client c has taken a greeting's token, and has not been killed before it showed it.
Past(c) == spc[c] \in {"show", "write", "post"} \/ sgot[c] # "nothing"

\* Server s has an answer, or is done.
Answered(s) == spc[s] \in {"show", "unlink memory", "unlink s2c", "unlink c2s", "done"}

\* A and B have opened the same object of name n.
Same(p, q, n) == sref[p][n] # 0 /\ sref[p][n] = sref[q][n]

\* A name stands for an object of the one server at work.
NamesOfWorker ==
    /\ \A s, t \in Servers : s \in Sem!AtWork /\ t \in Sem!AtWork => s = t
    /\ \A n \in Sem!Names : sname[n] # 0 =>
          \E s \in Servers : InPlace(s, n) /\ sname[n] = sref[s][n]
    /\ \A s \in Servers : spc[s] # "killed"

\* Numbers are given once, and the semaphore of a number not yet given is zero.
Numbered ==
    /\ \A p \in Sem!Procs, n \in Sem!Names : sref[p][n] <= smade[n]
    /\ \A n \in {"s2c", "c2s"}, o \in Sem!Objects : o > smade[n] => value[n][o] = 0
    /\ \A s, t \in Servers, n \in Sem!Names : Same(s, t, n) => s = t

\* A server opens its objects in order.
ServerRefs ==
    \A s \in Servers :
        /\ \A n \in Sem!Kinds : n # skind[s] => sref[s][n] = 0
        /\ spc[s] \in {"idle", "memory"} <=> sref[s][skind[s]] = 0
        /\ spc[s] \in {"idle", "memory", "s2c"} <=> sref[s]["s2c"] = 0
        /\ spc[s] \in {"idle", "memory", "s2c", "c2s"} <=> sref[s]["c2s"] = 0

\* So does a client, and what it finds is a server's.
ClientRefs ==
    /\ \A c \in Clients, n \in Sem!Names : sref[c][n] # 0 => \E s \in Servers : Same(c, s, n)
    /\ \A c \in Clients :
          /\ \A n \in Sem!Kinds : n # skind[c] => sref[c][n] = 0
          /\ spc[c] = "idle" => sref[c][skind[c]] = 0
          /\ spc[c] \in {"idle", "s2c"} => sref[c]["s2c"] = 0
          /\ spc[c] \in {"idle", "s2c", "c2s"} => sref[c]["c2s"] = 0
          /\ spc[c] = "s2c" \/ sref[c]["s2c"] # 0 => sref[c][skind[c]] # 0
          /\ spc[c] = "c2s" \/ sref[c]["c2s"] # 0 => sref[c]["s2c"] # 0
          /\ spc[c] = "wait" \/ Past(c) => sref[c]["c2s"] # 0

\* What has been displayed, by where a process is.
GotByPc ==
    /\ \A c \in Clients :
          /\ sgot[c] # "nothing" => spc[c] \in {"write", "post", "done", "killed"}
          /\ spc[c] \in {"write", "post"} => sgot[c] # "nothing"
    /\ \A s \in Servers : sgot[s] # "nothing" => Answered(s) /\ spc[s] # "show"

\* If a client has an object of one server and a later one of another, then the first
\* server was done by then.
OpenedInOrder ==
    \A c \in Clients, s, t \in Servers :
        /\ Same(c, s, skind[c]) /\ Same(c, t, "s2c") => s = t \/ spc[s] = "done"
        /\ Same(c, s, "s2c") /\ Same(c, t, "c2s") => s = t \/ spc[s] = "done"

\* The one greeting of server s is there, or one client has taken it, who has its other
\* semaphore, too.
OneGreeting ==
    /\ \A s \in Servers : sref[s]["s2c"] # 0 => value["s2c"][sref[s]["s2c"]] <= 1
    /\ \A s \in Servers : spc[s] \in {"c2s", "write", "post"} =>
          /\ value["s2c"][sref[s]["s2c"]] = 0
          /\ \A c \in Clients : Past(c) => ~Same(c, s, "s2c")
    /\ \A s \in Servers, c \in Clients : Past(c) /\ Same(c, s, "s2c") =>
          value["s2c"][sref[s]["s2c"]] = 0 /\ Same(c, s, "c2s")
    /\ \A c, d \in Clients : Past(c) /\ Past(d) /\ Same(c, d, "s2c") => c = d

\* Client c has taken the greeting of server s and has answered it.
AnsweredBy(c, s) == Past(c) /\ spc[c] = "done" /\ Same(c, s, "s2c") /\ Same(c, s, "c2s")

\* A server has an answer only from the client that took its greeting.
OneAnswer ==
    \A s \in Servers :
        \/ sref[s]["c2s"] # 0 /\ value["c2s"][sref[s]["c2s"]] > 0
        \/ Answered(s)
        => \E c \in Clients : AnsweredBy(c, s)

\* What server s has written, and client c of all its objects.
Text(s) == memory[skind[s]][sref[s][skind[s]]]
Proper(c, s) == Past(c) /\ \A n \in Uses(c) : Same(c, s, n)

\* The memory of a server holds the greeting until the client of all its objects answers.
MemoryInStep ==
    /\ \A s \in Servers : spc[s] = "post" => Text(s) = "Hi!"
    /\ \A s \in Servers :
          sref[s]["s2c"] # 0 /\ value["s2c"][sref[s]["s2c"]] > 0 => Text(s) = "Hi!"
    /\ \A s \in Servers, c \in Clients : Proper(c, s) =>
          /\ spc[c] = "show" => Text(s) = "Hi!"
          /\ spc[c] \in {"post", "done"} => Text(s) = "Hello!"

\* While no server has been killed.
SemGood ==
    /\ NamesOfWorker /\ Numbered /\ ServerRefs /\ ClientRefs /\ GotByPc
    /\ OpenedInOrder /\ OneGreeting /\ OneAnswer /\ MemoryInStep /\ Sem!InStep

SemInv == Sem!TypeOK /\ (scrashed \/ SemGood)

LEMMA SemTypeInit == Sem!Init => Sem!TypeOK
<1>1. 0 \in Sem!Objects /\ 0 \in Nat
  BY ShakeAssumption DEF Sem!Objects
<1>2. "" \in Sem!Texts /\ "idle" \in Sem!ServerPc /\ "idle" \in Sem!ClientPc
  BY DEF Sem!Texts, Sem!ServerPc, Sem!ClientPc
<1> SUFFICES ASSUME Sem!Init PROVE Sem!TypeOK
  OBVIOUS
<1>3. /\ spc \in [Sem!Procs -> Sem!ServerPc \cup Sem!ClientPc]
      /\ \A s \in Servers : spc[s] \in Sem!ServerPc
      /\ \A c \in Clients : spc[c] \in Sem!ClientPc
  BY <1>2 DEF Sem!Init, Sem!Procs
<1>4. sname \in [Sem!Names -> Sem!Objects] /\ smade \in [Sem!Names -> Sem!Objects]
      /\ sref \in [Sem!Procs -> [Sem!Names -> Sem!Objects]]
  BY <1>1 DEF Sem!Init
<1>5. memory \in [Sem!Kinds -> [Sem!Objects -> Sem!Texts]]
  BY <1>2 DEF Sem!Init
<1>6. value \in [{"s2c", "c2s"} -> [Sem!Objects -> Nat]]
  BY <1>1 DEF Sem!Init
<1> QED
  BY <1>3, <1>4, <1>5, <1>6 DEF Sem!Init, Sem!TypeOK

LEMMA SemTypeStep == Sem!TypeOK /\ [Sem!Next]_(Sem!vars) => Sem!TypeOK'
<1> SUFFICES ASSUME Sem!TypeOK, [Sem!Next]_(Sem!vars)
             PROVE  Sem!TypeOK'
  OBVIOUS
<1> USE ShakeAssumption
<1>0. /\ Servers \subseteq Sem!Procs /\ Clients \subseteq Sem!Procs
      /\ Sem!Procs = Servers \cup Clients
      /\ \A p \in Sem!Procs : skind[p] \in Sem!Names
      /\ "s2c" \in Sem!Names /\ "c2s" \in Sem!Names
  BY DEF Sem!Procs, Sem!TypeOK, Sem!Names
<1>1. ASSUME NEW s \in Servers, NEW n \in Sem!Names, Sem!Create(s, n), NEW l \in Sem!ServerPc, Sem!Goto(s, l)
      PROVE  Sem!TypeOK'
  <2>1. \A m \in Sem!Names : sname'[m] \in Sem!Objects /\ smade'[m] \in Sem!Objects
    BY <1>1 DEF Sem!Create, Sem!TypeOK, Sem!Objects
  <2>2. sname' \in [Sem!Names -> Sem!Objects] /\ smade' \in [Sem!Names -> Sem!Objects]
    BY <1>1, <2>1 DEF Sem!Create, Sem!TypeOK
  <2>3. sref' \in [Sem!Procs -> [Sem!Names -> Sem!Objects]]
    BY <1>0, <1>1, <2>2 DEF Sem!Create, Sem!TypeOK
  <2>4. /\ spc' \in [Sem!Procs -> Sem!ServerPc \cup Sem!ClientPc]
        /\ \A t \in Servers : spc'[t] \in Sem!ServerPc
        /\ \A c \in Clients : spc'[c] \in Sem!ClientPc
    BY <1>0, <1>1 DEF Sem!Goto, Sem!TypeOK
  <2> QED
    BY <1>1, <2>2, <2>3, <2>4 DEF Sem!Create, Sem!TypeOK
<1>2. ASSUME NEW c \in Clients, NEW n \in Sem!Names, NEW l \in Sem!ClientPc, Sem!Find(c, n, l)
      PROVE  Sem!TypeOK'
  <2>1. sref' \in [Sem!Procs -> [Sem!Names -> Sem!Objects]]
    BY <1>0, <1>2 DEF Sem!Find, Sem!TypeOK
  <2>2. /\ spc' \in [Sem!Procs -> Sem!ServerPc \cup Sem!ClientPc]
        /\ \A t \in Servers : spc'[t] \in Sem!ServerPc
        /\ \A d \in Clients : spc'[d] \in Sem!ClientPc
    BY <1>0, <1>2, ZenonT(40) DEF Sem!Find, Sem!Goto, Sem!TypeOK, Sem!ClientPc
  <2> QED
    BY <1>2, <2>1, <2>2 DEF Sem!Find, Sem!TypeOK, Sem!system
<1>3. ASSUME NEW p \in Sem!Procs, NEW n \in {"s2c", "c2s"}, Sem!Post(p, n) \/ Sem!Wait(p, n)
      PROVE  value' \in [{"s2c", "c2s"} -> [Sem!Objects -> Nat]]
  <2>1. n \in Sem!Names /\ sref[p][n] \in Sem!Objects
    BY DEF Sem!TypeOK, Sem!Names
  <2>2. PICK v \in Nat : value' = [value EXCEPT ![n][sref[p][n]] = v]
    <3>1. value[n][sref[p][n]] \in Nat
      BY <2>1 DEF Sem!TypeOK
    <3>2. CASE Sem!Post(p, n)
      <4>1. value[n][sref[p][n]] + 1 \in Nat
        BY <3>1
      <4> QED
        BY <3>2, <4>1 DEF Sem!Post
    <3>3. CASE Sem!Wait(p, n)
      <4>1. value[n][sref[p][n]] - 1 \in Nat
        BY <3>1, <3>3 DEF Sem!Wait
      <4> QED
        BY <3>3, <4>1 DEF Sem!Wait
    <3> QED
      BY <1>3, <3>2, <3>3
  <2> QED
    BY <2>1, <2>2 DEF Sem!TypeOK
<1>4. ASSUME NEW p \in Sem!Procs, NEW text \in Sem!Texts, Sem!Write(p, text)
      PROVE  memory' \in [Sem!Kinds -> [Sem!Objects -> Sem!Texts]]
  BY <1>0, <1>4 DEF Sem!Write, Sem!TypeOK
<1>5. ASSUME NEW p \in Sem!Procs, Sem!Show(p)
      PROVE  sgot' \in [Sem!Procs -> Sem!Texts \cup {"nothing"}]
  BY <1>0, <1>5 DEF Sem!Show, Sem!TypeOK
<1>6. ASSUME NEW p \in Sem!Procs, NEW l, Sem!Goto(p, l),
             p \in Servers => l \in Sem!ServerPc, p \in Clients => l \in Sem!ClientPc
      PROVE  /\ spc' \in [Sem!Procs -> Sem!ServerPc \cup Sem!ClientPc]
             /\ \A t \in Servers : spc'[t] \in Sem!ServerPc
             /\ \A d \in Clients : spc'[d] \in Sem!ClientPc
  BY <1>0, <1>6 DEF Sem!Goto, Sem!TypeOK
<1>7. \A s \in Servers, c \in Clients : s \notin Clients /\ c \notin Servers
  OBVIOUS
<1>8. ASSUME NEW s \in Servers,
             \/ Sem!Start(s) \/ Sem!OpenMemory(s) \/ Sem!OpenS2C(s) \/ Sem!OpenC2S(s) \/ Sem!Greet(s)
             \/ Sem!PostS2C(s) \/ Sem!WaitC2S(s) \/ Sem!ShowAnswer(s)
             \/ Sem!UnlinkMemory(s) \/ Sem!UnlinkS2C(s) \/ Sem!UnlinkC2S(s)
      PROVE  Sem!TypeOK'
  <2>1. s \in Sem!Procs /\ s \notin Clients
    BY <1>0, <1>7
  <2>2. CASE Sem!Start(s)
    BY <1>6, <2>1, <2>2 DEF Sem!Start, Sem!TypeOK, Sem!system, Sem!ServerPc
  <2>3. CASE Sem!OpenMemory(s)
    BY <1>0, <1>1, <2>1, <2>3 DEF Sem!OpenMemory, Sem!ServerPc
  <2>4. CASE Sem!OpenS2C(s)
    BY <1>0, <1>1, <2>1, <2>4 DEF Sem!OpenS2C, Sem!ServerPc
  <2>5. CASE Sem!OpenC2S(s)
    BY <1>0, <1>1, <2>1, <2>5 DEF Sem!OpenC2S, Sem!ServerPc
  <2>6. CASE Sem!Greet(s)
    <3>1. memory' \in [Sem!Kinds -> [Sem!Objects -> Sem!Texts]]
      BY <1>4, <2>1, <2>6 DEF Sem!Greet, Sem!Texts
    <3> QED
      BY <1>6, <2>1, <2>6, <3>1 DEF Sem!Greet, Sem!Write, Sem!TypeOK, Sem!ServerPc
  <2>7. CASE Sem!PostS2C(s) \/ Sem!WaitC2S(s)
    <3>1. value' \in [{"s2c", "c2s"} -> [Sem!Objects -> Nat]]
      BY <1>3, <2>1, <2>7 DEF Sem!PostS2C, Sem!WaitC2S
    <3> QED
      BY <1>6, <2>1, <2>7, <3>1 DEF Sem!PostS2C, Sem!Post, Sem!WaitC2S, Sem!Wait, Sem!TypeOK, Sem!ServerPc
  <2>8. CASE Sem!ShowAnswer(s)
    <3>1. sgot' \in [Sem!Procs -> Sem!Texts \cup {"nothing"}]
      BY <1>5, <2>1, <2>8 DEF Sem!ShowAnswer
    <3> QED
      BY <1>6, <2>1, <2>8, <3>1 DEF Sem!ShowAnswer, Sem!Show, Sem!TypeOK, Sem!system, Sem!ServerPc
  <2>9. CASE Sem!UnlinkMemory(s) \/ Sem!UnlinkS2C(s) \/ Sem!UnlinkC2S(s)
    <3>1. PICK n : Sem!Unlink(n)
      BY <2>9 DEF Sem!UnlinkMemory, Sem!UnlinkS2C, Sem!UnlinkC2S
    <3>2. sname' \in [Sem!Names -> Sem!Objects]
      <4>1. 0 \in Sem!Objects
        BY DEF Sem!Objects
      <4> QED
        BY <3>1, <4>1 DEF Sem!Unlink, Sem!TypeOK
    <3>3. PICK l \in Sem!ServerPc : Sem!Goto(s, l)
      BY <2>9 DEF Sem!UnlinkMemory, Sem!UnlinkS2C, Sem!UnlinkC2S, Sem!ServerPc
    <3> QED
      BY <1>6, <2>1, <3>1, <3>2, <3>3 DEF Sem!Unlink, Sem!TypeOK
  <2> QED
    BY <1>8, <2>2, <2>3, <2>4, <2>5, <2>6, <2>7, <2>8, <2>9
<1>9. ASSUME NEW c \in Clients,
             \/ Sem!FindMemory(c) \/ Sem!FindS2C(c) \/ Sem!FindC2S(c) \/ Sem!WaitS2C(c)
             \/ Sem!ShowGreeting(c) \/ Sem!Answer(c)
      PROVE  Sem!TypeOK'
  <2>1. c \in Sem!Procs /\ c \notin Servers
    BY <1>0, <1>7
  <2>2. CASE Sem!FindMemory(c) \/ Sem!FindS2C(c) \/ Sem!FindC2S(c)
    BY <1>0, <1>2, <2>1, <2>2 DEF Sem!FindMemory, Sem!FindS2C, Sem!FindC2S, Sem!ClientPc
  <2>3. CASE Sem!WaitS2C(c)
    <3>1. value' \in [{"s2c", "c2s"} -> [Sem!Objects -> Nat]]
      BY <1>3, <2>1, <2>3 DEF Sem!WaitS2C
    <3> QED
      BY <1>6, <2>1, <2>3, <3>1 DEF Sem!WaitS2C, Sem!Wait, Sem!TypeOK, Sem!ClientPc
  <2>4. CASE Sem!ShowGreeting(c)
    <3>1. sgot' \in [Sem!Procs -> Sem!Texts \cup {"nothing"}]
      BY <1>5, <2>1, <2>4 DEF Sem!ShowGreeting
    <3> QED
      BY <1>6, <2>1, <2>4, <3>1 DEF Sem!ShowGreeting, Sem!Show, Sem!TypeOK, Sem!system, Sem!ClientPc
  <2>5. CASE Sem!Write(c, "Hello!") /\ Sem!Goto(c, "post")
    <3>1. memory' \in [Sem!Kinds -> [Sem!Objects -> Sem!Texts]]
      BY <1>4, <2>1, <2>5 DEF Sem!Texts
    <3> QED
      BY <1>6, <2>1, <2>5, <3>1 DEF Sem!Write, Sem!TypeOK, Sem!ClientPc
  <2>6. CASE Sem!Post(c, "c2s") /\ Sem!Goto(c, "done")
    <3>1. value' \in [{"s2c", "c2s"} -> [Sem!Objects -> Nat]]
      BY <1>3, <2>1, <2>6
    <3> QED
      BY <1>6, <2>1, <2>6, <3>1 DEF Sem!Post, Sem!TypeOK, Sem!ClientPc
  <2> QED
    BY <1>9, <2>2, <2>3, <2>4, <2>5, <2>6 DEF Sem!Answer
<1>10. ASSUME NEW p \in Sem!Procs, Sem!Kill(p) PROVE Sem!TypeOK'
  <2>1. scrashed' \in BOOLEAN
    BY <1>10 DEF Sem!Kill, Sem!TypeOK
  <2> QED
    BY <1>6, <1>10, <2>1 DEF Sem!Kill, Sem!TypeOK, Sem!system, Sem!ServerPc, Sem!ClientPc
<1>11. CASE UNCHANGED Sem!vars
  BY <1>11 DEF Sem!vars, Sem!system, Sem!TypeOK
<1> QED
  BY <1>8, <1>9, <1>10, <1>11 DEF Sem!Next

\* Processes are servers or clients, and use names.
LEMMA SemProcs ==
    /\ Servers \subseteq Sem!Procs /\ Clients \subseteq Sem!Procs
    /\ \A s \in Servers, c \in Clients : s # c /\ s \notin Clients /\ c \notin Servers
    /\ {"s2c", "c2s", "posix", "sysv"} = Sem!Names /\ {"posix", "sysv"} = Sem!Kinds
  BY ShakeAssumption DEF Sem!Procs, Sem!Names, Sem!Kinds

\* A server that moves on, with names at most removed, keeps all but NamesOfWorker.
LEMMA ServerMoves ==
    ASSUME Sem!TypeOK, SemGood, ~scrashed, NEW s \in Servers, NEW l, Sem!Goto(s, l),
           UNCHANGED <<skind, smade, memory, value, sref, sgot, scrashed>>,
           \/ spc[s] = "idle" /\ l = "memory"
           \/ spc[s] = "unlink memory" /\ l = "unlink s2c"
           \/ spc[s] = "unlink s2c" /\ l = "unlink c2s"
           \/ spc[s] = "unlink c2s" /\ l = "done"
    PROVE  /\ Numbered' /\ ServerRefs' /\ ClientRefs' /\ GotByPc' /\ OpenedInOrder'
           /\ OneGreeting' /\ OneAnswer' /\ MemoryInStep' /\ Sem!InStep'
<1>1. /\ \A t \in Servers : spc'[t] = IF t = s THEN l ELSE spc[t]
      /\ \A c \in Clients : spc'[c] = spc[c]
  BY SemProcs DEF Sem!Goto, Sem!TypeOK
<1>2. /\ \A c \in Clients : Past(c)' <=> Past(c)
      /\ \A p, q, n : Same(p, q, n)' <=> Same(p, q, n)
      /\ \A c \in Clients : Sem!OfOneServer(c)' <=> Sem!OfOneServer(c)
  BY <1>1 DEF Past, Same, Sem!OfOneServer
<1>3. Numbered'
  BY <1>2 DEF SemGood, Numbered
<1>4. ServerRefs'
  BY <1>1 DEF SemGood, ServerRefs
<1>5. ClientRefs'
  BY <1>1, <1>2 DEF SemGood, ClientRefs
<1>6. GotByPc'
  BY <1>1 DEF SemGood, GotByPc, Answered
<1>7. OpenedInOrder'
  BY <1>1, <1>2 DEF SemGood, OpenedInOrder
<1>8. OneGreeting'
  BY <1>1, <1>2 DEF SemGood, OneGreeting
<1>9. OneAnswer'
  <2>1. \A t \in Servers : Answered(t)' => Answered(t)
    BY <1>1 DEF Answered
  <2>2. \A c \in Clients, t \in Servers : AnsweredBy(c, t) => AnsweredBy(c, t)'
    BY <1>1, <1>2 DEF AnsweredBy
  <2> QED
    BY <2>1, <2>2 DEF SemGood, OneAnswer
<1>10. MemoryInStep'
  <2>1. /\ \A t \in Servers : Text(t)' = Text(t)
        /\ \A c \in Clients, t \in Servers : Proper(c, t)' => Proper(c, t)
    BY <1>2 DEF Text, Proper, Uses
  <2> QED
    BY <1>1, <2>1 DEF SemGood, MemoryInStep
<1>11. Sem!InStep'
  BY <1>2 DEF SemGood, Sem!InStep
<1> QED
  BY <1>3, <1>4, <1>5, <1>6, <1>7, <1>8, <1>9, <1>10, <1>11

LEMMA StartKeeps ==
    ASSUME Sem!TypeOK, SemGood, ~scrashed, NEW s \in Servers, Sem!Start(s)
    PROVE  SemGood'
<1>1. /\ \A t \in Servers : spc'[t] = IF t = s THEN "memory" ELSE spc[t]
      /\ \A c \in Clients : spc'[c] = spc[c]
  BY SemProcs DEF Sem!Start, Sem!Goto, Sem!TypeOK
<1>2. NamesOfWorker'
  <2>1. \A t, u \in Servers : t \in Sem!AtWork' /\ u \in Sem!AtWork' => t = u
    BY <1>1 DEF Sem!AtWork, Sem!Start
  <2>2. \A n \in Sem!Names : sname'[n] # 0 =>
           \E t \in Servers : InPlace(t, n)' /\ sname'[n] = sref'[t][n]
    <3>1. \A t \in Servers : \A n : InPlace(t, n) => InPlace(t, n)'
      BY <1>1 DEF Sem!Start, InPlace
    <3> QED
      BY <3>1 DEF Sem!Start, SemGood, NamesOfWorker, Sem!system
  <2> QED
    BY <1>1, <2>1, <2>2 DEF SemGood, NamesOfWorker
<1> QED
  BY <1>2, ServerMoves DEF Sem!Start, SemGood, Sem!system

LEMMA UnlinkKeeps ==
    ASSUME Sem!TypeOK, SemGood, ~scrashed, NEW s \in Servers,
           Sem!UnlinkMemory(s) \/ Sem!UnlinkS2C(s) \/ Sem!UnlinkC2S(s)
    PROVE  SemGood'
<1>1. PICK l, n :
         /\ \/ spc[s] = "unlink memory" /\ l = "unlink s2c" /\ n = skind[s]
            \/ spc[s] = "unlink s2c" /\ l = "unlink c2s" /\ n = "s2c"
            \/ spc[s] = "unlink c2s" /\ l = "done" /\ n = "c2s"
         /\ Sem!Unlink(n) /\ Sem!Goto(s, l)
  BY DEF Sem!UnlinkMemory, Sem!UnlinkS2C, Sem!UnlinkC2S
<1>2. /\ \A t \in Servers : spc'[t] = IF t = s THEN l ELSE spc[t]
      /\ \A m \in Sem!Names : sname'[m] = IF m = n THEN 0 ELSE sname[m]
  BY <1>1, SemProcs DEF Sem!Goto, Sem!Unlink, Sem!TypeOK
<1>3. s \in Sem!AtWork /\ skind[s] \notin {"s2c", "c2s"}
  BY <1>1, SemProcs DEF Sem!AtWork, Sem!TypeOK
<1>4. NamesOfWorker'
  <2>1. \A t, u \in Servers : t \in Sem!AtWork' /\ u \in Sem!AtWork' => t = u
    BY <1>1, <1>2, <1>3 DEF Sem!AtWork, SemGood, NamesOfWorker
  <2>2. ASSUME NEW m \in Sem!Names, sname'[m] # 0
        PROVE  \E t \in Servers : InPlace(t, m)' /\ sname'[m] = sref'[t][m]
    <3>1. m # n /\ sname'[m] = sname[m]
      BY <1>2, <2>2
    <3>2. PICK t \in Servers : InPlace(t, m) /\ sname[m] = sref[t][m]
      BY <2>2, <3>1 DEF SemGood, NamesOfWorker
    <3>3. t = s
      BY <1>3, <3>2 DEF SemGood, NamesOfWorker, InPlace, Sem!AtWork
    <3>4. InPlace(s, m)'
      BY <1>1, <1>2, <3>1, <3>2, <3>3 DEF InPlace, Sem!Unlink
    <3> QED
      BY <1>1, <3>1, <3>2, <3>3, <3>4 DEF Sem!Unlink
  <2>3. \A t \in Servers : spc'[t] # "killed"
    BY <1>1, <1>2 DEF SemGood, NamesOfWorker
  <2> QED
    BY <2>1, <2>2, <2>3 DEF NamesOfWorker
<1> QED
  BY <1>1, <1>4, ServerMoves DEF Sem!Unlink, SemGood

\* A client of the three semaphores and memory it has opened: whose they are.
LEMMA OneServerIsSame ==
    ASSUME ClientRefs, NEW c \in Clients, sref[c]["c2s"] # 0
    PROVE  /\ \A n \in Uses(c) : sref[c][n] # 0
           /\ Sem!OfOneServer(c) <=> \E s \in Servers : \A n \in Uses(c) : Same(c, s, n)
<1>1. sref[c]["s2c"] # 0 /\ sref[c][skind[c]] # 0
  BY DEF ClientRefs
<1>2. \A n \in Uses(c) : sref[c][n] # 0
  BY <1>1 DEF Uses
<1> QED
  BY <1>2 DEF Sem!OfOneServer, Same, Uses

\* A server that opens an object makes a new one: nobody has it.
LEMMA OpenKeeps ==
    ASSUME Sem!TypeOK, SemGood, ~scrashed, NEW s \in Servers,
           Sem!OpenMemory(s) \/ Sem!OpenS2C(s) \/ Sem!OpenC2S(s)
    PROVE  SemGood'
<1>1. PICK l \in {"s2c", "c2s", "write"}, n \in Sem!Names :
         /\ \/ spc[s] = "memory" /\ l = "s2c" /\ n = skind[s]
            \/ spc[s] = "s2c" /\ l = "c2s" /\ n = "s2c"
            \/ spc[s] = "c2s" /\ l = "write" /\ n = "c2s"
         /\ Sem!Create(s, n) /\ Sem!Goto(s, l)
  <2>1. skind[s] \in Sem!Names /\ "s2c" \in Sem!Names /\ "c2s" \in Sem!Names
    BY SemProcs DEF Sem!TypeOK
  <2>2. CASE Sem!OpenMemory(s)
    BY <2>1, <2>2 DEF Sem!OpenMemory
  <2>3. CASE Sem!OpenS2C(s)
    BY <2>1, <2>3 DEF Sem!OpenS2C
  <2>4. CASE Sem!OpenC2S(s)
    BY <2>1, <2>4 DEF Sem!OpenC2S
  <2> QED
    BY <2>2, <2>3, <2>4
<1>2. /\ \A t \in Servers : spc'[t] = IF t = s THEN l ELSE spc[t]
      /\ \A c \in Clients : spc'[c] = spc[c]
  BY <1>1, SemProcs DEF Sem!Goto, Sem!TypeOK
<1>3. /\ s \in Sem!AtWork /\ skind[s] \in Sem!Kinds /\ skind[s] \in Sem!Names
      /\ skind[s] \notin {"s2c", "c2s"} /\ s \in Sem!Procs
  BY <1>1, SemProcs DEF Sem!AtWork, Sem!TypeOK
<1>4. sname[n] = 0 /\ sref[s][n] = 0
  <2>1. ~InPlace(s, n)
    BY <1>1, <1>3 DEF InPlace
  <2>2. \A t \in Servers : ~InPlace(t, n)
    BY <1>3, <2>1 DEF InPlace, SemGood, NamesOfWorker, Sem!AtWork
  <2>3. sref[s][n] = 0
    BY <1>1 DEF SemGood, ServerRefs
  <2> QED
    BY <2>2, <2>3 DEF SemGood, NamesOfWorker
<1>5. PICK o \in Sem!Objects :
         /\ o # 0 /\ o > smade[n]
         /\ \A m \in Sem!Names : smade'[m] = IF m = n THEN o ELSE smade[m]
         /\ \A m \in Sem!Names : sname'[m] = IF m = n THEN o ELSE sname[m]
         /\ \A p \in Sem!Procs, m \in Sem!Names : sref'[p][m] = IF p = s /\ m = n THEN o ELSE sref[p][m]
  <2>1. smade[n] \in Nat /\ smade[n] + 1 \in Sem!Objects /\ smade[n] + 1 # 0
    BY <1>1, <1>4, ShakeAssumption DEF Sem!Create, Sem!TypeOK, Sem!Objects
  <2>2. smade' = [smade EXCEPT ![n] = smade[n] + 1] /\ sname' = [sname EXCEPT ![n] = smade[n] + 1]
    BY <1>1, <1>4 DEF Sem!Create, Sem!TypeOK
  <2>3. sref' = [sref EXCEPT ![s][n] = smade[n] + 1]
    BY <1>1, <2>2 DEF Sem!Create, Sem!TypeOK
  <2> DEFINE o == smade[n] + 1
  <2>4. o \in Sem!Objects /\ o # 0 /\ o > smade[n]
    BY <2>1
  <2> HIDE DEF o
  <2>5. /\ \A m \in Sem!Names : smade'[m] = IF m = n THEN o ELSE smade[m]
        /\ \A m \in Sem!Names : sname'[m] = IF m = n THEN o ELSE sname[m]
    BY <2>2 DEF Sem!TypeOK, o
  <2>6. \A p \in Sem!Procs, m \in Sem!Names : sref'[p][m] = IF p = s /\ m = n THEN o ELSE sref[p][m]
    BY <1>3, <2>3 DEF Sem!TypeOK, o
  <2> QED
    BY <2>4, <2>5, <2>6
<1>6. /\ UNCHANGED <<skind, memory, value, sgot, scrashed>>
      /\ \A p \in Sem!Procs : sref[p][n] # o
      /\ \A m \in Sem!Names : smade[m] \in Nat
      /\ \A p \in Sem!Procs, m \in Sem!Names : sref[p][m] \in Nat
      /\ o \in Nat
  <2>1. Sem!Objects \subseteq Nat
    BY ShakeAssumption DEF Sem!Objects
  <2>2. /\ \A m \in Sem!Names : smade[m] \in Nat
        /\ \A p \in Sem!Procs, m \in Sem!Names : sref[p][m] \in Nat
        /\ o \in Nat
    <3>1. smade \in [Sem!Names -> Sem!Objects] /\ sref \in [Sem!Procs -> [Sem!Names -> Sem!Objects]]
      BY DEF Sem!TypeOK
    <3> QED
      BY <2>1, <3>1
  <2>3. \A p \in Sem!Procs : sref[p][n] <= smade[n]
    BY DEF SemGood, Numbered
  <2>4. \A p \in Sem!Procs : sref[p][n] # o
    BY <1>5, <2>2, <2>3
  <2> QED
    BY <1>1, <2>2, <2>4 DEF Sem!Create
<1>7. /\ \A c \in Clients : Past(c)' <=> Past(c)
      /\ \A c \in Clients, t \in Servers, m \in Sem!Names : Same(c, t, m)' <=> Same(c, t, m)
      /\ \A c, d \in Clients, m \in Sem!Names : Same(c, d, m)' <=> Same(c, d, m)
      /\ \A c \in Clients, m \in Sem!Names : sref'[c][m] = sref[c][m]
  <2>1. \A c \in Clients, m \in Sem!Names : sref'[c][m] = sref[c][m]
    BY <1>5, SemProcs
  <2> QED
    BY <1>2, <1>4, <1>5, <1>6, <2>1, SemProcs DEF Past, Same
<1>8. NamesOfWorker'
  <2>1. \A t, u \in Servers : t \in Sem!AtWork' /\ u \in Sem!AtWork' => t = u
    BY <1>1, <1>2, <1>3 DEF Sem!AtWork, SemGood, NamesOfWorker
  <2>2. ASSUME NEW m \in Sem!Names, sname'[m] # 0
        PROVE  \E t \in Servers : InPlace(t, m)' /\ sname'[m] = sref'[t][m]
    <3>1. CASE m = n
      <4>1. InPlace(s, n)'
        BY <1>1, <1>2, <1>6 DEF InPlace
      <4> QED
        BY <1>3, <1>5, <3>1, <4>1
    <3>2. CASE m # n
      <4>1. PICK t \in Servers : InPlace(t, m) /\ sname[m] = sref[t][m]
        BY <1>5, <2>2, <3>2 DEF SemGood, NamesOfWorker
      <4>2. InPlace(t, m)'
        BY <1>1, <1>2, <1>6, <4>1 DEF InPlace
      <4> QED
        BY <1>5, <3>2, <4>1, <4>2, SemProcs
    <3> QED
      BY <3>1, <3>2
  <2>3. \A t \in Servers : spc'[t] # "killed"
    BY <1>1, <1>2 DEF SemGood, NamesOfWorker
  <2> QED
    BY <2>1, <2>2, <2>3 DEF NamesOfWorker
<1>9. Numbered'
  <2>1. \A p \in Sem!Procs, m \in Sem!Names : sref'[p][m] <= smade'[m]
    BY <1>5, <1>6 DEF SemGood, Numbered
  <2>2. \A m \in {"s2c", "c2s"}, x \in Sem!Objects : x > smade'[m] => value'[m][x] = 0
    <3>1. ASSUME NEW m \in {"s2c", "c2s"}, NEW x \in Sem!Objects, x > smade'[m]
          PROVE  x > smade[m]
      <4>1. m \in Sem!Names /\ x \in Nat
        BY SemProcs, ShakeAssumption DEF Sem!Objects
      <4> QED
        BY <1>5, <1>6, <3>1, <4>1
    <3> QED
      BY <1>6, <3>1 DEF SemGood, Numbered
  <2>3. \A t, u \in Servers, m \in Sem!Names : Same(t, u, m)' => t = u
    BY <1>5, <1>6, SemProcs DEF SemGood, Numbered, Same
  <2> QED
    BY <2>1, <2>2, <2>3 DEF Numbered
<1>10. ServerRefs'
  <2>1. \A t \in Servers : t # s =>
           /\ skind'[t] = skind[t] /\ spc'[t] = spc[t] /\ skind[t] \in Sem!Names
           /\ \A m \in Sem!Names : sref'[t][m] = sref[t][m]
    BY <1>2, <1>5, <1>6, SemProcs DEF Sem!TypeOK
  <2>2. ASSUME NEW t \in Servers, t # s
        PROVE  /\ \A m \in Sem!Kinds : m # skind'[t] => sref'[t][m] = 0
               /\ spc'[t] \in {"idle", "memory"} <=> sref'[t][skind'[t]] = 0
               /\ spc'[t] \in {"idle", "memory", "s2c"} <=> sref'[t]["s2c"] = 0
               /\ spc'[t] \in {"idle", "memory", "s2c", "c2s"} <=> sref'[t]["c2s"] = 0
    BY <2>1, <2>2, SemProcs DEF SemGood, ServerRefs
  <2>3. /\ \A m \in Sem!Kinds : m # skind'[s] => sref'[s][m] = 0
        /\ spc'[s] \in {"idle", "memory"} <=> sref'[s][skind'[s]] = 0
        /\ spc'[s] \in {"idle", "memory", "s2c"} <=> sref'[s]["s2c"] = 0
        /\ spc'[s] \in {"idle", "memory", "s2c", "c2s"} <=> sref'[s]["c2s"] = 0
    <3>1. /\ \A m \in Sem!Kinds : m # skind[s] => sref[s][m] = 0
          /\ spc[s] \in {"idle", "memory"} <=> sref[s][skind[s]] = 0
          /\ spc[s] \in {"idle", "memory", "s2c"} <=> sref[s]["s2c"] = 0
          /\ spc[s] \in {"idle", "memory", "s2c", "c2s"} <=> sref[s]["c2s"] = 0
      BY DEF SemGood, ServerRefs
    <3>2. /\ \A m \in Sem!Kinds : m # skind[s] => m # n
          /\ \A m \in Sem!Names : sref'[s][m] = IF m = n THEN o ELSE sref[s][m]
          /\ skind'[s] = skind[s] /\ spc'[s] = l
      BY <1>1, <1>2, <1>3, <1>5, <1>6, SemProcs
    <3> QED
      BY <1>1, <1>3, <1>5, <3>1, <3>2, SemProcs
  <2> QED
    BY <2>2, <2>3 DEF ServerRefs
<1>11. ClientRefs'
  <2>1. \A c \in Clients : skind'[c] = skind[c] /\ skind[c] \in Sem!Names /\ spc'[c] = spc[c]
    BY <1>2, <1>6, SemProcs DEF Sem!TypeOK
  <2>2. \A c \in Clients, m \in Sem!Names : sref'[c][m] # 0 => \E t \in Servers : Same(c, t, m)'
    BY <1>7 DEF SemGood, ClientRefs
  <2>3. ASSUME NEW c \in Clients
        PROVE  /\ \A m \in Sem!Kinds : m # skind'[c] => sref'[c][m] = 0
               /\ spc'[c] = "idle" => sref'[c][skind'[c]] = 0
               /\ spc'[c] \in {"idle", "s2c"} => sref'[c]["s2c"] = 0
               /\ spc'[c] \in {"idle", "s2c", "c2s"} => sref'[c]["c2s"] = 0
               /\ spc'[c] = "s2c" \/ sref'[c]["s2c"] # 0 => sref'[c][skind'[c]] # 0
               /\ spc'[c] = "c2s" \/ sref'[c]["c2s"] # 0 => sref'[c]["s2c"] # 0
               /\ spc'[c] = "wait" \/ Past(c)' => sref'[c]["c2s"] # 0
    BY <1>7, <2>1, SemProcs DEF SemGood, ClientRefs
  <2> QED
    BY <2>2, <2>3 DEF ClientRefs
<1>12. GotByPc'
  BY <1>1, <1>2, <1>6 DEF SemGood, GotByPc, Answered
<1>13. OpenedInOrder'
  <2>1. \A c \in Clients : skind'[c] = skind[c] /\ skind[c] \in Sem!Names
    BY <1>6, SemProcs DEF Sem!TypeOK
  <2>2. \A t \in Servers : spc[t] = "done" => spc'[t] = "done"
    BY <1>1, <1>2
  <2> QED
    BY <1>7, <2>1, <2>2, SemProcs DEF SemGood, OpenedInOrder
<1>14. \A t \in Servers : t # s =>
          /\ sref'[t]["s2c"] = sref[t]["s2c"] /\ sref'[t]["c2s"] = sref[t]["c2s"]
          /\ Text(t)' = Text(t)
  <2>1. \A t \in Servers, m \in Sem!Names : t # s => sref'[t][m] = sref[t][m]
    BY <1>5, SemProcs
  <2>2. \A t \in Servers : skind[t] \in Sem!Names
    BY SemProcs DEF Sem!TypeOK
  <2> QED
    BY <1>6, <2>1, <2>2, SemProcs DEF Text
<1>15. /\ sref'[s]["s2c"] # 0 => value'["s2c"][sref'[s]["s2c"]] = 0
       /\ sref'[s]["c2s"] # 0 => value'["c2s"][sref'[s]["c2s"]] = 0
       /\ \A c \in Clients : Past(c) => ~Same(c, s, "s2c")
  <2>1. \A m \in {"s2c", "c2s"} : value'[m][o] = 0 \/ m # n
    BY <1>5, <1>6 DEF SemGood, Numbered
  <2>2. spc[s] = "c2s" =>
           value["s2c"][sref[s]["s2c"]] = 0 /\ \A c \in Clients : Past(c) => ~Same(c, s, "s2c")
    BY DEF SemGood, OneGreeting
  <2>3. spc[s] \in {"memory", "s2c"} => sref[s]["s2c"] = 0 /\ \A c : ~Same(c, s, "s2c")
    BY DEF SemGood, ServerRefs, Same
  <2>4. sref[s]["c2s"] = 0
    BY <1>1 DEF SemGood, ServerRefs
  <2>5. \A m \in Sem!Names : sref'[s][m] = IF m = n THEN o ELSE sref[s][m]
    BY <1>3, <1>5
  <2> QED
    BY <1>1, <1>3, <1>6, <2>1, <2>2, <2>3, <2>4, <2>5, SemProcs
<1>16. OneGreeting'
  <2>1. ASSUME NEW t \in Servers, sref'[t]["s2c"] # 0
        PROVE  value'["s2c"][sref'[t]["s2c"]] <= 1
    BY <1>6, <1>14, <1>15, <2>1 DEF SemGood, OneGreeting
  <2>2. ASSUME NEW t \in Servers, spc'[t] \in {"c2s", "write", "post"}
        PROVE  /\ value'["s2c"][sref'[t]["s2c"]] = 0
               /\ \A c \in Clients : Past(c)' => ~Same(c, t, "s2c")'
    <3>1. CASE t = s
      <4>1. sref'[s]["s2c"] # 0
        BY <1>10, <2>2, <3>1 DEF ServerRefs
      <4> QED
        BY <1>7, <1>15, <3>1, <4>1, SemProcs
    <3>2. CASE t # s
      BY <1>2, <1>6, <1>7, <1>14, <2>2, <3>2, SemProcs DEF SemGood, OneGreeting
    <3> QED
      BY <3>1, <3>2
  <2>3. ASSUME NEW t \in Servers, NEW c \in Clients, Past(c)', Same(c, t, "s2c")'
        PROVE  value'["s2c"][sref'[t]["s2c"]] = 0 /\ Same(c, t, "c2s")'
    <3>1. Past(c) /\ Same(c, t, "s2c") /\ t # s
      BY <1>7, <1>15, <2>3, SemProcs
    <3>2. value["s2c"][sref[t]["s2c"]] = 0 /\ Same(c, t, "c2s")
      BY <3>1 DEF SemGood, OneGreeting
    <3> QED
      BY <1>6, <1>7, <1>14, <3>1, <3>2, SemProcs
  <2>4. \A c, d \in Clients : Past(c)' /\ Past(d)' /\ Same(c, d, "s2c")' => c = d
    BY <1>7, SemProcs DEF SemGood, OneGreeting
  <2> QED
    BY <2>1, <2>2, <2>3, <2>4 DEF OneGreeting
<1>17. OneAnswer'
  <2>1. ASSUME NEW t \in Servers,
               \/ sref'[t]["c2s"] # 0 /\ value'["c2s"][sref'[t]["c2s"]] > 0
               \/ Answered(t)'
        PROVE  \E c \in Clients : AnsweredBy(c, t)'
    <3>1. t # s
      <4>1. spc'[s] \in {"s2c", "c2s", "write"}
        BY <1>1, <1>2
      <4>2. ~Answered(s)'
        BY <4>1 DEF Answered
      <4> QED
        BY <1>15, <2>1, <4>2
    <3>2. \/ sref[t]["c2s"] # 0 /\ value["c2s"][sref[t]["c2s"]] > 0
          \/ Answered(t)
      BY <1>2, <1>6, <1>14, <2>1, <3>1 DEF Answered
    <3>3. PICK c \in Clients : AnsweredBy(c, t)
      BY <3>2 DEF SemGood, OneAnswer
    <3>4. AnsweredBy(c, t)'
      BY <1>2, <1>7, <3>3, SemProcs DEF AnsweredBy
    <3> QED
      BY <3>4
  <2> QED
    BY <2>1 DEF OneAnswer
<1>18. MemoryInStep'
  <2>1. \A c \in Clients, t \in Servers : Proper(c, t)' => t # s /\ Proper(c, t)
    <3>1. \A c \in Clients : skind'[c] = skind[c] /\ skind[c] \in Sem!Names
      BY <1>6, SemProcs DEF Sem!TypeOK
    <3>2. \A c \in Clients : Uses(c)' = Uses(c) /\ Uses(c) \subseteq Sem!Names /\ "s2c" \in Uses(c)
      BY <3>1, SemProcs DEF Uses
    <3> QED
      BY <1>7, <1>15, <3>2 DEF Proper
  <2>2. \A t \in Servers : spc'[t] = "post" => t # s
    BY <1>1, <1>2
  <2>3. \A t \in Servers : sref'[t]["s2c"] # 0 /\ value'["s2c"][sref'[t]["s2c"]] > 0 => t # s
    BY <1>15
  <2>4. /\ \A t \in Servers : spc'[t] = "post" => Text(t)' = "Hi!"
        /\ \A t \in Servers :
              sref'[t]["s2c"] # 0 /\ value'["s2c"][sref'[t]["s2c"]] > 0 => Text(t)' = "Hi!"
    BY <1>2, <1>6, <1>14, <2>2, <2>3 DEF SemGood, MemoryInStep
  <2>5. \A t \in Servers, c \in Clients : Proper(c, t)' =>
              /\ spc'[c] = "show" => Text(t)' = "Hi!"
              /\ spc'[c] \in {"post", "done"} => Text(t)' = "Hello!"
    BY <1>2, <1>14, <2>1 DEF SemGood, MemoryInStep
  <2> QED
    BY <2>4, <2>5 DEF MemoryInStep
<1>19. Sem!InStep'
  <2>1. ASSUME NEW c \in Clients, sref[c]["c2s"] # 0
        PROVE  Sem!OfOneServer(c)' <=> Sem!OfOneServer(c)
    <3>1. (\A m \in Uses(c) : sref[c][m] # 0)
          /\ (Sem!OfOneServer(c) <=> \E t \in Servers : \A m \in Uses(c) : Same(c, t, m))
      BY <2>1, OneServerIsSame DEF SemGood
    <3>2. Uses(c)' = Uses(c) /\ Uses(c) \subseteq Sem!Names
      BY <1>6, SemProcs DEF Sem!TypeOK, Uses
    <3>3. Sem!OfOneServer(c)' <=> \E t \in Servers : \A m \in Uses(c) : Same(c, t, m)'
      <4>1. Sem!OfOneServer(c)' <=> \E t \in Servers : \A m \in Uses(c)' : sref'[c][m] = sref'[t][m]
        BY DEF Sem!OfOneServer, Uses
      <4>2. \A t \in Servers : \A m \in Uses(c) : Same(c, t, m)' <=> sref'[c][m] = sref'[t][m]
        BY <1>7, <3>1, <3>2 DEF Same
      <4> QED
        BY <3>2, <4>1, <4>2
    <3>4. \A t \in Servers, m \in Uses(c) : Same(c, t, m)' <=> Same(c, t, m)
      BY <1>7, <3>2
    <3> QED
      BY <3>1, <3>3, <3>4
  <2>2. \A c \in Clients : Sem!OfOneServer(c)' => sgot'[c] \in {"nothing", "Hi!"}
    <3>1. \A c \in Clients : sgot[c] # "nothing" => sref[c]["c2s"] # 0
      BY DEF SemGood, ClientRefs, Past
    <3> QED
      BY <1>6, <2>1, <3>1 DEF SemGood, Sem!InStep
  <2>3. ASSUME NEW t \in Servers, sgot'[t] \notin {"nothing", "Hello!"}
        PROVE  \E c \in Clients : ~Sem!OfOneServer(c)' /\ sref'[c]["c2s"] = sref'[t]["c2s"]
    <3>1. PICK c \in Clients : ~Sem!OfOneServer(c) /\ sref[c]["c2s"] = sref[t]["c2s"]
      BY <1>6, <2>3 DEF SemGood, Sem!InStep
    <3>2. Answered(t)
      BY <1>6, <2>3 DEF SemGood, GotByPc
    <3>3. t # s /\ sref[t]["c2s"] # 0
      BY <1>1, <3>2 DEF SemGood, ServerRefs, Answered
    <3> QED
      BY <1>7, <1>14, <2>1, <3>1, <3>3, SemProcs
  <2> QED
    BY <2>2, <2>3 DEF Sem!InStep
<1> QED
  BY <1>8, <1>9, <1>10, <1>11, <1>12, <1>13, <1>16, <1>17, <1>18, <1>19 DEF SemGood

\* What is said of names and of who has opened what survives a step of a server between
\* opening and unlinking.
LEMMA ServerStays ==
    ASSUME Sem!TypeOK, SemGood, NEW s \in Servers, NEW l, Sem!Goto(s, l),
           \/ spc[s] = "write" /\ l = "post"
           \/ spc[s] = "post" /\ l = "wait"
           \/ spc[s] = "wait" /\ l = "show"
           \/ spc[s] = "show" /\ l = "unlink memory",
           UNCHANGED <<skind, sname, smade, sref>>, \A c \in Clients : sgot'[c] = sgot[c]
    PROVE  /\ NamesOfWorker' /\ ServerRefs' /\ ClientRefs' /\ OpenedInOrder'
           /\ \A t \in Servers : spc'[t] = IF t = s THEN l ELSE spc[t]
           /\ \A c \in Clients : spc'[c] = spc[c]
           /\ \A c \in Clients : Past(c)' <=> Past(c)
           /\ \A p, q, n : Same(p, q, n)' <=> Same(p, q, n)
           /\ \A c \in Clients : Sem!OfOneServer(c)' <=> Sem!OfOneServer(c)
<1>1. /\ \A t \in Servers : spc'[t] = IF t = s THEN l ELSE spc[t]
      /\ \A c \in Clients : spc'[c] = spc[c]
  BY SemProcs DEF Sem!Goto, Sem!TypeOK
<1>2. /\ \A c \in Clients : Past(c)' <=> Past(c)
      /\ \A p, q, n : Same(p, q, n)' <=> Same(p, q, n)
      /\ \A c \in Clients : Sem!OfOneServer(c)' <=> Sem!OfOneServer(c)
  BY <1>1 DEF Past, Same, Sem!OfOneServer
<1>3. NamesOfWorker'
  <2>1. \A t, u \in Servers : t \in Sem!AtWork' /\ u \in Sem!AtWork' => t = u
    BY <1>1 DEF Sem!AtWork, SemGood, NamesOfWorker
  <2>2. \A t \in Servers : \A n : InPlace(t, n) => InPlace(t, n)'
    BY <1>1 DEF InPlace
  <2>3. \A n \in Sem!Names : sname'[n] # 0 =>
           \E t \in Servers : InPlace(t, n)' /\ sname'[n] = sref'[t][n]
    BY <2>2 DEF SemGood, NamesOfWorker
  <2>4. \A t \in Servers : spc'[t] # "killed"
    BY <1>1 DEF SemGood, NamesOfWorker
  <2> QED
    BY <2>1, <2>3, <2>4 DEF NamesOfWorker
<1>4. ServerRefs'
  BY <1>1 DEF SemGood, ServerRefs
<1>5. ClientRefs'
  BY <1>1, <1>2 DEF SemGood, ClientRefs
<1>6. OpenedInOrder'
  BY <1>1, <1>2 DEF SemGood, OpenedInOrder
<1> QED
  BY <1>1, <1>2, <1>3, <1>4, <1>5, <1>6

\* And a step of a client that has opened everything, or is killed.
LEMMA ClientStays ==
    ASSUME Sem!TypeOK, SemGood, NEW c \in Clients, NEW l, Sem!Goto(c, l),
           \/ spc[c] = "wait" /\ l = "show"
           \/ spc[c] = "show" /\ l = "write"
           \/ spc[c] = "write" /\ l = "post"
           \/ spc[c] = "post" /\ l = "done"
           \/ l = "killed",
           UNCHANGED <<skind, sname, smade, sref>>,
           \A d \in Clients : d # c => sgot'[d] = sgot[d],
           sgot'[c] # sgot[c] => spc[c] = "show" /\ l = "write"
    PROVE  /\ NamesOfWorker' /\ ServerRefs' /\ ClientRefs' /\ OpenedInOrder'
           /\ \A t \in Servers : spc'[t] = spc[t]
           /\ \A d \in Clients : spc'[d] = IF d = c THEN l ELSE spc[d]
           /\ \A d \in Clients : d # c => (Past(d)' <=> Past(d))
           /\ \A p, q, n : Same(p, q, n)' <=> Same(p, q, n)
           /\ \A d \in Clients : Sem!OfOneServer(d)' <=> Sem!OfOneServer(d)
<1>1. /\ \A t \in Servers : spc'[t] = spc[t]
      /\ \A d \in Clients : spc'[d] = IF d = c THEN l ELSE spc[d]
  BY SemProcs DEF Sem!Goto, Sem!TypeOK
<1>2. /\ \A d \in Clients : d # c => (Past(d)' <=> Past(d))
      /\ \A p, q, n : Same(p, q, n)' <=> Same(p, q, n)
      /\ \A d \in Clients : Sem!OfOneServer(d)' <=> Sem!OfOneServer(d)
  BY <1>1 DEF Past, Same, Sem!OfOneServer
<1>3. NamesOfWorker'
  <2>1. \A t, u \in Servers : t \in Sem!AtWork' /\ u \in Sem!AtWork' => t = u
    BY <1>1 DEF Sem!AtWork, SemGood, NamesOfWorker
  <2>2. \A t \in Servers : \A n : InPlace(t, n) => InPlace(t, n)'
    BY <1>1 DEF InPlace
  <2> QED
    BY <1>1, <2>1, <2>2 DEF SemGood, NamesOfWorker
<1>4. ServerRefs'
  BY <1>1 DEF SemGood, ServerRefs
<1>5. ClientRefs'
  <2>1. Past(c)' => Past(c) \/ spc[c] = "wait"
    BY <1>1 DEF Past
  <2>2. \A d \in Clients : Past(d)' => Past(d) \/ spc[d] = "wait"
    BY <1>2, <2>1
  <2>3. l \notin {"idle", "s2c", "c2s", "wait"}
    OBVIOUS
  <2>4. \A d \in Clients : spc'[d] = spc[d] \/ spc'[d] \notin {"idle", "s2c", "c2s", "wait"}
    BY <1>1, <2>3
  <2>5. ASSUME NEW d \in Clients
        PROVE  /\ \A n \in Sem!Kinds : n # skind'[d] => sref'[d][n] = 0
               /\ spc'[d] = "idle" => sref'[d][skind'[d]] = 0
               /\ spc'[d] \in {"idle", "s2c"} => sref'[d]["s2c"] = 0
               /\ spc'[d] \in {"idle", "s2c", "c2s"} => sref'[d]["c2s"] = 0
               /\ spc'[d] = "s2c" \/ sref'[d]["s2c"] # 0 => sref'[d][skind'[d]] # 0
               /\ spc'[d] = "c2s" \/ sref'[d]["c2s"] # 0 => sref'[d]["s2c"] # 0
               /\ spc'[d] = "wait" \/ Past(d)' => sref'[d]["c2s"] # 0
    BY <2>2, <2>4 DEF SemGood, ClientRefs
  <2>6. \A d \in Clients, n \in Sem!Names : sref'[d][n] # 0 => \E s \in Servers : Same(d, s, n)'
    BY <1>2 DEF SemGood, ClientRefs
  <2> QED
    BY <2>5, <2>6 DEF ClientRefs
<1>6. OpenedInOrder'
  BY <1>1, <1>2 DEF SemGood, OpenedInOrder
<1> QED
  BY <1>1, <1>2, <1>3, <1>4, <1>5, <1>6

\* The objects in use have their place among the objects.
LEMMA ObjectsInUse ==
    ASSUME Sem!TypeOK
    PROVE  /\ \A p \in Sem!Procs, n \in Sem!Names : sref[p][n] \in Sem!Objects /\ sref[p][n] \in Nat
           /\ \A n \in Sem!Names : smade[n] \in Nat
           /\ \A n \in {"s2c", "c2s"}, o \in Sem!Objects : value[n][o] \in Nat
           /\ \A p \in Sem!Procs : skind[p] \in Sem!Kinds /\ skind[p] \in Sem!Names
<1>1. Sem!Objects \subseteq Nat
  BY ShakeAssumption DEF Sem!Objects
<1>2. \A p \in Sem!Procs, n \in Sem!Names : sref[p][n] \in Sem!Objects
  BY DEF Sem!TypeOK
<1>3. \A n \in Sem!Names : smade[n] \in Sem!Objects
  BY DEF Sem!TypeOK
<1>4. \A n \in {"s2c", "c2s"}, o \in Sem!Objects : value[n][o] \in Nat
  BY DEF Sem!TypeOK
<1>5. \A p \in Sem!Procs : skind[p] \in Sem!Kinds /\ skind[p] \in Sem!Names
  BY SemProcs DEF Sem!TypeOK
<1> QED
  BY <1>1, <1>2, <1>3, <1>4, <1>5

\* What posting and waiting do to the semaphores.
LEMMA PostValue ==
    ASSUME Sem!TypeOK, NEW p \in Sem!Procs, NEW n \in {"s2c", "c2s"}, Sem!Post(p, n)
    PROVE  \A m \in {"s2c", "c2s"}, o \in Sem!Objects :
              value'[m][o] = IF m = n /\ o = sref[p][n] THEN value[m][o] + 1 ELSE value[m][o]
  BY ObjectsInUse, SemProcs DEF Sem!Post, Sem!TypeOK

LEMMA WaitValue ==
    ASSUME Sem!TypeOK, NEW p \in Sem!Procs, NEW n \in {"s2c", "c2s"}, Sem!Wait(p, n)
    PROVE  /\ value[n][sref[p][n]] > 0
           /\ \A m \in {"s2c", "c2s"}, o \in Sem!Objects :
                 value'[m][o] = IF m = n /\ o = sref[p][n] THEN value[m][o] - 1 ELSE value[m][o]
  BY ObjectsInUse, SemProcs DEF Sem!Wait, Sem!TypeOK

\* The server writes its greeting into its own memory.
LEMMA GreetKeeps ==
    ASSUME Sem!TypeOK, SemGood, ~scrashed, NEW s \in Servers, Sem!Greet(s)
    PROVE  SemGood'
<1>1. /\ Sem!Goto(s, "post") /\ spc[s] = "write"
      /\ UNCHANGED <<skind, sname, smade, value, sref, sgot, scrashed>>
  BY DEF Sem!Greet, Sem!Write
<1>2. /\ NamesOfWorker' /\ ServerRefs' /\ ClientRefs' /\ OpenedInOrder'
      /\ \A t \in Servers : spc'[t] = IF t = s THEN "post" ELSE spc[t]
      /\ \A c \in Clients : spc'[c] = spc[c]
      /\ \A c \in Clients : Past(c)' <=> Past(c)
      /\ \A p, q, n : Same(p, q, n)' <=> Same(p, q, n)
      /\ \A c \in Clients : Sem!OfOneServer(c)' <=> Sem!OfOneServer(c)
  BY <1>1, ServerStays
<1>3. Numbered'
  BY <1>1, <1>2 DEF SemGood, Numbered
<1>4. GotByPc'
  BY <1>1, <1>2 DEF SemGood, GotByPc, Answered
<1>5. OneGreeting'
  BY <1>1, <1>2 DEF SemGood, OneGreeting
<1>6. OneAnswer'
  <2>1. \A t \in Servers : Answered(t)' => Answered(t)
    BY <1>2 DEF Answered
  <2>2. \A c \in Clients, t \in Servers : AnsweredBy(c, t) => AnsweredBy(c, t)'
    BY <1>2 DEF AnsweredBy
  <2> QED
    BY <1>1, <2>1, <2>2 DEF SemGood, OneAnswer
<1>7. MemoryInStep'
  <2>1. Text(s)' = "Hi!"
    BY <1>1, ObjectsInUse, SemProcs DEF Sem!Greet, Sem!Write, Text, Sem!TypeOK
  <2>2. \A t \in Servers : t # s => Text(t)' = Text(t)
    <3>1. ASSUME NEW t \in Servers, t # s
          PROVE  skind[t] # skind[s] \/ sref[t][skind[t]] # sref[s][skind[s]]
      <4>1. sref[s][skind[s]] # 0
        BY <1>1 DEF SemGood, ServerRefs
      <4> QED
        BY <3>1, <4>1, ObjectsInUse, SemProcs DEF SemGood, Numbered, Same
    <3>2. \A t \in Servers : skind[t] \in Sem!Kinds /\ sref[t][skind[t]] \in Sem!Objects
      BY ObjectsInUse, SemProcs
    <3> QED
      BY <1>1, <3>1, <3>2 DEF Sem!Greet, Sem!Write, Text, Sem!TypeOK
  <2>3. \A c \in Clients, t \in Servers : Proper(c, t)' => t # s /\ Proper(c, t)
    <3>1. \A c \in Clients, t \in Servers : Proper(c, t)' => Proper(c, t)
      BY <1>1, <1>2 DEF Proper, Uses
    <3>2. \A c \in Clients : ~Proper(c, s)
      BY <1>1 DEF SemGood, OneGreeting, Proper, Uses
    <3> QED
      BY <3>1, <3>2
  <2> QED
    BY <1>1, <1>2, <2>1, <2>2, <2>3 DEF SemGood, MemoryInStep
<1>8. Sem!InStep'
  BY <1>1, <1>2 DEF SemGood, Sem!InStep
<1> QED
  BY <1>2, <1>3, <1>4, <1>5, <1>6, <1>7, <1>8 DEF SemGood

\* The server posts s2c once: the greeting may be taken.
LEMMA PostKeeps ==
    ASSUME Sem!TypeOK, SemGood, ~scrashed, NEW s \in Servers, Sem!PostS2C(s)
    PROVE  SemGood'
<1>1. /\ Sem!Goto(s, "wait") /\ spc[s] = "post" /\ Sem!Post(s, "s2c")
      /\ UNCHANGED <<skind, sname, smade, memory, sref, sgot, scrashed>>
  BY DEF Sem!PostS2C, Sem!Post
<1>2. /\ NamesOfWorker' /\ ServerRefs' /\ ClientRefs' /\ OpenedInOrder'
      /\ \A t \in Servers : spc'[t] = IF t = s THEN "wait" ELSE spc[t]
      /\ \A c \in Clients : spc'[c] = spc[c]
      /\ \A c \in Clients : Past(c)' <=> Past(c)
      /\ \A p, q, n : Same(p, q, n)' <=> Same(p, q, n)
      /\ \A c \in Clients : Sem!OfOneServer(c)' <=> Sem!OfOneServer(c)
  BY <1>1, ServerStays
<1>3. \A m \in {"s2c", "c2s"}, o \in Sem!Objects :
         value'[m][o] = IF m = "s2c" /\ o = sref[s]["s2c"] THEN value[m][o] + 1 ELSE value[m][o]
  BY <1>1, PostValue, SemProcs
<1>4. /\ sref[s]["s2c"] # 0 /\ value["s2c"][sref[s]["s2c"]] = 0
      /\ \A c \in Clients : Past(c) => ~Same(c, s, "s2c")
      /\ Text(s) = "Hi!"
  BY <1>1 DEF SemGood, ServerRefs, OneGreeting, MemoryInStep
<1>5. /\ \A t \in Servers : sref[t]["s2c"] \in Sem!Objects /\ sref[t]["c2s"] \in Sem!Objects
      /\ \A t \in Servers : value["s2c"][sref[t]["s2c"]] \in Nat
      /\ \A t \in Servers : t # s => sref[t]["s2c"] # sref[s]["s2c"]
      /\ \A t \in Servers : sref'[t] = sref[t]
  <2>1. \A t \in Servers : sref[t]["s2c"] \in Sem!Objects /\ sref[t]["c2s"] \in Sem!Objects
    BY ObjectsInUse, SemProcs
  <2>2. \A t \in Servers : value["s2c"][sref[t]["s2c"]] \in Nat
    BY <2>1, ObjectsInUse
  <2>3. \A t \in Servers : t # s => sref[t]["s2c"] # sref[s]["s2c"]
    BY <1>4, SemProcs DEF SemGood, Numbered, Same
  <2> QED
    BY <1>1, <2>1, <2>2, <2>3
<1>6. /\ \A t \in Servers : t # s => value'["s2c"][sref[t]["s2c"]] = value["s2c"][sref[t]["s2c"]]
      /\ value'["s2c"][sref[s]["s2c"]] = 1
      /\ \A t \in Servers : value'["c2s"][sref[t]["c2s"]] = value["c2s"][sref[t]["c2s"]]
  BY <1>3, <1>4, <1>5
<1>7. Numbered'
  <2>1. sref[s]["s2c"] <= smade["s2c"] /\ sref[s]["s2c"] \in Nat /\ smade["s2c"] \in Nat
    BY ObjectsInUse, SemProcs DEF SemGood, Numbered
  <2>2. \A m \in {"s2c", "c2s"}, o \in Sem!Objects : o > smade[m] => value'[m][o] = 0
    BY <1>3, <2>1 DEF SemGood, Numbered
  <2> QED
    BY <1>1, <1>2, <2>2 DEF SemGood, Numbered
<1>8. GotByPc'
  BY <1>1, <1>2 DEF SemGood, GotByPc, Answered
<1>9. OneGreeting'
  <2>1. \A t \in Servers : sref'[t]["s2c"] # 0 => value'["s2c"][sref'[t]["s2c"]] <= 1
    BY <1>5, <1>6 DEF SemGood, OneGreeting
  <2>2. \A t \in Servers : spc'[t] \in {"c2s", "write", "post"} =>
            /\ value'["s2c"][sref'[t]["s2c"]] = 0
            /\ \A c \in Clients : Past(c)' => ~Same(c, t, "s2c")'
    BY <1>2, <1>5, <1>6 DEF SemGood, OneGreeting
  <2>3. \A t \in Servers, c \in Clients : Past(c)' /\ Same(c, t, "s2c")' =>
            value'["s2c"][sref'[t]["s2c"]] = 0 /\ Same(c, t, "c2s")'
    BY <1>2, <1>4, <1>5, <1>6 DEF SemGood, OneGreeting
  <2>4. \A c, d \in Clients : Past(c)' /\ Past(d)' /\ Same(c, d, "s2c")' => c = d
    BY <1>2 DEF SemGood, OneGreeting
  <2> QED
    BY <2>1, <2>2, <2>3, <2>4 DEF OneGreeting
<1>10. OneAnswer'
  <2>1. \A t \in Servers : Answered(t)' => Answered(t)
    BY <1>2 DEF Answered
  <2>2. \A c \in Clients, t \in Servers : AnsweredBy(c, t) => AnsweredBy(c, t)'
    BY <1>2 DEF AnsweredBy
  <2> QED
    BY <1>5, <1>6, <2>1, <2>2 DEF SemGood, OneAnswer
<1>11. MemoryInStep'
  <2>1. /\ \A t \in Servers : Text(t)' = Text(t)
        /\ \A c \in Clients, t \in Servers : Proper(c, t)' => Proper(c, t)
    BY <1>1, <1>2 DEF Text, Proper, Uses
  <2> QED
    BY <1>2, <1>4, <1>5, <1>6, <2>1 DEF SemGood, MemoryInStep
<1>12. Sem!InStep'
  BY <1>1, <1>2 DEF SemGood, Sem!InStep
<1> QED
  BY <1>2, <1>7, <1>8, <1>9, <1>10, <1>11, <1>12 DEF SemGood

\* The server takes the answer.
LEMMA TakeAnswerKeeps ==
    ASSUME Sem!TypeOK, SemGood, ~scrashed, NEW s \in Servers, Sem!WaitC2S(s)
    PROVE  SemGood'
<1>1. /\ Sem!Goto(s, "show") /\ spc[s] = "wait" /\ Sem!Wait(s, "c2s")
      /\ UNCHANGED <<skind, sname, smade, memory, sref, sgot, scrashed>>
  BY DEF Sem!WaitC2S, Sem!Wait
<1>2. /\ NamesOfWorker' /\ ServerRefs' /\ ClientRefs' /\ OpenedInOrder'
      /\ \A t \in Servers : spc'[t] = IF t = s THEN "show" ELSE spc[t]
      /\ \A c \in Clients : spc'[c] = spc[c]
      /\ \A c \in Clients : Past(c)' <=> Past(c)
      /\ \A p, q, n : Same(p, q, n)' <=> Same(p, q, n)
      /\ \A c \in Clients : Sem!OfOneServer(c)' <=> Sem!OfOneServer(c)
  BY <1>1, ServerStays
<1>3. /\ value["c2s"][sref[s]["c2s"]] > 0
      /\ \A m \in {"s2c", "c2s"}, o \in Sem!Objects :
            value'[m][o] = IF m = "c2s" /\ o = sref[s]["c2s"] THEN value[m][o] - 1
                           ELSE value[m][o]
  BY <1>1, WaitValue, SemProcs
<1>4. sref[s]["c2s"] # 0
  BY <1>1 DEF SemGood, ServerRefs
<1>5. /\ \A t \in Servers : sref[t]["s2c"] \in Sem!Objects /\ sref[t]["c2s"] \in Sem!Objects
      /\ \A m \in {"s2c", "c2s"}, o \in Sem!Objects : value[m][o] \in Nat
      /\ \A t \in Servers : sref'[t] = sref[t]
  BY <1>1, ObjectsInUse, SemProcs
<1>6. /\ \A t \in Servers : value'["s2c"][sref[t]["s2c"]] = value["s2c"][sref[t]["s2c"]]
      /\ \A t \in Servers : value'["c2s"][sref[t]["c2s"]] > 0 => value["c2s"][sref[t]["c2s"]] > 0
  BY <1>3, <1>5
<1>7. Numbered'
  <2>1. sref[s]["c2s"] <= smade["c2s"] /\ sref[s]["c2s"] \in Nat /\ smade["c2s"] \in Nat
    BY ObjectsInUse, SemProcs DEF SemGood, Numbered
  <2>2. \A m \in {"s2c", "c2s"}, o \in Sem!Objects : o > smade[m] => value'[m][o] = 0
    BY <1>3, <2>1 DEF SemGood, Numbered
  <2> QED
    BY <1>1, <1>2, <2>2 DEF SemGood, Numbered
<1>8. GotByPc'
  BY <1>1, <1>2 DEF SemGood, GotByPc, Answered
<1>9. OneGreeting'
  BY <1>2, <1>5, <1>6 DEF SemGood, OneGreeting
<1>10. OneAnswer'
  <2>1. \A t \in Servers : Answered(t)' => Answered(t) \/ t = s
    BY <1>2 DEF Answered
  <2>2. \A c \in Clients, t \in Servers : AnsweredBy(c, t) => AnsweredBy(c, t)'
    BY <1>2 DEF AnsweredBy
  <2>3. \E c \in Clients : AnsweredBy(c, s)
    BY <1>3, <1>4 DEF SemGood, OneAnswer
  <2> QED
    BY <1>5, <1>6, <2>1, <2>2, <2>3 DEF SemGood, OneAnswer
<1>11. MemoryInStep'
  <2>1. /\ \A t \in Servers : Text(t)' = Text(t)
        /\ \A c \in Clients, t \in Servers : Proper(c, t)' => Proper(c, t)
    BY <1>1, <1>2 DEF Text, Proper, Uses
  <2> QED
    BY <1>2, <1>5, <1>6, <2>1 DEF SemGood, MemoryInStep
<1>12. Sem!InStep'
  BY <1>1, <1>2 DEF SemGood, Sem!InStep
<1> QED
  BY <1>2, <1>7, <1>8, <1>9, <1>10, <1>11, <1>12 DEF SemGood

\* A client of the server's own semaphores and memory that has answered has left its answer
\* there; any other has mixed the objects of two servers.
LEMMA AnswerThere ==
    ASSUME Sem!TypeOK, SemGood, NEW s \in Servers, Answered(s)
    PROVE  Text(s) = "Hello!" \/ \E c \in Clients :
              ~Sem!OfOneServer(c) /\ sref[c]["c2s"] = sref[s]["c2s"] /\ sref[c]["c2s"] # 0
<1>1. PICK c \in Clients : AnsweredBy(c, s)
  BY DEF SemGood, OneAnswer
<1>2. sref[c]["c2s"] # 0 /\ sref[c]["c2s"] = sref[s]["c2s"]
  BY <1>1 DEF AnsweredBy, Same
<1>3. SUFFICES ASSUME Sem!OfOneServer(c) PROVE Text(s) = "Hello!"
  BY <1>2
<1>4. PICK t \in Servers : \A n \in Uses(c) : Same(c, t, n)
  BY <1>2, <1>3, OneServerIsSame DEF SemGood
<1>5. t = s
  BY <1>2, <1>4, SemProcs DEF SemGood, Numbered, Same, Uses
<1> QED
  BY <1>1, <1>4, <1>5 DEF SemGood, MemoryInStep, Proper, AnsweredBy

\* The server displays the answer.
LEMMA ShowAnswerKeeps ==
    ASSUME Sem!TypeOK, SemGood, ~scrashed, NEW s \in Servers, Sem!ShowAnswer(s)
    PROVE  SemGood'
<1>1. /\ Sem!Goto(s, "unlink memory") /\ spc[s] = "show"
      /\ UNCHANGED <<skind, sname, smade, memory, value, sref, scrashed>>
      /\ \A p \in Sem!Procs : sgot'[p] = IF p = s THEN Text(s) ELSE sgot[p]
  BY SemProcs DEF Sem!ShowAnswer, Sem!Show, Text, Sem!TypeOK, Sem!system
<1>2. /\ NamesOfWorker' /\ ServerRefs' /\ ClientRefs' /\ OpenedInOrder'
      /\ \A t \in Servers : spc'[t] = IF t = s THEN "unlink memory" ELSE spc[t]
      /\ \A c \in Clients : spc'[c] = spc[c]
      /\ \A c \in Clients : Past(c)' <=> Past(c)
      /\ \A p, q, n : Same(p, q, n)' <=> Same(p, q, n)
      /\ \A c \in Clients : Sem!OfOneServer(c)' <=> Sem!OfOneServer(c)
  <2>1. \A c \in Clients : sgot'[c] = sgot[c]
    BY <1>1, SemProcs
  <2> QED
    BY <1>1, <2>1, ServerStays
<1>3. Numbered'
  BY <1>1, <1>2 DEF SemGood, Numbered
<1>4. GotByPc'
  BY <1>1, <1>2, SemProcs DEF SemGood, GotByPc, Answered
<1>5. OneGreeting'
  BY <1>1, <1>2 DEF SemGood, OneGreeting
<1>6. OneAnswer'
  <2>1. \A t \in Servers : Answered(t)' => Answered(t)
    BY <1>1, <1>2 DEF Answered
  <2>2. \A c \in Clients, t \in Servers : AnsweredBy(c, t) => AnsweredBy(c, t)'
    BY <1>2 DEF AnsweredBy
  <2> QED
    BY <1>1, <2>1, <2>2 DEF SemGood, OneAnswer
<1>7. MemoryInStep'
  <2>1. /\ \A t \in Servers : Text(t)' = Text(t)
        /\ \A c \in Clients, t \in Servers : Proper(c, t)' => Proper(c, t)
    BY <1>1, <1>2 DEF Text, Proper, Uses
  <2> QED
    BY <1>1, <1>2, <2>1 DEF SemGood, MemoryInStep
<1>8. Sem!InStep'
  <2>1. Text(s) = "Hello!" \/ \E c \in Clients :
            ~Sem!OfOneServer(c) /\ sref[c]["c2s"] = sref[s]["c2s"] /\ sref[c]["c2s"] # 0
    BY <1>1, AnswerThere DEF Answered
  <2>2. \A c \in Clients : Sem!OfOneServer(c)' => sgot'[c] \in {"nothing", "Hi!"}
    BY <1>1, <1>2, SemProcs DEF SemGood, Sem!InStep
  <2>3. \A t \in Servers :
            \/ sgot'[t] \in {"nothing", "Hello!"}
            \/ \E c \in Clients : ~Sem!OfOneServer(c)' /\ sref'[c]["c2s"] = sref'[t]["c2s"]
    BY <1>1, <1>2, <2>1, SemProcs DEF SemGood, Sem!InStep
  <2> QED
    BY <2>2, <2>3 DEF Sem!InStep
<1> QED
  BY <1>2, <1>3, <1>4, <1>5, <1>6, <1>7, <1>8 DEF SemGood

\* A client opens what is there: an object of the server at work, which comes after every
\* server whose objects the client has opened before.
LEMMA FindKeeps ==
    ASSUME Sem!TypeOK, SemGood, ~scrashed, NEW c \in Clients,
           Sem!FindMemory(c) \/ Sem!FindS2C(c) \/ Sem!FindC2S(c)
    PROVE  SemGood'
<1>1. PICK l \in {"s2c", "c2s", "wait"}, n \in Sem!Names :
         /\ \/ spc[c] = "idle" /\ l = "s2c" /\ n = skind[c]
            \/ spc[c] = "s2c" /\ l = "c2s" /\ n = "s2c"
            \/ spc[c] = "c2s" /\ l = "wait" /\ n = "c2s"
         /\ Sem!Find(c, n, l)
  <2>1. skind[c] \in Sem!Names /\ "s2c" \in Sem!Names /\ "c2s" \in Sem!Names
    BY SemProcs DEF Sem!TypeOK
  <2>2. CASE Sem!FindMemory(c)
    BY <2>1, <2>2 DEF Sem!FindMemory
  <2>3. CASE Sem!FindS2C(c)
    BY <2>1, <2>3 DEF Sem!FindS2C
  <2>4. CASE Sem!FindC2S(c)
    BY <2>1, <2>4 DEF Sem!FindC2S
  <2> QED
    BY <2>2, <2>3, <2>4
<1>2. /\ \A s \in Servers : spc'[s] = spc[s]
      /\ \A d \in Clients : spc'[d] = IF d = c THEN IF sname[n] = 0 THEN "done" ELSE l ELSE spc[d]
      /\ \A p \in Sem!Procs, m \in Sem!Names :
            sref'[p][m] = IF p = c /\ m = n THEN sname[n] ELSE sref[p][m]
      /\ UNCHANGED <<skind, sname, smade, memory, value, sgot, scrashed>>
  BY <1>1, SemProcs DEF Sem!Find, Sem!Goto, Sem!TypeOK, Sem!system
<1>3. /\ skind[c] \in Sem!Kinds /\ skind[c] \in Sem!Names /\ skind[c] \notin {"s2c", "c2s"}
      /\ c \in Sem!Procs /\ sref[c]["c2s"] = 0
      /\ n # "c2s" => sref[c]["s2c"] = 0
      /\ n \notin {"c2s", "s2c"} => sref[c][skind[c]] = 0
      /\ n \in {"c2s", "s2c"} => sref[c][skind[c]] # 0
      /\ n = "c2s" => sref[c]["s2c"] # 0
      /\ ~Past(c) /\ sgot[c] = "nothing"
  <2>1. skind[c] \in Sem!Kinds /\ skind[c] \in Sem!Names /\ skind[c] \notin {"s2c", "c2s"} /\ c \in Sem!Procs
    BY SemProcs DEF Sem!TypeOK
  <2>2. sgot[c] = "nothing"
    BY <1>1 DEF SemGood, GotByPc
  <2>3. ~Past(c)
    BY <1>1, <2>2 DEF Past
  <2> QED
    BY <1>1, <2>1, <2>2, <2>3 DEF SemGood, ClientRefs
<1>4. /\ \A d \in Clients : Past(d)' <=> Past(d)
      /\ \A d \in Clients : Past(d) => d # c
      /\ \A s \in Servers, m \in Sem!Names : sref'[s][m] = sref[s][m]
      /\ \A d \in Clients, m \in Sem!Names : d # c => sref'[d][m] = sref[d][m]
      /\ \A d \in Clients, s \in Servers, m \in Sem!Names : d # c => (Same(d, s, m)' <=> Same(d, s, m))
      /\ \A d, e \in Clients, m \in Sem!Names : d # c /\ e # c => (Same(d, e, m)' <=> Same(d, e, m))
      /\ \A s \in Servers, m \in Sem!Names : m # n => (Same(c, s, m)' <=> Same(c, s, m))
  <2>1. Past(c)' <=> Past(c)
    BY <1>1, <1>2, <1>3 DEF Past
  <2>2. \A d \in Clients : Past(d)' <=> Past(d)
    BY <1>2, <2>1 DEF Past
  <2>3. /\ \A s \in Servers, m \in Sem!Names : sref'[s][m] = sref[s][m]
        /\ \A d \in Clients, m \in Sem!Names : d # c => sref'[d][m] = sref[d][m]
        /\ \A m \in Sem!Names : m # n => sref'[c][m] = sref[c][m]
    BY <1>2, SemProcs
  <2> QED
    BY <1>3, <2>2, <2>3 DEF Same
<1>5. ASSUME NEW s \in Servers, Same(c, s, n)'
      PROVE  s \in Sem!AtWork /\ InPlace(s, n) /\ sref[s][n] = sname[n] /\ sname[n] # 0
  <2>1. sname[n] # 0 /\ sref[s][n] = sname[n]
    BY <1>2, <1>3, <1>4, <1>5 DEF Same
  <2>2. PICK t \in Servers : InPlace(t, n) /\ sname[n] = sref[t][n]
    BY <2>1 DEF SemGood, NamesOfWorker
  <2>3. t = s
    BY <2>1, <2>2, SemProcs DEF SemGood, Numbered, Same
  <2> QED
    BY <2>1, <2>2, <2>3 DEF InPlace, Sem!AtWork
<1>6. sname[n] # 0 => \E s \in Servers : Same(c, s, n)'
  BY <1>2, <1>3, SemProcs DEF SemGood, NamesOfWorker, Same
<1>7. NamesOfWorker'
  <2>1. \A s, t \in Servers : s \in Sem!AtWork' /\ t \in Sem!AtWork' => s = t
    BY <1>2 DEF Sem!AtWork, SemGood, NamesOfWorker
  <2>2. \A s \in Servers : \A m : InPlace(s, m) => InPlace(s, m)'
    BY <1>2 DEF InPlace
  <2> QED
    BY <1>2, <1>4, <2>1, <2>2 DEF SemGood, NamesOfWorker
<1>8. Numbered'
  <2>1. sname[n] <= smade[n]
    <3>1. sname[n] # 0 => \E s \in Servers : sname[n] = sref[s][n]
      BY DEF SemGood, NamesOfWorker
    <3>2. \A s \in Servers : sref[s][n] <= smade[n]
      BY SemProcs DEF SemGood, Numbered
    <3> QED
      BY <3>1, <3>2, ObjectsInUse
  <2>2. \A p \in Sem!Procs, m \in Sem!Names : sref'[p][m] <= smade'[m]
    BY <1>2, <2>1 DEF SemGood, Numbered
  <2>3. \A s, t \in Servers, m \in Sem!Names : Same(s, t, m)' => s = t
    BY <1>4 DEF SemGood, Numbered, Same
  <2> QED
    BY <1>2, <2>2, <2>3 DEF SemGood, Numbered
<1>9. ServerRefs'
  <2>1. \A s \in Servers : skind[s] \in Sem!Names
    BY ObjectsInUse, SemProcs
  <2> QED
    BY <1>2, <1>4, <2>1, SemProcs DEF SemGood, ServerRefs
<1>10. ClientRefs'
  <2>1. \A d \in Clients, m \in Sem!Names : sref'[d][m] # 0 => \E s \in Servers : Same(d, s, m)'
    <3>1. ASSUME NEW d \in Clients, NEW m \in Sem!Names, sref'[d][m] # 0, d = c, m = n
          PROVE  \E s \in Servers : Same(d, s, m)'
      BY <1>2, <1>3, <1>6, <3>1
    <3>2. ASSUME NEW d \in Clients, NEW m \in Sem!Names, sref'[d][m] # 0, d # c \/ m # n
          PROVE  \E s \in Servers : Same(d, s, m)'
      <4>1. sref[d][m] # 0
        BY <1>2, <3>2, SemProcs
      <4>2. PICK s \in Servers : Same(d, s, m)
        BY <4>1 DEF SemGood, ClientRefs
      <4> QED
        BY <1>4, <3>2, <4>2
    <3> QED
      BY <3>1, <3>2
  <2>2. ASSUME NEW d \in Clients, d # c
        PROVE  /\ \A m \in Sem!Kinds : m # skind'[d] => sref'[d][m] = 0
               /\ spc'[d] = "idle" => sref'[d][skind'[d]] = 0
               /\ spc'[d] \in {"idle", "s2c"} => sref'[d]["s2c"] = 0
               /\ spc'[d] \in {"idle", "s2c", "c2s"} => sref'[d]["c2s"] = 0
               /\ spc'[d] = "s2c" \/ sref'[d]["s2c"] # 0 => sref'[d][skind'[d]] # 0
               /\ spc'[d] = "c2s" \/ sref'[d]["c2s"] # 0 => sref'[d]["s2c"] # 0
               /\ spc'[d] = "wait" \/ Past(d)' => sref'[d]["c2s"] # 0
    <3>1. skind[d] \in Sem!Names
      BY ObjectsInUse, SemProcs
    <3> QED
      BY <1>2, <1>4, <2>2, <3>1, SemProcs DEF SemGood, ClientRefs
  <2>3. /\ \A m \in Sem!Kinds : m # skind'[c] => sref'[c][m] = 0
        /\ spc'[c] = "idle" => sref'[c][skind'[c]] = 0
        /\ spc'[c] \in {"idle", "s2c"} => sref'[c]["s2c"] = 0
        /\ spc'[c] \in {"idle", "s2c", "c2s"} => sref'[c]["c2s"] = 0
        /\ spc'[c] = "s2c" \/ sref'[c]["s2c"] # 0 => sref'[c][skind'[c]] # 0
        /\ spc'[c] = "c2s" \/ sref'[c]["c2s"] # 0 => sref'[c]["s2c"] # 0
        /\ spc'[c] = "wait" \/ Past(c)' => sref'[c]["c2s"] # 0
    <3>1. /\ \A m \in Sem!Names : sref'[c][m] = IF m = n THEN sname[n] ELSE sref[c][m]
          /\ spc'[c] = IF sname[n] = 0 THEN "done" ELSE l
          /\ skind'[c] = skind[c] /\ ~Past(c)'
      BY <1>2, <1>3, <1>4
    <3>2. \A m \in Sem!Kinds : m # skind[c] => sref[c][m] = 0 /\ m # n
      BY <1>1, SemProcs DEF SemGood, ClientRefs
    <3> QED
      BY <1>1, <1>3, <3>1, <3>2, SemProcs
  <2> QED
    BY <2>1, <2>2, <2>3 DEF ClientRefs
<1>11. GotByPc'
  BY <1>1, <1>2, <1>3 DEF SemGood, GotByPc, Answered
<1>12. OpenedInOrder'
  <2>1. ASSUME NEW s \in Servers, NEW t \in Servers, Same(c, t, n)', s # t,
               NEW m \in Sem!Names, sref[s][m] # 0, m \in Sem!Kinds => m = skind[s]
        PROVE  spc[s] = "done"
    <3>1. s \notin Sem!AtWork
      BY <1>5, <2>1 DEF SemGood, NamesOfWorker
    <3>2. spc[s] # "idle"
      BY <2>1, SemProcs DEF SemGood, ServerRefs
    <3> QED
      BY <3>1, <3>2 DEF Sem!AtWork, SemGood, NamesOfWorker
  <2>2. ASSUME NEW s \in Servers, NEW t \in Servers, NEW k \in Sem!Names, k = skind[c],
               Same(c, s, k)', Same(c, t, "s2c")', s # t
        PROVE  spc'[s] = "done"
    <3>1. CASE n = k
      <4>1. sref'[c]["s2c"] = 0
        BY <1>2, <1>3, <2>2, <3>1, SemProcs
      <4> QED
        BY <2>2, <4>1 DEF Same
    <3>2. CASE n = "s2c"
      <4>1. Same(c, s, k)
        BY <1>3, <1>4, <2>2, <3>2
      <4>2. sref[s][k] # 0 /\ k = skind[s]
        BY <1>3, <2>2, <4>1 DEF Same, SemGood, ServerRefs
      <4> QED
        BY <1>2, <1>3, <2>1, <2>2, <3>2, <4>2
    <3>3. CASE n = "c2s"
      <4>1. Same(c, s, k) /\ Same(c, t, "s2c")
        BY <1>3, <1>4, <2>2, <3>3, SemProcs
      <4> QED
        BY <1>2, <2>2, <4>1 DEF SemGood, OpenedInOrder
    <3> QED
      BY <1>1, <2>2, <3>1, <3>2, <3>3
  <2>3. ASSUME NEW s \in Servers, NEW t \in Servers, Same(c, s, "s2c")', Same(c, t, "c2s")',
               s # t
        PROVE  spc'[s] = "done"
    <3>1. CASE n # "c2s"
      <4>1. sref'[c]["c2s"] = 0
        BY <1>2, <1>3, <3>1, SemProcs
      <4> QED
        BY <2>3, <4>1 DEF Same
    <3>2. CASE n = "c2s"
      <4>1. Same(c, s, "s2c")
        BY <1>4, <2>3, <3>2, SemProcs
      <4>2. sref[s]["s2c"] # 0
        BY <4>1 DEF Same
      <4> QED
        BY <1>2, <2>1, <2>3, <3>2, <4>2, SemProcs
    <3> QED
      BY <3>1, <3>2
  <2>4. ASSUME NEW d \in Clients, d # c, NEW s \in Servers, NEW t \in Servers,
               NEW k \in Sem!Names, k = skind[d]
        PROVE  /\ Same(d, s, k)' /\ Same(d, t, "s2c")' => s = t \/ spc'[s] = "done"
               /\ Same(d, s, "s2c")' /\ Same(d, t, "c2s")' => s = t \/ spc'[s] = "done"
    BY <1>2, <1>4, <2>4, SemProcs DEF SemGood, OpenedInOrder
  <2>5. ASSUME NEW d \in Clients, NEW s \in Servers, NEW t \in Servers
        PROVE  /\ Same(d, s, skind[d])' /\ Same(d, t, "s2c")' => s = t \/ spc'[s] = "done"
               /\ Same(d, s, "s2c")' /\ Same(d, t, "c2s")' => s = t \/ spc'[s] = "done"
    <3>1. PICK k \in Sem!Names : k = skind[d]
      BY ObjectsInUse, SemProcs
    <3>2. Same(d, s, skind[d])' <=> Same(d, s, k)'
      BY <1>2, <3>1 DEF Same
    <3> QED
      BY <2>2, <2>3, <2>4, <3>1, <3>2
  <2> QED
    BY <2>5 DEF OpenedInOrder
<1>13. \A s \in Servers : /\ sref'[s]["s2c"] = sref[s]["s2c"] /\ sref'[s]["c2s"] = sref[s]["c2s"]
                          /\ Text(s)' = Text(s)
  <2>1. \A s \in Servers : skind[s] \in Sem!Names
    BY ObjectsInUse, SemProcs
  <2> QED
    BY <1>2, <1>4, <2>1, SemProcs DEF Text
<1>14. OneGreeting'
  BY <1>2, <1>4, <1>13, SemProcs DEF SemGood, OneGreeting
<1>15. OneAnswer'
  <2>1. \A s \in Servers : Answered(s)' <=> Answered(s)
    BY <1>2 DEF Answered
  <2>2. \A d \in Clients, s \in Servers : AnsweredBy(d, s) => AnsweredBy(d, s)'
    BY <1>2, <1>4, SemProcs DEF AnsweredBy
  <2> QED
    BY <1>2, <1>13, <2>1, <2>2 DEF SemGood, OneAnswer
<1>16. MemoryInStep'
  <2>1. \A d \in Clients, s \in Servers : Proper(d, s)' => Proper(d, s) /\ d # c
    <3>1. \A d \in Clients : Uses(d)' = Uses(d) /\ Uses(d) \subseteq Sem!Names
      BY <1>2, ObjectsInUse, SemProcs DEF Uses
    <3> QED
      BY <1>4, <3>1 DEF Proper
  <2> QED
    BY <1>2, <1>13, <2>1 DEF SemGood, MemoryInStep
<1>17. Sem!InStep'
  <2>1. \A d \in Clients : d # c => (Sem!OfOneServer(d)' <=> Sem!OfOneServer(d))
    <3>1. \A d \in Clients : skind'[d] = skind[d] /\ skind[d] \in Sem!Names
      BY <1>2, ObjectsInUse, SemProcs
    <3> QED
      BY <1>4, <3>1, SemProcs DEF Sem!OfOneServer
  <2>2. \A d \in Clients : Sem!OfOneServer(d)' => sgot'[d] \in {"nothing", "Hi!"}
    BY <1>2, <1>3, <2>1 DEF SemGood, Sem!InStep
  <2>3. ASSUME NEW s \in Servers, sgot'[s] \notin {"nothing", "Hello!"}
        PROVE  \E d \in Clients : ~Sem!OfOneServer(d)' /\ sref'[d]["c2s"] = sref'[s]["c2s"]
    <3>1. PICK d \in Clients : ~Sem!OfOneServer(d) /\ sref[d]["c2s"] = sref[s]["c2s"]
      BY <1>2, <2>3 DEF SemGood, Sem!InStep
    <3>2. sref[s]["c2s"] # 0
      BY <1>2, <2>3 DEF SemGood, GotByPc, Answered, ServerRefs
    <3>3. d # c
      BY <1>3, <3>1, <3>2
    <3> QED
      BY <1>4, <1>13, <2>1, <3>1, <3>3, SemProcs
  <2> QED
    BY <2>2, <2>3 DEF Sem!InStep
<1> QED
  BY <1>7, <1>8, <1>9, <1>10, <1>11, <1>12, <1>14, <1>15, <1>16, <1>17 DEF SemGood

\* The server whose semaphore s2c a client has opened: it is the only one, and until the
\* client's greeting is there it is not done.
LEMMA GreetingOf ==
    ASSUME Sem!TypeOK, SemGood, NEW c \in Clients, sref[c]["s2c"] # 0
    PROVE  /\ \E s \in Servers : Same(c, s, "s2c")
           /\ \A s, t \in Servers : \A n \in Sem!Names : Same(c, s, n) /\ Same(c, t, n) => s = t
<1>1. \E s \in Servers : Same(c, s, "s2c")
  BY SemProcs DEF SemGood, ClientRefs
<1>2. \A s, t \in Servers : \A n \in Sem!Names : Same(c, s, n) /\ Same(c, t, n) => s = t
  <2>1. \A s, t \in Servers : \A n \in Sem!Names : Same(c, s, n) /\ Same(c, t, n) => Same(s, t, n)
    BY DEF Same
  <2> QED
    BY <2>1 DEF SemGood, Numbered
<1> QED
  BY <1>1, <1>2

\* The client takes the greeting of a server whose other semaphore it has, too.
LEMMA TakeGreetingKeeps ==
    ASSUME Sem!TypeOK, SemGood, ~scrashed, NEW c \in Clients, Sem!WaitS2C(c)
    PROVE  SemGood'
<1>1. /\ Sem!Goto(c, "show") /\ spc[c] = "wait" /\ Sem!Wait(c, "s2c")
      /\ UNCHANGED <<skind, sname, smade, memory, sref, sgot, scrashed>>
  BY DEF Sem!WaitS2C, Sem!Wait
<1>2. /\ NamesOfWorker' /\ ServerRefs' /\ ClientRefs' /\ OpenedInOrder'
      /\ \A t \in Servers : spc'[t] = spc[t]
      /\ \A d \in Clients : spc'[d] = IF d = c THEN "show" ELSE spc[d]
      /\ \A d \in Clients : d # c => (Past(d)' <=> Past(d))
      /\ \A p, q, n : Same(p, q, n)' <=> Same(p, q, n)
      /\ \A d \in Clients : Sem!OfOneServer(d)' <=> Sem!OfOneServer(d)
  BY <1>1, ClientStays
<1>3. /\ value["s2c"][sref[c]["s2c"]] > 0
      /\ \A m \in {"s2c", "c2s"}, o \in Sem!Objects :
            value'[m][o] = IF m = "s2c" /\ o = sref[c]["s2c"] THEN value[m][o] - 1
                           ELSE value[m][o]
  BY <1>1, WaitValue, SemProcs
<1>4. sref[c]["c2s"] # 0 /\ sref[c]["s2c"] # 0 /\ ~Past(c) /\ sgot[c] = "nothing"
  <2>1. sgot[c] = "nothing"
    BY <1>1 DEF SemGood, GotByPc
  <2> QED
    BY <1>1, <2>1 DEF SemGood, ClientRefs, Past
<1>5. PICK s \in Servers : Same(c, s, "s2c")
  BY <1>4, GreetingOf
<1>6. /\ sref[s]["s2c"] = sref[c]["s2c"] /\ sref[s]["s2c"] # 0
      /\ \A t \in Servers : Same(c, t, "s2c") => t = s
  BY <1>4, <1>5, GreetingOf, SemProcs DEF Same
<1>7. /\ \A t \in Servers : sref[t]["s2c"] \in Sem!Objects /\ sref[t]["c2s"] \in Sem!Objects
      /\ \A m \in {"s2c", "c2s"}, o \in Sem!Objects : value[m][o] \in Nat
      /\ \A t \in Servers : sref'[t] = sref[t]
      /\ \A t \in Servers : t # s => sref[t]["s2c"] # sref[c]["s2c"]
  <2>1. \A t \in Servers : t # s => sref[t]["s2c"] # sref[c]["s2c"]
    BY <1>4, <1>6 DEF Same
  <2> QED
    BY <1>1, <2>1, ObjectsInUse, SemProcs
<1>8. /\ value["s2c"][sref[s]["s2c"]] = 1 /\ value'["s2c"][sref[s]["s2c"]] = 0
      /\ \A t \in Servers : t # s => value'["s2c"][sref[t]["s2c"]] = value["s2c"][sref[t]["s2c"]]
      /\ \A t \in Servers : value'["c2s"][sref[t]["c2s"]] = value["c2s"][sref[t]["c2s"]]
  <2>1. value["s2c"][sref[s]["s2c"]] <= 1
    BY <1>6 DEF SemGood, OneGreeting
  <2>2. value["s2c"][sref[s]["s2c"]] = 1
    BY <1>3, <1>6, <1>7, <2>1
  <2> QED
    BY <1>3, <1>6, <1>7, <2>2
<1>9. \A d \in Clients : Past(d) => ~Same(d, s, "s2c")
  BY <1>8 DEF SemGood, OneGreeting
<1>10. Same(c, s, "c2s")
  <2>1. PICK t \in Servers : Same(c, t, "c2s")
    BY <1>4, SemProcs DEF SemGood, ClientRefs
  <2>2. spc[s] # "done"
    <3>1. Answered(s) => \E d \in Clients : AnsweredBy(d, s)
      BY DEF SemGood, OneAnswer
    <3>2. \A d \in Clients : ~AnsweredBy(d, s)
      BY <1>9 DEF AnsweredBy
    <3> QED
      BY <3>1, <3>2 DEF Answered
  <2> QED
    BY <1>5, <2>1, <2>2 DEF SemGood, OpenedInOrder
<1>11. Past(c)'
  BY <1>2 DEF Past
<1>12. Numbered'
  <2>1. sref[c]["s2c"] <= smade["s2c"] /\ sref[c]["s2c"] \in Nat /\ smade["s2c"] \in Nat
    BY ObjectsInUse, SemProcs DEF SemGood, Numbered
  <2>2. \A m \in {"s2c", "c2s"}, o \in Sem!Objects : o > smade[m] => value'[m][o] = 0
    BY <1>3, <2>1 DEF SemGood, Numbered
  <2> QED
    BY <1>1, <1>2, <2>2 DEF SemGood, Numbered
<1>13. GotByPc'
  BY <1>1, <1>2, <1>4 DEF SemGood, GotByPc, Answered
<1>14. OneGreeting'
  <2>1. \A t \in Servers : sref'[t]["s2c"] # 0 => value'["s2c"][sref'[t]["s2c"]] <= 1
    BY <1>7, <1>8 DEF SemGood, OneGreeting
  <2>2. \A t \in Servers : spc'[t] \in {"c2s", "write", "post"} =>
            /\ value'["s2c"][sref'[t]["s2c"]] = 0
            /\ \A d \in Clients : Past(d)' => ~Same(d, t, "s2c")'
    <3>1. \A t \in Servers : spc[t] \in {"c2s", "write", "post"} => t # s
      BY <1>8 DEF SemGood, OneGreeting
    <3> QED
      BY <1>2, <1>6, <1>7, <1>8, <3>1 DEF SemGood, OneGreeting
  <2>3. \A t \in Servers, d \in Clients : Past(d)' /\ Same(d, t, "s2c")' =>
            value'["s2c"][sref'[t]["s2c"]] = 0 /\ Same(d, t, "c2s")'
    <3>1. \A t \in Servers, d \in Clients : Past(d) /\ Same(d, t, "s2c") => t # s
      BY <1>9
    <3> QED
      BY <1>2, <1>6, <1>7, <1>8, <1>10, <3>1 DEF SemGood, OneGreeting
  <2>4. \A d, e \in Clients : Past(d)' /\ Past(e)' /\ Same(d, e, "s2c")' => d = e
    <3>1. \A d \in Clients : Past(d) => ~Same(c, d, "s2c") /\ ~Same(d, c, "s2c")
      BY <1>5, <1>9 DEF Same
    <3> QED
      BY <1>2, <3>1 DEF SemGood, OneGreeting
  <2> QED
    BY <2>1, <2>2, <2>3, <2>4 DEF OneGreeting
<1>15. OneAnswer'
  <2>1. \A t \in Servers : Answered(t)' <=> Answered(t)
    BY <1>2 DEF Answered
  <2>2. \A d \in Clients, t \in Servers : AnsweredBy(d, t) => AnsweredBy(d, t)'
    BY <1>2, <1>4 DEF AnsweredBy
  <2> QED
    BY <1>7, <1>8, <2>1, <2>2 DEF SemGood, OneAnswer
<1>16. MemoryInStep'
  <2>1. \A t \in Servers : Text(t)' = Text(t)
    BY <1>1, <1>7 DEF Text
  <2>2. \A d \in Clients, t \in Servers : d # c /\ Proper(d, t)' => Proper(d, t)
    BY <1>1, <1>2 DEF Proper, Uses
  <2>3. \A t \in Servers : Proper(c, t)' => t = s
    BY <1>2, <1>6 DEF Proper, Uses
  <2>4. Text(s) = "Hi!"
    BY <1>6, <1>8 DEF SemGood, MemoryInStep
  <2>5. /\ \A t \in Servers : spc'[t] = "post" => Text(t)' = "Hi!"
        /\ \A t \in Servers :
              sref'[t]["s2c"] # 0 /\ value'["s2c"][sref'[t]["s2c"]] > 0 => Text(t)' = "Hi!"
    BY <1>2, <1>7, <1>8, <2>1 DEF SemGood, MemoryInStep
  <2>6. \A t \in Servers, d \in Clients : Proper(d, t)' =>
              /\ spc'[d] = "show" => Text(t)' = "Hi!"
              /\ spc'[d] \in {"post", "done"} => Text(t)' = "Hello!"
    BY <1>2, <2>1, <2>2, <2>3, <2>4 DEF SemGood, MemoryInStep
  <2> QED
    BY <2>5, <2>6 DEF MemoryInStep
<1>17. Sem!InStep'
  BY <1>1, <1>2 DEF SemGood, Sem!InStep
<1> QED
  BY <1>2, <1>12, <1>13, <1>14, <1>15, <1>16, <1>17 DEF SemGood

\* A step of a client that has taken the greeting, and touches no semaphore.
LEMMA TakerMoves ==
    ASSUME Sem!TypeOK, SemGood, NEW c \in Clients, NEW l, Sem!Goto(c, l),
           \/ spc[c] = "show" /\ l = "write"
           \/ spc[c] = "write" /\ l = "post"
           \/ l = "killed" /\ spc[c] # "done",
           UNCHANGED <<skind, sname, smade, value, sref>>,
           \A p \in Sem!Procs : p # c => sgot'[p] = sgot[p],
           IF spc[c] = "show" /\ l = "write" THEN sgot'[c] # "nothing" ELSE sgot'[c] = sgot[c]
    PROVE  /\ Numbered' /\ GotByPc' /\ OneGreeting' /\ OneAnswer'
           /\ NamesOfWorker' /\ ServerRefs' /\ ClientRefs' /\ OpenedInOrder'
           /\ \A t \in Servers : spc'[t] = spc[t]
           /\ \A d \in Clients : spc'[d] = IF d = c THEN l ELSE spc[d]
           /\ \A d \in Clients : Past(d)' => Past(d)
           /\ \A p, q, n : Same(p, q, n)' <=> Same(p, q, n)
           /\ \A d \in Clients : Sem!OfOneServer(d)' <=> Sem!OfOneServer(d)
<1>1. /\ NamesOfWorker' /\ ServerRefs' /\ ClientRefs' /\ OpenedInOrder'
      /\ \A t \in Servers : spc'[t] = spc[t]
      /\ \A d \in Clients : spc'[d] = IF d = c THEN l ELSE spc[d]
      /\ \A d \in Clients : d # c => (Past(d)' <=> Past(d))
      /\ \A p, q, n : Same(p, q, n)' <=> Same(p, q, n)
      /\ \A d \in Clients : Sem!OfOneServer(d)' <=> Sem!OfOneServer(d)
  <2>1. \A d \in Clients : d # c => sgot'[d] = sgot[d]
    BY SemProcs
  <2>2. sgot'[c] # sgot[c] => spc[c] = "show" /\ l = "write"
    OBVIOUS
  <2> QED
    BY <2>1, <2>2, ClientStays
<1>2. \A d \in Clients : Past(d)' => Past(d)
  <2>1. Past(c)' => Past(c)
    BY <1>1 DEF Past
  <2> QED
    BY <1>1, <2>1
<1>3. Numbered'
  BY <1>1 DEF SemGood, Numbered
<1>4. GotByPc'
  <2>1. \A s \in Servers : sgot'[s] = sgot[s]
    BY SemProcs
  <2>2. \A d \in Clients : d # c => sgot'[d] = sgot[d]
    BY SemProcs
  <2>3. /\ sgot'[c] # "nothing" => spc'[c] \in {"write", "post", "done", "killed"}
        /\ spc'[c] \in {"write", "post"} => sgot'[c] # "nothing"
    BY <1>1 DEF SemGood, GotByPc
  <2>4. \A d \in Clients :
          /\ sgot'[d] # "nothing" => spc'[d] \in {"write", "post", "done", "killed"}
          /\ spc'[d] \in {"write", "post"} => sgot'[d] # "nothing"
    BY <1>1, <2>2, <2>3 DEF SemGood, GotByPc
  <2>5. \A s \in Servers : sgot'[s] # "nothing" => Answered(s)' /\ spc'[s] # "show"
    BY <1>1, <2>1 DEF SemGood, GotByPc, Answered
  <2> QED
    BY <2>4, <2>5 DEF GotByPc
<1>5. OneGreeting'
  BY <1>1, <1>2 DEF SemGood, OneGreeting
<1>6. OneAnswer'
  <2>1. \A s \in Servers : Answered(s)' <=> Answered(s)
    BY <1>1 DEF Answered
  <2>2. \A d \in Clients, s \in Servers : AnsweredBy(d, s) => AnsweredBy(d, s)'
    <3>1. \A s \in Servers : ~AnsweredBy(c, s)
      BY DEF AnsweredBy
    <3> QED
      BY <1>1, <3>1 DEF AnsweredBy
  <2> QED
    BY <2>1, <2>2 DEF SemGood, OneAnswer
<1> QED
  BY <1>1, <1>2, <1>3, <1>4, <1>5, <1>6

\* The client displays what is in its memory: the greeting, if that is its server's.
LEMMA ShowGreetingKeeps ==
    ASSUME Sem!TypeOK, SemGood, ~scrashed, NEW c \in Clients, Sem!ShowGreeting(c)
    PROVE  SemGood'
<1>1. /\ Sem!Goto(c, "write") /\ spc[c] = "show"
      /\ UNCHANGED <<skind, sname, smade, memory, value, sref, scrashed>>
      /\ \A p \in Sem!Procs : sgot'[p] = IF p = c THEN memory[skind[c]][sref[c][skind[c]]] ELSE sgot[p]
  BY SemProcs DEF Sem!ShowGreeting, Sem!Show, Sem!TypeOK, Sem!system
<1>2. sgot'[c] # "nothing"
  <2>1. memory[skind[c]][sref[c][skind[c]]] \in Sem!Texts
    BY ObjectsInUse, SemProcs DEF Sem!TypeOK
  <2> QED
    BY <1>1, <2>1, SemProcs DEF Sem!Texts
<1>3. /\ Numbered' /\ GotByPc' /\ OneGreeting' /\ OneAnswer'
      /\ NamesOfWorker' /\ ServerRefs' /\ ClientRefs' /\ OpenedInOrder'
      /\ \A t \in Servers : spc'[t] = spc[t]
      /\ \A d \in Clients : spc'[d] = IF d = c THEN "write" ELSE spc[d]
      /\ \A d \in Clients : Past(d)' => Past(d)
      /\ \A p, q, n : Same(p, q, n)' <=> Same(p, q, n)
      /\ \A d \in Clients : Sem!OfOneServer(d)' <=> Sem!OfOneServer(d)
  BY <1>1, <1>2, TakerMoves
<1>4. MemoryInStep'
  <2>1. /\ \A t \in Servers : Text(t)' = Text(t)
        /\ \A d \in Clients, t \in Servers : Proper(d, t)' => Proper(d, t)
    BY <1>1, <1>3 DEF Text, Proper, Uses
  <2> QED
    BY <1>1, <1>3, <2>1 DEF SemGood, MemoryInStep
<1>5. Sem!OfOneServer(c) => sgot'[c] = "Hi!"
  <2>1. SUFFICES ASSUME Sem!OfOneServer(c) PROVE sgot'[c] = "Hi!"
    OBVIOUS
  <2>2. Past(c) /\ sref[c]["c2s"] # 0
    BY <1>1 DEF Past, SemGood, ClientRefs
  <2>3. PICK s \in Servers : \A n \in Uses(c) : Same(c, s, n)
    BY <2>1, <2>2, OneServerIsSame DEF SemGood
  <2>4. Same(c, s, skind[c]) /\ skind[c] \in Sem!Kinds
    BY <2>3, ObjectsInUse, SemProcs DEF Uses
  <2>5. skind[s] = skind[c] /\ sref[s][skind[s]] = sref[c][skind[c]]
    BY <2>4 DEF Same, SemGood, ServerRefs
  <2>6. Text(s) = "Hi!"
    BY <1>1, <2>2, <2>3 DEF Proper, SemGood, MemoryInStep
  <2> QED
    BY <1>1, <2>5, <2>6, SemProcs DEF Text
<1>6. Sem!InStep'
  <2>1. \A d \in Clients : Sem!OfOneServer(d)' => sgot'[d] \in {"nothing", "Hi!"}
    BY <1>1, <1>3, <1>5, SemProcs DEF SemGood, Sem!InStep
  <2>2. \A s \in Servers :
            \/ sgot'[s] \in {"nothing", "Hello!"}
            \/ \E d \in Clients : ~Sem!OfOneServer(d)' /\ sref'[d]["c2s"] = sref'[s]["c2s"]
    BY <1>1, <1>3, SemProcs DEF SemGood, Sem!InStep
  <2> QED
    BY <2>1, <2>2 DEF Sem!InStep
<1> QED
  BY <1>3, <1>4, <1>6 DEF SemGood

\* The client writes its answer into the memory it has opened.  The server of that memory
\* has no greeting left to give away, and no other client of all its objects that has yet
\* to display it.
LEMMA AnswerKeeps ==
    ASSUME Sem!TypeOK, SemGood, ~scrashed, NEW c \in Clients,
           spc[c] = "write", Sem!Write(c, "Hello!"), Sem!Goto(c, "post")
    PROVE  SemGood'
<1>1. UNCHANGED <<skind, sname, smade, value, sref, sgot, scrashed>>
  BY DEF Sem!Write
<1>2. /\ Numbered' /\ GotByPc' /\ OneGreeting' /\ OneAnswer'
      /\ NamesOfWorker' /\ ServerRefs' /\ ClientRefs' /\ OpenedInOrder'
      /\ \A t \in Servers : spc'[t] = spc[t]
      /\ \A d \in Clients : spc'[d] = IF d = c THEN "post" ELSE spc[d]
      /\ \A d \in Clients : Past(d)' => Past(d)
      /\ \A p, q, n : Same(p, q, n)' <=> Same(p, q, n)
      /\ \A d \in Clients : Sem!OfOneServer(d)' <=> Sem!OfOneServer(d)
  BY <1>1, TakerMoves
<1>3. Past(c) /\ sref[c]["c2s"] # 0 /\ sref[c]["s2c"] # 0 /\ sref[c][skind[c]] # 0
  BY DEF Past, SemGood, ClientRefs
<1>4. PICK k \in Sem!Kinds : k = skind[c] /\ k \in Sem!Names
  BY ObjectsInUse, SemProcs
<1>5. PICK s \in Servers : Same(c, s, k)
  BY <1>3, <1>4 DEF SemGood, ClientRefs
<1>6. skind[s] = k /\ \A t \in Servers : Same(c, t, k) => t = s
  <2>1. skind[s] = k
    BY <1>5 DEF Same, SemGood, ServerRefs
  <2> QED
    BY <1>3, <1>4, <1>5, <2>1, GreetingOf
<1>7. PICK t \in Servers : Same(c, t, "s2c")
  BY <1>3, GreetingOf
<1>8. s = t \/ spc[s] = "done"
  BY <1>4, <1>5, <1>7 DEF SemGood, OpenedInOrder
<1>9. PICK e \in Clients : Past(e) /\ Same(e, s, "s2c") /\ (e = c \/ spc[e] = "done")
  <2>1. CASE s = t
    BY <1>3, <1>7, <2>1
  <2>2. CASE spc[s] = "done"
    <3>1. \E d \in Clients : AnsweredBy(d, s)
      BY <2>2 DEF Answered, SemGood, OneAnswer
    <3> QED
      BY <3>1 DEF AnsweredBy
  <2> QED
    BY <1>8, <2>1, <2>2
<1>10. /\ spc[s] # "post" /\ value["s2c"][sref[s]["s2c"]] = 0
       /\ \A d \in Clients : Past(d) /\ Same(d, s, "s2c") => d = e
  <2>1. \A d \in Clients : Past(d) /\ Same(d, s, "s2c") => Same(d, e, "s2c")
    BY <1>9 DEF Same
  <2> QED
    BY <1>9, <2>1 DEF SemGood, OneGreeting
<1>11. \A u \in Servers : Text(u)' = IF u = s THEN "Hello!" ELSE Text(u)
  <2>1. /\ \A u \in Servers : skind[u] \in Sem!Kinds /\ sref[u][skind[u]] \in Sem!Objects
        /\ sref[c][k] \in Sem!Objects
    BY <1>4, ObjectsInUse, SemProcs
  <2>2. \A m \in Sem!Kinds, o \in Sem!Objects :
           memory'[m][o] = IF m = k /\ o = sref[c][k] THEN "Hello!" ELSE memory[m][o]
    BY <1>4, <2>1 DEF Sem!Write, Sem!TypeOK
  <2>3. \A u \in Servers : skind[u] = k /\ sref[u][skind[u]] = sref[c][k] <=> u = s
    BY <1>3, <1>4, <1>5, <1>6 DEF Same
  <2> QED
    BY <1>1, <2>1, <2>2, <2>3 DEF Text
<1>12. MemoryInStep'
  <2>1. \A d \in Clients, u \in Servers : Proper(d, u)' => Proper(d, u)
    BY <1>1, <1>2 DEF Proper, Uses
  <2>2. \A u \in Servers : Proper(c, u) => u = s
    BY <1>4, <1>6 DEF Proper, Uses
  <2>3. \A d \in Clients : Proper(d, s) => d = e
    BY <1>10 DEF Proper, Uses
  <2>4. /\ \A u \in Servers : spc'[u] = "post" => Text(u)' = "Hi!"
        /\ \A u \in Servers :
              sref'[u]["s2c"] # 0 /\ value'["s2c"][sref'[u]["s2c"]] > 0 => Text(u)' = "Hi!"
    BY <1>1, <1>2, <1>10, <1>11 DEF SemGood, MemoryInStep
  <2>5. \A u \in Servers, d \in Clients : Proper(d, u)' =>
              /\ spc'[d] = "show" => Text(u)' = "Hi!"
              /\ spc'[d] \in {"post", "done"} => Text(u)' = "Hello!"
    BY <1>2, <1>9, <1>11, <2>1, <2>2, <2>3 DEF SemGood, MemoryInStep
  <2> QED
    BY <2>4, <2>5 DEF MemoryInStep
<1>13. Sem!InStep'
  BY <1>1, <1>2 DEF SemGood, Sem!InStep
<1> QED
  BY <1>2, <1>12, <1>13 DEF SemGood

\* The client posts c2s: the semaphore of the server whose greeting it took.
LEMMA PostAnswerKeeps ==
    ASSUME Sem!TypeOK, SemGood, ~scrashed, NEW c \in Clients,
           spc[c] = "post", Sem!Post(c, "c2s"), Sem!Goto(c, "done")
    PROVE  SemGood'
<1>1. UNCHANGED <<skind, sname, smade, memory, sref, sgot, scrashed>>
  BY DEF Sem!Post
<1>2. /\ NamesOfWorker' /\ ServerRefs' /\ ClientRefs' /\ OpenedInOrder'
      /\ \A t \in Servers : spc'[t] = spc[t]
      /\ \A d \in Clients : spc'[d] = IF d = c THEN "done" ELSE spc[d]
      /\ \A d \in Clients : d # c => (Past(d)' <=> Past(d))
      /\ \A p, q, n : Same(p, q, n)' <=> Same(p, q, n)
      /\ \A d \in Clients : Sem!OfOneServer(d)' <=> Sem!OfOneServer(d)
  BY <1>1, ClientStays
<1>3. Past(c) /\ Past(c)' /\ sgot[c] # "nothing" /\ sref[c]["c2s"] # 0 /\ sref[c]["s2c"] # 0
  <2>1. sgot[c] # "nothing"
    BY DEF SemGood, GotByPc
  <2> QED
    BY <1>1, <2>1 DEF Past, SemGood, ClientRefs
<1>4. \A m \in {"s2c", "c2s"}, o \in Sem!Objects :
         value'[m][o] = IF m = "c2s" /\ o = sref[c]["c2s"] THEN value[m][o] + 1 ELSE value[m][o]
  BY PostValue, SemProcs
<1>5. PICK s \in Servers : Same(c, s, "s2c")
  BY <1>3, GreetingOf
<1>6. Same(c, s, "c2s") /\ \A t \in Servers : Same(c, t, "c2s") => t = s
  <2>1. Same(c, s, "c2s")
    BY <1>3, <1>5 DEF SemGood, OneGreeting
  <2> QED
    BY <1>3, <2>1, GreetingOf, SemProcs
<1>7. /\ \A t \in Servers : sref[t]["s2c"] \in Sem!Objects /\ sref[t]["c2s"] \in Sem!Objects
      /\ \A m \in {"s2c", "c2s"}, o \in Sem!Objects : value[m][o] \in Nat
      /\ \A t \in Servers : sref'[t] = sref[t]
      /\ \A t \in Servers : t # s => sref[t]["c2s"] # sref[c]["c2s"]
  <2>1. \A t \in Servers : t # s => sref[t]["c2s"] # sref[c]["c2s"]
    BY <1>3, <1>6 DEF Same
  <2> QED
    BY <1>1, <2>1, ObjectsInUse, SemProcs
<1>8. /\ \A t \in Servers : value'["s2c"][sref[t]["s2c"]] = value["s2c"][sref[t]["s2c"]]
      /\ \A t \in Servers : t # s => value'["c2s"][sref[t]["c2s"]] = value["c2s"][sref[t]["c2s"]]
  BY <1>4, <1>7
<1>9. Numbered'
  <2>1. sref[c]["c2s"] <= smade["c2s"] /\ sref[c]["c2s"] \in Nat /\ smade["c2s"] \in Nat
    BY ObjectsInUse, SemProcs DEF SemGood, Numbered
  <2>2. \A m \in {"s2c", "c2s"}, o \in Sem!Objects : o > smade[m] => value'[m][o] = 0
    BY <1>4, <2>1 DEF SemGood, Numbered
  <2> QED
    BY <1>1, <1>2, <2>2 DEF SemGood, Numbered
<1>10. GotByPc'
  BY <1>1, <1>2 DEF SemGood, GotByPc, Answered
<1>11. OneGreeting'
  <2>1. \A d \in Clients : Past(d)' <=> Past(d)
    BY <1>2, <1>3
  <2> QED
    BY <1>2, <1>7, <1>8, <2>1 DEF SemGood, OneGreeting
<1>12. OneAnswer'
  <2>1. \A t \in Servers : Answered(t)' <=> Answered(t)
    BY <1>2 DEF Answered
  <2>2. \A d \in Clients, t \in Servers : AnsweredBy(d, t) => AnsweredBy(d, t)'
    BY <1>2, <1>3 DEF AnsweredBy
  <2>3. AnsweredBy(c, s)'
    BY <1>2, <1>3, <1>5, <1>6 DEF AnsweredBy
  <2> QED
    BY <1>7, <1>8, <2>1, <2>2, <2>3 DEF SemGood, OneAnswer
<1>13. MemoryInStep'
  <2>1. /\ \A t \in Servers : Text(t)' = Text(t)
        /\ \A d \in Clients, t \in Servers : Proper(d, t)' => Proper(d, t)
    BY <1>1, <1>2, <1>3 DEF Text, Proper, Uses
  <2> QED
    BY <1>2, <1>7, <1>8, <2>1 DEF SemGood, MemoryInStep
<1>14. Sem!InStep'
  BY <1>1, <1>2 DEF SemGood, Sem!InStep
<1> QED
  BY <1>2, <1>9, <1>10, <1>11, <1>12, <1>13, <1>14 DEF SemGood

\* A client that is killed leaves everything as it is.
LEMMA KillKeeps ==
    ASSUME Sem!TypeOK, SemGood, ~scrashed, NEW c \in Clients, Sem!Kill(c)
    PROVE  SemGood'
<1>1. /\ Sem!Goto(c, "killed") /\ spc[c] # "done"
      /\ UNCHANGED <<skind, sname, smade, memory, value, sref, sgot>>
  BY DEF Sem!Kill, Sem!system
<1>2. /\ Numbered' /\ GotByPc' /\ OneGreeting' /\ OneAnswer'
      /\ NamesOfWorker' /\ ServerRefs' /\ ClientRefs' /\ OpenedInOrder'
      /\ \A t \in Servers : spc'[t] = spc[t]
      /\ \A d \in Clients : spc'[d] = IF d = c THEN "killed" ELSE spc[d]
      /\ \A d \in Clients : Past(d)' => Past(d)
      /\ \A p, q, n : Same(p, q, n)' <=> Same(p, q, n)
      /\ \A d \in Clients : Sem!OfOneServer(d)' <=> Sem!OfOneServer(d)
  <2>1. ~(spc[c] = "show" /\ "killed" = "write")
    OBVIOUS
  <2> QED
    BY <1>1, <2>1, TakerMoves
<1>3. MemoryInStep'
  <2>1. /\ \A t \in Servers : Text(t)' = Text(t)
        /\ \A d \in Clients, t \in Servers : Proper(d, t)' => Proper(d, t)
    BY <1>1, <1>2 DEF Text, Proper, Uses
  <2> QED
    BY <1>1, <1>2, <2>1 DEF SemGood, MemoryInStep
<1>4. Sem!InStep'
  BY <1>1, <1>2 DEF SemGood, Sem!InStep
<1> QED
  BY <1>2, <1>3, <1>4 DEF SemGood

LEMMA SemInvInit == Sem!Init => SemInv
<1> SUFFICES ASSUME Sem!Init PROVE SemInv
  OBVIOUS
<1>1. Sem!TypeOK
  BY SemTypeInit
<1>2. /\ \A p \in Sem!Procs : spc[p] = "idle" /\ sgot[p] = "nothing" /\ skind[p] \in Sem!Names
      /\ \A p \in Sem!Procs, n \in Sem!Names : sref[p][n] = 0
      /\ \A n \in Sem!Names : sname[n] = 0 /\ smade[n] = 0
      /\ \A n \in {"s2c", "c2s"}, o \in Sem!Objects : value[n][o] = 0
  BY <1>1, ObjectsInUse, SemProcs DEF Sem!Init
<1>3. /\ \A c \in Clients : ~Past(c)
      /\ \A p \in Sem!Procs : \A q : \A n \in Sem!Names : ~Same(p, q, n)
      /\ \A s \in Servers : ~Answered(s)
  BY <1>2, SemProcs DEF Past, Same, Answered
<1>4. NamesOfWorker /\ Numbered /\ ServerRefs
  <2>1. NamesOfWorker
    BY <1>2, SemProcs DEF NamesOfWorker, Sem!AtWork
  <2>2. Numbered
    BY <1>2, <1>3, SemProcs DEF Numbered
  <2>3. ServerRefs
    BY <1>2, SemProcs DEF ServerRefs
  <2> QED
    BY <2>1, <2>2, <2>3
<1>5. ClientRefs
  BY <1>2, <1>3, SemProcs DEF ClientRefs
<1>6. GotByPc /\ OpenedInOrder /\ OneGreeting /\ OneAnswer
  <2>1. GotByPc
    BY <1>2, SemProcs DEF GotByPc
  <2>2. OpenedInOrder
    BY <1>3, SemProcs DEF OpenedInOrder
  <2>3. OneGreeting
    BY <1>2, <1>3, SemProcs DEF OneGreeting
  <2>4. OneAnswer
    BY <1>2, <1>3, SemProcs DEF OneAnswer
  <2> QED
    BY <2>1, <2>2, <2>3, <2>4
<1>7. MemoryInStep
  BY <1>2, <1>3, SemProcs DEF MemoryInStep, Proper
<1>8. Sem!InStep
  BY <1>2, SemProcs DEF Sem!InStep
<1> QED
  BY <1>1, <1>4, <1>5, <1>6, <1>7, <1>8 DEF SemInv, SemGood

LEMMA SemInvStep == SemInv /\ [Sem!Next]_(Sem!vars) => SemInv'
<1> SUFFICES ASSUME SemInv, [Sem!Next]_(Sem!vars) PROVE SemInv'
  OBVIOUS
<1>1. Sem!TypeOK /\ Sem!TypeOK'
  BY SemTypeStep DEF SemInv
<1>2. scrashed => scrashed'
  <2>1. ASSUME NEW s \in Servers,
               \/ Sem!Start(s) \/ Sem!OpenMemory(s) \/ Sem!OpenS2C(s) \/ Sem!OpenC2S(s) \/ Sem!Greet(s)
               \/ Sem!PostS2C(s) \/ Sem!WaitC2S(s) \/ Sem!ShowAnswer(s)
               \/ Sem!UnlinkMemory(s) \/ Sem!UnlinkS2C(s) \/ Sem!UnlinkC2S(s)
        PROVE  UNCHANGED scrashed
    BY <2>1 DEF Sem!Start, Sem!OpenMemory, Sem!OpenS2C, Sem!OpenC2S, Sem!Create, Sem!Greet, Sem!Write, Sem!PostS2C, Sem!Post,
                Sem!WaitC2S, Sem!Wait, Sem!ShowAnswer, Sem!Show, Sem!UnlinkMemory, Sem!UnlinkS2C, Sem!UnlinkC2S, Sem!Unlink
  <2>2. ASSUME NEW c \in Clients,
               \/ Sem!FindMemory(c) \/ Sem!FindS2C(c) \/ Sem!FindC2S(c) \/ Sem!WaitS2C(c)
               \/ Sem!ShowGreeting(c) \/ Sem!Answer(c)
        PROVE  UNCHANGED scrashed
    BY <2>2 DEF Sem!FindMemory, Sem!FindS2C, Sem!FindC2S, Sem!Find, Sem!WaitS2C, Sem!Wait, Sem!ShowGreeting, Sem!Show,
                Sem!Answer, Sem!Write, Sem!Post
  <2>3. ASSUME NEW p \in Sem!Procs, Sem!Kill(p) PROVE scrashed => scrashed'
    BY <2>3 DEF Sem!Kill
  <2> QED
    BY <2>1, <2>2, <2>3 DEF Sem!Next, Sem!vars
<1>3. SUFFICES ASSUME ~scrashed, SemGood PROVE scrashed' \/ SemGood'
  BY <1>1, <1>2 DEF SemInv
<1>4. ASSUME NEW s \in Servers,
             \/ Sem!Start(s) \/ Sem!OpenMemory(s) \/ Sem!OpenS2C(s) \/ Sem!OpenC2S(s) \/ Sem!Greet(s)
             \/ Sem!PostS2C(s) \/ Sem!WaitC2S(s) \/ Sem!ShowAnswer(s)
             \/ Sem!UnlinkMemory(s) \/ Sem!UnlinkS2C(s) \/ Sem!UnlinkC2S(s)
      PROVE  SemGood'
  BY <1>1, <1>3, <1>4, StartKeeps, OpenKeeps, GreetKeeps, PostKeeps, TakeAnswerKeeps,
     ShowAnswerKeeps, UnlinkKeeps
<1>5. ASSUME NEW c \in Clients,
             \/ Sem!FindMemory(c) \/ Sem!FindS2C(c) \/ Sem!FindC2S(c) \/ Sem!WaitS2C(c)
             \/ Sem!ShowGreeting(c) \/ Sem!Answer(c)
      PROVE  SemGood'
  BY <1>1, <1>3, <1>5, FindKeeps, TakeGreetingKeeps, ShowGreetingKeeps, AnswerKeeps,
     PostAnswerKeeps DEF Sem!Answer
<1>6. ASSUME NEW p \in Sem!Procs, Sem!Kill(p) PROVE scrashed' \/ SemGood'
  <2>1. CASE p \in Servers
    BY <1>6, <2>1 DEF Sem!Kill
  <2>2. CASE p \in Clients
    BY <1>1, <1>3, <1>6, <2>2, KillKeeps
  <2> QED
    BY <2>1, <2>2 DEF Sem!Procs
<1>7. CASE UNCHANGED Sem!vars
  <2>1. UNCHANGED <<skind, spc, sname, smade, memory, value, sref, sgot, scrashed>>
    BY <1>7 DEF Sem!vars, Sem!system
  <2>2. /\ \A c \in Clients : Past(c)' <=> Past(c)
        /\ \A p, q, n : Same(p, q, n)' <=> Same(p, q, n)
        /\ \A c \in Clients : Sem!OfOneServer(c)' <=> Sem!OfOneServer(c)
        /\ \A s \in Servers : Answered(s)' <=> Answered(s)
        /\ \A s \in Servers : \A n : InPlace(s, n)' <=> InPlace(s, n)
        /\ \A s \in Servers : Text(s)' = Text(s)
    BY <2>1 DEF Past, Same, Sem!OfOneServer, Answered, InPlace, Text
  <2>3. \A c \in Clients, s \in Servers : /\ AnsweredBy(c, s)' <=> AnsweredBy(c, s)
                                          /\ Proper(c, s)' <=> Proper(c, s)
    BY <2>1, <2>2 DEF AnsweredBy, Proper, Uses
  <2>4. NamesOfWorker' /\ Numbered' /\ ServerRefs' /\ ClientRefs' /\ GotByPc'
    BY <1>3, <2>1, <2>2 DEF SemGood, NamesOfWorker, Sem!AtWork, Numbered, ServerRefs, ClientRefs,
                            GotByPc
  <2>5. OpenedInOrder' /\ OneGreeting' /\ OneAnswer' /\ MemoryInStep' /\ Sem!InStep'
    BY <1>3, <2>1, <2>2, <2>3 DEF SemGood, OpenedInOrder, OneGreeting, OneAnswer,
                                  MemoryInStep, Sem!InStep
  <2> QED
    BY <2>4, <2>5 DEF SemGood
<1> QED
  BY <1>4, <1>5, <1>6, <1>7 DEF Sem!Next

\* The greeting and the answer are shown, or somebody mixed two exchanges, or a server was
\* killed.
THEOREM SharedMemoryInStep == Sem!Spec => []Sem!InStep
<1>1. SemInv => Sem!InStep
  BY DEF SemInv, SemGood, Sem!InStep
<1> QED
  BY <1>1, SemInvInit, SemInvStep, PTL DEF Sem!Spec

-------------------------------------------------------------------------
(* Message queues.                                                       *)

\* A client sends only what it has got.
QueueTypes == Queue!TypeOK /\ \A c \in Clients : qpc[c] = "send" => qgot[c] \in Servers

\* The queues of server s that are in place.
Keeps(s, n) ==
    \/ n = Queue!ForServer(s) /\ qpc[s] \in {"open more", "send", "receive", "remove"}
    \/ n = Queue!ForClient(s) /\ qpc[s] \in {"send", "receive", "remove", "remove more"}

\* P and q have opened the same queue of name n.
Shares(p, q, n) == qref[p][n] # 0 /\ qref[p][n] = qref[q][n]

\* Every message of queue f is of server s.
OnlyOf(f, s) == \A i \in 1 .. Len(f) : f[i] = s

\* A name stands for a queue of the one server at work.
QueuesOfWorker ==
    /\ \A s, t \in Servers : s \in Queue!AtWork /\ t \in Queue!AtWork => s = t
    /\ \A n \in Queue!Names : qname[n] # 0 =>
          \E s \in Servers : Keeps(s, n) /\ qname[n] = qref[s][n]
    /\ \A s \in Servers : qpc[s] # "killed"

\* Numbers are given once, and the queues of a number not yet given are empty.
QueuesNumbered ==
    /\ \A p \in Queue!Procs, n \in Queue!Names : qref[p][n] <= qmade[n]
    /\ \A n \in Queue!Names, o \in Queue!Objects : o > qmade[n] => greetings[n][o] = <<>> /\ answers[n][o] = <<>>
    /\ \A s, t \in Servers, n \in Queue!Names : Shares(s, t, n) => s = t

\* A server opens its queues in order.
ServerQueues ==
    \A s \in Servers :
        /\ \A n \in Queue!Names : n # Queue!ForServer(s) /\ n # Queue!ForClient(s) => qref[s][n] = 0
        /\ qref[s][Queue!ForServer(s)] = 0 <=> qpc[s] \in {"idle", "open"}
        /\ qref[s][Queue!ForClient(s)] = 0 <=> qpc[s] \in {"idle", "open", "open more"}
        /\ qkind[s] = "sysv" => qpc[s] \notin {"open more", "remove more"}

\* So does a client, and what it finds is a server's.
ClientQueues ==
    /\ \A c \in Clients, n \in Queue!Names : qref[c][n] # 0 => \E s \in Servers : Shares(c, s, n)
    /\ \A c \in Clients :
          /\ qpc[c] = "idle" => qref[c][Queue!ForServer(c)] = 0
          /\ qpc[c] \in {"idle", "open more"} => qref[c][Queue!ForClient(c)] = 0
          /\ qpc[c] \in {"receive", "send"} =>
                qref[c][Queue!ForServer(c)] # 0 /\ qref[c][Queue!ForClient(c)] # 0
          /\ qpc[c] = "open more" => qref[c][Queue!ForServer(c)] # 0
          /\ qkind[c] = "sysv" => qpc[c] # "open more"

\* If a client has the first queue of one server and the second of another, then the
\* first server was done by then.
QueuesInOrder ==
    \A c \in Clients, s, t \in Servers :
        Shares(c, s, Queue!ForServer(c)) /\ Shares(c, t, Queue!ForClient(c)) => s = t \/ qpc[s] = "done"

\* A server's queues hold its own greeting, and until it is done answers to no other; a
\* client that has a greeting has it from the server whose queue it opened.
OwnMessages ==
    /\ \A s \in Servers, n \in Queue!Names : qref[s][n] # 0 => OnlyOf(greetings[n][qref[s][n]], s)
    /\ \A s \in Servers, n \in Queue!Names : qref[s][n] # 0 /\ qpc[s] # "done" =>
          OnlyOf(answers[n][qref[s][n]], s)
    /\ \A c \in Clients : qpc[c] = "send" => Shares(c, qgot[c], Queue!ForClient(c))

\* While no server has been killed.
QueueGood ==
    /\ QueuesOfWorker /\ QueuesNumbered /\ ServerQueues /\ ClientQueues
    /\ QueuesInOrder /\ OwnMessages /\ \A s \in Servers : qgot[s] \in {s, Queue!Nobody}

QueueInv == QueueTypes /\ (qcrashed \/ QueueGood)

\* Processes are servers or clients, and the names they use.
LEMMA QueueProcs ==
    /\ Servers \subseteq Queue!Procs /\ Clients \subseteq Queue!Procs /\ Queue!Procs = Servers \cup Clients
    /\ \A s \in Servers, c \in Clients : s # c /\ s \notin Clients /\ c \notin Servers
    /\ Queue!Names = {"ser_q", "cli_q", "msgid"}
  BY ShakeAssumption DEF Queue!Procs, Queue!Names

LEMMA QueueNames ==
    ASSUME Queue!TypeOK, NEW p \in Queue!Procs
    PROVE  /\ qkind[p] \in {"posix", "sysv"}
           /\ qkind[p] = "posix" => Queue!ForServer(p) = "ser_q" /\ Queue!ForClient(p) = "cli_q"
           /\ qkind[p] = "sysv" => Queue!ForServer(p) = "msgid" /\ Queue!ForClient(p) = "msgid"
           /\ Queue!ForServer(p) \in Queue!Names /\ Queue!ForClient(p) \in Queue!Names
  BY DEF Queue!TypeOK, Queue!Kinds, Queue!ForServer, Queue!ForClient, Queue!Names

LEMMA QueueObjects ==
    ASSUME Queue!TypeOK
    PROVE  /\ 0 \in Queue!Objects /\ Queue!Objects \subseteq Nat
           /\ \A p \in Queue!Procs, n \in Queue!Names : qref[p][n] \in Queue!Objects
           /\ \A n \in Queue!Names : qmade[n] \in Nat
           /\ \A n \in Queue!Names, o \in Queue!Objects :
                 greetings[n][o] \in Seq(Servers) /\ answers[n][o] \in Seq(Servers)
<1>1. 0 \in Queue!Objects /\ Queue!Objects \subseteq Nat
  BY ShakeAssumption DEF Queue!Objects
<1>2. \A p \in Queue!Procs, n \in Queue!Names : qref[p][n] \in Queue!Objects
  BY DEF Queue!TypeOK
<1>3. \A n \in Queue!Names : qmade[n] \in Nat
  BY <1>1 DEF Queue!TypeOK
<1>4. \A n \in Queue!Names, o \in Queue!Objects :
         greetings[n][o] \in Seq(Servers) /\ answers[n][o] \in Seq(Servers)
  BY DEF Queue!TypeOK
<1> QED
  BY <1>1, <1>2, <1>3, <1>4

LEMMA QueueTypeInit == Queue!Init => QueueTypes
<1>1. 0 \in Queue!Objects
  BY ShakeAssumption DEF Queue!Objects
<1>2. "idle" \in Queue!ServerPc /\ "idle" \in Queue!ClientPc
  BY DEF Queue!ServerPc, Queue!ClientPc
<1> SUFFICES ASSUME Queue!Init PROVE QueueTypes
  OBVIOUS
<1>3. /\ qpc \in [Queue!Procs -> Queue!ServerPc \cup Queue!ClientPc]
      /\ \A s \in Servers : qpc[s] \in Queue!ServerPc
      /\ \A c \in Clients : qpc[c] \in Queue!ClientPc
  BY <1>2, QueueProcs DEF Queue!Init
<1>4. qname \in [Queue!Names -> Queue!Objects] /\ qmade \in [Queue!Names -> Queue!Objects]
      /\ qref \in [Queue!Procs -> [Queue!Names -> Queue!Objects]]
  BY <1>1 DEF Queue!Init
<1>5. <<>> \in Seq(Servers)
  OBVIOUS
<1>6. /\ greetings \in [Queue!Names -> [Queue!Objects -> Seq(Servers)]]
      /\ answers \in [Queue!Names -> [Queue!Objects -> Seq(Servers)]]
  BY <1>5 DEF Queue!Init
<1> QED
  BY <1>3, <1>4, <1>6, QueueProcs DEF Queue!Init, Queue!TypeOK, QueueTypes

\* A process that goes where its program has a place.
LEMMA GotoTypes ==
    ASSUME Queue!TypeOK, NEW p \in Queue!Procs, NEW l, Queue!Goto(p, l),
           p \in Servers => l \in Queue!ServerPc, p \in Clients => l \in Queue!ClientPc
    PROVE  /\ qpc' \in [Queue!Procs -> Queue!ServerPc \cup Queue!ClientPc]
           /\ \A s \in Servers : qpc'[s] \in Queue!ServerPc
           /\ \A c \in Clients : qpc'[c] \in Queue!ClientPc
           /\ \A q \in Queue!Procs : qpc'[q] = IF q = p THEN l ELSE qpc[q]
<1>1. qpc \in [Queue!Procs -> Queue!ServerPc \cup Queue!ClientPc] /\ l \in Queue!ServerPc \cup Queue!ClientPc
  BY QueueProcs DEF Queue!TypeOK
<1>2. \A q \in Queue!Procs : qpc'[q] = IF q = p THEN l ELSE qpc[q]
  BY <1>1 DEF Queue!Goto
<1> QED
  BY <1>1, <1>2, QueueProcs DEF Queue!Goto, Queue!TypeOK

\* The queues of messages: what sending and taking do to one of them.
LEMMA SendTypes ==
    ASSUME NEW b, b \in [Queue!Names -> [Queue!Objects -> Seq(Servers)]], NEW n \in Queue!Names, NEW o \in Queue!Objects,
           NEW f \in Seq(Servers), NEW z, z = [b EXCEPT ![n][o] = f]
    PROVE  /\ z \in [Queue!Names -> [Queue!Objects -> Seq(Servers)]]
           /\ \A m \in Queue!Names, x \in Queue!Objects : z[m][x] = IF m = n /\ x = o THEN f ELSE b[m][x]
<1>1. b[n] \in [Queue!Objects -> Seq(Servers)]
  OBVIOUS
<1>2. [b[n] EXCEPT ![o] = f] \in [Queue!Objects -> Seq(Servers)]
  BY <1>1
<1>3. z = [b EXCEPT ![n] = [b[n] EXCEPT ![o] = f]]
  OBVIOUS
<1> QED
  BY <1>1, <1>2, <1>3

LEMMA QueueTypeStep == QueueTypes /\ [Queue!Next]_(Queue!vars) => QueueTypes'
<1> SUFFICES ASSUME QueueTypes, [Queue!Next]_(Queue!vars)
             PROVE  QueueTypes'
  OBVIOUS
<1>a. Queue!TypeOK /\ \A c \in Clients : qpc[c] = "send" => qgot[c] \in Servers
  BY DEF QueueTypes
<1>0. 0 \in Queue!Objects /\ Queue!Objects \subseteq Nat
  BY ShakeAssumption DEF Queue!Objects
<1>1. ASSUME NEW s \in Servers, Queue!Start(s) PROVE Queue!TypeOK'
  BY <1>a, <1>1, GotoTypes, QueueProcs DEF Queue!Start, Queue!TypeOK, Queue!system, Queue!ServerPc
<1>2. ASSUME NEW s \in Servers, Queue!ServerOpens(s) PROVE Queue!TypeOK'
  <2>1. PICK n \in Queue!Names, l \in Queue!ServerPc : Queue!Create(s, n) /\ Queue!Goto(s, l)
    BY <1>a, <1>2, QueueNames, QueueProcs DEF Queue!ServerOpens, Queue!ServerPc
  <2>2. \A m \in Queue!Names : qname'[m] \in Queue!Objects /\ qmade'[m] \in Queue!Objects
    BY <1>a, <2>1, ShakeAssumption DEF Queue!Create, Queue!TypeOK, Queue!Objects
  <2>3. qname' \in [Queue!Names -> Queue!Objects] /\ qmade' \in [Queue!Names -> Queue!Objects]
    BY <1>a, <2>1, <2>2 DEF Queue!Create, Queue!TypeOK
  <2>4. qref' \in [Queue!Procs -> [Queue!Names -> Queue!Objects]]
    BY <1>a, <2>1, <2>3, QueueProcs, ZenonT(40) DEF Queue!Create, Queue!TypeOK
  <2> QED
    BY <1>a, <2>1, <2>3, <2>4, GotoTypes, QueueProcs DEF Queue!Create, Queue!TypeOK
<1>3. ASSUME NEW s \in Servers, Queue!Greet(s) PROVE Queue!TypeOK'
  <2>1. Queue!ForClient(s) \in Queue!Names /\ qref[s][Queue!ForClient(s)] \in Queue!Objects
    BY <1>a, QueueNames, QueueObjects, QueueProcs
  <2>2. Append(greetings[Queue!ForClient(s)][qref[s][Queue!ForClient(s)]], s) \in Seq(Servers)
    BY <1>a, <2>1 DEF Queue!TypeOK
  <2>3. greetings' \in [Queue!Names -> [Queue!Objects -> Seq(Servers)]]
    BY <1>a, <1>3, <2>1, <2>2, SendTypes DEF Queue!Greet, Queue!TypeOK
  <2> QED
    BY <1>a, <1>3, <2>3, GotoTypes, QueueProcs DEF Queue!Greet, Queue!TypeOK, Queue!ServerPc
<1>4. ASSUME NEW s \in Servers, Queue!TakeAnswer(s) PROVE Queue!TypeOK'
  <2> DEFINE f == answers[Queue!ForServer(s)][qref[s][Queue!ForServer(s)]]
  <2>1. Queue!ForServer(s) \in Queue!Names /\ qref[s][Queue!ForServer(s)] \in Queue!Objects
    BY <1>a, QueueNames, QueueObjects, QueueProcs
  <2>2. f \in Seq(Servers) /\ f # <<>>
    BY <1>a, <1>4, <2>1 DEF Queue!TypeOK, Queue!TakeAnswer
  <2>3. Head(f) \in Servers /\ Tail(f) \in Seq(Servers)
    BY <2>2
  <2>4. answers' \in [Queue!Names -> [Queue!Objects -> Seq(Servers)]]
    BY <1>a, <1>4, <2>1, <2>3, SendTypes DEF Queue!TakeAnswer, Queue!TypeOK
  <2>5. qgot' \in [Queue!Procs -> Servers \cup {Queue!Nobody}]
    BY <1>a, <1>4, <2>3, QueueProcs DEF Queue!TakeAnswer, Queue!TypeOK
  <2> QED
    BY <1>a, <1>4, <2>4, <2>5, GotoTypes, QueueProcs DEF Queue!TakeAnswer, Queue!TypeOK, Queue!ServerPc
<1>5. ASSUME NEW s \in Servers, Queue!ServerRemoves(s) PROVE Queue!TypeOK'
  <2>1. PICK n \in Queue!Names, l \in Queue!ServerPc : Queue!Remove(s, n) /\ Queue!Goto(s, l)
    BY <1>a, <1>5, QueueNames, QueueProcs DEF Queue!ServerRemoves, Queue!ServerPc
  <2>2. qname' \in [Queue!Names -> Queue!Objects]
    BY <1>a, <1>0, <2>1 DEF Queue!Remove, Queue!TypeOK
  <2>3. removed' \subseteq Queue!Objects
    BY <1>a, <2>1, QueueProcs DEF Queue!Remove, Queue!TypeOK
  <2> QED
    BY <1>a, <2>1, <2>2, <2>3, GotoTypes, QueueProcs DEF Queue!Remove, Queue!TypeOK
<1>6. ASSUME NEW c \in Clients, Queue!ClientOpens(c) PROVE Queue!TypeOK'
  <2>1. PICK n \in Queue!Names, l \in {"open more", "receive"} : Queue!Find(c, n, l)
    BY <1>a, <1>6, QueueNames, QueueProcs DEF Queue!ClientOpens
  <2>2. qref' \in [Queue!Procs -> [Queue!Names -> Queue!Objects]]
    BY <1>a, <2>1, QueueProcs DEF Queue!Find, Queue!TypeOK
  <2>3. PICK k \in Queue!ClientPc : Queue!Goto(c, k)
    BY <2>1 DEF Queue!Find, Queue!ClientPc
  <2> QED
    BY <1>a, <2>1, <2>2, <2>3, GotoTypes, QueueProcs DEF Queue!Find, Queue!TypeOK, Queue!system
<1>7. ASSUME NEW c \in Clients, Queue!Fails(c) PROVE Queue!TypeOK'
  BY <1>a, <1>7, GotoTypes, QueueProcs DEF Queue!Fails, Queue!TypeOK, Queue!system, Queue!ClientPc
<1>8. ASSUME NEW c \in Clients, Queue!TakeGreeting(c), ~Queue!Fails(c) PROVE Queue!TypeOK'
  <2> DEFINE f == greetings[Queue!ForClient(c)][qref[c][Queue!ForClient(c)]]
  <2>1. Queue!ForClient(c) \in Queue!Names /\ qref[c][Queue!ForClient(c)] \in Queue!Objects
    BY <1>a, QueueNames, QueueObjects, QueueProcs
  <2>2. f \in Seq(Servers) /\ f # <<>>
    BY <1>a, <1>8, <2>1 DEF Queue!TypeOK, Queue!TakeGreeting
  <2>3. Head(f) \in Servers /\ Tail(f) \in Seq(Servers)
    BY <2>2
  <2>6. greetings' = [greetings EXCEPT ![Queue!ForClient(c)][qref[c][Queue!ForClient(c)]] = Tail(f)]
    BY <1>8 DEF Queue!TakeGreeting
  <2>4. greetings' \in [Queue!Names -> [Queue!Objects -> Seq(Servers)]]
    BY <1>a, <2>1, <2>3, <2>6, SendTypes DEF Queue!TypeOK
  <2>5. qgot' \in [Queue!Procs -> Servers \cup {Queue!Nobody}]
    BY <1>a, <1>8, <2>3, QueueProcs DEF Queue!TakeGreeting, Queue!TypeOK
  <2> QED
    BY <1>a, <1>8, <2>4, <2>5, GotoTypes, QueueProcs, ZenonT(40) DEF Queue!TakeGreeting, Queue!TypeOK, Queue!ClientPc
<1>9. ASSUME NEW c \in Clients, Queue!Answer(c), ~Queue!Fails(c) PROVE Queue!TypeOK'
  <2>1. Queue!ForServer(c) \in Queue!Names /\ qref[c][Queue!ForServer(c)] \in Queue!Objects
    BY <1>a, QueueNames, QueueObjects, QueueProcs
  <2>2. Append(answers[Queue!ForServer(c)][qref[c][Queue!ForServer(c)]], qgot[c]) \in Seq(Servers)
    BY <1>a, <1>9, <2>1, QueueObjects DEF Queue!Answer
  <2>4. answers' = [answers EXCEPT ![Queue!ForServer(c)][qref[c][Queue!ForServer(c)]]
                     = Append(answers[Queue!ForServer(c)][qref[c][Queue!ForServer(c)]], qgot[c])]
    BY <1>9 DEF Queue!Answer
  <2>3. answers' \in [Queue!Names -> [Queue!Objects -> Seq(Servers)]]
    BY <1>a, <2>1, <2>2, <2>4, SendTypes DEF Queue!TypeOK
  <2> QED
    BY <1>a, <1>9, <2>3, GotoTypes, QueueProcs DEF Queue!Answer, Queue!TypeOK, Queue!ClientPc
<1>10. ASSUME NEW p \in Queue!Procs, Queue!Kill(p) PROVE Queue!TypeOK'
  <2>1. qcrashed' \in BOOLEAN
    BY <1>a, <1>10 DEF Queue!Kill, Queue!TypeOK
  <2>2. Queue!Goto(p, "killed") /\ UNCHANGED <<qkind, qname, qmade, greetings, answers, removed, qref, qgot>>
    BY <1>10 DEF Queue!Kill, Queue!system
  <2>3. /\ qpc' \in [Queue!Procs -> Queue!ServerPc \cup Queue!ClientPc]
        /\ \A s \in Servers : qpc'[s] \in Queue!ServerPc
        /\ \A c \in Clients : qpc'[c] \in Queue!ClientPc
    BY <1>a, <2>2, GotoTypes DEF Queue!ServerPc, Queue!ClientPc
  <2> QED
    BY <1>a, <2>1, <2>2, <2>3 DEF Queue!TypeOK
<1>11. ASSUME UNCHANGED Queue!vars PROVE Queue!TypeOK'
  <2>1. UNCHANGED <<qkind, qpc, qname, qmade, greetings, answers, removed, qref, qgot, qcrashed>>
    BY <1>11 DEF Queue!vars, Queue!system
  <2>2. /\ qkind' \in [Queue!Procs -> Queue!Kinds] /\ qpc' \in [Queue!Procs -> Queue!ServerPc \cup Queue!ClientPc]
        /\ \A s \in Servers : qpc'[s] \in Queue!ServerPc
        /\ \A c \in Clients : qpc'[c] \in Queue!ClientPc
    BY <1>a, <2>1 DEF Queue!TypeOK
  <2>3. /\ qname' \in [Queue!Names -> Queue!Objects] /\ qmade' \in [Queue!Names -> Queue!Objects]
        /\ qref' \in [Queue!Procs -> [Queue!Names -> Queue!Objects]] /\ removed' \subseteq Queue!Objects
    BY <1>a, <2>1 DEF Queue!TypeOK
  <2>4. /\ greetings' \in [Queue!Names -> [Queue!Objects -> Seq(Servers)]]
        /\ answers' \in [Queue!Names -> [Queue!Objects -> Seq(Servers)]]
        /\ qgot' \in [Queue!Procs -> Servers \cup {Queue!Nobody}] /\ qcrashed' \in BOOLEAN
    BY <1>a, <2>1 DEF Queue!TypeOK
  <2> QED
    BY <2>2, <2>3, <2>4 DEF Queue!TypeOK
<1>12. Queue!TypeOK'
  <2>1. ASSUME NEW c \in Clients, Queue!TakeGreeting(c) \/ Queue!Answer(c) PROVE Queue!TypeOK'
    BY <1>7, <1>8, <1>9, <2>1
  <2> QED
    BY <2>1, <1>1, <1>2, <1>3, <1>4, <1>5, <1>6, <1>7, <1>8, <1>9, <1>10, <1>11 DEF Queue!Next
<1>13. ASSUME NEW c \in Clients, qpc'[c] = "send" PROVE qgot'[c] \in Servers
  <2>1. CASE Queue!TakeGreeting(c)
    <3>1. ~Queue!Fails(c)
      <4>1. Queue!Goto(c, "done") => qpc'[c] = "done"
        BY <1>a, QueueProcs DEF Queue!Goto, Queue!TypeOK
      <4> QED
        BY <1>13, <4>1 DEF Queue!Fails
    <3> DEFINE f == greetings[Queue!ForClient(c)][qref[c][Queue!ForClient(c)]]
    <3>2. f \in Seq(Servers) /\ f # <<>> /\ qgot' = [qgot EXCEPT ![c] = Head(f)]
      BY <1>a, <2>1, <3>1, QueueNames, QueueObjects, QueueProcs DEF Queue!TakeGreeting
    <3>3. Head(f) \in Servers
      BY <3>2
    <3> QED
      BY <1>a, <3>2, <3>3, QueueProcs DEF Queue!TypeOK
  <2>2. CASE ~Queue!TakeGreeting(c)
    <3>1. qpc[c] = "send" /\ qgot'[c] = qgot[c]
      <4>1. ASSUME NEW s \in Servers,
                   Queue!Start(s) \/ Queue!ServerOpens(s) \/ Queue!Greet(s) \/ Queue!TakeAnswer(s) \/ Queue!ServerRemoves(s)
            PROVE  qpc'[c] = qpc[c] /\ qgot'[c] = qgot[c]
        <5>1. PICK l : Queue!Goto(s, l)
          BY <4>1 DEF Queue!Start, Queue!ServerOpens, Queue!Greet, Queue!TakeAnswer, Queue!ServerRemoves
        <5>2. qpc'[c] = qpc[c]
          BY <1>a, <5>1, QueueProcs DEF Queue!Goto, Queue!TypeOK
        <5>3. qgot'[c] = qgot[c]
          BY <1>a, <4>1, QueueProcs DEF Queue!Start, Queue!ServerOpens, Queue!Create, Queue!Greet, Queue!TakeAnswer,
                                        Queue!ServerRemoves, Queue!Remove, Queue!TypeOK
        <5> QED
          BY <5>2, <5>3
      <4>2. ASSUME NEW d \in Clients, Queue!ClientOpens(d) \/ Queue!Answer(d) \/ (Queue!TakeGreeting(d) /\ d # c)
            PROVE  qpc[c] = "send" /\ qgot'[c] = qgot[c]
        <5>1. PICK l : Queue!Goto(d, l) /\ (l # "send" \/ d # c)
          <6>1. CASE Queue!ClientOpens(d)
            <7>1. PICK n \in Queue!Names, l \in {"open more", "receive"} : Queue!Find(d, n, l)
              BY <1>a, <6>1, QueueNames, QueueProcs DEF Queue!ClientOpens
            <7>2. CASE qname[n] = 0
              <8>1. Queue!Goto(d, "done")
                BY <7>1, <7>2 DEF Queue!Find
              <8>2. "done" # "send"
                OBVIOUS
              <8> QED
                BY <8>1, <8>2, Zenon
            <7>3. CASE qname[n] # 0
              BY <7>1, <7>3 DEF Queue!Find
            <7> QED
              BY <7>2, <7>3
          <6>2. CASE Queue!Answer(d)
            BY <6>2 DEF Queue!Answer, Queue!Fails
          <6>3. CASE Queue!TakeGreeting(d) /\ d # c
            BY <6>3 DEF Queue!TakeGreeting, Queue!Fails
          <6> QED
            BY <4>2, <6>1, <6>2, <6>3
        <5>2. qpc[c] = "send"
          BY <1>a, <1>13, <5>1, QueueProcs DEF Queue!Goto, Queue!TypeOK
        <5>3. qgot'[c] = qgot[c]
          BY <1>a, <4>2, QueueProcs DEF Queue!ClientOpens, Queue!Find, Queue!Answer, Queue!TakeGreeting, Queue!Fails, Queue!TypeOK
        <5> QED
          BY <5>2, <5>3
      <4>3. ASSUME NEW p \in Queue!Procs, Queue!Kill(p) PROVE qpc[c] = "send" /\ qgot'[c] = qgot[c]
        BY <1>a, <1>13, <4>3, QueueProcs DEF Queue!Kill, Queue!Goto, Queue!TypeOK
      <4>4. CASE UNCHANGED Queue!vars
        BY <1>13, <4>4 DEF Queue!vars
      <4> QED
        BY <1>13, <2>2, <4>1, <4>2, <4>3, <4>4 DEF Queue!Next
    <3> QED
      BY <1>a, <3>1
  <2> QED
    BY <2>1, <2>2
<1> QED
  BY <1>12, <1>13 DEF QueueTypes

\* What a queue of one server's messages keeps.
LEMMA OnlyOfKept ==
    ASSUME NEW f \in Seq(Servers), NEW s \in Servers, OnlyOf(f, s)
    PROVE  /\ OnlyOf(Append(f, s), s)
           /\ f # <<>> => Head(f) = s /\ OnlyOf(Tail(f), s)
<1>1. \A i \in 1 .. Len(f) : f[i] = s
  BY DEF OnlyOf
<1>2. OnlyOf(Append(f, s), s)
  BY <1>1, AppendProperties DEF OnlyOf
<1>3. ASSUME f # <<>> PROVE Head(f) = s /\ OnlyOf(Tail(f), s)
  <2>1. Head(f) = f[1] /\ Len(f) \in Nat /\ Len(f) # 0
    BY <1>3
  <2>2. Len(Tail(f)) = Len(f) - 1 /\ \A i \in 1 .. Len(f) - 1 : Tail(f)[i] = f[i + 1]
    BY <1>3
  <2> QED
    BY <1>1, <2>1, <2>2 DEF OnlyOf
<1> QED
  BY <1>2, <1>3

\* The facts every step lemma starts from.
QueueStart == Queue!TypeOK /\ QueueTypes /\ QueueGood /\ ~qcrashed

\* A step that opens and removes nothing keeps whose queues are whose.
LEMMA QueuesStay ==
    ASSUME QueueStart, NEW p \in Queue!Procs, NEW l, Queue!Goto(p, l),
           UNCHANGED <<qkind, qname, qmade, qref>>,
           \/ /\ p \in Servers
              /\ \/ qpc[p] = "idle" /\ Queue!AtWork = {} /\ l = "open"
                 \/ qpc[p] = "send" /\ l = "receive"
                 \/ qpc[p] = "receive" /\ l = "remove"
           \/ /\ p \in Clients
              /\ \/ qpc[p] = "receive" /\ l = "send"
                 \/ l \in {"done", "killed"}
    PROVE  /\ QueuesOfWorker' /\ ServerQueues' /\ ClientQueues' /\ QueuesInOrder'
           /\ \A q \in Queue!Procs : qpc'[q] = IF q = p THEN l ELSE qpc[q]
           /\ \A q \in Queue!Procs : Queue!ForServer(q)' = Queue!ForServer(q) /\ Queue!ForClient(q)' = Queue!ForClient(q)
           /\ \A q, r, n : Shares(q, r, n)' <=> Shares(q, r, n)
<1> USE DEF QueueStart
<1>1. \A q \in Queue!Procs : qpc'[q] = IF q = p THEN l ELSE qpc[q]
  BY DEF Queue!Goto, Queue!TypeOK
<1>2. /\ \A q \in Queue!Procs : Queue!ForServer(q)' = Queue!ForServer(q) /\ Queue!ForClient(q)' = Queue!ForClient(q)
      /\ \A q, r, n : Shares(q, r, n)' <=> Shares(q, r, n)
  BY DEF Queue!ForServer, Queue!ForClient, Shares
<1>3. QueuesOfWorker'
  <2>1. \A s, t \in Servers : s \in Queue!AtWork' /\ t \in Queue!AtWork' => s = t
    BY <1>1, QueueProcs DEF Queue!AtWork, QueueGood, QueuesOfWorker
  <2>2. \A s \in Servers : \A n : Keeps(s, n) => Keeps(s, n)'
    BY <1>1, <1>2, QueueProcs DEF Keeps
  <2>3. \A n \in Queue!Names : qname'[n] # 0 =>
           \E s \in Servers : Keeps(s, n)' /\ qname'[n] = qref'[s][n]
    BY <2>2 DEF QueueGood, QueuesOfWorker
  <2>4. \A s \in Servers : qpc'[s] # "killed"
    BY <1>1, QueueProcs DEF QueueGood, QueuesOfWorker
  <2> QED
    BY <2>1, <2>3, <2>4 DEF QueuesOfWorker
<1>4. ServerQueues'
  <2>1. ASSUME NEW s \in Servers
        PROVE  /\ \A n \in Queue!Names : n # Queue!ForServer(s) /\ n # Queue!ForClient(s) => qref'[s][n] = 0
               /\ qref'[s][Queue!ForServer(s)] = 0 <=> qpc'[s] \in {"idle", "open"}
               /\ qref'[s][Queue!ForClient(s)] = 0 <=> qpc'[s] \in {"idle", "open", "open more"}
               /\ qkind'[s] = "sysv" => qpc'[s] \notin {"open more", "remove more"}
    BY <1>1, QueueProcs DEF QueueGood, ServerQueues
  <2> QED
    BY <2>1 DEF ServerQueues, Queue!ForServer, Queue!ForClient
<1>5. ClientQueues'
  BY <1>1, <1>2, QueueProcs, ZenonT(40) DEF QueueGood, ClientQueues
<1>6. QueuesInOrder'
  BY <1>1, <1>2, QueueProcs DEF QueueGood, QueuesInOrder
<1> QED
  BY <1>1, <1>2, <1>3, <1>4, <1>5, <1>6

\* A step that touches no message, but perhaps name and pc.
LEMMA MessagesStay ==
    ASSUME QueueStart, NEW p \in Queue!Procs, NEW l,
           UNCHANGED <<qkind, qmade, greetings, answers, qref, qgot>>, l # "send",
           \A q \in Queue!Procs : qpc'[q] = IF q = p THEN l ELSE qpc[q],
           qpc[p] # "done"
    PROVE  QueuesNumbered' /\ OwnMessages' /\ \A s \in Servers : qgot'[s] \in {s, Queue!Nobody}
<1> USE DEF QueueStart
<1>1. /\ \A q \in Queue!Procs : Queue!ForClient(q)' = Queue!ForClient(q)
      /\ \A q, r, n : Shares(q, r, n)' <=> Shares(q, r, n)
      /\ \A f, s : OnlyOf(f, s)' <=> OnlyOf(f, s)
  BY DEF Queue!ForClient, Shares, OnlyOf
<1>2. QueuesNumbered'
  BY <1>1 DEF QueueGood, QueuesNumbered
<1>3. OwnMessages'
  <2>1. \A s \in Servers : qpc'[s] # "done" => qpc[s] # "done"
    BY QueueProcs
  <2>2. \A c \in Clients : qpc'[c] = "send" => qpc[c] = "send"
    BY QueueProcs
  <2>3. \A s \in Servers, n \in Queue!Names : qref'[s][n] # 0 => OnlyOf(greetings[n][qref[s][n]], s)
    BY DEF QueueGood, OwnMessages
  <2>4. \A s \in Servers, n \in Queue!Names : qref'[s][n] # 0 /\ qpc'[s] # "done" =>
            OnlyOf(answers[n][qref[s][n]], s)
    BY <2>1 DEF QueueGood, OwnMessages
  <2>5. \A c \in Clients : qpc'[c] = "send" => Shares(c, qgot[c], Queue!ForClient(c))'
    BY <1>1, <2>2, QueueProcs DEF QueueGood, OwnMessages
  <2> QED
    BY <2>3, <2>4, <2>5 DEF OwnMessages, OnlyOf
<1> QED
  BY <1>2, <1>3 DEF QueueGood

LEMMA QueueStarts ==
    ASSUME QueueStart, NEW s \in Servers, Queue!Start(s)
    PROVE  QueueGood'
<1>1. /\ qpc[s] = "idle" /\ Queue!AtWork = {} /\ Queue!Goto(s, "open") /\ s \in Queue!Procs
      /\ UNCHANGED <<qkind, qname, qmade, greetings, answers, qref, qgot>>
  BY QueueProcs DEF Queue!Start, Queue!system
<1>2. /\ QueuesOfWorker' /\ ServerQueues' /\ ClientQueues' /\ QueuesInOrder'
      /\ \A q \in Queue!Procs : qpc'[q] = IF q = s THEN "open" ELSE qpc[q]
  BY <1>1, QueuesStay
<1>3. QueuesNumbered' /\ OwnMessages' /\ \A t \in Servers : qgot'[t] \in {t, Queue!Nobody}
  BY <1>1, <1>2, MessagesStay
<1> QED
  BY <1>2, <1>3 DEF QueueGood

\* A client whose call fails or that is killed.
LEMMA ClientEnds ==
    ASSUME QueueStart, NEW c \in Clients, NEW l \in {"done", "killed"}, Queue!Goto(c, l),
           qpc[c] # "done", UNCHANGED <<qkind, Queue!system, qref, qgot>>
    PROVE  QueueGood'
<1>1. c \in Queue!Procs /\ UNCHANGED <<qkind, qname, qmade, greetings, answers, qref, qgot>>
  BY QueueProcs DEF Queue!system
<1>2. /\ QueuesOfWorker' /\ ServerQueues' /\ ClientQueues' /\ QueuesInOrder'
      /\ \A q \in Queue!Procs : qpc'[q] = IF q = c THEN l ELSE qpc[q]
  BY <1>1, QueuesStay
<1>3. QueuesNumbered' /\ OwnMessages' /\ \A t \in Servers : qgot'[t] \in {t, Queue!Nobody}
  BY <1>1, <1>2, MessagesStay
<1> QED
  BY <1>2, <1>3 DEF QueueGood

\* The server removes its own queue.
LEMMA RemoveKeeps ==
    ASSUME QueueStart, NEW s \in Servers, Queue!ServerRemoves(s)
    PROVE  QueueGood'
<1> USE DEF QueueStart
<1>1. PICK n \in Queue!Names, l \in {"remove more", "done"} :
         /\ \/ qpc[s] = "remove" /\ n = Queue!ForServer(s)
               /\ l = IF qkind[s] = "posix" THEN "remove more" ELSE "done"
            \/ qpc[s] = "remove more" /\ n = "cli_q" /\ l = "done"
         /\ Queue!Remove(s, n) /\ Queue!Goto(s, l)
  <2>1. Queue!ForServer(s) \in Queue!Names /\ "cli_q" \in Queue!Names
    BY QueueNames, QueueProcs
  <2>2. CASE qpc[s] = "remove" /\ qkind[s] = "posix"
    BY <2>1, <2>2 DEF Queue!ServerRemoves
  <2>3. CASE qpc[s] = "remove" /\ qkind[s] # "posix"
    BY <2>1, <2>3 DEF Queue!ServerRemoves
  <2>4. CASE qpc[s] = "remove more"
    BY <2>1, <2>4 DEF Queue!ServerRemoves
  <2> QED
    BY <2>2, <2>3, <2>4 DEF Queue!ServerRemoves
<1>2. /\ \A q \in Queue!Procs : qpc'[q] = IF q = s THEN l ELSE qpc[q]
      /\ \A m \in Queue!Names : qname'[m] = IF m = n THEN 0 ELSE qname[m]
      /\ UNCHANGED <<qkind, qmade, greetings, answers, qref, qgot>>
  BY <1>1, QueueProcs DEF Queue!Goto, Queue!Remove, Queue!TypeOK
<1>3. /\ \A q \in Queue!Procs : Queue!ForServer(q)' = Queue!ForServer(q) /\ Queue!ForClient(q)' = Queue!ForClient(q)
      /\ \A q, r, m : Shares(q, r, m)' <=> Shares(q, r, m)
  BY <1>2 DEF Queue!ForServer, Queue!ForClient, Shares
<1>4. s \in Queue!AtWork /\ s \in Queue!Procs
  BY <1>1, QueueProcs DEF Queue!AtWork
<1>5. QueuesOfWorker'
  <2>1. \A t, u \in Servers : t \in Queue!AtWork' /\ u \in Queue!AtWork' => t = u
    BY <1>1, <1>2, <1>4, QueueProcs DEF Queue!AtWork, QueueGood, QueuesOfWorker
  <2>2. ASSUME NEW m \in Queue!Names, qname'[m] # 0
        PROVE  \E t \in Servers : Keeps(t, m)' /\ qname'[m] = qref'[t][m]
    <3>1. m # n /\ qname'[m] = qname[m]
      BY <1>2, <2>2
    <3>2. PICK t \in Servers : Keeps(t, m) /\ qname[m] = qref[t][m]
      BY <2>2, <3>1 DEF QueueGood, QueuesOfWorker
    <3>3. t = s
      BY <1>4, <3>2 DEF QueueGood, QueuesOfWorker, Keeps, Queue!AtWork
    <3>4. Keeps(s, m)'
      <4>1. /\ qkind[s] = "posix" => Queue!ForServer(s) = "ser_q" /\ Queue!ForClient(s) = "cli_q"
            /\ qkind[s] = "sysv" => Queue!ForServer(s) = "msgid" /\ Queue!ForClient(s) = "msgid"
            /\ qkind[s] \in {"posix", "sysv"}
        BY <1>4, QueueNames
      <4>2. qkind[s] = "sysv" => qpc[s] # "remove more"
        BY DEF QueueGood, ServerQueues
      <4>3. m = Queue!ForClient(s) /\ l = "remove more"
        BY <1>1, <3>1, <3>2, <3>3, <4>1, <4>2 DEF Keeps
      <4> QED
        BY <1>2, <1>3, <1>4, <4>3 DEF Keeps
    <3> QED
      BY <1>2, <3>1, <3>2, <3>3, <3>4
  <2>3. \A t \in Servers : qpc'[t] # "killed"
    BY <1>1, <1>2, QueueProcs DEF QueueGood, QueuesOfWorker
  <2> QED
    BY <2>1, <2>2, <2>3 DEF QueuesOfWorker
<1>6. ServerQueues'
  <2>1. qkind[s] \in {"posix", "sysv"}
    BY <1>4, QueueNames
  <2>2. ASSUME NEW t \in Servers
        PROVE  /\ \A m \in Queue!Names : m # Queue!ForServer(t) /\ m # Queue!ForClient(t) => qref'[t][m] = 0
               /\ qref'[t][Queue!ForServer(t)] = 0 <=> qpc'[t] \in {"idle", "open"}
               /\ qref'[t][Queue!ForClient(t)] = 0 <=> qpc'[t] \in {"idle", "open", "open more"}
               /\ qkind'[t] = "sysv" => qpc'[t] \notin {"open more", "remove more"}
    BY <1>1, <1>2, <2>1, QueueProcs DEF QueueGood, ServerQueues
  <2>3. \A t \in Servers : Queue!ForServer(t)' = Queue!ForServer(t) /\ Queue!ForClient(t)' = Queue!ForClient(t)
    BY <1>3, QueueProcs, Zenon
  <2> QED
    BY <2>2, <2>3, Zenon DEF ServerQueues
<1>7. ClientQueues'
  <2>1. \A c \in Clients : qpc'[c] = qpc[c] /\ c \in Queue!Procs
    BY <1>2, QueueProcs
  <2> QED
    BY <1>2, <1>3, <2>1 DEF QueueGood, ClientQueues
<1>8. QueuesInOrder'
  <2>1. \A t \in Servers : qpc[t] = "done" => qpc'[t] = "done"
    BY <1>1, <1>2, QueueProcs
  <2>2. \A c \in Clients : Queue!ForServer(c)' = Queue!ForServer(c) /\ Queue!ForClient(c)' = Queue!ForClient(c)
    BY <1>3, QueueProcs
  <2>3. ASSUME NEW c \in Clients, NEW t \in Servers, NEW u \in Servers,
               Shares(c, t, Queue!ForServer(c))', Shares(c, u, Queue!ForClient(c))'
        PROVE  t = u \/ qpc'[t] = "done"
    <3>1. Shares(c, t, Queue!ForServer(c)) /\ Shares(c, u, Queue!ForClient(c))
      BY <1>2, <2>3 DEF Shares, Queue!ForServer, Queue!ForClient
    <3> QED
      BY <2>1, <3>1 DEF QueueGood, QueuesInOrder
  <2> QED
    BY <2>3 DEF QueuesInOrder
<1>9. QueuesNumbered' /\ OwnMessages' /\ \A t \in Servers : qgot'[t] \in {t, Queue!Nobody}
  <2>1. l # "send" /\ qpc[s] # "done"
    BY <1>1
  <2> QED
    BY <1>2, <1>4, <2>1, MessagesStay
<1> QED
  BY <1>5, <1>6, <1>7, <1>8, <1>9 DEF QueueGood

\* The server sends its greeting into its own queue.
LEMMA SendGreetingKeeps ==
    ASSUME QueueStart, NEW s \in Servers, Queue!Greet(s)
    PROVE  QueueGood'
<1> USE DEF QueueStart
<1>1. PICK n \in Queue!Names, o \in Queue!Objects : n = Queue!ForClient(s) /\ o = qref[s][n]
  BY QueueNames, QueueObjects, QueueProcs
<1>2. /\ qpc[s] = "send" /\ Queue!Goto(s, "receive") /\ s \in Queue!Procs
      /\ UNCHANGED <<qkind, qname, qmade, answers, qref, qgot>>
      /\ greetings' = [greetings EXCEPT ![n][o] = Append(greetings[n][o], s)]
  BY <1>1, QueueProcs DEF Queue!Greet
<1>3. /\ QueuesOfWorker' /\ ServerQueues' /\ ClientQueues' /\ QueuesInOrder'
      /\ \A q \in Queue!Procs : qpc'[q] = IF q = s THEN "receive" ELSE qpc[q]
      /\ \A q \in Queue!Procs : Queue!ForServer(q)' = Queue!ForServer(q) /\ Queue!ForClient(q)' = Queue!ForClient(q)
      /\ \A q, r, m : Shares(q, r, m)' <=> Shares(q, r, m)
  BY <1>2, QueuesStay
<1>4. /\ greetings[n][o] \in Seq(Servers) /\ o # 0 /\ o <= qmade[n]
      /\ OnlyOf(greetings[n][o], s)
  <2>1. o # 0
    BY <1>1, <1>2 DEF QueueGood, ServerQueues
  <2> QED
    BY <1>1, <1>2, <2>1, QueueObjects DEF QueueGood, OwnMessages, QueuesNumbered
<1>5. \A m \in Queue!Names, x \in Queue!Objects :
         greetings'[m][x] = IF m = n /\ x = o THEN Append(greetings[n][o], s) ELSE greetings[m][x]
  <2>1. Append(greetings[n][o], s) \in Seq(Servers)
    BY <1>4
  <2>2. greetings \in [Queue!Names -> [Queue!Objects -> Seq(Servers)]]
    BY DEF Queue!TypeOK
  <2> QED
    BY <1>2, <2>1, <2>2, SendTypes
<1>6. QueuesNumbered'
  <2>1. o \in Nat /\ qmade[n] \in Nat
    BY QueueObjects
  <2>2. \A m \in Queue!Names, x \in Queue!Objects : x > qmade[m] => greetings'[m][x] = <<>> /\ answers[m][x] = <<>>
    BY <1>4, <1>5, <2>1 DEF QueueGood, QueuesNumbered
  <2> QED
    BY <1>2, <1>3, <2>2 DEF QueueGood, QueuesNumbered
<1>7. OwnMessages'
  <2>1. \A t \in Servers, m \in Queue!Names : qref[t][m] \in Queue!Objects
    BY QueueObjects, QueueProcs
  <2>2. ASSUME NEW t \in Servers, NEW m \in Queue!Names, qref'[t][m] # 0
        PROVE  OnlyOf(greetings'[m][qref'[t][m]], t)
    <3>1. CASE m = n /\ qref[t][m] = o
      <4>1. t = s
        BY <1>1, <1>4, <3>1 DEF QueueGood, QueuesNumbered, Shares
      <4> QED
        BY <1>2, <1>4, <1>5, <3>1, <4>1, OnlyOfKept
    <3>2. CASE ~(m = n /\ qref[t][m] = o)
      BY <1>2, <1>5, <2>1, <2>2, <3>2 DEF QueueGood, OwnMessages
    <3> QED
      BY <3>1, <3>2
  <2>3. \A t \in Servers, m \in Queue!Names : qref'[t][m] # 0 /\ qpc'[t] # "done" =>
            OnlyOf(answers'[m][qref'[t][m]], t)
    BY <1>2, <1>3, QueueProcs DEF QueueGood, OwnMessages
  <2>4. \A c \in Clients : qpc'[c] = "send" => Shares(c, qgot[c], Queue!ForClient(c))'
    BY <1>2, <1>3, QueueProcs DEF QueueGood, OwnMessages
  <2> QED
    BY <1>2, <2>2, <2>3, <2>4 DEF OwnMessages, OnlyOf
<1> QED
  BY <1>2, <1>3, <1>6, <1>7 DEF QueueGood

\* The server takes an answer: its own.
LEMMA TakeKeeps ==
    ASSUME QueueStart, NEW s \in Servers, Queue!TakeAnswer(s)
    PROVE  QueueGood'
<1> USE DEF QueueStart
<1>1. PICK n \in Queue!Names, o \in Queue!Objects : n = Queue!ForServer(s) /\ o = qref[s][n]
  BY QueueNames, QueueObjects, QueueProcs
<1>2. /\ qpc[s] = "receive" /\ Queue!Goto(s, "remove") /\ s \in Queue!Procs
      /\ UNCHANGED <<qkind, qname, qmade, greetings, qref>> /\ answers[n][o] # <<>>
      /\ answers' = [answers EXCEPT ![n][o] = Tail(answers[n][o])]
      /\ qgot' = [qgot EXCEPT ![s] = Head(answers[n][o])]
  BY <1>1, QueueProcs DEF Queue!TakeAnswer
<1>3. /\ QueuesOfWorker' /\ ServerQueues' /\ ClientQueues' /\ QueuesInOrder'
      /\ \A q \in Queue!Procs : qpc'[q] = IF q = s THEN "remove" ELSE qpc[q]
      /\ \A q \in Queue!Procs : Queue!ForServer(q)' = Queue!ForServer(q) /\ Queue!ForClient(q)' = Queue!ForClient(q)
      /\ \A q, r, m : Shares(q, r, m)' <=> Shares(q, r, m)
  BY <1>2, QueuesStay
<1>4. /\ answers[n][o] \in Seq(Servers) /\ o # 0 /\ o <= qmade[n]
      /\ OnlyOf(answers[n][o], s)
  <2>1. o # 0
    BY <1>1, <1>2 DEF QueueGood, ServerQueues
  <2> QED
    BY <1>1, <1>2, <2>1, QueueObjects DEF QueueGood, OwnMessages, QueuesNumbered
<1>5. /\ Head(answers[n][o]) = s /\ OnlyOf(Tail(answers[n][o]), s)
      /\ \A m \in Queue!Names, x \in Queue!Objects :
            answers'[m][x] = IF m = n /\ x = o THEN Tail(answers[n][o]) ELSE answers[m][x]
  <2>1. Tail(answers[n][o]) \in Seq(Servers)
    BY <1>2, <1>4
  <2>2. answers \in [Queue!Names -> [Queue!Objects -> Seq(Servers)]]
    BY DEF Queue!TypeOK
  <2>3. \A m \in Queue!Names, x \in Queue!Objects :
            answers'[m][x] = IF m = n /\ x = o THEN Tail(answers[n][o]) ELSE answers[m][x]
    BY <1>2, <2>1, <2>2, SendTypes
  <2> QED
    BY <1>2, <1>4, <2>3, OnlyOfKept
<1>6. \A q \in Queue!Procs : qgot'[q] = IF q = s THEN s ELSE qgot[q]
  BY <1>2, <1>5 DEF Queue!TypeOK
<1>7. QueuesNumbered'
  <2>1. o \in Nat /\ qmade[n] \in Nat
    BY QueueObjects
  <2>2. \A m \in Queue!Names, x \in Queue!Objects : x > qmade[m] => greetings[m][x] = <<>> /\ answers'[m][x] = <<>>
    <3>1. \A m \in Queue!Names, x \in Queue!Objects : x > qmade[m] => greetings[m][x] = <<>> /\ answers[m][x] = <<>>
      BY DEF QueueGood, QueuesNumbered
    <3>2. \A m \in Queue!Names, x \in Queue!Objects : x > qmade[m] => answers'[m][x] = answers[m][x]
      BY <1>4, <1>5, <2>1
    <3> QED
      BY <3>1, <3>2
  <2> QED
    BY <1>2, <1>3, <2>2 DEF QueueGood, QueuesNumbered
<1>8. OwnMessages'
  <2>1. \A t \in Servers, m \in Queue!Names : qref[t][m] \in Queue!Objects
    BY QueueObjects, QueueProcs
  <2>2. ASSUME NEW t \in Servers, NEW m \in Queue!Names, qref'[t][m] # 0, qpc'[t] # "done"
        PROVE  OnlyOf(answers'[m][qref'[t][m]], t)
    <3>1. CASE m = n /\ qref[t][m] = o
      <4>1. t = s
        BY <1>1, <1>4, <3>1 DEF QueueGood, QueuesNumbered, Shares
      <4> QED
        BY <1>2, <1>5, <3>1, <4>1
    <3>2. CASE ~(m = n /\ qref[t][m] = o)
      BY <1>2, <1>3, <1>5, <2>1, <2>2, <3>2, QueueProcs DEF QueueGood, OwnMessages
    <3> QED
      BY <3>1, <3>2
  <2>3. \A t \in Servers, m \in Queue!Names : qref'[t][m] # 0 => OnlyOf(greetings'[m][qref'[t][m]], t)
    BY <1>2 DEF QueueGood, OwnMessages
  <2>4. ASSUME NEW c \in Clients, qpc'[c] = "send" PROVE Shares(c, qgot[c], Queue!ForClient(c))' /\ qgot'[c] = qgot[c]
    BY <1>3, <1>6, <2>4, QueueProcs DEF QueueGood, OwnMessages
  <2> QED
    BY <1>2, <2>2, <2>3, <2>4 DEF OwnMessages, OnlyOf, Shares
<1>9. \A t \in Servers : qgot'[t] \in {t, Queue!Nobody}
  BY <1>6, QueueProcs DEF QueueGood
<1> QED
  BY <1>3, <1>7, <1>8, <1>9 DEF QueueGood

\* A server that opens a queue makes a new one: nobody has it.
LEMMA OpenQueueKeeps ==
    ASSUME QueueStart, NEW s \in Servers, Queue!ServerOpens(s)
    PROVE  QueueGood'
<1> USE DEF QueueStart
<1>0. /\ s \in Queue!Procs /\ qkind[s] \in {"posix", "sysv"}
      /\ qkind[s] = "posix" => Queue!ForServer(s) = "ser_q" /\ Queue!ForClient(s) = "cli_q"
      /\ qkind[s] = "sysv" => Queue!ForServer(s) = "msgid" /\ Queue!ForClient(s) = "msgid"
      /\ Queue!ForServer(s) \in Queue!Names /\ Queue!ForClient(s) \in Queue!Names
  BY QueueNames, QueueProcs
<1>1. PICK n, l :
         /\ n \in Queue!Names
         /\ \/ qpc[s] = "open" /\ n = Queue!ForServer(s) /\ qkind[s] = "posix" /\ l = "open more"
            \/ qpc[s] = "open" /\ n = Queue!ForServer(s) /\ qkind[s] = "sysv" /\ l = "send"
            \/ qpc[s] = "open more" /\ n = "cli_q" /\ qkind[s] = "posix" /\ l = "send"
         /\ Queue!Create(s, n) /\ Queue!Goto(s, l)
  <2>1. CASE qpc[s] = "open" /\ qkind[s] = "posix"
    BY <1>0, <2>1 DEF Queue!ServerOpens
  <2>2. CASE qpc[s] = "open" /\ qkind[s] = "sysv"
    BY <1>0, <2>2 DEF Queue!ServerOpens
  <2>3. CASE qpc[s] = "open more"
    <3>1. qkind[s] = "posix"
      BY <1>0, <2>3 DEF QueueGood, ServerQueues
    <3> QED
      BY <1>0, <2>3, <3>1 DEF Queue!ServerOpens
  <2> QED
    BY <1>0, <2>1, <2>2, <2>3 DEF Queue!ServerOpens
<1>n. n \in Queue!Names
  BY <1>1
<1> USE <1>n
<1>2. /\ \A q \in Queue!Procs : qpc'[q] = IF q = s THEN l ELSE qpc[q]
      /\ s \in Queue!AtWork
      /\ \/ n = Queue!ForServer(s) /\ qpc[s] = "open"
         \/ n = Queue!ForClient(s) /\ qpc[s] = "open more"
      /\ l = "send" <=> n = Queue!ForClient(s)
  <2>1. \A q \in Queue!Procs : qpc'[q] = IF q = s THEN l ELSE qpc[q]
    BY <1>1 DEF Queue!Goto, Queue!TypeOK
  <2>2. s \in Queue!AtWork
    BY <1>1 DEF Queue!AtWork
  <2> QED
    BY <1>0, <1>1, <2>1, <2>2
<1>3. qname[n] = 0 /\ qref[s][n] = 0
  <2>1. ~Keeps(s, n)
    BY <1>0, <1>1 DEF Keeps
  <2>2. \A t \in Servers : ~Keeps(t, n)
    BY <1>2, <2>1 DEF Keeps, QueueGood, QueuesOfWorker, Queue!AtWork
  <2>3. qref[s][n] = 0
    BY <1>0, <1>1 DEF QueueGood, ServerQueues
  <2> QED
    BY <2>2, <2>3 DEF QueueGood, QueuesOfWorker
<1>4. PICK o \in Queue!Objects :
         /\ o # 0 /\ o > qmade[n]
         /\ \A m \in Queue!Names : qmade'[m] = IF m = n THEN o ELSE qmade[m]
         /\ \A m \in Queue!Names : qname'[m] = IF m = n THEN o ELSE qname[m]
         /\ \A p \in Queue!Procs, m \in Queue!Names : qref'[p][m] = IF p = s /\ m = n THEN o ELSE qref[p][m]
  <2>1. qmade[n] \in Nat /\ qmade[n] + 1 \in Queue!Objects /\ qmade[n] + 1 # 0
    <3>1. qmade[n] < MaxObject
      BY <1>1, <1>3 DEF Queue!Create
    <3>2. qmade[n] \in Nat /\ MaxObject \in Nat
      BY QueueObjects, ShakeAssumption
    <3> QED
      BY <3>1, <3>2 DEF Queue!Objects
  <2>2. qmade' = [qmade EXCEPT ![n] = qmade[n] + 1] /\ qname' = [qname EXCEPT ![n] = qmade[n] + 1]
    BY <1>1, <1>3 DEF Queue!Create, Queue!TypeOK
  <2>3. qref' = [qref EXCEPT ![s][n] = qmade[n] + 1]
    BY <1>1, <2>2 DEF Queue!Create, Queue!TypeOK
  <2> DEFINE o == qmade[n] + 1
  <2>4. o \in Queue!Objects /\ o # 0 /\ o > qmade[n]
    BY <2>1 DEF Queue!Objects
  <2> HIDE DEF o
  <2>5. /\ \A m \in Queue!Names : qmade'[m] = IF m = n THEN o ELSE qmade[m]
        /\ \A m \in Queue!Names : qname'[m] = IF m = n THEN o ELSE qname[m]
    BY <2>2 DEF Queue!TypeOK, o
  <2>6. \A p \in Queue!Procs, m \in Queue!Names : qref'[p][m] = IF p = s /\ m = n THEN o ELSE qref[p][m]
    BY <1>0, <2>3 DEF Queue!TypeOK, o
  <2> QED
    BY <2>4, <2>5, <2>6
<1>5. /\ UNCHANGED <<qkind, greetings, answers, qgot>>
      /\ \A p \in Queue!Procs : qref[p][n] # o
      /\ \A m \in Queue!Names : qmade[m] \in Nat
      /\ \A p \in Queue!Procs, m \in Queue!Names : qref[p][m] \in Nat /\ qref[p][m] \in Queue!Objects
      /\ o \in Nat
  <2>1. \A p \in Queue!Procs : qref[p][n] <= qmade[n]
    BY DEF QueueGood, QueuesNumbered
  <2>2. /\ \A m \in Queue!Names : qmade[m] \in Nat
        /\ \A p \in Queue!Procs, m \in Queue!Names : qref[p][m] \in Nat /\ qref[p][m] \in Queue!Objects
        /\ o \in Nat
    BY QueueObjects
  <2>3. UNCHANGED <<qkind, greetings, answers, qgot>>
    BY <1>1 DEF Queue!Create
  <2>4. \A p \in Queue!Procs : qref[p][n] # o
    BY <1>4, <2>1, <2>2
  <2> QED
    BY <2>2, <2>3, <2>4
<1>6. /\ \A c \in Clients : qpc'[c] = qpc[c] /\ \A m \in Queue!Names : qref'[c][m] = qref[c][m]
      /\ \A q \in Queue!Procs : Queue!ForServer(q)' = Queue!ForServer(q) /\ Queue!ForClient(q)' = Queue!ForClient(q)
      /\ \A c \in Clients, t \in Servers, m \in Queue!Names : Shares(c, t, m)' <=> Shares(c, t, m)
      /\ \A t, u \in Servers, m \in Queue!Names : t # u => ~Shares(t, u, m)'
  <2>1. \A c \in Clients : qpc'[c] = qpc[c] /\ \A m \in Queue!Names : qref'[c][m] = qref[c][m]
    BY <1>2, <1>4, QueueProcs
  <2>2. \A q \in Queue!Procs : Queue!ForServer(q)' = Queue!ForServer(q) /\ Queue!ForClient(q)' = Queue!ForClient(q)
    BY <1>5 DEF Queue!ForServer, Queue!ForClient
  <2>3. ASSUME NEW c \in Clients, NEW t \in Servers, NEW m \in Queue!Names
        PROVE  Shares(c, t, m)' <=> Shares(c, t, m)
    BY <1>3, <1>4, <1>5, <2>1, QueueProcs DEF Shares
  <2>4. ASSUME NEW t \in Servers, NEW u \in Servers, NEW m \in Queue!Names, t # u
        PROVE  ~Shares(t, u, m)'
    <3>1. ~Shares(t, u, m)
      BY <2>4 DEF QueueGood, QueuesNumbered
    <3> QED
      BY <1>4, <1>5, <2>4, <3>1, QueueProcs DEF Shares
  <2> QED
    BY <2>1, <2>2, <2>3, <2>4
<1>7. QueuesOfWorker'
  <2>1. \A t, u \in Servers : t \in Queue!AtWork' /\ u \in Queue!AtWork' => t = u
    BY <1>1, <1>2, QueueProcs DEF Queue!AtWork, QueueGood, QueuesOfWorker
  <2>2. \A t \in Servers : \A m \in Queue!Names : Keeps(t, m) => Keeps(t, m)' /\ (t = s => m # n)
    <3>1. ASSUME NEW t \in Servers, NEW m \in Queue!Names, Keeps(t, m)
          PROVE  Keeps(t, m)' /\ (t = s => m # n)
      <4>1. Queue!ForServer(t)' = Queue!ForServer(t) /\ Queue!ForClient(t)' = Queue!ForClient(t) /\ t \in Queue!Procs
        BY <1>6, QueueProcs
      <4>2. CASE t # s
        BY <1>2, <3>1, <4>1, <4>2 DEF Keeps
      <4>3. CASE t = s
        BY <1>0, <1>1, <1>2, <3>1, <4>1, <4>3 DEF Keeps
      <4> QED
        BY <4>2, <4>3
    <3> QED
      BY <3>1
  <2>3. Keeps(s, n)'
    BY <1>0, <1>1, <1>2, <1>6 DEF Keeps
  <2>4. ASSUME NEW m \in Queue!Names, qname'[m] # 0
        PROVE  \E t \in Servers : Keeps(t, m)' /\ qname'[m] = qref'[t][m]
    <3>1. CASE m = n
      BY <1>0, <1>4, <2>3, <3>1
    <3>2. CASE m # n
      <4>1. qname[m] # 0 /\ qname'[m] = qname[m]
        BY <1>4, <2>4, <3>2
      <4>2. PICK t \in Servers : Keeps(t, m) /\ qname[m] = qref[t][m]
        BY <4>1 DEF QueueGood, QueuesOfWorker
      <4> QED
        BY <1>4, <2>2, <3>2, <4>1, <4>2, QueueProcs
    <3> QED
      BY <3>1, <3>2
  <2>5. \A t \in Servers : qpc'[t] # "killed"
    BY <1>1, <1>2, QueueProcs DEF QueueGood, QueuesOfWorker
  <2> QED
    BY <2>1, <2>4, <2>5 DEF QueuesOfWorker
<1>8. QueuesNumbered'
  <2>1. \A p \in Queue!Procs, m \in Queue!Names : qref'[p][m] <= qmade'[m]
    <3>1. ASSUME NEW p \in Queue!Procs, NEW m \in Queue!Names PROVE qref'[p][m] <= qmade'[m]
      <4>1. qref[p][m] <= qmade[m] /\ qmade[m] \in Nat /\ qref[p][m] \in Nat
        BY <1>5 DEF QueueGood, QueuesNumbered
      <4> QED
        BY <1>4, <1>5, <4>1
    <3> QED
      BY <3>1
  <2>2. \A m \in Queue!Names, x \in Queue!Objects : x > qmade'[m] => greetings[m][x] = <<>> /\ answers[m][x] = <<>>
    <3>1. ASSUME NEW m \in Queue!Names, NEW x \in Queue!Objects, x > qmade'[m]
          PROVE  greetings[m][x] = <<>> /\ answers[m][x] = <<>>
      <4>1. x > qmade[m]
        <5>1. x \in Nat /\ qmade[m] \in Nat /\ qmade[n] \in Nat
          BY <1>5, QueueObjects
        <5> QED
          BY <1>4, <1>5, <3>1, <5>1
      <4> QED
        BY <4>1 DEF QueueGood, QueuesNumbered
    <3> QED
      BY <3>1
  <2> QED
    BY <1>5, <1>6, <2>1, <2>2 DEF QueuesNumbered
<1>9. ServerQueues'
  <2>1. ASSUME NEW t \in Servers
        PROVE  /\ \A m \in Queue!Names : m # Queue!ForServer(t) /\ m # Queue!ForClient(t) => qref'[t][m] = 0
               /\ qref'[t][Queue!ForServer(t)] = 0 <=> qpc'[t] \in {"idle", "open"}
               /\ qref'[t][Queue!ForClient(t)] = 0 <=> qpc'[t] \in {"idle", "open", "open more"}
               /\ qkind'[t] = "sysv" => qpc'[t] \notin {"open more", "remove more"}
    <3>1. t \in Queue!Procs /\ Queue!ForServer(t) \in Queue!Names /\ Queue!ForClient(t) \in Queue!Names
      BY QueueNames, QueueProcs
    <3>2. /\ \A m \in Queue!Names : m # Queue!ForServer(t) /\ m # Queue!ForClient(t) => qref[t][m] = 0
          /\ qref[t][Queue!ForServer(t)] = 0 <=> qpc[t] \in {"idle", "open"}
          /\ qref[t][Queue!ForClient(t)] = 0 <=> qpc[t] \in {"idle", "open", "open more"}
          /\ qkind[t] = "sysv" => qpc[t] \notin {"open more", "remove more"}
      BY DEF QueueGood, ServerQueues
    <3>3. CASE t # s
      <4>1. qkind'[t] = qkind[t] /\ qpc'[t] = qpc[t] /\ \A m \in Queue!Names : qref'[t][m] = qref[t][m]
        BY <1>2, <1>4, <1>5, <3>1, <3>3
      <4> QED
        BY <3>1, <3>2, <4>1
    <3>4. CASE t = s
      <4>1. qkind'[s] = qkind[s] /\ qpc'[s] = l
            /\ \A m \in Queue!Names : qref'[s][m] = IF m = n THEN o ELSE qref[s][m]
        BY <1>0, <1>2, <1>4, <1>5
      <4>2. o # 0
        BY <1>4
      <4> QED
        BY <1>0, <1>1, <1>2, <3>2, <3>4, <4>1, <4>2
    <3> QED
      BY <3>3, <3>4
  <2>2. \A t \in Servers : Queue!ForServer(t)' = Queue!ForServer(t) /\ Queue!ForClient(t)' = Queue!ForClient(t)
    BY <1>6, QueueProcs
  <2> QED
    BY <2>1, <2>2 DEF ServerQueues
<1>10. ClientQueues'
  <2>1. ASSUME NEW c \in Clients, NEW m \in Queue!Names, qref'[c][m] # 0
        PROVE  \E t \in Servers : Shares(c, t, m)'
    <3>1. qref[c][m] # 0
      BY <1>6, <2>1
    <3>2. PICK t \in Servers : Shares(c, t, m)
      BY <3>1 DEF QueueGood, ClientQueues
    <3> QED
      BY <1>6, <3>2
  <2>2. ASSUME NEW c \in Clients
        PROVE  /\ qpc'[c] = "idle" => qref'[c][Queue!ForServer(c)] = 0
               /\ qpc'[c] \in {"idle", "open more"} => qref'[c][Queue!ForClient(c)] = 0
               /\ qpc'[c] \in {"receive", "send"} =>
                     qref'[c][Queue!ForServer(c)] # 0 /\ qref'[c][Queue!ForClient(c)] # 0
               /\ qpc'[c] = "open more" => qref'[c][Queue!ForServer(c)] # 0
               /\ qkind'[c] = "sysv" => qpc'[c] # "open more"
    <3>1. Queue!ForServer(c) \in Queue!Names /\ Queue!ForClient(c) \in Queue!Names
      BY QueueNames, QueueProcs
    <3> QED
      <4>1. /\ qpc[c] = "idle" => qref[c][Queue!ForServer(c)] = 0
            /\ qpc[c] \in {"idle", "open more"} => qref[c][Queue!ForClient(c)] = 0
            /\ qpc[c] \in {"receive", "send"} =>
                  qref[c][Queue!ForServer(c)] # 0 /\ qref[c][Queue!ForClient(c)] # 0
            /\ qpc[c] = "open more" => qref[c][Queue!ForServer(c)] # 0
            /\ qkind[c] = "sysv" => qpc[c] # "open more"
        BY DEF QueueGood, ClientQueues
      <4>2. qkind'[c] = qkind[c] /\ qpc'[c] = qpc[c] /\ \A m \in Queue!Names : qref'[c][m] = qref[c][m]
        BY <1>5, <1>6
      <4> QED
        BY <3>1, <4>1, <4>2
  <2> QED
    BY <1>5, <2>1, <2>2 DEF ClientQueues, Queue!ForServer, Queue!ForClient
<1>11. QueuesInOrder'
  <2>1. ASSUME NEW c \in Clients, NEW t \in Servers, NEW u \in Servers,
               Shares(c, t, Queue!ForServer(c))', Shares(c, u, Queue!ForClient(c))'
        PROVE  t = u \/ qpc'[t] = "done"
    <3>1. PICK m \in Queue!Names, k \in Queue!Names : m = Queue!ForServer(c) /\ k = Queue!ForClient(c)
      BY QueueNames, QueueProcs
    <3>2. Shares(c, t, m)' /\ Shares(c, u, k)'
      BY <1>5, <2>1, <3>1 DEF Shares, Queue!ForServer, Queue!ForClient
    <3>3. t = u \/ qpc[t] = "done"
      BY <1>6, <3>1, <3>2 DEF QueueGood, QueuesInOrder
    <3> QED
      BY <1>1, <1>2, <3>3, QueueProcs
  <2> QED
    BY <2>1 DEF QueuesInOrder
<1>12. OwnMessages'
  <2>1. ASSUME NEW t \in Servers, NEW m \in Queue!Names, qref'[t][m] # 0
        PROVE  /\ OnlyOf(greetings[m][qref'[t][m]], t)
               /\ qpc'[t] # "done" => OnlyOf(answers[m][qref'[t][m]], t)
    <3>1. CASE t = s /\ m = n
      <4>1. qref'[t][m] = o /\ greetings[n][o] = <<>> /\ answers[n][o] = <<>>
        BY <1>0, <1>4, <3>1 DEF QueueGood, QueuesNumbered
      <4> QED
        BY <3>1, <4>1 DEF OnlyOf
    <3>2. CASE ~(t = s /\ m = n)
      <4>1. qref'[t][m] = qref[t][m] /\ (qpc'[t] # "done" => qpc[t] # "done")
        BY <1>1, <1>2, <1>4, <3>2, QueueProcs
      <4> QED
        BY <2>1, <4>1 DEF QueueGood, OwnMessages
    <3> QED
      BY <3>1, <3>2
  <2>2. ASSUME NEW c \in Clients, qpc'[c] = "send" PROVE Shares(c, qgot[c], Queue!ForClient(c))'
    <3>1. PICK m \in Queue!Names : m = Queue!ForClient(c)
      BY QueueNames, QueueProcs
    <3>2. qpc[c] = "send" /\ qgot[c] \in Servers
      BY <1>6, <2>2 DEF QueueTypes
    <3>3. Shares(c, qgot[c], m)
      BY <3>1, <3>2 DEF QueueGood, OwnMessages
    <3>4. qref'[c][m] # 0 /\ qref'[c][m] = qref'[qgot[c]][m]
      BY <1>6, <3>2, <3>3 DEF Shares
    <3> QED
      BY <1>5, <3>1, <3>4 DEF Shares, Queue!ForClient
  <2> QED
    BY <1>5, <2>1, <2>2 DEF OwnMessages, OnlyOf
<1>13. \A t \in Servers : qgot'[t] \in {t, Queue!Nobody}
  BY <1>5 DEF QueueGood
<1> QED
  BY <1>7, <1>8, <1>9, <1>10, <1>11, <1>12, <1>13 DEF QueueGood

\* A client opens what is there: a queue of the server at work, which comes after every
\* server whose queue the client has opened before.
LEMMA FindQueueKeeps ==
    ASSUME QueueStart, NEW c \in Clients, Queue!ClientOpens(c)
    PROVE  QueueGood'
<1> USE DEF QueueStart
<1>0. /\ c \in Queue!Procs /\ qkind[c] \in {"posix", "sysv"}
      /\ qkind[c] = "posix" => Queue!ForServer(c) = "ser_q" /\ Queue!ForClient(c) = "cli_q"
      /\ qkind[c] = "sysv" => Queue!ForServer(c) = "msgid" /\ Queue!ForClient(c) = "msgid"
      /\ Queue!ForServer(c) \in Queue!Names /\ Queue!ForClient(c) \in Queue!Names
  BY QueueNames, QueueProcs
<1>1. PICK n, l :
         /\ n \in Queue!Names
         /\ \/ qpc[c] = "idle" /\ n = Queue!ForServer(c) /\ qkind[c] = "posix" /\ l = "open more"
            \/ qpc[c] = "idle" /\ n = Queue!ForServer(c) /\ qkind[c] = "sysv" /\ l = "receive"
            \/ qpc[c] = "open more" /\ n = Queue!ForClient(c) /\ qkind[c] = "posix" /\ l = "receive"
         /\ Queue!Find(c, n, l)
  <2>1. CASE qpc[c] = "idle" /\ qkind[c] = "posix"
    BY <1>0, <2>1 DEF Queue!ClientOpens
  <2>2. CASE qpc[c] = "idle" /\ qkind[c] = "sysv"
    BY <1>0, <2>2 DEF Queue!ClientOpens
  <2>3. CASE qpc[c] = "open more"
    <3>1. qkind[c] = "posix"
      BY <1>0, <2>3 DEF QueueGood, ClientQueues
    <3> QED
      BY <1>0, <2>3, <3>1 DEF Queue!ClientOpens
  <2> QED
    BY <1>0, <2>1, <2>2, <2>3 DEF Queue!ClientOpens
<1>n. n \in Queue!Names
  BY <1>1
<1> USE <1>n
<1>2. /\ \A q \in Queue!Procs : qpc'[q] = IF q = c THEN IF qname[n] = 0 THEN "done" ELSE l ELSE qpc[q]
      /\ \A p \in Queue!Procs, m \in Queue!Names : qref'[p][m] = IF p = c /\ m = n THEN qname[n] ELSE qref[p][m]
      /\ UNCHANGED <<qkind, qname, qmade, greetings, answers, qgot>>
  BY <1>0, <1>1 DEF Queue!Find, Queue!Goto, Queue!TypeOK, Queue!system
<1>3. /\ \A t \in Servers : qpc'[t] = qpc[t]
      /\ \A t \in Servers, m \in Queue!Names : qref'[t][m] = qref[t][m]
      /\ \A d \in Clients : d # c => qpc'[d] = qpc[d]
      /\ \A d \in Clients, m \in Queue!Names : d # c => qref'[d][m] = qref[d][m]
      /\ qpc'[c] = IF qname[n] = 0 THEN "done" ELSE l
      /\ \A m \in Queue!Names : qref'[c][m] = IF m = n THEN qname[n] ELSE qref[c][m]
      /\ \A q \in Queue!Procs : Queue!ForServer(q)' = Queue!ForServer(q) /\ Queue!ForClient(q)' = Queue!ForClient(q)
  <2>1. \A q \in Queue!Procs : Queue!ForServer(q)' = Queue!ForServer(q) /\ Queue!ForClient(q)' = Queue!ForClient(q)
    BY <1>2 DEF Queue!ForServer, Queue!ForClient
  <2> QED
    BY <1>0, <1>2, <2>1, QueueProcs
<1>4. /\ \A d \in Clients, t \in Servers, m \in Queue!Names :
            d # c \/ m # n => (Shares(d, t, m)' <=> Shares(d, t, m))
      /\ \A t, u \in Servers, m \in Queue!Names : Shares(t, u, m)' <=> Shares(t, u, m)
  BY <1>3 DEF Shares
<1>5. qref[c][Queue!ForClient(c)] = 0
  BY <1>0, <1>1 DEF QueueGood, ClientQueues
<1>6. ASSUME NEW t \in Servers, Shares(c, t, n)'
      PROVE  t \in Queue!AtWork /\ qref[t][n] = qname[n]
  <2>1. qname[n] # 0 /\ qref[t][n] = qname[n]
    BY <1>3, <1>6 DEF Shares
  <2>2. PICK u \in Servers : Keeps(u, n) /\ qname[n] = qref[u][n]
    BY <2>1 DEF QueueGood, QueuesOfWorker
  <2>3. t = u
    BY <2>1, <2>2 DEF QueueGood, QueuesNumbered, Shares
  <2> QED
    BY <2>1, <2>2, <2>3 DEF Keeps, Queue!AtWork
<1>7. qname[n] # 0 => \E t \in Servers : Shares(c, t, n)'
  <2>1. SUFFICES ASSUME qname[n] # 0 PROVE \E t \in Servers : Shares(c, t, n)'
    OBVIOUS
  <2>2. PICK t \in Servers : qname[n] = qref[t][n]
    BY <2>1 DEF QueueGood, QueuesOfWorker
  <2> QED
    BY <1>3, <2>1, <2>2 DEF Shares
<1>8. QueuesOfWorker'
  <2>1. \A t, u \in Servers : t \in Queue!AtWork' /\ u \in Queue!AtWork' => t = u
    BY <1>3 DEF Queue!AtWork, QueueGood, QueuesOfWorker
  <2>2. ASSUME NEW m \in Queue!Names, qname'[m] # 0
        PROVE  \E t \in Servers : Keeps(t, m)' /\ qname'[m] = qref'[t][m]
    <3>1. PICK t \in Servers : Keeps(t, m) /\ qname[m] = qref[t][m]
      BY <1>2, <2>2 DEF QueueGood, QueuesOfWorker
    <3>2. Keeps(t, m)'
      BY <1>3, <3>1, QueueProcs DEF Keeps
    <3> QED
      BY <1>2, <1>3, <3>1, <3>2
  <2>3. \A t \in Servers : qpc'[t] # "killed"
    BY <1>3 DEF QueueGood, QueuesOfWorker
  <2> QED
    BY <2>1, <2>2, <2>3 DEF QueuesOfWorker
<1>9. QueuesNumbered'
  <2>1. qname[n] <= qmade[n]
    <3>1. qname[n] # 0 => \E t \in Servers : qname[n] = qref[t][n]
      BY DEF QueueGood, QueuesOfWorker
    <3>2. \A t \in Servers : qref[t][n] <= qmade[n]
      BY QueueProcs DEF QueueGood, QueuesNumbered
    <3> QED
      BY <3>1, <3>2, QueueObjects
  <2>2. \A p \in Queue!Procs, m \in Queue!Names : qref'[p][m] <= qmade'[m]
    BY <1>2, <2>1 DEF QueueGood, QueuesNumbered
  <2> QED
    BY <1>2, <1>4, <2>2 DEF QueueGood, QueuesNumbered
<1>10. ServerQueues'
  <2>1. ASSUME NEW t \in Servers
        PROVE  /\ \A m \in Queue!Names : m # Queue!ForServer(t) /\ m # Queue!ForClient(t) => qref'[t][m] = 0
               /\ qref'[t][Queue!ForServer(t)] = 0 <=> qpc'[t] \in {"idle", "open"}
               /\ qref'[t][Queue!ForClient(t)] = 0 <=> qpc'[t] \in {"idle", "open", "open more"}
               /\ qkind'[t] = "sysv" => qpc'[t] \notin {"open more", "remove more"}
    <3>1. Queue!ForServer(t) \in Queue!Names /\ Queue!ForClient(t) \in Queue!Names
      BY QueueNames, QueueProcs
    <3>2. /\ \A m \in Queue!Names : m # Queue!ForServer(t) /\ m # Queue!ForClient(t) => qref[t][m] = 0
          /\ qref[t][Queue!ForServer(t)] = 0 <=> qpc[t] \in {"idle", "open"}
          /\ qref[t][Queue!ForClient(t)] = 0 <=> qpc[t] \in {"idle", "open", "open more"}
          /\ qkind[t] = "sysv" => qpc[t] \notin {"open more", "remove more"}
      BY DEF QueueGood, ServerQueues
    <3> QED
      BY <1>2, <1>3, <3>1, <3>2
  <2>2. \A t \in Servers : Queue!ForServer(t)' = Queue!ForServer(t) /\ Queue!ForClient(t)' = Queue!ForClient(t)
    BY <1>3, QueueProcs
  <2> QED
    BY <2>1, <2>2 DEF ServerQueues
<1>11. ClientQueues'
  <2>1. ASSUME NEW d \in Clients, NEW m \in Queue!Names, qref'[d][m] # 0
        PROVE  \E t \in Servers : Shares(d, t, m)'
    <3>1. CASE d = c /\ m = n
      BY <1>3, <1>7, <2>1, <3>1
    <3>2. CASE d # c \/ m # n
      <4>1. qref[d][m] # 0
        BY <1>3, <2>1, <3>2
      <4>2. PICK t \in Servers : Shares(d, t, m)
        BY <4>1 DEF QueueGood, ClientQueues
      <4> QED
        BY <1>4, <3>2, <4>2
    <3> QED
      BY <3>1, <3>2
  <2>2. ASSUME NEW d \in Clients
        PROVE  /\ qpc'[d] = "idle" => qref'[d][Queue!ForServer(d)] = 0
               /\ qpc'[d] \in {"idle", "open more"} => qref'[d][Queue!ForClient(d)] = 0
               /\ qpc'[d] \in {"receive", "send"} =>
                     qref'[d][Queue!ForServer(d)] # 0 /\ qref'[d][Queue!ForClient(d)] # 0
               /\ qpc'[d] = "open more" => qref'[d][Queue!ForServer(d)] # 0
               /\ qkind'[d] = "sysv" => qpc'[d] # "open more"
    <3>1. Queue!ForServer(d) \in Queue!Names /\ Queue!ForClient(d) \in Queue!Names
      BY QueueNames, QueueProcs
    <3>2. CASE d # c
      <4>1. /\ qpc[d] = "idle" => qref[d][Queue!ForServer(d)] = 0
            /\ qpc[d] \in {"idle", "open more"} => qref[d][Queue!ForClient(d)] = 0
            /\ qpc[d] \in {"receive", "send"} =>
                  qref[d][Queue!ForServer(d)] # 0 /\ qref[d][Queue!ForClient(d)] # 0
            /\ qpc[d] = "open more" => qref[d][Queue!ForServer(d)] # 0
            /\ qkind[d] = "sysv" => qpc[d] # "open more"
        BY DEF QueueGood, ClientQueues
      <4> QED
        BY <1>2, <1>3, <3>1, <3>2, <4>1
    <3>3. CASE d = c
      <4>1. qpc[c] = "open more" => qref[c][Queue!ForServer(c)] # 0
        BY DEF QueueGood, ClientQueues
      <4>2. CASE qname[n] = 0
        <5>1. qpc'[c] = "done"
          BY <1>3, <4>2
        <5> QED
          BY <3>3, <5>1
      <4>3. CASE qname[n] # 0
        <5>1. qpc'[c] = l /\ qkind'[c] = qkind[c] /\ qref'[c][n] # 0
          BY <1>2, <1>3, <4>3
        <5>2. \A m \in Queue!Names : m # n => qref'[c][m] = qref[c][m]
          BY <1>3
        <5> QED
          BY <1>0, <1>1, <1>5, <3>3, <4>1, <5>1, <5>2
      <4> QED
        BY <4>2, <4>3
    <3> QED
      BY <3>2, <3>3
  <2>3. \A d \in Clients : Queue!ForServer(d)' = Queue!ForServer(d) /\ Queue!ForClient(d)' = Queue!ForClient(d)
    BY <1>3, QueueProcs
  <2> QED
    BY <2>1, <2>2, <2>3 DEF ClientQueues
<1>12. QueuesInOrder'
  <2>1. ASSUME NEW d \in Clients, NEW t \in Servers, NEW u \in Servers, t # u,
               Shares(d, t, Queue!ForServer(d))', Shares(d, u, Queue!ForClient(d))'
        PROVE  qpc'[t] = "done"
    <3>1. PICK m \in Queue!Names, k \in Queue!Names : m = Queue!ForServer(d) /\ k = Queue!ForClient(d)
      BY QueueNames, QueueProcs
    <3>2. Shares(d, t, m)' /\ Shares(d, u, k)'
      BY <1>2, <2>1, <3>1 DEF Shares, Queue!ForServer, Queue!ForClient
    <3>3. CASE d # c
      BY <1>3, <1>4, <2>1, <3>1, <3>2, <3>3 DEF QueueGood, QueuesInOrder
    <3>4. CASE d = c /\ n = k
      <4>1. u \in Queue!AtWork
        BY <1>6, <3>2, <3>4
      <4>2. m # k
        <5>1. SUFFICES ASSUME m = k PROVE FALSE
          OBVIOUS
        <5>2. t \in Queue!AtWork
          BY <1>6, <3>2, <3>4, <5>1
        <5> QED
          BY <2>1, <4>1, <5>2 DEF QueueGood, QueuesOfWorker
      <4>3. Shares(c, t, m) /\ qref[t][m] # 0
        BY <1>4, <3>2, <3>4, <4>2 DEF Shares
      <4>4. qpc[t] # "idle"
        BY <4>3 DEF QueueGood, ServerQueues
      <4>5. t \notin Queue!AtWork
        BY <2>1, <4>1 DEF QueueGood, QueuesOfWorker
      <4> QED
        BY <1>3, <4>4, <4>5 DEF Queue!AtWork, QueueGood, QueuesOfWorker
    <3>5. CASE d = c /\ n # k
      <4>1. qref'[c][k] = 0
        BY <1>3, <1>5, <3>1, <3>5
      <4> QED
        BY <3>2, <3>5, <4>1 DEF Shares
    <3> QED
      BY <3>3, <3>4, <3>5
  <2> QED
    BY <2>1 DEF QueuesInOrder
<1>13. OwnMessages'
  <2>1. ASSUME NEW t \in Servers, NEW m \in Queue!Names, qref'[t][m] # 0
        PROVE  /\ OnlyOf(greetings[m][qref'[t][m]], t)
               /\ qpc'[t] # "done" => OnlyOf(answers[m][qref'[t][m]], t)
    BY <1>3, <2>1 DEF QueueGood, OwnMessages
  <2>2. ASSUME NEW d \in Clients, qpc'[d] = "send" PROVE Shares(d, qgot[d], Queue!ForClient(d))'
    <3>1. d # c /\ qpc[d] = "send"
      BY <1>1, <1>3, <2>2
    <3>2. PICK m \in Queue!Names : m = Queue!ForClient(d)
      BY QueueNames, QueueProcs
    <3>3. qgot[d] \in Servers /\ Shares(d, qgot[d], m)
      BY <3>1, <3>2 DEF QueueTypes, QueueGood, OwnMessages
    <3>4. qref'[d][m] # 0 /\ qref'[d][m] = qref'[qgot[d]][m]
      BY <1>3, <3>1, <3>3 DEF Shares
    <3> QED
      BY <1>2, <3>2, <3>4 DEF Shares, Queue!ForClient
  <2>3. (\A t \in Servers, m \in Queue!Names :
            qref[t][m] # 0 => OnlyOf(greetings[m][qref[t][m]], t))'
    BY <1>2, <2>1 DEF OnlyOf
  <2>4. (\A t \in Servers, m \in Queue!Names :
            qref[t][m] # 0 /\ qpc[t] # "done" => OnlyOf(answers[m][qref[t][m]], t))'
    BY <1>2, <2>1 DEF OnlyOf
  <2> HIDE DEF QueueStart
  <2> QED
    BY <2>2, <2>3, <2>4 DEF OwnMessages
<1>14. \A t \in Servers : qgot'[t] \in {t, Queue!Nobody}
  BY <1>2 DEF QueueGood
<1> QED
  BY <1>8, <1>9, <1>10, <1>11, <1>12, <1>13, <1>14 DEF QueueGood

\* The client takes the greeting of the server whose queue it has.
LEMMA ReceiveKeeps ==
    ASSUME QueueStart, NEW c \in Clients, Queue!TakeGreeting(c), ~Queue!Fails(c)
    PROVE  QueueGood'
<1> USE DEF QueueStart
<1>1. PICK n \in Queue!Names, o \in Queue!Objects : n = Queue!ForClient(c) /\ o = qref[c][n]
  BY QueueNames, QueueObjects, QueueProcs
<1>2. /\ qpc[c] = "receive" /\ Queue!Goto(c, "send") /\ c \in Queue!Procs
      /\ UNCHANGED <<qkind, qname, qmade, answers, qref>> /\ greetings[n][o] # <<>>
      /\ greetings' = [greetings EXCEPT ![n][o] = Tail(greetings[n][o])]
      /\ qgot' = [qgot EXCEPT ![c] = Head(greetings[n][o])]
  BY <1>1, QueueProcs DEF Queue!TakeGreeting
<1>3. /\ QueuesOfWorker' /\ ServerQueues' /\ ClientQueues' /\ QueuesInOrder'
      /\ \A q \in Queue!Procs : qpc'[q] = IF q = c THEN "send" ELSE qpc[q]
      /\ \A q \in Queue!Procs : Queue!ForServer(q)' = Queue!ForServer(q) /\ Queue!ForClient(q)' = Queue!ForClient(q)
      /\ \A q, r, m : Shares(q, r, m)' <=> Shares(q, r, m)
  BY <1>2, QueuesStay
<1>4. PICK s \in Servers : Shares(c, s, n)
  <2>1. qref[c][n] # 0
    BY <1>1, <1>2 DEF QueueGood, ClientQueues
  <2> QED
    BY <2>1 DEF QueueGood, ClientQueues
<1>5. /\ greetings[n][o] \in Seq(Servers) /\ o # 0 /\ o <= qmade[n] /\ o = qref[s][n]
      /\ OnlyOf(greetings[n][o], s)
  <2>1. o # 0 /\ o = qref[s][n] /\ s \in Queue!Procs
    BY <1>1, <1>4, QueueProcs DEF Shares
  <2> QED
    BY <2>1, QueueObjects DEF QueueGood, OwnMessages, QueuesNumbered
<1>6. /\ Head(greetings[n][o]) = s /\ OnlyOf(Tail(greetings[n][o]), s)
      /\ \A m \in Queue!Names, x \in Queue!Objects :
            greetings'[m][x] = IF m = n /\ x = o THEN Tail(greetings[n][o]) ELSE greetings[m][x]
  <2>1. Tail(greetings[n][o]) \in Seq(Servers)
    BY <1>2, <1>5
  <2>2. greetings \in [Queue!Names -> [Queue!Objects -> Seq(Servers)]]
    BY DEF Queue!TypeOK
  <2>3. \A m \in Queue!Names, x \in Queue!Objects :
            greetings'[m][x] = IF m = n /\ x = o THEN Tail(greetings[n][o]) ELSE greetings[m][x]
    BY <1>2, <2>1, <2>2, SendTypes
  <2> QED
    BY <1>2, <1>5, <2>3, OnlyOfKept
<1>7. \A q \in Queue!Procs : qgot'[q] = IF q = c THEN s ELSE qgot[q]
  BY <1>2, <1>6 DEF Queue!TypeOK
<1>8. QueuesNumbered'
  <2>1. o \in Nat /\ qmade[n] \in Nat
    BY QueueObjects
  <2>2. \A m \in Queue!Names, x \in Queue!Objects : x > qmade[m] => greetings'[m][x] = <<>> /\ answers[m][x] = <<>>
    <3>1. \A m \in Queue!Names, x \in Queue!Objects : x > qmade[m] => greetings[m][x] = <<>> /\ answers[m][x] = <<>>
      BY DEF QueueGood, QueuesNumbered
    <3>2. \A m \in Queue!Names, x \in Queue!Objects : x > qmade[m] => greetings'[m][x] = greetings[m][x]
      BY <1>5, <1>6, <2>1
    <3> QED
      BY <3>1, <3>2
  <2> QED
    BY <1>2, <1>3, <2>2 DEF QueueGood, QueuesNumbered
<1>9. OwnMessages'
  <2>1. \A t \in Servers, m \in Queue!Names : qref[t][m] \in Queue!Objects
    BY QueueObjects, QueueProcs
  <2>2. ASSUME NEW t \in Servers, NEW m \in Queue!Names, qref'[t][m] # 0
        PROVE  OnlyOf(greetings'[m][qref'[t][m]], t)
    <3>1. CASE m = n /\ qref[t][m] = o
      <4>1. t = s
        BY <1>5, <3>1 DEF QueueGood, QueuesNumbered, Shares
      <4> QED
        BY <1>2, <1>6, <3>1, <4>1
    <3>2. CASE ~(m = n /\ qref[t][m] = o)
      BY <1>2, <1>6, <2>1, <2>2, <3>2 DEF QueueGood, OwnMessages
    <3> QED
      BY <3>1, <3>2
  <2>3. \A t \in Servers, m \in Queue!Names : qref'[t][m] # 0 /\ qpc'[t] # "done" =>
            OnlyOf(answers'[m][qref'[t][m]], t)
    BY <1>2, <1>3, QueueProcs DEF QueueGood, OwnMessages
  <2>4. ASSUME NEW d \in Clients, qpc'[d] = "send" PROVE Shares(d, qgot[d], Queue!ForClient(d))'
    <3>1. PICK m \in Queue!Names : m = Queue!ForClient(d)
      BY QueueNames, QueueProcs
    <3>2. Shares(d, qgot'[d], m)
      <4>1. CASE d = c
        BY <1>1, <1>2, <1>4, <1>7, <3>1, <4>1
      <4>2. CASE d # c
        BY <1>3, <1>7, <2>4, <3>1, <4>2, QueueProcs DEF QueueGood, OwnMessages
      <4> QED
        BY <4>1, <4>2
    <3>3. qref'[d][m] # 0 /\ qref'[d][m] = qref'[qgot'[d]][m]
      BY <1>2, <3>2 DEF Shares
    <3> QED
      BY <1>2, <3>1, <3>3 DEF Shares, Queue!ForClient
  <2> QED
    BY <2>2, <2>3, <2>4 DEF OwnMessages, OnlyOf
<1>10. \A t \in Servers : qgot'[t] \in {t, Queue!Nobody}
  BY <1>7, QueueProcs DEF QueueGood
<1> QED
  BY <1>3, <1>8, <1>9, <1>10 DEF QueueGood

\* The client answers into the queue it opened first: the one of the server that greeted
\* it, or of a server that is done.
LEMMA SendAnswerKeeps ==
    ASSUME QueueStart, NEW c \in Clients, Queue!Answer(c), ~Queue!Fails(c)
    PROVE  QueueGood'
<1> USE DEF QueueStart
<1>1. PICK n \in Queue!Names, o \in Queue!Objects : n = Queue!ForServer(c) /\ o = qref[c][n]
  BY QueueNames, QueueObjects, QueueProcs
<1>2. /\ qpc[c] = "send" /\ Queue!Goto(c, "done") /\ c \in Queue!Procs
      /\ UNCHANGED <<qkind, qname, qmade, greetings, qref, qgot>>
      /\ answers' = [answers EXCEPT ![n][o] = Append(answers[n][o], qgot[c])]
  BY <1>1, QueueProcs DEF Queue!Answer
<1>3. /\ QueuesOfWorker' /\ ServerQueues' /\ ClientQueues' /\ QueuesInOrder'
      /\ \A q \in Queue!Procs : qpc'[q] = IF q = c THEN "done" ELSE qpc[q]
      /\ \A q \in Queue!Procs : Queue!ForServer(q)' = Queue!ForServer(q) /\ Queue!ForClient(q)' = Queue!ForClient(q)
      /\ \A q, r, m : Shares(q, r, m)' <=> Shares(q, r, m)
  BY <1>2, QueuesStay
<1>4. PICK s \in Servers : Shares(c, s, n)
  <2>1. qref[c][n] # 0
    BY <1>1, <1>2 DEF QueueGood, ClientQueues
  <2> QED
    BY <2>1 DEF QueueGood, ClientQueues
<1>5. qgot[c] \in Servers /\ (s = qgot[c] \/ qpc[s] = "done")
  <2>1. qgot[c] \in Servers /\ Shares(c, qgot[c], Queue!ForClient(c))
    BY <1>2 DEF QueueTypes, QueueGood, OwnMessages
  <2> QED
    BY <1>1, <1>4, <2>1 DEF QueueGood, QueuesInOrder
<1>6. /\ answers[n][o] \in Seq(Servers) /\ o # 0 /\ o <= qmade[n] /\ o = qref[s][n]
      /\ qpc[s] # "done" => OnlyOf(answers[n][o], s)
  <2>1. o # 0 /\ o = qref[s][n] /\ s \in Queue!Procs
    BY <1>1, <1>4, QueueProcs DEF Shares
  <2> QED
    BY <2>1, QueueObjects DEF QueueGood, OwnMessages, QueuesNumbered
<1>7. /\ qpc[s] # "done" => OnlyOf(Append(answers[n][o], qgot[c]), s)
      /\ \A m \in Queue!Names, x \in Queue!Objects :
            answers'[m][x] = IF m = n /\ x = o THEN Append(answers[n][o], qgot[c]) ELSE answers[m][x]
  <2>1. Append(answers[n][o], qgot[c]) \in Seq(Servers)
    BY <1>5, <1>6
  <2>2. answers \in [Queue!Names -> [Queue!Objects -> Seq(Servers)]]
    BY DEF Queue!TypeOK
  <2>3. \A m \in Queue!Names, x \in Queue!Objects :
            answers'[m][x] = IF m = n /\ x = o THEN Append(answers[n][o], qgot[c]) ELSE answers[m][x]
    BY <1>2, <2>1, <2>2, SendTypes
  <2> QED
    BY <1>5, <1>6, <2>3, OnlyOfKept
<1>8. QueuesNumbered'
  <2>1. o \in Nat /\ qmade[n] \in Nat
    BY QueueObjects
  <2>2. \A m \in Queue!Names, x \in Queue!Objects : x > qmade[m] => greetings[m][x] = <<>> /\ answers'[m][x] = <<>>
    <3>1. \A m \in Queue!Names, x \in Queue!Objects : x > qmade[m] => greetings[m][x] = <<>> /\ answers[m][x] = <<>>
      BY DEF QueueGood, QueuesNumbered
    <3>2. \A m \in Queue!Names, x \in Queue!Objects : x > qmade[m] => answers'[m][x] = answers[m][x]
      BY <1>6, <1>7, <2>1
    <3> QED
      BY <3>1, <3>2
  <2> QED
    BY <1>2, <1>3, <2>2 DEF QueueGood, QueuesNumbered
<1>9. OwnMessages'
  <2>1. \A t \in Servers, m \in Queue!Names : qref[t][m] \in Queue!Objects
    BY QueueObjects, QueueProcs
  <2>2. ASSUME NEW t \in Servers, NEW m \in Queue!Names, qref'[t][m] # 0, qpc'[t] # "done"
        PROVE  OnlyOf(answers'[m][qref'[t][m]], t)
    <3>0. qpc[t] # "done"
      BY <1>3, <2>2, QueueProcs
    <3>1. CASE m = n /\ qref[t][m] = o
      <4>1. t = s
        BY <1>6, <3>1 DEF QueueGood, QueuesNumbered, Shares
      <4> QED
        BY <1>2, <1>7, <3>0, <3>1, <4>1
    <3>2. CASE ~(m = n /\ qref[t][m] = o)
      BY <1>2, <1>7, <2>1, <2>2, <3>0, <3>2 DEF QueueGood, OwnMessages
    <3> QED
      BY <3>1, <3>2
  <2>3. \A t \in Servers, m \in Queue!Names : qref'[t][m] # 0 => OnlyOf(greetings'[m][qref'[t][m]], t)
    BY <1>2 DEF QueueGood, OwnMessages
  <2>4. \A d \in Clients : qpc'[d] = "send" => Shares(d, qgot[d], Queue!ForClient(d))'
    BY <1>2, <1>3, QueueProcs DEF QueueGood, OwnMessages
  <2> QED
    BY <2>2, <2>3, <2>4 DEF OwnMessages, OnlyOf
<1>10. \A t \in Servers : qgot'[t] \in {t, Queue!Nobody}
  BY <1>2 DEF QueueGood
<1> QED
  BY <1>3, <1>8, <1>9, <1>10 DEF QueueGood

LEMMA QueueInvInit == Queue!Init => QueueInv
<1> SUFFICES ASSUME Queue!Init PROVE QueueInv
  OBVIOUS
<1>1. QueueTypes /\ Queue!TypeOK
  BY QueueTypeInit DEF QueueTypes
<1>2. /\ \A p \in Queue!Procs : qpc[p] = "idle" /\ qgot[p] = Queue!Nobody
      /\ \A p \in Queue!Procs, n \in Queue!Names : qref[p][n] = 0
      /\ \A n \in Queue!Names : qname[n] = 0 /\ qmade[n] = 0
      /\ \A n \in Queue!Names, o \in Queue!Objects : greetings[n][o] = <<>> /\ answers[n][o] = <<>>
      /\ \A p \in Queue!Procs : Queue!ForServer(p) \in Queue!Names /\ Queue!ForClient(p) \in Queue!Names
  BY <1>1, QueueNames DEF Queue!Init
<1>3. QueuesOfWorker
  BY <1>2, QueueProcs DEF QueuesOfWorker, Queue!AtWork
<1>4. QueuesNumbered
  BY <1>2, QueueProcs DEF QueuesNumbered, Shares
<1>5. ServerQueues
  BY <1>2, QueueProcs DEF ServerQueues
<1>6. ClientQueues
  BY <1>2, QueueProcs DEF ClientQueues
<1>7. QueuesInOrder
  BY <1>2, QueueProcs DEF QueuesInOrder, Shares
<1>8. OwnMessages
  BY <1>2, QueueProcs DEF OwnMessages
<1>9. \A s \in Servers : qgot[s] \in {s, Queue!Nobody}
  BY <1>2, QueueProcs
<1> QED
  BY <1>1, <1>3, <1>4, <1>5, <1>6, <1>7, <1>8, <1>9 DEF QueueInv, QueueGood

LEMMA QueueInvStep == QueueInv /\ [Queue!Next]_(Queue!vars) => QueueInv'
<1> SUFFICES ASSUME QueueInv, [Queue!Next]_(Queue!vars) PROVE QueueInv'
  OBVIOUS
<1>1. QueueTypes /\ Queue!TypeOK /\ QueueTypes'
  BY QueueTypeStep DEF QueueInv, QueueTypes
<1>2. qcrashed => qcrashed'
  <2>1. ASSUME NEW s \in Servers,
               Queue!Start(s) \/ Queue!ServerOpens(s) \/ Queue!Greet(s) \/ Queue!TakeAnswer(s) \/ Queue!ServerRemoves(s)
        PROVE  UNCHANGED qcrashed
    BY <2>1 DEF Queue!Start, Queue!ServerOpens, Queue!Create, Queue!Greet, Queue!TakeAnswer, Queue!ServerRemoves, Queue!Remove
  <2>2. ASSUME NEW c \in Clients, Queue!ClientOpens(c) \/ Queue!TakeGreeting(c) \/ Queue!Answer(c)
        PROVE  UNCHANGED qcrashed
    BY <2>2 DEF Queue!ClientOpens, Queue!Find, Queue!TakeGreeting, Queue!Answer, Queue!Fails
  <2>3. ASSUME NEW p \in Queue!Procs, Queue!Kill(p) PROVE qcrashed => qcrashed'
    BY <2>3 DEF Queue!Kill
  <2> QED
    BY <2>1, <2>2, <2>3 DEF Queue!Next, Queue!vars
<1>3. SUFFICES ASSUME ~qcrashed, QueueGood PROVE qcrashed' \/ QueueGood'
  BY <1>1, <1>2 DEF QueueInv
<1>4. QueueStart
  BY <1>1, <1>3 DEF QueueStart
<1>5. ASSUME NEW s \in Servers,
             Queue!Start(s) \/ Queue!ServerOpens(s) \/ Queue!Greet(s) \/ Queue!TakeAnswer(s) \/ Queue!ServerRemoves(s)
      PROVE  QueueGood'
  BY <1>4, <1>5, QueueStarts, OpenQueueKeeps, SendGreetingKeeps, TakeKeeps, RemoveKeeps
<1>6. ASSUME NEW c \in Clients, Queue!ClientOpens(c) \/ Queue!TakeGreeting(c) \/ Queue!Answer(c)
      PROVE  QueueGood'
  <2>1. CASE Queue!Fails(c) /\ (Queue!TakeGreeting(c) \/ Queue!Answer(c))
    <3>1. qpc[c] # "done"
      BY <2>1 DEF Queue!TakeGreeting, Queue!Answer
    <3>2. Queue!Goto(c, "done") /\ UNCHANGED <<qkind, Queue!system, qref, qgot>>
      BY <2>1 DEF Queue!Fails
    <3> QED
      BY <1>4, <3>1, <3>2, ClientEnds
  <2>2. CASE ~Queue!Fails(c) \/ Queue!ClientOpens(c)
    BY <1>4, <1>6, <2>2, FindQueueKeeps, ReceiveKeeps, SendAnswerKeeps
  <2> QED
    BY <1>6, <2>1, <2>2
<1>7. ASSUME NEW p \in Queue!Procs, Queue!Kill(p) PROVE qcrashed' \/ QueueGood'
  <2>1. CASE p \in Servers
    BY <1>7, <2>1 DEF Queue!Kill
  <2>2. CASE p \in Clients
    BY <1>4, <1>7, <2>2, ClientEnds DEF Queue!Kill
  <2> QED
    BY <2>1, <2>2, QueueProcs
<1>8. CASE UNCHANGED Queue!vars
  <2>1. UNCHANGED <<qkind, qpc, qname, qmade, greetings, answers, removed, qref, qgot, qcrashed>>
    BY <1>8 DEF Queue!vars, Queue!system
  <2>2. /\ \A p, q, n : Shares(p, q, n)' <=> Shares(p, q, n)
        /\ \A s \in Servers : \A n : Keeps(s, n)' <=> Keeps(s, n)
        /\ Queue!AtWork' = Queue!AtWork
        /\ \A q \in Queue!Procs : Queue!ForServer(q)' = Queue!ForServer(q) /\ Queue!ForClient(q)' = Queue!ForClient(q)
    BY <2>1 DEF Shares, Keeps, Queue!AtWork, Queue!ForServer, Queue!ForClient
  <2>3. QueuesOfWorker' /\ QueuesNumbered'
    BY <1>3, <2>1, <2>2 DEF QueueGood, QueuesOfWorker, QueuesNumbered
  <2>4. ServerQueues' /\ ClientQueues'
    BY <1>3, <2>1 DEF QueueGood, ServerQueues, ClientQueues, Shares, Queue!ForServer, Queue!ForClient
  <2>5. QueuesInOrder' /\ OwnMessages'
    BY <1>3, <2>1 DEF QueueGood, QueuesInOrder, OwnMessages, Shares, Queue!ForServer, Queue!ForClient
  <2> QED
    BY <1>3, <2>1, <2>3, <2>4, <2>5 DEF QueueGood
<1> QED
  BY <1>5, <1>6, <1>7, <1>8 DEF Queue!Next

\* The answer a server displays is to its own greeting, or a server was killed.
THEOREM QueueAnswersMatch == Queue!Spec => []Queue!AnswersMatch
<1>1. QueueInv => Queue!AnswersMatch
  BY DEF QueueInv, QueueGood, Queue!AnswersMatch
<1> QED
  BY <1>1, QueueInvInit, QueueInvStep, PTL DEF Queue!Spec

\* What the run of MCSmall checks for two servers and two clients: the programs of a
\* hand-shake stay in step, unless a server was killed or a client mixed two exchanges.
THEOREM HandShakesInStep == Sem!Spec /\ Queue!Spec => []InStep
  BY SharedMemoryInStep, QueueAnswersMatch, PTL DEF InStep
=============================================================================
