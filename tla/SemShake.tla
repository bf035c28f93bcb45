------------------------------ MODULE SemShake ------------------------------
(***************************************************************************)
(* The hand-shake over shared memory, 14_homework/1: the server writes     *)
(* "Hi!" and posts s2c, the client answers "Hello!" and posts c2s.  The    *)
(* POSIX and the System V program differ in the memory and share the names *)
(* of the semaphores.                                                      *)
(*                                                                         *)
(* A name stands for an object until it is unlinked; whoever has opened    *)
(* the object keeps it.  Objects are numbered, and a name holds the number *)
(* of its object, or 0.  A process may be killed between any two calls.    *)
(* Servers are started one after the other, clients whenever one likes.    *)
(***************************************************************************)
EXTENDS Naturals

CONSTANTS Servers, Clients, MaxObject   \* bound: objects ever made of one name

Kinds == {"posix", "sysv"}
Names == Kinds \cup {"s2c", "c2s"}      \* the kinds name their memory
Procs == Servers \cup Clients

VARIABLES
    kind, pc,
    name,       \* the object each name stands for
    made,       \* how many objects of a name there have been
    memory,     \* the text in each memory object
    value,      \* the value of each semaphore object
    ref,        \* the objects a process has opened
    got,        \* what it displayed
    crashed     \* ghost: a server has been killed

system == <<name, made, memory, value>>
vars   == <<kind, pc, system, ref, got, crashed>>

Objects == 0 .. MaxObject
Texts   == {"", "Hi!", "Hello!"}

ServerPc == {"idle", "memory", "s2c", "c2s", "write", "post", "wait", "show",
             "unlink memory", "unlink s2c", "unlink c2s", "done", "killed"}
ClientPc == {"idle", "s2c", "c2s", "wait", "show", "write", "post", "done", "killed"}

TypeOK ==
    /\ kind \in [Procs -> Kinds]
    /\ pc \in [Procs -> ServerPc \cup ClientPc]
    /\ \A s \in Servers : pc[s] \in ServerPc
    /\ \A c \in Clients : pc[c] \in ClientPc
    /\ name \in [Names -> Objects] /\ made \in [Names -> Objects]
    /\ memory \in [Kinds -> [Objects -> Texts]]
    /\ value \in [{"s2c", "c2s"} -> [Objects -> Nat]]
    /\ ref \in [Procs -> [Names -> Objects]]
    /\ got \in [Procs -> Texts \cup {"nothing"}]
    /\ crashed \in BOOLEAN

Init ==
    /\ kind \in [Procs -> Kinds]
    /\ pc = [p \in Procs |-> "idle"]
    /\ name = [n \in Names |-> 0] /\ made = [n \in Names |-> 0]
    /\ memory = [k \in Kinds |-> [o \in Objects |-> ""]]
    /\ value = [n \in {"s2c", "c2s"} |-> [o \in Objects |-> 0]]
    /\ ref = [p \in Procs |-> [n \in Names |-> 0]]
    /\ got = [p \in Procs |-> "nothing"]
    /\ crashed = FALSE

Goto(p, l) == pc' = [pc EXCEPT ![p] = l]

\* Opening with O_CREAT: an object that is there is taken as it is, contents or value
\* included; a new one is empty, or zero.
Create(p, n) ==
    /\ name[n] = 0 => made[n] < MaxObject
    /\ made' = IF name[n] = 0 THEN [made EXCEPT ![n] = @ + 1] ELSE made
    /\ name' = IF name[n] = 0 THEN [name EXCEPT ![n] = made'[n]] ELSE name
    /\ ref' = [ref EXCEPT ![p][n] = name'[n]]
    /\ UNCHANGED <<kind, memory, value, got, crashed>>

\* Opening what must be there: the program ends if it is not.
Find(p, n, next) ==
    /\ IF name[n] = 0 THEN Goto(p, "done") ELSE Goto(p, next)
    /\ ref' = [ref EXCEPT ![p][n] = name[n]]
    /\ UNCHANGED <<kind, system, got, crashed>>

Post(p, n) ==
    /\ value' = [value EXCEPT ![n][ref[p][n]] = @ + 1]
    /\ UNCHANGED <<kind, name, made, memory, ref, got, crashed>>

Wait(p, n) ==
    /\ value[n][ref[p][n]] > 0
    /\ value' = [value EXCEPT ![n][ref[p][n]] = @ - 1]
    /\ UNCHANGED <<kind, name, made, memory, ref, got, crashed>>

Write(p, text) ==
    /\ memory' = [memory EXCEPT ![kind[p]][ref[p][kind[p]]] = text]
    /\ UNCHANGED <<kind, name, made, value, ref, got, crashed>>

Show(p) ==
    /\ got' = [got EXCEPT ![p] = memory[kind[p]][ref[p][kind[p]]]]
    /\ UNCHANGED <<kind, system, ref, crashed>>

Unlink(n) ==
    /\ name' = [name EXCEPT ![n] = 0]
    /\ UNCHANGED <<kind, made, memory, value, ref, got, crashed>>

-------------------------------------------------------------------------
(* The server.                                                           *)

AtWork == {s \in Servers : pc[s] \notin {"idle", "done", "killed"}}

Start(s) ==
    /\ pc[s] = "idle" /\ AtWork = {}
    /\ Goto(s, "memory")
    /\ UNCHANGED <<kind, system, ref, got, crashed>>

OpenMemory(s) == pc[s] = "memory" /\ Create(s, kind[s]) /\ Goto(s, "s2c")
OpenS2C(s)    == pc[s] = "s2c" /\ Create(s, "s2c") /\ Goto(s, "c2s")
OpenC2S(s)    == pc[s] = "c2s" /\ Create(s, "c2s") /\ Goto(s, "write")
Greet(s)      == pc[s] = "write" /\ Write(s, "Hi!") /\ Goto(s, "post")
PostS2C(s)    == pc[s] = "post" /\ Post(s, "s2c") /\ Goto(s, "wait")
WaitC2S(s)    == pc[s] = "wait" /\ Wait(s, "c2s") /\ Goto(s, "show")
ShowAnswer(s) == pc[s] = "show" /\ Show(s) /\ Goto(s, "unlink memory")

UnlinkMemory(s) == pc[s] = "unlink memory" /\ Unlink(kind[s]) /\ Goto(s, "unlink s2c")
UnlinkS2C(s)    == pc[s] = "unlink s2c" /\ Unlink("s2c") /\ Goto(s, "unlink c2s")
UnlinkC2S(s)    == pc[s] = "unlink c2s" /\ Unlink("c2s") /\ Goto(s, "done")

-------------------------------------------------------------------------
(* The client.                                                           *)

FindMemory(c) == pc[c] = "idle" /\ Find(c, kind[c], "s2c")
FindS2C(c)    == pc[c] = "s2c" /\ Find(c, "s2c", "c2s")
FindC2S(c)    == pc[c] = "c2s" /\ Find(c, "c2s", "wait")
WaitS2C(c)    == pc[c] = "wait" /\ Wait(c, "s2c") /\ Goto(c, "show")
ShowGreeting(c) == pc[c] = "show" /\ Show(c) /\ Goto(c, "write")

\* Mutant of Answer: the semaphore is posted before the answer is written.
AnswerPostedFirst(c) ==
    \/ pc[c] = "write" /\ Post(c, "c2s") /\ Goto(c, "post")
    \/ pc[c] = "post" /\ Write(c, "Hello!") /\ Goto(c, "done")

Answer(c) ==
    \/ pc[c] = "write" /\ Write(c, "Hello!") /\ Goto(c, "post")
    \/ pc[c] = "post" /\ Post(c, "c2s") /\ Goto(c, "done")

-------------------------------------------------------------------------
Kill(p) ==
    /\ pc[p] \notin {"idle", "done", "killed"}
    /\ Goto(p, "killed")
    /\ crashed' = (crashed \/ p \in Servers)
    /\ UNCHANGED <<kind, system, ref, got>>

Next ==
    \/ \E s \in Servers :
          \/ Start(s) \/ OpenMemory(s) \/ OpenS2C(s) \/ OpenC2S(s) \/ Greet(s)
          \/ PostS2C(s) \/ WaitC2S(s) \/ ShowAnswer(s)
          \/ UnlinkMemory(s) \/ UnlinkS2C(s) \/ UnlinkC2S(s)
    \/ \E c \in Clients :
          FindMemory(c) \/ FindS2C(c) \/ FindC2S(c) \/ WaitS2C(c)
          \/ ShowGreeting(c) \/ Answer(c)
    \/ \E p \in Procs : Kill(p)

Spec == Init /\ [][Next]_vars

-------------------------------------------------------------------------
\* The objects client c has opened are those of one server.
OfOneServer(c) ==
    \E s \in Servers : \A n \in {kind[c], "s2c", "c2s"} : ref[c][n] = ref[s][n]

\* The client displays the server's greeting and the server the client's answer, whoever
\* else is refused, waits or dies.  Two things can put them out of step: what a killed
\* server left behind, because sem_open does not reset a semaphore that is there; and a
\* client that opens its three objects while one exchange ends and the next begins
\* (POSIX/server.c:32-47, client.c:14-39).
InStep ==
    \/ crashed
    \/ /\ \A c \in Clients : OfOneServer(c) => got[c] \in {"nothing", "Hi!"}
       /\ \A s \in Servers :
             \/ got[s] \in {"nothing", "Hello!"}
             \/ \E c \in Clients : ~OfOneServer(c) /\ ref[c]["c2s"] = ref[s]["c2s"]
=============================================================================
