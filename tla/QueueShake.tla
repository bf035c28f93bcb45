----------------------------- MODULE QueueShake -----------------------------
(***************************************************************************)
(* The hand-shake over message queues, 13_homework/1.  The POSIX programs  *)
(* use one queue in each direction, /cli_q and /ser_q, the System V ones   *)
(* one queue with types 1 and 2.  As in SemShake a name stands for a       *)
(* numbered object until it is removed.  A POSIX queue lives on for those  *)
(* who have it open; calls on a removed System V queue fail, also those    *)
(* that are waiting.  A message is the number of the exchange it belongs   *)
(* to, which the programs do not send: the server that greeted.            *)
(***************************************************************************)
EXTENDS Naturals, Sequences

CONSTANTS Servers, Clients, MaxObject   \* bound: objects ever made of one name

Kinds == {"posix", "sysv"}
Names == {"ser_q", "cli_q", "msgid"}
Procs == Servers \cup Clients

VARIABLES
    kind, pc,
    name, made,     \* the object of each name, and how many there have been
    greetings,      \* in each object: the messages to the client, or of type 1
    answers,        \* and those to the server, or of type 2
    removed,        \* the System V queues that are gone
    ref,            \* the objects a process has opened
    got,            \* the exchange of the message it has received
    crashed         \* ghost: a server has been killed

system == <<name, made, greetings, answers, removed>>
vars   == <<kind, pc, system, ref, got, crashed>>

Objects == 0 .. MaxObject
Nobody  == "nobody"

ServerPc == {"idle", "open", "open more", "send", "receive", "remove", "remove more",
             "done", "killed"}
ClientPc == {"idle", "open more", "receive", "send", "done", "killed"}

TypeOK ==
    /\ kind \in [Procs -> Kinds]
    /\ pc \in [Procs -> ServerPc \cup ClientPc]
    /\ \A s \in Servers : pc[s] \in ServerPc
    /\ \A c \in Clients : pc[c] \in ClientPc
    /\ name \in [Names -> Objects] /\ made \in [Names -> Objects]
    /\ greetings \in [Names -> [Objects -> Seq(Servers)]]
    /\ answers \in [Names -> [Objects -> Seq(Servers)]]
    /\ removed \subseteq Objects
    /\ ref \in [Procs -> [Names -> Objects]]
    /\ got \in [Procs -> Servers \cup {Nobody}]
    /\ crashed \in BOOLEAN

Init ==
    /\ kind \in [Procs -> Kinds]
    /\ pc = [p \in Procs |-> "idle"]
    /\ name = [n \in Names |-> 0] /\ made = [n \in Names |-> 0]
    /\ greetings = [n \in Names |-> [o \in Objects |-> <<>>]]
    /\ answers = [n \in Names |-> [o \in Objects |-> <<>>]]
    /\ removed = {}
    /\ ref = [p \in Procs |-> [n \in Names |-> 0]]
    /\ got = [p \in Procs |-> Nobody]
    /\ crashed = FALSE

Goto(p, l) == pc' = [pc EXCEPT ![p] = l]

\* The names a program uses for greetings and for answers.
ForClient(p) == IF kind[p] = "posix" THEN "cli_q" ELSE "msgid"
ForServer(p) == IF kind[p] = "posix" THEN "ser_q" ELSE "msgid"

\* A System V queue that is gone: the call fails and the program returns 1.
Gone(p, n) == n = "msgid" /\ ref[p][n] \in removed
Fails(p)   == Goto(p, "done") /\ UNCHANGED <<kind, system, ref, got, crashed>>

\* Opening with O_CREAT or IPC_CREAT.
Create(p, n) ==
    /\ name[n] = 0 => made[n] < MaxObject
    /\ made' = IF name[n] = 0 THEN [made EXCEPT ![n] = @ + 1] ELSE made
    /\ name' = IF name[n] = 0 THEN [name EXCEPT ![n] = made'[n]] ELSE name
    /\ ref' = [ref EXCEPT ![p][n] = name'[n]]
    /\ UNCHANGED <<kind, greetings, answers, removed, got, crashed>>

\* Opening what must be there.
Find(p, n, next) ==
    /\ Goto(p, IF name[n] = 0 THEN "done" ELSE next)
    /\ ref' = [ref EXCEPT ![p][n] = name[n]]
    /\ UNCHANGED <<kind, system, got, crashed>>

Remove(p, n) ==
    /\ name' = [name EXCEPT ![n] = 0]
    /\ removed' = IF n = "msgid" THEN removed \cup {ref[p][n]} ELSE removed
    /\ UNCHANGED <<kind, made, greetings, answers, ref, got, crashed>>

-------------------------------------------------------------------------
(* The server.                                                           *)

AtWork == {s \in Servers : pc[s] \notin {"idle", "done", "killed"}}

Start(s) ==
    /\ pc[s] = "idle" /\ AtWork = {}
    /\ Goto(s, "open")
    /\ UNCHANGED <<kind, system, ref, got, crashed>>

\* The server's queue, then the client's; msgget opens the one queue of System V.
ServerOpens(s) ==
    \/ /\ pc[s] = "open" /\ Create(s, ForServer(s))
       /\ Goto(s, IF kind[s] = "posix" THEN "open more" ELSE "send")
    \/ pc[s] = "open more" /\ Create(s, "cli_q") /\ Goto(s, "send")

Greet(s) ==
    LET n == ForClient(s)
    IN  /\ pc[s] = "send"
        /\ greetings' = [greetings EXCEPT ![n][ref[s][n]] = Append(@, s)]
        /\ Goto(s, "receive")
        /\ UNCHANGED <<kind, name, made, answers, removed, ref, got, crashed>>

TakeAnswer(s) ==
    LET n == ForServer(s)
        o == ref[s][n]
    IN  /\ pc[s] = "receive" /\ answers[n][o] # <<>>
        /\ got' = [got EXCEPT ![s] = Head(answers[n][o])]
        /\ answers' = [answers EXCEPT ![n][o] = Tail(@)]
        /\ Goto(s, "remove")
        /\ UNCHANGED <<kind, name, made, greetings, removed, ref, crashed>>

ServerRemoves(s) ==
    \/ /\ pc[s] = "remove" /\ Remove(s, ForServer(s))
       /\ Goto(s, IF kind[s] = "posix" THEN "remove more" ELSE "done")
    \/ pc[s] = "remove more" /\ Remove(s, "cli_q") /\ Goto(s, "done")

-------------------------------------------------------------------------
(* The client.                                                           *)

ClientOpens(c) ==
    \/ /\ pc[c] = "idle"
       /\ Find(c, ForServer(c), IF kind[c] = "posix" THEN "open more" ELSE "receive")
    \/ pc[c] = "open more" /\ Find(c, "cli_q", "receive")

TakeGreeting(c) ==
    LET n == ForClient(c)
        o == ref[c][n]
    IN  /\ pc[c] = "receive"
        /\ \/ Gone(c, n) /\ Fails(c)
           \/ /\ ~Gone(c, n) /\ greetings[n][o] # <<>>
              /\ got' = [got EXCEPT ![c] = Head(greetings[n][o])]
              /\ greetings' = [greetings EXCEPT ![n][o] = Tail(@)]
              /\ Goto(c, "send")
              /\ UNCHANGED <<kind, name, made, answers, removed, ref, crashed>>

Answer(c) ==
    LET n == ForServer(c)
    IN  /\ pc[c] = "send"
        /\ \/ Gone(c, n) /\ Fails(c)
           \/ /\ ~Gone(c, n)
              /\ answers' = [answers EXCEPT ![n][ref[c][n]] = Append(@, got[c])]
              /\ Goto(c, "done")
              /\ UNCHANGED <<kind, name, made, greetings, removed, ref, got, crashed>>

-------------------------------------------------------------------------
Kill(p) ==
    /\ pc[p] \notin {"idle", "done", "killed"}
    /\ Goto(p, "killed")
    /\ crashed' = (crashed \/ p \in Servers)
    /\ UNCHANGED <<kind, system, ref, got>>

Next ==
    \/ \E s \in Servers : Start(s) \/ ServerOpens(s) \/ Greet(s) \/ TakeAnswer(s)
                          \/ ServerRemoves(s)
    \/ \E c \in Clients : ClientOpens(c) \/ TakeGreeting(c) \/ Answer(c)
    \/ \E p \in Procs : Kill(p)

Spec == Init /\ [][Next]_vars

-------------------------------------------------------------------------
\* The answer a server displays belongs to its own greeting, which a client has read,
\* unless an earlier server was killed and left messages behind (POSIX/server.c:27-58,
\* client.c:27-46).
AnswersMatch ==
    crashed \/ \A s \in Servers : got[s] \in {s, Nobody}
=============================================================================
