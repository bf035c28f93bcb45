----------------------------- MODULE MqChat -----------------------------
(***************************************************************************)
(* The message-queue chat, 13_homework/2.  Clients write to the server's   *)
(* queue /main_chat, and the server writes to one queue per client; all    *)
(* are POSIX queues of mq_maxmsg messages, and mq_send blocks on a full    *)
(* one.  The server is a single thread: what it has to send in answer to   *)
(* one message is here a script of sends and table updates, done one at a  *)
(* time, each send waiting for room in its client's queue.                 *)
(*                                                                         *)
(* A text carries its number n in the order history_add stores the texts,  *)
(* which the program does not keep: it tells the properties which texts a  *)
(* client got.                                                             *)
(***************************************************************************)
EXTENDS Integers, Sequences, FiniteSets

CONSTANTS Clients,      \* the client processes (their pids)
          H,            \* HISTORY_SIZE
          MaxClients,   \* MAX_CLIENTS
          ServerCap,    \* mq_maxmsg of /main_chat
          ClientCap,    \* mq_maxmsg of a client's queue
          MaxTexts      \* bound: texts all the clients send

ASSUME MqAssumption ==
    /\ H \in Nat \ {0}
    /\ MaxClients \in Nat
    /\ ServerCap \in Nat \ {0}
    /\ ClientCap \in Nat \ {0}
    /\ MaxTexts \in Nat

VARIABLES
    sq, cq,                        \* the messages in /main_chat and /client_<pid>
    spc, script, table, running,   \* the server
    caught,                        \* signals it has handled
    hist_buf, hist_head, hist_count,
    stored,                        \* ghost: how many texts history_add has stored
    cpc, rpc, alive,               \* each client: main, receiving thread, running
    got,                           \* the messages its receiving thread displayed
    texts                          \* the texts sent so far, for the bound

queues  == <<sq, cq>>
history == <<hist_buf, hist_head, hist_count, stored>>
server  == <<spc, script, table, running, caught, history>>
client  == <<cpc, rpc, alive, got, texts>>
vars    == <<queues, server, client>>

ToServer == [type : {"JOIN_REQ", "TEXT", "LEAVE"}, from : Clients]
ToClient == [type : {"HIST", "JOIN_OK", "TEXT", "JOIN_NOTIFY", "LEAVE_NOTIFY"},
             n : Nat]

\* One step of a script: a send, or a change of the table.
Op == [do : {"send"}, to : Clients, m : ToClient] \cup [do : {"add", "remove"}, to : Clients]

\* "check": at while (running); "receive": in mq_receive; "run": in the switch.
ServerPc == {"check", "receive", "run", "stopped"}

\* "start": about to send JOIN_REQ; "chat": in the input loop, or past it and about to
\* send LEAVE; "unlink": LEAVE is sent, its queue is not unlinked yet.
ClientPc == {"start", "chat", "unlink", "gone", "failed", "killed"}

TypeOK ==
    /\ sq \in Seq(ToServer) /\ Len(sq) <= ServerCap
    /\ cq \in [Clients -> Seq(ToClient)]
    /\ \A c \in Clients : Len(cq[c]) <= ClientCap
    /\ spc \in ServerPc
    /\ script \in Seq(Op)
    /\ table \in Seq(Clients) /\ Len(table) <= MaxClients
    /\ running \in BOOLEAN
    /\ caught \in 0 .. 2
    /\ hist_buf \in [0 .. H - 1 -> Nat]
    /\ hist_head \in 0 .. H - 1
    /\ hist_count \in 0 .. H
    /\ stored \in Nat
    /\ cpc \in [Clients -> ClientPc]
    /\ rpc \in [Clients -> {"off", "on", "ended"}]
    /\ alive \in [Clients -> BOOLEAN]
    /\ got \in [Clients -> Seq(ToClient)]
    /\ texts \in 0 .. MaxTexts

Init ==
    /\ sq = <<>>
    /\ cq = [c \in Clients |-> <<>>]
    /\ spc = "check" /\ script = <<>> /\ table = <<>> /\ running = TRUE
    /\ caught = 0
    /\ hist_buf = [i \in 0 .. H - 1 |-> 0]
    /\ hist_head = 0 /\ hist_count = 0 /\ stored = 0
    /\ cpc = [c \in Clients |-> "start"]
    /\ rpc = [c \in Clients |-> "off"]
    /\ alive = [c \in Clients |-> TRUE]
    /\ got = [c \in Clients |-> <<>>]
    /\ texts = 0

Listed(c) == \E i \in 1 .. Len(table) : table[i] = c

-------------------------------------------------------------------------
(* What the server does with one message.                                *)

Msg(type, n) == [type |-> type, n |-> n]
SendOp(c, m) == [do |-> "send", to |-> c, m |-> m]

\* Mutant of SendHistory: the replay starts at slot 0.
HistoryFromZero(c) ==
    [i \in 1 .. hist_count |-> SendOp(c, Msg("HIST", hist_buf[(i - 1) % H]))]

\* send_history: the stored texts, oldest first.
SendHistory(c) ==
    LET start == (hist_head - hist_count + H) % H
    IN  [i \in 1 .. hist_count |->
            SendOp(c, Msg("HIST", hist_buf[(start + i - 1) % H]))]

\* The table without c, whose entry is the only one with its pid; the later entries
\* move down.
Without(c) ==
    LET idx == CHOOSE i \in 1 .. Len(table) : table[i] = c
    IN  IF Listed(c)
        THEN [i \in 1 .. Len(table) - 1 |-> IF i < idx THEN table[i] ELSE table[i + 1]]
        ELSE table

\* broadcast; others is the table, without the entry of skip_pid if there is one.
Broadcast(m, others) == [i \in 1 .. Len(others) |-> SendOp(others[i], m)]

\* The client's queue can be opened: it is not unlinked.
CanOpen(c) == cpc[c] # "gone"

\* Mutant of JoinScript: the client is welcomed before its history.
JoinWelcomeFirst(c) ==
    IF Listed(c) \/ Len(table) >= MaxClients \/ ~CanOpen(c)
    THEN <<>>
    ELSE <<SendOp(c, Msg("JOIN_OK", 0))>> \o SendHistory(c) \o <<[do |-> "add", to |-> c]>>
         \o Broadcast(Msg("JOIN_NOTIFY", 0), Without(c))

JoinScript(c) ==
    IF Listed(c) \/ Len(table) >= MaxClients \/ ~CanOpen(c)
    THEN <<>>
    ELSE SendHistory(c) \o <<SendOp(c, Msg("JOIN_OK", 0))>> \o <<[do |-> "add", to |-> c]>>
         \o Broadcast(Msg("JOIN_NOTIFY", 0), Without(c))

\* Mutant of LeaveScript: the others are told, the entry stays.
LeaveUnremoved(c) == IF Listed(c) THEN Broadcast(Msg("LEAVE_NOTIFY", 0), Without(c)) ELSE <<>>

LeaveScript(c) ==
    IF Listed(c)
    THEN Broadcast(Msg("LEAVE_NOTIFY", 0), Without(c)) \o <<[do |-> "remove", to |-> c]>>
    ELSE <<>>

\* Mutant of HistoryAdd: the count is not capped.
AddUncapped ==
    /\ hist_buf' = [hist_buf EXCEPT ![hist_head] = stored + 1]
    /\ hist_head' = (hist_head + 1) % H
    /\ hist_count' = hist_count + 1
    /\ stored' = stored + 1

\* history_add.
HistoryAdd ==
    /\ hist_buf' = [hist_buf EXCEPT ![hist_head] = stored + 1]
    /\ hist_head' = (hist_head + 1) % H
    /\ hist_count' = IF hist_count < H THEN hist_count + 1 ELSE hist_count
    /\ stored' = stored + 1

Check ==
    /\ spc = "check"
    /\ spc' = IF running THEN "receive" ELSE "stopped"
    /\ UNCHANGED <<queues, script, table, running, caught, history, client>>

Receive ==
    /\ spc = "receive"
    /\ sq # <<>>
    /\ sq' = Tail(sq)
    /\ spc' = "run"
    /\ LET c == Head(sq).from
       IN  CASE Head(sq).type = "JOIN_REQ" -> script' = JoinScript(c) /\ UNCHANGED history
             [] Head(sq).type = "LEAVE" -> script' = LeaveScript(c) /\ UNCHANGED history
             [] Head(sq).type = "TEXT" ->
                    /\ HistoryAdd
                    /\ script' = Broadcast(Msg("TEXT", stored'), table)
    /\ UNCHANGED <<cq, table, running, caught, client>>

\* Mutant of SendNext: the last slot of a client's queue is never used.
SendKeepsOne ==
    /\ spc = "run"
    /\ script # <<>>
    /\ Head(script).do = "send"
    /\ LET c == Head(script).to
       IN  /\ Len(cq[c]) + 1 < ClientCap
           /\ cq' = [cq EXCEPT ![c] = Append(@, Head(script).m)]
    /\ script' = Tail(script)
    /\ UNCHANGED <<sq, spc, table, running, caught, history, client>>

\* mq_send to a client: it waits while the client's queue is full.
SendNext ==
    /\ spc = "run"
    /\ script # <<>>
    /\ Head(script).do = "send"
    /\ LET c == Head(script).to
       IN  /\ Len(cq[c]) < ClientCap
           /\ cq' = [cq EXCEPT ![c] = Append(@, Head(script).m)]
    /\ script' = Tail(script)
    /\ UNCHANGED <<sq, spc, table, running, caught, history, client>>

\* The entry is appended; removal moves the later ones down.
UpdateTable ==
    /\ spc = "run"
    /\ script # <<>>
    /\ \/ /\ Head(script).do = "add"
          /\ table' = Append(table, Head(script).to)
       \/ /\ Head(script).do = "remove"
          /\ table' = Without(Head(script).to)
    /\ script' = Tail(script)
    /\ UNCHANGED <<queues, spc, running, caught, history, client>>

\* mq_receive fails otherwise than by a signal: the server leaves its loop.
ReceiveFails ==
    /\ spc = "receive"
    /\ spc' = "stopped"
    /\ UNCHANGED <<queues, script, table, running, caught, history, client>>

Done ==
    /\ spc = "run"
    /\ script = <<>>
    /\ spc' = "check"
    /\ UNCHANGED <<queues, script, table, running, caught, history, client>>

\* SIGINT or SIGTERM.  server.c is compiled with plain -std=c99, so signal() neither
\* restarts system calls nor keeps the handler: a blocked mq_receive or mq_send
\* returns EINTR, the send is given up, and the same signal again kills the process.
Interrupt ==
    /\ caught < 2 /\ spc # "stopped"
    /\ caught' = caught + 1
    /\ running' = FALSE
    /\ \/ UNCHANGED <<spc, script>>
       \/ spc = "receive" /\ sq = <<>> /\ spc' = "check" /\ UNCHANGED script
       \/ /\ spc = "run" /\ script # <<>> /\ Head(script).do = "send"
          /\ Len(cq[Head(script).to]) = ClientCap
          /\ script' = Tail(script)
          /\ UNCHANGED spc
    /\ UNCHANGED <<queues, table, history, client>>

Kill ==
    /\ caught > 0 /\ spc # "stopped"
    /\ spc' = "stopped"
    /\ UNCHANGED <<queues, script, table, running, caught, history, client>>

ServerStep == Check \/ Receive \/ SendNext \/ UpdateTable \/ Done

-------------------------------------------------------------------------
(* A client.                                                             *)

Post(c, type) ==
    /\ Len(sq) < ServerCap
    /\ sq' = Append(sq, [type |-> type, from |-> c])

\* The queues are opened, the request is sent, the receiving thread starts.
Join(c) ==
    /\ cpc[c] = "start"
    /\ Post(c, "JOIN_REQ")
    /\ cpc' = [cpc EXCEPT ![c] = "chat"]
    /\ rpc' = [rpc EXCEPT ![c] = "on"]
    /\ UNCHANGED <<cq, server, alive, got, texts>>

\* /main_chat cannot be opened: the server has unlinked it.
JoinFails(c) ==
    /\ cpc[c] = "start"
    /\ spc = "stopped"
    /\ cpc' = [cpc EXCEPT ![c] = "failed"]
    /\ UNCHANGED <<queues, server, rpc, alive, got, texts>>

SendText(c) ==
    /\ cpc[c] = "chat" /\ alive[c]
    /\ texts < MaxTexts
    /\ Post(c, "TEXT")
    /\ texts' = texts + 1
    /\ UNCHANGED <<cq, server, cpc, rpc, alive, got>>

\* recv_thread_fn takes one message and displays it.
RecvTurn(c) ==
    /\ rpc[c] = "on" /\ alive[c]
    /\ cq[c] # <<>>
    /\ got' = [got EXCEPT ![c] = Append(@, Head(cq[c]))]
    /\ cq' = [cq EXCEPT ![c] = Tail(@)]
    /\ UNCHANGED <<sq, server, cpc, rpc, alive, texts>>

\* ctrl+q, ctrl+c or a signal.  The client is compiled with _DEFAULT_SOURCE: its
\* handler stays and its system calls are restarted, so no send is given up.
Quit(c) ==
    /\ cpc[c] = "chat" /\ alive[c]
    /\ alive' = [alive EXCEPT ![c] = FALSE]
    /\ UNCHANGED <<queues, server, cpc, rpc, got, texts>>

RecvEnds(c) ==
    /\ rpc[c] = "on" /\ ~alive[c]
    /\ rpc' = [rpc EXCEPT ![c] = "ended"]
    /\ UNCHANGED <<queues, server, cpc, alive, got, texts>>

\* mq_cleanup, after the receiving thread was joined: LEAVE, then close, unlink.
SendLeave(c) ==
    /\ cpc[c] = "chat" /\ rpc[c] = "ended"
    /\ Post(c, "LEAVE")
    /\ cpc' = [cpc EXCEPT ![c] = "unlink"]
    /\ UNCHANGED <<cq, server, rpc, alive, got, texts>>

Unlink(c) ==
    /\ cpc[c] = "unlink"
    /\ cpc' = [cpc EXCEPT ![c] = "gone"]
    /\ UNCHANGED <<queues, server, rpc, alive, got, texts>>

\* SIGKILL or a closed terminal: no LEAVE is sent, and the queue stays.
Killed(c) ==
    /\ cpc[c] = "chat"
    /\ cpc' = [cpc EXCEPT ![c] = "killed"]
    /\ rpc' = [rpc EXCEPT ![c] = "ended"]
    /\ alive' = [alive EXCEPT ![c] = FALSE]
    /\ UNCHANGED <<queues, server, got, texts>>

ClientStep(c) ==
    Join(c) \/ JoinFails(c) \/ RecvTurn(c) \/ RecvEnds(c) \/ SendLeave(c) \/ Unlink(c)

-------------------------------------------------------------------------
Next ==
    \/ ServerStep \/ ReceiveFails \/ Interrupt \/ Kill
    \/ \E c \in Clients : ClientStep(c) \/ SendText(c) \/ Quit(c) \/ Killed(c)

Spec == Init /\ [][Next]_vars

\* The server and each thread of a client are scheduled, and a client that keeps
\* finding room in the server's queue sends; users need not type or leave.
Fairness ==
    /\ WF_vars(ServerStep)
    /\ \A c \in Clients : /\ SF_vars(Join(c)) /\ WF_vars(JoinFails(c))
                          /\ WF_vars(RecvTurn(c)) /\ WF_vars(RecvEnds(c))
                          /\ SF_vars(SendLeave(c)) /\ WF_vars(Unlink(c))

FairSpec == Spec /\ Fairness

-------------------------------------------------------------------------
(* What the chat promises.                                               *)

\* What the server has sent to a client, and what it is about to send in this script;
\* "other" stands for the steps of the script that are not for the client.
Sent(c) ==
    got[c] \o cq[c] \o
    [i \in 1 .. Len(script) |->
        IF script[i].do = "send" /\ script[i].to = c THEN script[i].m ELSE Msg("other", 0)]

SentAt(c) == {i \in 1 .. Len(Sent(c)) : Sent(c)[i].type # "other"}
TextAt(c) == {i \in SentAt(c) : Sent(c)[i].type \in {"HIST", "TEXT"}}

Joining(c) == \E i \in 1 .. Len(script) : script[i] = [do |-> "add", to |-> c]

TextsOf(c) == {Sent(c)[i].n : i \in TextAt(c)}

\* A client in the table, or joining, gets a run of consecutive texts that ends with
\* the newest, in their order and once each: its history and the broadcasts after it
\* leave no gap.  A signal makes the server give up one send at most, so what is missing
\* from the run is no more than one text for each signal (server.c:38-68, 128-181).
NothingMissed ==
    \A c \in Clients :
        Listed(c) \/ Joining(c) =>
            /\ \A i, j \in TextAt(c) : i < j => Sent(c)[i].n < Sent(c)[j].n
            /\ \E first \in 1 .. stored - hist_count + 1 :
                  /\ TextsOf(c) \subseteq first .. stored
                  /\ Cardinality((first .. stored) \ TextsOf(c)) <= caught

\* message.h:13: JOIN_OK says that the history is done: it comes once, after every
\* HIST and before every TEXT and notification.
WelcomeEndsHistory ==
    \A c \in Clients : \A i, j \in SentAt(c) :
        i < j => /\ Sent(c)[j].type \in {"HIST", "JOIN_OK"} => Sent(c)[i].type = "HIST"
                 /\ Sent(c)[i].type = "HIST" => Sent(c)[j].type \in {"HIST", "JOIN_OK"}
                                                \/ \E k \in i .. j : Sent(c)[k].type = "JOIN_OK"

Leaving(c) == \/ \E i \in 1 .. Len(sq) : sq[i] = [type |-> "LEAVE", from |-> c]
              \/ \E i \in 1 .. Len(script) : script[i] = [do |-> "remove", to |-> c]

\* A client that has sent LEAVE and is still in the table, or is being put there, has
\* its LEAVE on the way: no entry outlives its client unnoticed (server.c:86-88,
\* 141-181, 206-213, client.c:202-213).
LeaverInFlight ==
    \A c \in Clients :
        cpc[c] \in {"unlink", "gone"} /\ (Listed(c) \/ Joining(c)) => Leaving(c)

\* The only thing that can hold the server in one message for ever is a client whose
\* receiving thread has ended (server.c:62, client.c:113-124).
StuckOnlyOnLeaver ==
    spc = "run" ~> spc # "run" \/ \E c \in Clients : rpc[c] = "ended"

\* message.h:17: LEAVE is a graceful disconnect: the client is dropped.
LeaveIsGraceful ==
    \A c \in Clients : cpc[c] = "gone" ~> ~Listed(c) \/ spc = "stopped"
=========================================================================
