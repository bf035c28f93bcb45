---------------------------- MODULE ShmChat ----------------------------
(***************************************************************************)
(* The shared-memory chat, 14_homework/2: one server and several clients   *)
(* share a ring of HISTORY_SIZE messages (struct shared_chat), a semaphore *)
(* mutex_sem around it and a semaphore event_sem that wakes the server.    *)
(* Everybody writes the same ring: clients append requests and texts, the  *)
(* server appends its answers, and every reader keeps its own position.    *)
(*                                                                         *)
(* Every access to the ring is under mutex_sem, so a client's critical     *)
(* section is one step; the server's is one step per message it handles.   *)
(* A message carries its position n in the whole conversation, which the   *)
(* program does not store: it tells the properties which message a slot    *)
(* holds.                                                                  *)
(***************************************************************************)
EXTENDS Integers, Sequences, FiniteSets

CONSTANTS Clients,      \* the client processes (their pids)
          Server,       \* the server process
          Names,        \* the names users type
          NameOf,       \* the name each client's user types
          ServerName,   \* "Server"
          NoName,       \* an empty "to" field
          H,            \* HISTORY_SIZE
          MaxClients,   \* MAX_CLIENTS
          Timeout,      \* timeout, the polls before a registration fails
          MaxHistory,   \* the capacity of a client's history[]
          MaxTexts      \* bound: texts all the clients send

ASSUME ShmAssumption ==
    /\ H \in Nat \ {0}
    /\ MaxClients \in Nat
    /\ Timeout \in Nat
    /\ MaxHistory \in Nat
    /\ MaxTexts \in Nat
    /\ Server \notin Clients
    /\ NameOf \in [Clients -> Names]
    /\ NoName \notin Names

VARIABLES
    chat,                             \* shared_chat: msgs, msg_count, write_index
    mutex, event,                     \* the values of mutex_sem and event_sem
    spc, last_processed, wrote,       \* the server's loop
    table, running,                   \* clients[0 .. client_count - 1], running
    cpc,                              \* where each client's main thread is
    temp_last, polls,                 \* its position and polls while registering
    history,                          \* positions of the messages it collected
    rpc, my_last,                     \* its receiving thread: where, how far
    alive,                            \* its flag running
    texts,                            \* the texts sent so far, for the bound
    handled, overrun,                 \* ghosts: the last client message the server
                                      \* handled; it has missed a message
    shown                             \* ghost: the position displayed last

sems    == <<mutex, event>>
server  == <<spc, last_processed, wrote, table, running, handled, overrun>>
joining == <<temp_last, polls, history>>
reader  == <<rpc, my_last, shown>>
client  == <<cpc, joining, reader, texts, alive>>
vars    == <<chat, sems, server, client>>

MsgType == {"JOIN_REQ", "JOIN_OK", "TEXT", "JOIN_NOTIFY", "LEAVE", "LEAVE_NOTIFY"}

Message == [type : MsgType, sender : Clients \cup {Server},
            name : Names \cup {ServerName}, to : Names \cup {NoName}, n : Nat]

\* A slot nobody has written is read by nobody.
Empty == [type |-> "EMPTY"]

\* The line "History lost" among the positions of what a client displays: neither a
\* position nor the place before the first one.
Lost == -2

\* "event": at sem_wait(event_sem); "drain": holds the mutex; "post": about to
\* post event_sem.
ServerPc == {"event", "drain", "post", "stopped"}

\* "join": about to ask to join; "..._post": the message is written, event_sem is
\* not posted yet; "poll": in the registration loop; "catchup": registered; "show": about
\* to display the history; "chat": in the input loop; "join_thread": in pthread_join.
ClientPc == {"join", "join_post", "poll", "catchup", "show", "chat", "text_post",
             "leave_post", "join_thread", "left", "failed"}

TypeOK ==
    /\ chat \in [msgs : [0 .. H - 1 -> Message \cup {Empty}],
                 msg_count : Nat, write_index : 0 .. H - 1]
    /\ mutex \in 0 .. 1
    /\ event \in Nat
    /\ spc \in ServerPc
    /\ last_processed \in Nat
    /\ wrote \in BOOLEAN
    /\ table \in Seq([client_pid : Clients, name : Names])
    /\ running \in BOOLEAN
    /\ handled \in Nat \cup {-1}
    /\ overrun \in BOOLEAN
    /\ cpc \in [Clients -> ClientPc]
    /\ temp_last \in [Clients -> Nat]
    /\ polls \in [Clients -> 0 .. Timeout]
    /\ history \in [Clients -> Seq(Nat)]
    /\ rpc \in [Clients -> {"off", "on", "ended"}]
    /\ my_last \in [Clients -> Nat]
    /\ shown \in [Clients -> Nat \cup {Lost}]
    /\ texts \in 0 .. MaxTexts
    /\ alive \in [Clients -> BOOLEAN]

Init ==
    /\ chat = [msgs |-> [i \in 0 .. H - 1 |-> Empty], msg_count |-> 0, write_index |-> 0]
    /\ mutex = 1 /\ event = 0
    /\ spc = "event" /\ last_processed = 0 /\ wrote = FALSE
    /\ table = <<>> /\ running = TRUE
    /\ handled = -1 /\ overrun = FALSE
    /\ cpc = [c \in Clients |-> "join"]
    /\ temp_last = [c \in Clients |-> 0]
    /\ polls = [c \in Clients |-> Timeout]
    /\ history = [c \in Clients |-> <<>>]
    /\ rpc = [c \in Clients |-> "off"]
    /\ my_last = [c \in Clients |-> 0]
    /\ shown = [c \in Clients |-> Lost]
    /\ texts = 0
    /\ alive = [c \in Clients |-> TRUE]

-------------------------------------------------------------------------
(* The shared ring.                                                      *)

\* The slot of the message at position i.
Slot(i) == chat.msgs[i % H]

\* The message m in the slot of position n.
At(m, n) ==
    [type |-> m.type, sender |-> m.sender, name |-> m.name, to |-> m.to, n |-> n]

\* Mutant of Push: the index wraps one slot early.
PushShortRing(ch, m) ==
    [msgs |-> [ch.msgs EXCEPT ![ch.write_index] = At(m, ch.msg_count)],
     msg_count |-> ch.msg_count + 1,
     write_index |-> (ch.write_index + 1) % (H - 1)]

\* push_message, and the same lines in the client's send_message.
Push(ch, m) ==
    [msgs |-> [ch.msgs EXCEPT ![ch.write_index] = At(m, ch.msg_count)],
     msg_count |-> ch.msg_count + 1,
     write_index |-> (ch.write_index + 1) % H]

FromServer(type, to) ==
    [type |-> type, sender |-> Server, name |-> ServerName, to |-> to]

FromClient(c, type) ==
    [type |-> type, sender |-> c, name |-> NameOf[c], to |-> NoName]

-------------------------------------------------------------------------
(* The server.                                                           *)

\* SIGINT or SIGTERM.  signal() installs the handler with SA_RESTART, so a
\* sem_wait that is asleep goes on sleeping.
StopServer ==
    /\ running
    /\ running' = FALSE
    /\ UNCHANGED <<chat, sems, spc, last_processed, wrote, table, handled, overrun, client>>

\* Back at while (running).  When it fails the names of the semaphores and of
\* the memory are unlinked, which the clients that have them open do not see.
LoopAgain == spc' = IF running THEN "event" ELSE "stopped"

\* Mutant of WakeUp: after an overflow it goes back one message too far.
WakeUpTooFar ==
    /\ spc = "event"
    /\ event > 0 /\ mutex = 1
    /\ event' = event - 1 /\ mutex' = 0
    /\ wrote' = FALSE
    /\ last_processed' = IF chat.msg_count - last_processed > H
                         THEN chat.msg_count - H - 1
                         ELSE last_processed
    /\ overrun' = (overrun \/ chat.msg_count - last_processed > H)
    /\ spc' = "drain"
    /\ UNCHANGED <<chat, table, running, handled, client>>

\* The two sem_waits, and the test for messages overwritten before being read.
WakeUp ==
    /\ spc = "event"
    /\ event > 0 /\ mutex = 1
    /\ event' = event - 1 /\ mutex' = 0
    /\ wrote' = FALSE
    /\ last_processed' = IF chat.msg_count - last_processed > H
                         THEN chat.msg_count - H
                         ELSE last_processed
    /\ overrun' = (overrun \/ chat.msg_count - last_processed > H)
    /\ spc' = "drain"
    /\ UNCHANGED <<chat, table, running, handled, client>>

\* The message under the server's eyes, and whether it has one.
Next1   == Slot(last_processed)
HasNext == spc = "drain" /\ last_processed < chat.msg_count

\* check_unique_name compares the names in the table, not the new one, with
\* "Server".
UniqueName(name) ==
    \A i \in 1 .. Len(table) : table[i].name # name /\ table[i].name # ServerName

\* What every case of the switch does.
Advance ==
    /\ last_processed' = last_processed + 1
    /\ handled' = IF Next1.sender = Server THEN handled ELSE Next1.n
    /\ overrun' = (overrun \/ Next1.n # last_processed)
    /\ UNCHANGED <<sems, spc, running, client>>

HandleJoin ==
    /\ HasNext
    /\ Next1.type = "JOIN_REQ"
    /\ UniqueName(Next1.name)
    /\ Len(table) < MaxClients
    /\ table' = Append(table, [client_pid |-> Next1.sender, name |-> Next1.name])
    /\ chat' = Push(Push(chat, FromServer("JOIN_OK", Next1.name)),
                    FromServer("JOIN_NOTIFY", NoName))
    /\ wrote' = TRUE
    /\ Advance

HandleRefusedJoin ==
    /\ HasNext
    /\ Next1.type = "JOIN_REQ"
    /\ ~UniqueName(Next1.name) \/ Len(table) >= MaxClients
    /\ UNCHANGED <<chat, table, wrote>>
    /\ Advance

\* Mutant of RemoveClient: the first entry goes, whoever left.
RemoveFirst(pid) == IF table = <<>> THEN table ELSE Tail(table)

\* remove_client drops the first entry with the sender's pid, if there is one; the later
\* entries move down.
RemoveClient(pid) ==
    LET at  == {i \in 1 .. Len(table) : table[i].client_pid = pid}
        idx == CHOOSE i \in at : \A j \in at : i <= j
    IN  IF at # {}
        THEN [i \in 1 .. Len(table) - 1 |-> IF i < idx THEN table[i] ELSE table[i + 1]]
        ELSE table

\* The notification is sent even when the client was not in the table.
HandleLeave ==
    /\ HasNext
    /\ Next1.type = "LEAVE"
    /\ table' = RemoveClient(Next1.sender)
    /\ chat' = Push(chat, FromServer("LEAVE_NOTIFY", NoName))
    /\ wrote' = TRUE
    /\ Advance

\* Texts and the server's own messages: printed only.
HandleOther ==
    /\ HasNext
    /\ Next1.type \notin {"JOIN_REQ", "LEAVE"}
    /\ UNCHANGED <<chat, table, wrote>>
    /\ Advance

\* Mutant of Unlock: one message for each post, no inner loop.
UnlockEarly ==
    /\ spc = "drain"
    /\ mutex' = 1
    /\ IF wrote THEN spc' = "post" ELSE LoopAgain
    /\ UNCHANGED <<chat, event, last_processed, wrote, table, running, handled, overrun, client>>

Unlock ==
    /\ spc = "drain"
    /\ last_processed >= chat.msg_count
    /\ mutex' = 1
    /\ IF wrote THEN spc' = "post" ELSE LoopAgain
    /\ UNCHANGED <<chat, event, last_processed, wrote, table, running, handled, overrun, client>>

PostSelf ==
    /\ spc = "post"
    /\ event' = event + 1
    /\ LoopAgain
    /\ UNCHANGED <<chat, mutex, last_processed, wrote, table, running, handled, overrun, client>>

ServerStep == \/ WakeUp
              \/ HandleJoin \/ HandleRefusedJoin \/ HandleLeave \/ HandleOther
              \/ Unlock \/ PostSelf

-------------------------------------------------------------------------
(* A client.                                                             *)

\* send_message up to sem_post(mutex_sem): the next message goes into the ring.
Send(c, type, to) ==
    /\ mutex = 1
    /\ chat' = Push(chat, FromClient(c, type))
    /\ cpc' = [cpc EXCEPT ![c] = to]
    /\ UNCHANGED <<sems, server, joining, reader, alive>>

\* Mutant of Post: the client does not wake the server.
PostNot(c, from, to) ==
    /\ cpc[c] = from
    /\ cpc' = [cpc EXCEPT ![c] = to]
    /\ UNCHANGED <<chat, sems, server, joining, reader, texts, alive>>

\* The last line of send_message.
Post(c, from, to) ==
    /\ cpc[c] = from
    /\ event' = event + 1
    /\ cpc' = [cpc EXCEPT ![c] = to]
    /\ UNCHANGED <<chat, mutex, server, joining, reader, texts, alive>>

SendJoin(c) ==
    /\ cpc[c] = "join"
    /\ Send(c, "JOIN_REQ", "join_post")
    /\ UNCHANGED texts

\* The user presses Enter on a line of text.
SendText(c) ==
    /\ cpc[c] = "chat"
    /\ alive[c]
    /\ texts < MaxTexts
    /\ texts' = texts + 1
    /\ Send(c, "TEXT", "text_post")

\* The input loop ends.
SendLeave(c) ==
    /\ cpc[c] = "chat"
    /\ ~alive[c]
    /\ Send(c, "LEAVE", "leave_post")
    /\ UNCHANGED texts

\* Mutant of PostLeave: the server is not woken for it.
LeaveUnposted(c) == PostNot(c, "leave_post", "join_thread")

PostJoin(c)  == Post(c, "join_post", "poll")
PostText(c)  == Post(c, "text_post", "chat")
PostLeave(c) == Post(c, "leave_post", "join_thread")

\* The unread positions, and those with a JOIN_OK for this client's name.
Unread(c) == temp_last[c] .. chat.msg_count - 1
Welcomes(c) == {i \in Unread(c) : /\ Slot(i).type = "JOIN_OK"
                                  /\ Slot(i).to = NameOf[c]}

Significant == {"TEXT", "JOIN_NOTIFY", "LEAVE_NOTIFY"}

\* history[] of c when it has read from its position up to position b: what is
\* significant is added while there is room.
Collected(c, b) ==
    LET read == [k \in 1 .. b - temp_last[c] |-> Slot(temp_last[c] + k - 1)]
        kept == SelectSeq(read, LAMBDA m : m.type \in Significant)
        all  == history[c] \o [k \in 1 .. Len(kept) |-> kept[k].n]
    IN  SubSeq(all, 1, IF Len(all) < MaxHistory THEN Len(all) ELSE MaxHistory)

\* One turn of the registration loop that finds the JOIN_OK.
PollFinds(c) ==
    /\ cpc[c] = "poll"
    /\ alive[c] /\ polls[c] > 0
    /\ mutex = 1
    /\ \E i \in Welcomes(c) :
          /\ \A j \in Welcomes(c) : i <= j
          /\ temp_last' = [temp_last EXCEPT ![c] = i + 1]
          /\ history' = [history EXCEPT ![c] = Collected(c, i)]
    /\ polls' = [polls EXCEPT ![c] = @ - 1]
    /\ cpc' = [cpc EXCEPT ![c] = "catchup"]
    /\ UNCHANGED <<chat, sems, server, reader, texts, alive>>

\* One turn that does not.
PollMisses(c) ==
    /\ cpc[c] = "poll"
    /\ alive[c] /\ polls[c] > 0
    /\ mutex = 1
    /\ Welcomes(c) = {}
    /\ temp_last' = [temp_last EXCEPT ![c] = chat.msg_count]
    /\ history' = [history EXCEPT ![c] = Collected(c, chat.msg_count)]
    /\ polls' = [polls EXCEPT ![c] = @ - 1]
    /\ UNCHANGED <<chat, sems, server, cpc, reader, texts, alive>>

\* main's locals of the registration are not read any more.
ForgetRegistration(c) ==
    /\ temp_last' = [temp_last EXCEPT ![c] = 0]
    /\ polls' = [polls EXCEPT ![c] = 0]
    /\ history' = [history EXCEPT ![c] = <<>>]

\* The polls are spent, or the user pressed ctrl+c: the client exits.
GiveUp(c) ==
    /\ cpc[c] = "poll"
    /\ ~alive[c] \/ polls[c] = 0
    /\ cpc' = [cpc EXCEPT ![c] = "failed"]
    /\ ForgetRegistration(c)
    /\ UNCHANGED <<chat, sems, server, reader, texts, alive>>

\* Mutant of CatchUp: what came since the JOIN_OK is not collected.
CatchUpSkipped(c) ==
    /\ cpc[c] = "catchup"
    /\ mutex = 1
    /\ temp_last' = [temp_last EXCEPT ![c] = chat.msg_count]
    /\ my_last' = [my_last EXCEPT ![c] = chat.msg_count]
    /\ cpc' = [cpc EXCEPT ![c] = "show"]
    /\ UNCHANGED <<chat, sems, server, polls, history, rpc, shown, texts, alive>>

\* What was written since the JOIN_OK joins the history; last_processed, from which
\* the receiving thread takes my_last, is set to the end of it.
CatchUp(c) ==
    /\ cpc[c] = "catchup"
    /\ mutex = 1
    /\ history' = [history EXCEPT ![c] = Collected(c, chat.msg_count)]
    /\ temp_last' = [temp_last EXCEPT ![c] = chat.msg_count]
    /\ my_last' = [my_last EXCEPT ![c] = chat.msg_count]
    /\ cpc' = [cpc EXCEPT ![c] = "show"]
    /\ UNCHANGED <<chat, sems, server, polls, rpc, shown, texts, alive>>

\* The history is displayed and the receiving thread started.
ShowHistory(c) ==
    /\ cpc[c] = "show"
    /\ rpc' = [rpc EXCEPT ![c] = "on"]
    /\ shown' = [shown EXCEPT ![c] = temp_last[c] - 1]
    /\ ForgetRegistration(c)
    /\ cpc' = [cpc EXCEPT ![c] = "chat"]
    /\ UNCHANGED <<chat, sems, server, my_last, texts, alive>>

\* ctrl+q or a signal clears running.
Quit(c) ==
    /\ cpc[c] \in {"poll", "chat", "text_post"}
    /\ alive[c]
    /\ alive' = [alive EXCEPT ![c] = FALSE]
    /\ UNCHANGED <<chat, sems, server, cpc, joining, reader, texts>>

JoinThread(c) ==
    /\ cpc[c] = "join_thread"
    /\ rpc[c] = "ended"
    /\ cpc' = [cpc EXCEPT ![c] = "left"]
    /\ UNCHANGED <<chat, sems, server, joining, reader, texts, alive>>

\* The loop over the messages from position a up to position b.
Displayed(a, b) == [k \in 1 .. b - a |-> Slot(a + k - 1).n]

\* What the receiving thread displays when it takes its turn now.
View(c) == IF chat.msg_count - my_last[c] > H
           THEN <<Lost>> \o Displayed(chat.msg_count - H, chat.msg_count)
           ELSE Displayed(my_last[c], chat.msg_count)

\* Mutant of RecvTurn: my_last stays where it was.
RecvTurnStays(c) ==
    /\ rpc[c] = "on" /\ alive[c]
    /\ mutex = 1
    /\ LET screen == <<shown[c]>> \o View(c)
       IN  shown' = [shown EXCEPT ![c] = screen[Len(screen)]]
    /\ UNCHANGED <<chat, sems, server, cpc, joining, rpc, my_last, texts, alive>>

\* One turn of recv_thread_fn.
RecvTurn(c) ==
    /\ rpc[c] = "on" /\ alive[c]
    /\ mutex = 1
    /\ LET screen == <<shown[c]>> \o View(c)
       IN  shown' = [shown EXCEPT ![c] = screen[Len(screen)]]
    /\ my_last' = [my_last EXCEPT ![c] = chat.msg_count]
    /\ UNCHANGED <<chat, sems, server, cpc, joining, rpc, texts, alive>>

\* Once running is cleared the thread ends, at its test, or after the turn it had
\* begun, which displays View(c) and is its last: what it knows goes with it.
RecvEnds(c) ==
    /\ rpc[c] = "on" /\ ~alive[c]
    /\ rpc' = [rpc EXCEPT ![c] = "ended"]
    /\ my_last' = [my_last EXCEPT ![c] = 0]
    /\ shown' = [shown EXCEPT ![c] = Lost]
    /\ UNCHANGED <<chat, sems, server, cpc, joining, texts, alive>>

-------------------------------------------------------------------------
ClientStep(c) ==
    \/ PostJoin(c) \/ PostText(c) \/ PostLeave(c)
    \/ GiveUp(c) \/ ShowHistory(c) \/ JoinThread(c)

\* Steps that have to find mutex_sem free; typing a text is the user's choice.
ClientLocked(c) ==
    SendJoin(c) \/ SendLeave(c) \/ PollFinds(c) \/ PollMisses(c) \/ CatchUp(c)

Next ==
    \/ StopServer
    \/ ServerStep
    \/ \E c \in Clients :
          \/ ClientStep(c) \/ ClientLocked(c)
          \/ SendText(c) \/ Quit(c)
          \/ RecvTurn(c) \/ RecvEnds(c)

Spec == Init /\ [][Next]_vars

\* Every process and thread is scheduled, and nobody is passed over for ever at
\* mutex_sem; users need not type anything and need not leave.
Fairness ==
    /\ WF_vars(ServerStep) /\ SF_vars(WakeUp)
    /\ \A c \in Clients : /\ WF_vars(ClientStep(c))
                          /\ SF_vars(ClientLocked(c))
                          /\ SF_vars(RecvTurn(c))
                          /\ WF_vars(RecvEnds(c))

FairSpec == Spec /\ Fairness
-------------------------------------------------------------------------
(* What the chat promises.                                               *)

Count == chat.msg_count

\* Whoever wrote last, a reader at most HISTORY_SIZE behind finds the message at
\* its position: the writers' index and the readers' % agree (server.c:66-70,
\* 178; client.c:133-135, 151).
RingHoldsLast ==
    /\ chat.write_index = Count % H
    /\ \A i \in 0 .. Count - 1 :
          i >= Count - H => Slot(i) # Empty /\ Slot(i).n = i

Posting == {c \in Clients : cpc[c] \in {"join_post", "text_post", "leave_post"}}

\* The server does not sleep on event_sem over messages it has not read: there is
\* a post it has not taken or a client that is about to post (server.c:166,
\* 243-245; client.c:136-137).
EventCoversBacklog ==
    spc = "event" /\ last_processed < Count => event > 0 \/ Posting # {}

\* Although the server's answers overwrite messages it has not read yet, no
\* request of a client is handled twice or out of order (server.c:176-239).
HandledOnce ==
    [][(HandleJoin \/ HandleRefusedJoin \/ HandleLeave \/ HandleOther)
       /\ Next1.sender # Server => handled' > handled]_vars

Listed(c) == \E i \in 1 .. Len(table) : table[i].client_pid = c

Registered(c) ==
    cpc[c] \in {"catchup", "show", "chat", "text_post"}

\* A client whose name nobody else uses, and which found its JOIN_OK, is in the
\* server's table until it says that it leaves (client.c:278-299, server.c:193).
SoleNameListed ==
    \A c \in Clients :
        /\ Registered(c)
        /\ \A d \in Clients \ {c} : NameOf[d] # NameOf[c]
        => Listed(c)

\* Positions s that a reader has passed one by one, but for the gaps it has marked.
StepByStep(s) ==
    \A i \in 2 .. Len(s) :
        IF s[i] = Lost
        THEN s[i - 1] # Lost /\ i < Len(s) /\ s[i + 1] > s[i - 1] + 1
        ELSE s[i - 1] = Lost \/ s[i] = s[i - 1] + 1

\* Whenever the receiving thread takes its turn, what it displays goes on after what is
\* on the screen: each message once and in order, from the first one that main has not
\* collected on; it leaves messages out only where it displays "History lost", and
\* displays that only where it does (client.c:140-159, 309-320).
ShownInOrder ==
    \A c \in Clients : rpc[c] = "on" =>
        LET screen == <<shown[c]>> \o View(c)
        IN  StepByStep(screen) /\ screen[Len(screen)] = Count - 1

\* History and receiving thread join: main has collected every significant message
\* before the place where the thread is to start that is still in the ring, unless
\* history[] is full, and none that the thread is to display (client.c:278-325).
HistoryMeetsThread ==
    \A c \in Clients :
        LET collected == {history[c][k] : k \in 1 .. Len(history[c])}
            end == IF cpc[c] = "show" THEN my_last[c] ELSE temp_last[c]
        IN  /\ cpc[c] = "show" => \A n \in collected : n < end
            /\ \A n \in 0 .. end - 1 :
                  n >= Count - H /\ Slot(n).type \in Significant
                  => n \in collected \/ Len(history[c]) = MaxHistory

\* The message of a client that leaves reaches the server, which drops it from its
\* table, unless the server stops or has missed a message (server.c:223-231).
LeaveTakesEffect ==
    \A c \in Clients :
        cpc[c] = "join_thread" ~> ~Listed(c) \/ spc = "stopped" \/ overrun

\* When the server sleeps with nothing posted and nobody about to post, every client
\* that said it leaves is out of the table (server.c:223-231), unless a message was
\* missed.
QuietMeansDone ==
    spc = "event" /\ event = 0 /\ Posting = {} /\ ~overrun =>
        \A c \in Clients : cpc[c] \in {"join_thread", "left"} => ~Listed(c)

\* client.c:302: a client exits with "Registration failed (name taken or server
\* error)" when the server has not registered it.
FailedIsUnlisted ==
    \A c \in Clients : cpc[c] = "failed" => ~Listed(c)

\* client.c:275: the client waits for the JOIN_OK that answers its own request.
JoinOkIsOwn ==
    \A c \in Clients : Registered(c) => Listed(c)

\* client.c:275: what is collected up to the JOIN_OK is the history, every message
\* from the start.
HistoryInOrder ==
    \A c \in Clients : \A i, j \in 1 .. Len(history[c]) :
        i < j => history[c][i] < history[c][j]
=========================================================================
