--------------------------- MODULE EpollServer ---------------------------
(***************************************************************************)
(* The epoll time server, 16_homework/lec47/4/server.c: one thread, one    *)
(* epoll set with EPOLLET, a listening socket, a UDP socket and one        *)
(* context (ctx_t) for each client whose answer is not sent yet.           *)
(*                                                                         *)
(* A context stands for its connection, its descriptor and its place in    *)
(* the epoll set.  The kernel's ready list is a set: an edge puts a socket *)
(* on it, epoll_wait takes sockets off it in any order and drops those     *)
(* that are not ready any more.  Edges and system calls interleave: every  *)
(* system call of the server is a step.                                    *)
(***************************************************************************)
EXTENDS Integers, FiniteSets, Sequences

CONSTANTS Clients,    \* the TCP clients
          Listen,     \* the listening socket
          Udp,        \* the UDP socket
          Nobody,     \* no context
          L,          \* buf_len, the bytes of an answer
          SndBuf,     \* the bytes a socket's send buffer takes
          MaxEvents,  \* MAX_EVENTS
          MaxAsk      \* bound: UDP requests

ASSUME EpollAssumption ==
    /\ IsFiniteSet(Clients)
    /\ Listen \notin Clients /\ Udp \notin Clients /\ Listen # Udp
    /\ Nobody \notin Clients
    /\ L \in Nat \ {0} /\ SndBuf \in Nat \ {0}
    /\ MaxEvents \in Nat \ {0} /\ MaxAsk \in Nat

VARIABLES
    conn, peer, inflight,   \* each connection, its client, bytes in the send buffer
    got,                    \* the bytes send took for it, by their place in its buf
    udpq, asked,            \* UDP requests waiting, and sent so far
    ready, nospace,         \* epoll's ready list; sockets that found no room
    pc, batch, hung,        \* the server: where; events to dispatch, with EPOLLHUP
    cur, ret,               \* the context in try_send_remaining, and its caller
    ctx, sent,              \* allocated contexts, and their buf_sent
    running,                \* g_running
    missed, unread          \* ghosts: connections and requests that the last accept and
                            \* recvfrom loops left in their queues

outside == <<conn, peer, inflight, got, udpq, asked>>
kernel  == <<ready, nospace>>
loop    == <<pc, batch, hung, cur, ret>>
ghosts  == <<missed, unread>>
vars    == <<outside, kernel, loop, ctx, sent, running, ghosts>>

Items == Clients \cup {Listen, Udp}

\* "loop": at while (g_running); "wait": in epoll_wait; "batch": in the for loop;
\* "accept", "udp", "send": in the loops of on_tcp_accept, on_udp_request and
\* try_send_remaining; "mod": at epoll_ctl MOD.
Pc == {"loop", "wait", "batch", "accept", "udp", "send", "mod", "stopped"}

\* "dropped": accepted and closed without its answer, because a system call failed.
ConnState == {"idle", "backlog", "open", "closed", "dropped"}

TypeOK ==
    /\ conn \in [Clients -> ConnState]
    /\ peer \in [Clients -> {"up", "reset"}]
    /\ inflight \in [Clients -> 0 .. SndBuf]
    /\ got \in [Clients -> Seq(1 .. L)]
    /\ udpq \in Nat /\ asked \in 0 .. MaxAsk
    /\ ready \in SUBSET Items /\ nospace \in SUBSET Clients
    /\ pc \in Pc
    /\ batch \in SUBSET Items /\ hung \in SUBSET Clients
    /\ cur \in Clients \cup {Nobody}
    /\ pc \in {"send", "mod"} => cur \in Clients
    /\ ret \in {"batch", "accept"}
    /\ ctx \in SUBSET Clients
    /\ sent \in [Clients -> 0 .. L]
    /\ running \in BOOLEAN
    /\ missed \in SUBSET Clients /\ unread \in Nat

Init ==
    /\ conn = [c \in Clients |-> "idle"]
    /\ peer = [c \in Clients |-> "up"]
    /\ inflight = [c \in Clients |-> 0]
    /\ got = [c \in Clients |-> <<>>]
    /\ udpq = 0 /\ asked = 0
    /\ ready = {} /\ nospace = {}
    /\ pc = "loop" /\ batch = {} /\ hung = {} /\ cur = Nobody /\ ret = "batch"
    /\ ctx = {} /\ sent = [c \in Clients |-> 0]
    /\ running = TRUE /\ missed = {} /\ unread = 0

Backlog == {c \in Clients : conn[c] = "backlog"}
Reset(c) == peer[c] = "reset"

\* What epoll finds when it looks at a socket.
Pollable(x) ==
    \/ x = Listen /\ Backlog # {}
    \/ x = Udp /\ udpq > 0
    \/ x \in Clients /\ (inflight[x] < SndBuf \/ Reset(x))

\* An edge on a socket of the epoll set.
Notify(x) == ready' = IF x \in ctx \cup {Listen, Udp} THEN ready \cup {x} ELSE ready

-------------------------------------------------------------------------
(* Clients, the network, and the terminal.                               *)

Connect(c) ==
    /\ conn[c] = "idle"
    /\ pc # "stopped"
    /\ conn' = [conn EXCEPT ![c] = "backlog"]
    /\ Notify(Listen)
    /\ UNCHANGED <<peer, inflight, got, udpq, asked, nospace, loop, ctx, sent, running, ghosts>>

\* The client takes a byte; there is an edge if the server has found no room.
PeerReads(c) ==
    /\ inflight[c] > 0
    /\ inflight' = [inflight EXCEPT ![c] = @ - 1]
    /\ IF c \in nospace THEN Notify(c) ELSE UNCHANGED ready
    /\ nospace' = nospace \ {c}
    /\ UNCHANGED <<conn, peer, got, udpq, asked, loop, ctx, sent, running, ghosts>>

PeerResets(c) ==
    /\ conn[c] \in {"backlog", "open"}
    /\ ~Reset(c) /\ pc # "stopped"
    /\ peer' = [peer EXCEPT ![c] = "reset"]
    /\ inflight' = [inflight EXCEPT ![c] = 0]
    /\ Notify(c)
    /\ UNCHANGED <<conn, got, udpq, asked, nospace, loop, ctx, sent, running, ghosts>>

Ask ==
    /\ asked < MaxAsk /\ pc # "stopped"
    /\ asked' = asked + 1
    /\ udpq' = udpq + 1
    /\ Notify(Udp)
    /\ UNCHANGED <<conn, peer, inflight, got, nospace, loop, ctx, sent, running, ghosts>>

\* SIGINT or SIGTERM: epoll_wait returns EINTR, and nothing else ever sleeps.
Signal ==
    /\ running /\ pc # "stopped"
    /\ running' = FALSE
    /\ pc' = IF pc = "wait" THEN "loop" ELSE pc
    /\ UNCHANGED <<outside, kernel, batch, hung, cur, ret, ctx, sent, ghosts>>

\* Compiled for plain POSIX, signal() puts the default action back.
SignalAgain ==
    /\ ~running /\ pc # "stopped"
    /\ pc' = "stopped"
    /\ UNCHANGED <<outside, kernel, batch, hung, cur, ret, ctx, sent, running, ghosts>>

-------------------------------------------------------------------------
(* The event loop.                                                       *)

Loop ==
    /\ pc = "loop"
    /\ pc' = IF running THEN "wait" ELSE "stopped"
    /\ UNCHANGED <<outside, kernel, batch, hung, cur, ret, ctx, sent, running, ghosts>>

\* epoll_wait looks at some of the ready list and returns what is still ready.
Wait ==
    /\ pc = "wait"
    /\ \E seen \in SUBSET ready :
          LET live == {x \in seen : Pollable(x)}
          IN  /\ seen # {}
              /\ Cardinality(live) <= MaxEvents
              /\ ready' = ready \ seen
              /\ nospace' = nospace \cup ((seen \cap Clients) \ live)
              /\ batch' = live
              /\ hung' = {c \in live \cap Clients : Reset(c)}
              /\ pc' = IF live = {} THEN "wait" ELSE "batch"
    /\ UNCHANGED <<outside, cur, ret, ctx, sent, running, ghosts>>

\* The for loop takes an event without EPOLLERR or EPOLLHUP to its handler.
Dispatch(x) ==
    /\ pc = "batch"
    /\ x \in batch \ hung
    /\ batch' = batch \ {x}
    /\ pc' = CASE x = Listen -> "accept" [] x = Udp -> "udp" [] OTHER -> "send"
    /\ cur' = IF x \in Clients THEN x ELSE Nobody
    /\ ret' = "batch"
    /\ UNCHANGED <<outside, kernel, hung, ctx, sent, running, ghosts>>

\* close_client, of a client that has its answer or has reset, or one that is dropped.
CloseClient(c, how) ==
    /\ conn' = [conn EXCEPT ![c] = how]
    /\ ctx' = ctx \ {c}
    /\ ready' = ready \ {c}
    /\ nospace' = nospace \ {c}

\* Mutant of HangUp: without the continue, the handler runs on the freed context.
HangUpFallsThrough(c) ==
    /\ pc = "batch"
    /\ c \in batch \cap hung
    /\ batch' = batch \ {c} /\ hung' = hung \ {c}
    /\ CloseClient(c, "closed")
    /\ pc' = "send" /\ cur' = c /\ ret' = "batch"
    /\ UNCHANGED <<peer, inflight, got, udpq, asked, sent, running, ghosts>>

\* EPOLLERR or EPOLLHUP on a client.
HangUp(c) ==
    /\ pc = "batch"
    /\ c \in batch \cap hung
    /\ batch' = batch \ {c} /\ hung' = hung \ {c}
    /\ CloseClient(c, "closed")
    /\ UNCHANGED <<peer, inflight, got, udpq, asked, pc, cur, ret, sent, running, ghosts>>

BatchDone ==
    /\ pc = "batch"
    /\ batch = {}
    /\ pc' = "loop"
    /\ UNCHANGED <<outside, kernel, batch, hung, cur, ret, ctx, sent, running, ghosts>>

-------------------------------------------------------------------------
(* on_tcp_accept.                                                        *)

\* Mutant of AcceptOne: one connection for each event, no loop.
AcceptAndLeave(c) ==
    /\ pc = "accept"
    /\ conn[c] = "backlog"
    /\ conn' = [conn EXCEPT ![c] = "open"]
    /\ ctx' = ctx \cup {c}
    /\ sent' = [sent EXCEPT ![c] = 0]
    /\ ready' = ready \cup {c}
    /\ pc' = "send" /\ cur' = c /\ ret' = "batch"
    /\ UNCHANGED <<peer, inflight, got, udpq, asked, nospace, batch, hung, running, ghosts>>

\* The new socket is ready at once, so epoll_ctl ADD puts it on the ready list.
AcceptOne(c) ==
    /\ pc = "accept"
    /\ conn[c] = "backlog"
    /\ conn' = [conn EXCEPT ![c] = "open"]
    /\ ctx' = ctx \cup {c}
    /\ sent' = [sent EXCEPT ![c] = 0]
    /\ ready' = ready \cup {c}
    /\ pc' = "send" /\ cur' = c /\ ret' = "accept"
    /\ UNCHANGED <<peer, inflight, got, udpq, asked, nospace, batch, hung, running, ghosts>>

\* calloc or epoll_ctl ADD fails.
AcceptDropped(c) ==
    /\ pc = "accept"
    /\ conn[c] = "backlog"
    /\ conn' = [conn EXCEPT ![c] = "dropped"]
    /\ UNCHANGED <<peer, inflight, got, udpq, asked, kernel, loop, ctx, sent, running, ghosts>>

\* accept fails: no descriptor, no memory, or the connection was aborted.
AcceptFails ==
    /\ pc = "accept"
    /\ pc' = "batch"
    /\ missed' = Backlog
    /\ UNCHANGED <<outside, kernel, batch, hung, cur, ret, ctx, sent, running, unread>>

\* EAGAIN.
AcceptDone ==
    /\ pc = "accept"
    /\ Backlog = {}
    /\ pc' = "batch"
    /\ missed' = {}
    /\ UNCHANGED <<outside, kernel, batch, hung, cur, ret, ctx, sent, running, unread>>

-------------------------------------------------------------------------
(* try_send_remaining.                                                   *)

\* Bytes from + 1 to from + n of the answer go into the send buffer.
Take(n, from) ==
    /\ pc = "send" /\ ~Reset(cur)
    /\ n <= L - sent[cur] /\ n <= SndBuf - inflight[cur]
    /\ inflight' = [inflight EXCEPT ![cur] = @ + n]
    /\ got' = [got EXCEPT ![cur] = @ \o [i \in 1 .. n |-> from + i]]
    /\ sent' = [sent EXCEPT ![cur] = @ + n]

\* Mutant of SendSome: one send for each event.
SendOnce(n) ==
    /\ Take(n, sent[cur])
    /\ pc' = ret
    /\ UNCHANGED <<conn, peer, udpq, asked, kernel, batch, hung, cur, ret, ctx, running, ghosts>>

\* Mutant of SendSome: send starts at buf, not at buf + buf_sent.
SendFromStart(n) ==
    /\ Take(n, 0)
    /\ UNCHANGED <<conn, peer, udpq, asked, kernel, loop, ctx, running, ghosts>>

\* send takes n bytes at buf + buf_sent.
SendSome(n) ==
    /\ Take(n, sent[cur])
    /\ UNCHANGED <<conn, peer, udpq, asked, kernel, loop, ctx, running, ghosts>>

\* EAGAIN.
SendAgain ==
    /\ pc = "send" /\ ~Reset(cur)
    /\ sent[cur] < L /\ inflight[cur] = SndBuf
    /\ nospace' = nospace \cup {cur}
    /\ pc' = "mod"
    /\ UNCHANGED <<outside, ready, batch, hung, cur, ret, ctx, sent, running, ghosts>>

\* epoll_ctl MOD looks at the socket again.
Mod ==
    /\ pc = "mod"
    /\ ready' = IF Pollable(cur) THEN ready \cup {cur} ELSE ready
    /\ pc' = ret /\ cur' = Nobody
    /\ UNCHANGED <<outside, nospace, batch, hung, ret, ctx, sent, running, ghosts>>

\* The whole answer is sent, or send fails because the client has reset.
SendEnds ==
    /\ pc = "send"
    /\ sent[cur] = L \/ Reset(cur)
    /\ CloseClient(cur, "closed")
    /\ pc' = ret /\ cur' = Nobody
    /\ UNCHANGED <<peer, inflight, got, udpq, asked, batch, hung, ret, sent, running, ghosts>>

\* send fails otherwise: the client is closed with what it has got.
SendFails ==
    /\ pc = "send"
    /\ sent[cur] < L
    /\ CloseClient(cur, "dropped")
    /\ pc' = ret /\ cur' = Nobody
    /\ UNCHANGED <<peer, inflight, got, udpq, asked, batch, hung, ret, sent, running, ghosts>>

-------------------------------------------------------------------------
(* on_udp_request: an answer that cannot be sent is lost, as UDP's are.  *)

UdpAnswer ==
    /\ pc = "udp"
    /\ udpq > 0
    /\ udpq' = udpq - 1
    /\ UNCHANGED <<conn, peer, inflight, got, asked, kernel, loop, ctx, sent, running, ghosts>>

\* recvfrom fails otherwise than with EAGAIN.
UdpFails ==
    /\ pc = "udp"
    /\ pc' = "batch"
    /\ unread' = udpq
    /\ UNCHANGED <<outside, kernel, batch, hung, cur, ret, ctx, sent, running, missed>>

\* EAGAIN.
UdpDone ==
    /\ pc = "udp"
    /\ udpq = 0
    /\ pc' = "batch"
    /\ unread' = 0
    /\ UNCHANGED <<outside, kernel, batch, hung, cur, ret, ctx, sent, running, missed>>

-------------------------------------------------------------------------
ServerStep ==
    \/ Loop \/ Wait \/ BatchDone
    \/ \E x \in Items : Dispatch(x)
    \/ \E c \in Clients : HangUp(c) \/ AcceptOne(c) \/ AcceptDropped(c)
    \/ AcceptFails \/ AcceptDone
    \/ \E n \in 1 .. L : SendSome(n)
    \/ SendAgain \/ Mod \/ SendEnds \/ SendFails
    \/ UdpAnswer \/ UdpDone \/ UdpFails

Next ==
    \/ \E c \in Clients : Connect(c) \/ PeerReads(c) \/ PeerResets(c)
    \/ Ask \/ Signal \/ SignalAgain
    \/ ServerStep

Spec == Init /\ [][Next]_vars

\* The server is scheduled and the clients read what they are sent.
Fairness == WF_vars(ServerStep) /\ \A c \in Clients : WF_vars(PeerReads(c))

FairSpec == Spec /\ Fairness

-------------------------------------------------------------------------
(* What the server promises.                                             *)

\* The client whose answer is being sent now.
Sending(c) == pc \in {"send", "mod"} /\ cur = c

\* No context is used after it was freed, and none leaks: what epoll, the events of
\* this turn and try_send_remaining point to is allocated, and an open connection
\* has exactly one context (server.c:151-178, 312-336).
NoDangling ==
    /\ (ready \cup batch) \cap Clients \subseteq ctx
    /\ \A c \in Clients : Sending(c) => c \in ctx \ batch
    /\ ctx = {c \in Clients : conn[c] = "open"}

Accepting == pc = "accept" \/ (pc \in {"send", "mod"} /\ ret = "accept")

\* No edge is lost although every socket is edge-triggered: a socket on which there
\* is work is on the ready list, among the events of this turn, or in the hands of
\* its handler.  An accept or recvfrom loop that an error ended leaves behind what was
\* queued then, and no more: what comes later brings a new edge, and with it the whole
\* queue to the loop (server.c:157-178, 183-194, 233-246).
NoLostEdge ==
    pc # "stopped" =>
        /\ Backlog \ missed # {} => Listen \in ready \cup batch \/ Accepting
        /\ udpq > unread => Udp \in ready \cup batch \/ pc = "udp"
        /\ \A c \in ctx : Pollable(c) => c \in ready \cup batch \/ Sending(c)

\* The bytes a client was sent are those of its answer, in order, from the first one:
\* buf_sent is where the last send ended, however the sends split the answer.
Streamed ==
    \A c \in Clients :
        /\ Len(got[c]) = sent[c]
        /\ \A i \in 1 .. Len(got[c]) : got[c][i] = i
        /\ conn[c] \in {"idle", "backlog"} => sent[c] = 0

\* A client that has not reset its connection, and for which no system call failed, is
\* closed only after every byte of the answer was sent once and in order, however full
\* its send buffer was (server.c:158-178, 316-319).
WholeAnswer ==
    \A c \in Clients : conn[c] = "closed" /\ ~Reset(c) => got[c] = [i \in 1 .. L |-> i]

\* The inductive invariant: between two turns there are no events; an event with
\* EPOLLHUP is of a client that has reset; buf_sent counts the bytes that were sent, which
\* are the first ones of the answer; and a context that is neither handled nor
\* on its way to be will get an edge, because its socket has found no room.
EpollInv ==
    /\ NoDangling /\ NoLostEdge /\ WholeAnswer /\ Streamed
    /\ pc \in {"loop", "wait"} => batch = {}
    /\ \A c \in hung : Reset(c)
    /\ pc = "mod" => cur \in nospace \/ Pollable(cur)
    /\ pc # "stopped" =>
          \A c \in ctx : c \in ready \cup batch \cup nospace \/ Sending(c)

\* Every accepted client that reads is closed, with its answer unless it is dropped,
\* or the server stops.
Answered ==
    \A c \in Clients : conn[c] = "open" ~> conn[c] \in {"closed", "dropped"} \/ pc = "stopped"

\* Whoever connects is accepted, and every UDP request is taken, unless the server stops
\* or an error ended the loop while they were queued (server.c:183-194, 233-246).
EdgesServed ==
    /\ \A c \in Clients :
          conn[c] = "backlog" ~> conn[c] # "backlog" \/ pc = "stopped" \/ c \in missed
    /\ udpq > unread ~> udpq <= unread \/ pc = "stopped"
=========================================================================
