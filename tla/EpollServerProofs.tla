------------------------ MODULE EpollServerProofs ------------------------
(***************************************************************************)
(* Proofs about EpollServer, for every set of clients, every answer        *)
(* length, every send buffer and every MAX_EVENTS.  EpollInv is inductive  *)
(* together with TypeOK; the properties are its parts.                     *)
(***************************************************************************)
EXTENDS EpollServer, TLAPS

USE DEF Items, ConnState, Pc

-------------------------------------------------------------------------
(* Types.                                                                *)

LEMMA TypeInit == Init => TypeOK
<1> SUFFICES ASSUME Init PROVE TypeOK
  OBVIOUS
<1>1. conn \in [Clients -> ConnState] /\ peer \in [Clients -> {"up", "reset"}]
  BY DEF Init
<1>2. inflight \in [Clients -> 0 .. SndBuf] /\ sent \in [Clients -> 0 .. L]
  BY EpollAssumption DEF Init
<1>3. /\ running \in BOOLEAN /\ missed \in SUBSET Clients /\ unread \in Nat
      /\ got \in [Clients -> Seq(1 .. L)]
  BY DEF Init
<1>4. asked \in 0 .. MaxAsk /\ udpq \in Nat
  BY EpollAssumption DEF Init
<1> QED
  BY <1>1, <1>2, <1>3, <1>4 DEF Init, TypeOK

LEMMA CloseTypes ==
  ASSUME TypeOK, NEW c, NEW how \in {"closed", "dropped"}, CloseClient(c, how)
  PROVE  /\ conn' \in [Clients -> ConnState]
         /\ ctx' \in SUBSET Clients
         /\ ready' \in SUBSET Items
         /\ nospace' \in SUBSET Clients
  BY DEF TypeOK, CloseClient

\* The entries of a concatenation.
LEMMA Joined ==
  ASSUME NEW S, NEW s \in Seq(S), NEW t \in Seq(S)
  PROVE  /\ s \o t \in Seq(S) /\ Len(s \o t) = Len(s) + Len(t)
         /\ \A i \in 1 .. Len(s \o t) : (s \o t)[i] = IF i <= Len(s) THEN s[i] ELSE t[i - Len(s)]
  OBVIOUS

\* What send takes is a piece of the answer.
LEMMA TakenBytes ==
  ASSUME NEW g \in Seq(1 .. L), NEW n \in 1 .. L, NEW from \in 0 .. L, n <= L - from,
         NEW h, h = g \o [i \in 1 .. n |-> from + i]
  PROVE  /\ h \in Seq(1 .. L) /\ Len(h) = Len(g) + n
         /\ \A i \in 1 .. Len(h) : h[i] = IF i <= Len(g) THEN g[i] ELSE from + (i - Len(g))
<1> DEFINE t == [i \in 1 .. n |-> from + i]
<1>1. L \in Nat
  BY EpollAssumption
<1>2. t \in Seq(1 .. L) /\ Len(t) = n
  BY <1>1
<1>3. \A i \in 1 .. n : t[i] = from + i
  OBVIOUS
<1>4. h = g \o t
  OBVIOUS
<1> HIDE DEF t
<1>5. /\ h \in Seq(1 .. L) /\ Len(h) = Len(g) + n
      /\ \A i \in 1 .. Len(h) : h[i] = IF i <= Len(g) THEN g[i] ELSE t[i - Len(g)]
  <2> DEFINE k == g \o t
  <2>1. /\ k \in Seq(1 .. L) /\ Len(k) = Len(g) + Len(t)
        /\ \A i \in 1 .. Len(k) : k[i] = IF i <= Len(g) THEN g[i] ELSE t[i - Len(g)]
    BY <1>2, Joined, ZenonT(40)
  <2>2. h = k
    BY <1>4
  <2> HIDE DEF k
  <2> QED
    BY <1>2, <2>1, <2>2
<1>6. ASSUME NEW i \in 1 .. Len(h) PROVE h[i] = IF i <= Len(g) THEN g[i] ELSE from + (i - Len(g))
  <2>1. CASE i <= Len(g)
    BY <1>5, <2>1
  <2>2. CASE i > Len(g)
    <3>1. i - Len(g) \in 1 .. n
      BY <1>5, <2>2
    <3>2. h[i] = t[i - Len(g)]
      BY <1>5, <2>2
    <3> QED
      BY <1>3, <2>2, <3>1, <3>2
  <2> QED
    BY <2>1, <2>2
<1> QED
  BY <1>5, <1>6

LEMMA TypeStep == TypeOK /\ [Next]_vars => TypeOK'
<1> SUFFICES ASSUME TypeOK, [Next]_vars PROVE TypeOK'
  OBVIOUS
<1> USE EpollAssumption
<1>1. ASSUME NEW c \in Clients, Connect(c) PROVE TypeOK'
  BY <1>1 DEF TypeOK, ghosts, Connect, Notify, loop
<1>2. ASSUME NEW c \in Clients, PeerReads(c) PROVE TypeOK'
  BY <1>2 DEF TypeOK, ghosts, PeerReads, Notify, loop
<1>3. ASSUME NEW c \in Clients, PeerResets(c) PROVE TypeOK'
  BY <1>3 DEF TypeOK, ghosts, PeerResets, Notify, loop
<1>4. CASE Ask
  BY <1>4 DEF TypeOK, ghosts, Ask, Notify, loop
<1>5. CASE Signal \/ SignalAgain \/ Loop \/ BatchDone
  BY <1>5 DEF TypeOK, ghosts, Signal, SignalAgain, Loop, BatchDone, outside, kernel, loop
<1>6. CASE Wait
  BY <1>6 DEF TypeOK, ghosts, Wait, outside
<1>7. ASSUME NEW x \in Items, Dispatch(x) PROVE TypeOK'
  <2>1. pc' \in Pc /\ cur' \in Clients \cup {Nobody}
    BY <1>7 DEF Dispatch
  <2> QED
    BY <1>7, <2>1 DEF TypeOK, ghosts, Dispatch, outside, kernel
<1>8. ASSUME NEW c \in Clients, HangUp(c) PROVE TypeOK'
  <2>1. CloseClient(c, "closed")
    BY <1>8 DEF HangUp
  <2> QED
    BY <1>8, <2>1, CloseTypes DEF TypeOK, ghosts, HangUp
<1>9. ASSUME NEW c \in Clients, AcceptOne(c) PROVE TypeOK'
  BY <1>9 DEF TypeOK, ghosts, AcceptOne
<1>10. ASSUME NEW c \in Clients, AcceptDropped(c) PROVE TypeOK'
  BY <1>10 DEF TypeOK, ghosts, AcceptDropped, kernel, loop
<1>11. CASE AcceptFails \/ AcceptDone
  <2>1. missed' \in SUBSET Clients
    BY <1>11 DEF AcceptFails, AcceptDone, Backlog
  <2> QED
    BY <1>11, <2>1 DEF TypeOK, ghosts, AcceptFails, AcceptDone, outside, kernel
<1>12. ASSUME NEW n \in 1 .. L, SendSome(n) PROVE TypeOK'
  <2>1. /\ cur \in Clients /\ sent[cur] \in 0 .. L /\ n <= L - sent[cur]
        /\ got[cur] \in Seq(1 .. L) /\ inflight[cur] \in 0 .. SndBuf
        /\ n <= SndBuf - inflight[cur]
    BY <1>12 DEF TypeOK, ghosts, SendSome, Take
  <2>2. got' \in [Clients -> Seq(1 .. L)]
    <3>1. got[cur] \o [i \in 1 .. n |-> sent[cur] + i] \in Seq(1 .. L)
      BY <2>1, TakenBytes
    <3> QED
      BY <1>12, <2>1, <3>1 DEF TypeOK, ghosts, SendSome, Take
  <2>3. /\ sent' = [sent EXCEPT ![cur] = sent[cur] + n]
        /\ inflight' = [inflight EXCEPT ![cur] = inflight[cur] + n]
        /\ UNCHANGED <<conn, peer, udpq, asked, kernel, loop, ctx, running, ghosts>>
    BY <1>12 DEF SendSome, Take
  <2>4. sent[cur] + n \in 0 .. L /\ inflight[cur] + n \in 0 .. SndBuf
    BY <2>1, EpollAssumption DEF TypeOK
  <2>5. sent' \in [Clients -> 0 .. L] /\ inflight' \in [Clients -> 0 .. SndBuf]
    BY <2>3, <2>4 DEF TypeOK
  <2> QED
    BY <2>2, <2>3, <2>5 DEF TypeOK, kernel, loop, ghosts
<1>13. CASE SendAgain
  BY <1>13 DEF TypeOK, ghosts, SendAgain, outside
<1>14. CASE Mod
  BY <1>14 DEF TypeOK, ghosts, Mod, outside
<1>15. CASE SendEnds \/ SendFails
  <2>1. CloseClient(cur, "closed") \/ CloseClient(cur, "dropped")
    BY <1>15 DEF SendEnds, SendFails
  <2>2. /\ conn' \in [Clients -> ConnState] /\ ctx' \in SUBSET Clients
        /\ ready' \in SUBSET Items /\ nospace' \in SUBSET Clients
    BY <2>1, CloseTypes
  <2> QED
    BY <1>15, <2>2 DEF TypeOK, ghosts, SendEnds, SendFails
<1>16. CASE UdpAnswer
  BY <1>16 DEF TypeOK, ghosts, UdpAnswer, kernel, loop
<1>17. CASE UdpDone \/ UdpFails
  <2>1. unread' \in Nat
    BY <1>17 DEF UdpDone, UdpFails, TypeOK
  <2> QED
    BY <1>17, <2>1 DEF TypeOK, ghosts, UdpDone, UdpFails, outside, kernel
<1>18. CASE UNCHANGED vars
  BY <1>18 DEF TypeOK, vars, outside, kernel, loop, ghosts
<1> QED
  BY <1>1, <1>2, <1>3, <1>4, <1>5, <1>6, <1>7, <1>8, <1>9, <1>10, <1>11, <1>12,
     <1>13, <1>14, <1>15, <1>16, <1>17, <1>18 DEF Next, ServerStep

-------------------------------------------------------------------------
(* The contexts.                                                         *)

LEMMA InvInit == Init => EpollInv
  BY EpollAssumption
  DEF Init, EpollInv, NoDangling, NoLostEdge, WholeAnswer, Streamed, Sending, Backlog, Reset

\* A freed context is on no list: NoDangling before a close, where the context is
\* not among the events left, gives NoDangling after it.
LEMMA CloseKeepsContexts ==
  ASSUME TypeOK, NoDangling, NEW c \in Clients, NEW how \in {"closed", "dropped"},
         CloseClient(c, how), c \notin batch',
         batch' \subseteq batch, pc' \notin {"send", "mod"}
  PROVE  NoDangling'
  BY DEF TypeOK, NoDangling, CloseClient, Sending

LEMMA DanglingStep == TypeOK /\ EpollInv /\ [Next]_vars => NoDangling'
<1> SUFFICES ASSUME TypeOK, EpollInv, [Next]_vars PROVE NoDangling'
  OBVIOUS
<1> USE EpollAssumption
<1>0. NoDangling
  BY DEF EpollInv
<1>1. ASSUME NEW c \in Clients, Connect(c) PROVE NoDangling'
  BY <1>0, <1>1 DEF TypeOK, NoDangling, Sending, Connect, Notify, loop
<1>2. ASSUME NEW c \in Clients, PeerReads(c) PROVE NoDangling'
  BY <1>0, <1>2 DEF TypeOK, NoDangling, Sending, PeerReads, Notify, loop
<1>3. ASSUME NEW c \in Clients, PeerResets(c) PROVE NoDangling'
  BY <1>0, <1>3 DEF TypeOK, NoDangling, Sending, PeerResets, Notify, loop
<1>4. CASE Ask
  BY <1>0, <1>4 DEF NoDangling, Sending, Ask, Notify, loop
<1>5. CASE Signal \/ SignalAgain \/ Loop \/ BatchDone
  BY <1>0, <1>5 DEF NoDangling, Sending, Signal, SignalAgain, Loop, BatchDone,
                    outside, kernel
<1>6. CASE Wait
  BY <1>0, <1>6 DEF NoDangling, Sending, Wait, outside
<1>7. ASSUME NEW x \in Items, Dispatch(x) PROVE NoDangling'
  <2>1. pc' \in {"send", "mod"} => x \in Clients /\ cur' = x
    BY <1>7 DEF Dispatch
  <2> QED
    BY <1>0, <1>7, <2>1 DEF TypeOK, NoDangling, Sending, Dispatch, outside, kernel
<1>8. ASSUME NEW c \in Clients, HangUp(c) PROVE NoDangling'
  BY <1>0, <1>8, CloseKeepsContexts DEF HangUp
<1>9. ASSUME NEW c \in Clients, AcceptOne(c) PROVE NoDangling'
  BY <1>0, <1>9 DEF TypeOK, NoDangling, Sending, AcceptOne
<1>10. ASSUME NEW c \in Clients, AcceptDropped(c) PROVE NoDangling'
  BY <1>0, <1>10 DEF TypeOK, NoDangling, Sending, AcceptDropped, kernel, loop
<1>11. CASE AcceptFails \/ AcceptDone
  BY <1>0, <1>11 DEF NoDangling, Sending, AcceptFails, AcceptDone, outside, kernel
<1>12. ASSUME NEW n \in 1 .. L, SendSome(n) PROVE NoDangling'
  BY <1>0, <1>12 DEF NoDangling, Sending, SendSome, Take, kernel, loop
<1>13. CASE SendAgain
  BY <1>0, <1>13 DEF NoDangling, Sending, SendAgain, outside
<1>14. CASE Mod
  BY <1>0, <1>14 DEF TypeOK, NoDangling, Sending, Mod, outside
<1>15. CASE SendEnds \/ SendFails
  <2>1. cur \in Clients /\ Sending(cur)
    BY <1>15 DEF SendEnds, SendFails, TypeOK, Sending
  <2>2. /\ pc' \notin {"send", "mod"} /\ batch' = batch
        /\ CloseClient(cur, "closed") \/ CloseClient(cur, "dropped")
    BY <1>15 DEF SendEnds, SendFails, TypeOK
  <2> QED
    BY <1>0, <2>1, <2>2, CloseKeepsContexts DEF NoDangling
<1>16. CASE UdpAnswer \/ UdpDone \/ UdpFails
  BY <1>0, <1>16 DEF NoDangling, Sending, UdpAnswer, UdpDone, UdpFails, outside, kernel, loop
<1>17. CASE UNCHANGED vars
  BY <1>0, <1>17 DEF NoDangling, Sending, vars, outside, kernel, loop
<1> QED
  BY <1>1, <1>2, <1>3, <1>4, <1>5, <1>6, <1>7, <1>8, <1>9, <1>10, <1>11, <1>12,
     <1>13, <1>14, <1>15, <1>16, <1>17 DEF Next, ServerStep

-------------------------------------------------------------------------
(* Whole answers.                                                        *)

\* Connections are accepted with buf_sent at 0, and each send goes on where the last ended.
LEMMA StreamStep == TypeOK /\ EpollInv /\ [Next]_vars => Streamed'
<1> SUFFICES ASSUME TypeOK, EpollInv, [Next]_vars, NEW d \in Clients
             PROVE  (/\ Len(got[d]) = sent[d]
                     /\ \A i \in 1 .. Len(got[d]) : got[d][i] = i
                     /\ conn[d] \in {"idle", "backlog"} => sent[d] = 0)'
  BY DEF Streamed
<1> USE EpollAssumption
<1>0. /\ Len(got[d]) = sent[d]
      /\ \A i \in 1 .. Len(got[d]) : got[d][i] = i
      /\ conn[d] \in {"idle", "backlog"} => sent[d] = 0
  BY DEF EpollInv, Streamed
<1>1. CASE /\ UNCHANGED <<got, sent>>
           /\ conn'[d] \in {"idle", "backlog"} => conn[d] \in {"idle", "backlog"}
  BY <1>0, <1>1
<1>2. ASSUME NEW c \in Clients, Connect(c) \/ PeerReads(c) \/ PeerResets(c) \/ AcceptDropped(c)
      PROVE  /\ UNCHANGED <<got, sent>>
             /\ conn'[d] \in {"idle", "backlog"} => conn[d] \in {"idle", "backlog"}
  BY <1>2 DEF TypeOK, Connect, PeerReads, PeerResets, AcceptDropped
<1>3. CASE \/ Ask \/ Signal \/ SignalAgain \/ Loop \/ BatchDone \/ Wait \/ AcceptFails
           \/ AcceptDone \/ SendAgain \/ Mod \/ UdpAnswer \/ UdpDone \/ UdpFails
           \/ \E x \in Items : Dispatch(x)
           \/ UNCHANGED vars
  <2>1. UNCHANGED <<got, sent, conn>>
    BY <1>3 DEF Ask, Signal, SignalAgain, Loop, BatchDone, Wait, AcceptFails, AcceptDone,
                SendAgain, Mod, UdpAnswer, UdpDone, UdpFails, Dispatch, vars, outside
  <2> QED
    BY <1>1, <2>1
<1>4. ASSUME NEW c \in Clients, NEW how \in {"closed", "dropped"}, CloseClient(c, how),
             UNCHANGED <<got, sent>>
      PROVE  conn'[d] \in {"idle", "backlog"} => conn[d] \in {"idle", "backlog"}
  BY <1>4 DEF TypeOK, CloseClient
<1>5. ASSUME NEW c \in Clients, HangUp(c)
      PROVE  /\ UNCHANGED <<got, sent>>
             /\ conn'[d] \in {"idle", "backlog"} => conn[d] \in {"idle", "backlog"}
  BY <1>4, <1>5 DEF HangUp
<1>6. CASE SendEnds \/ SendFails
  <2>1. /\ cur \in Clients /\ UNCHANGED <<got, sent>>
        /\ CloseClient(cur, "closed") \/ CloseClient(cur, "dropped")
    BY <1>6 DEF TypeOK, SendEnds, SendFails
  <2>2. conn'[d] \in {"idle", "backlog"} => conn[d] \in {"idle", "backlog"}
    <3>1. CASE CloseClient(cur, "closed")
      BY <1>4, <2>1, <3>1
    <3>2. CASE CloseClient(cur, "dropped")
      BY <1>4, <2>1, <3>2
    <3> QED
      BY <2>1, <3>1, <3>2
  <2> QED
    BY <1>1, <2>1, <2>2
<1>7. ASSUME NEW c \in Clients, AcceptOne(c)
      PROVE  (/\ Len(got[d]) = sent[d]
              /\ \A i \in 1 .. Len(got[d]) : got[d][i] = i
              /\ conn[d] \in {"idle", "backlog"} => sent[d] = 0)'
  BY <1>0, <1>7 DEF TypeOK, AcceptOne
<1>8. ASSUME NEW n \in 1 .. L, SendSome(n)
      PROVE  (/\ Len(got[d]) = sent[d]
              /\ \A i \in 1 .. Len(got[d]) : got[d][i] = i
              /\ conn[d] \in {"idle", "backlog"} => sent[d] = 0)'
  <2>1. /\ cur \in Clients /\ conn[cur] = "open" /\ conn' = conn
        /\ n <= L - sent[cur] /\ sent[cur] \in 0 .. L /\ got[cur] \in Seq(1 .. L)
        /\ got \in [Clients -> Seq(1 .. L)] /\ sent \in [Clients -> 0 .. L]
        /\ got' = [got EXCEPT ![cur] = got[cur] \o [i \in 1 .. n |-> sent[cur] + i]]
        /\ sent' = [sent EXCEPT ![cur] = sent[cur] + n]
    BY <1>8 DEF TypeOK, EpollInv, NoDangling, Sending, SendSome, Take
  <2>2. CASE d # cur
    BY <1>0, <2>1, <2>2
  <2>3. CASE d = cur
    <3> DEFINE h == got[cur] \o [i \in 1 .. n |-> sent[cur] + i]
    <3>0. got[cur] \in Seq(1 .. L) /\ n \in 1 .. L /\ sent[cur] \in 0 .. L /\ n <= L - sent[cur]
      BY <2>1
    <3>1. /\ h \in Seq(1 .. L) /\ Len(h) = Len(got[cur]) + n
          /\ \A i \in 1 .. Len(h) :
                h[i] = IF i <= Len(got[cur]) THEN got[cur][i]
                       ELSE sent[cur] + (i - Len(got[cur]))
      BY <2>1, <3>0, TakenBytes, SMTT(40)
    <3>2. got'[d] = h /\ sent'[d] = sent[cur] + n
      BY <2>1, <2>3
    <3> HIDE DEF h
    <3>3. ASSUME NEW i \in 1 .. Len(h) PROVE h[i] = i
      <4>1. Len(got[cur]) = sent[cur] /\ \A k \in 1 .. Len(got[cur]) : got[cur][k] = k
        BY <1>0, <2>3
      <4>2. CASE i <= Len(got[cur])
        BY <2>1, <3>1, <4>1, <4>2
      <4>3. CASE i > Len(got[cur])
        <5>1. h[i] = sent[cur] + (i - Len(got[cur]))
          BY <2>1, <3>1, <4>3
        <5> QED
          BY <2>1, <4>1, <5>1
      <4> QED
        BY <2>1, <4>2, <4>3
    <3> QED
      BY <1>0, <2>1, <2>3, <3>1, <3>2, <3>3
  <2> QED
    BY <2>2, <2>3
<1> QED
  BY <1>1, <1>2, <1>3, <1>5, <1>6, <1>7, <1>8 DEF Next, ServerStep

\* Who is closed has reset or has got every byte.
LEMMA WholeStep == TypeOK /\ TypeOK' /\ EpollInv /\ Streamed' /\ [Next]_vars => WholeAnswer'
<1> SUFFICES ASSUME TypeOK, TypeOK', EpollInv, Streamed', [Next]_vars, NEW d \in Clients,
                    (conn[d] = "closed")', ~Reset(d)'
             PROVE  (got[d] = [i \in 1 .. L |-> i])'
  BY DEF WholeAnswer
<1> USE EpollAssumption DEF Reset
<1> SUFFICES sent'[d] = L
  <2>1. got'[d] \in Seq(1 .. L) /\ Len(got'[d]) = sent'[d] /\ \A i \in 1 .. Len(got'[d]) : got'[d][i] = i
    BY DEF TypeOK, Streamed
  <2>2. ASSUME NEW g \in Seq(1 .. L), Len(g) = L, \A i \in 1 .. Len(g) : g[i] = i
        PROVE  g = [i \in 1 .. L |-> i]
    BY <2>2
  <2> QED
    BY <2>1, <2>2
<1>0. /\ conn[d] = "closed" /\ ~Reset(d) => sent[d] = L
      /\ \A c \in hung : Reset(c)
      /\ \A c \in Clients : Sending(c) => conn[c] = "open"
  <2>1. conn[d] = "closed" /\ ~Reset(d) => sent[d] = L
    <3> SUFFICES ASSUME conn[d] = "closed", ~Reset(d) PROVE sent[d] = L
      OBVIOUS
    <3>1. got[d] = [i \in 1 .. L |-> i] /\ Len(got[d]) = sent[d]
      BY DEF EpollInv, WholeAnswer, Streamed
    <3>2. Len([i \in 1 .. L |-> i]) = L
      OBVIOUS
    <3> QED
      BY <3>1, <3>2
  <2> QED
    BY <2>1 DEF EpollInv, NoDangling
<1>1. ASSUME NEW c \in Clients, Connect(c) \/ PeerReads(c) \/ PeerResets(c)
      PROVE sent'[d] = L
  <2>1. sent' = sent
    BY <1>1 DEF Connect, PeerReads, PeerResets
  <2>2. conn[d] = "closed"
    BY <1>1 DEF TypeOK, Connect, PeerReads, PeerResets
  <2>3. ~Reset(d)
    BY <1>1 DEF TypeOK, Connect, PeerReads, PeerResets
  <2> QED
    BY <1>0, <2>1, <2>2, <2>3
<1>2. CASE Ask \/ Signal \/ SignalAgain \/ Loop \/ BatchDone \/ Wait
  BY <1>0, <1>2 DEF Ask, Signal, SignalAgain, Loop, BatchDone, Wait, outside
<1>3. ASSUME NEW x \in Items, Dispatch(x) PROVE sent'[d] = L
  BY <1>0, <1>3 DEF Dispatch, outside
<1>4. ASSUME NEW c \in Clients, HangUp(c) PROVE sent'[d] = L
  BY <1>0, <1>4 DEF TypeOK, HangUp, CloseClient
<1>5. ASSUME NEW c \in Clients, AcceptOne(c) \/ AcceptDropped(c)
      PROVE sent'[d] = L
  BY <1>0, <1>5 DEF TypeOK, AcceptOne, AcceptDropped
<1>6. CASE \/ AcceptFails \/ AcceptDone \/ SendAgain \/ Mod
           \/ UdpAnswer \/ UdpDone \/ UdpFails
  BY <1>0, <1>6 DEF AcceptFails, AcceptDone, SendAgain, Mod, UdpAnswer, UdpDone, UdpFails,
                    outside
<1>7. ASSUME NEW n \in 1 .. L, SendSome(n) PROVE sent'[d] = L
  <2>1. cur \in Clients /\ conn[cur] = "open"
    BY <1>0, <1>7 DEF TypeOK, SendSome, Take, Sending
  <2> QED
    BY <1>0, <1>7, <2>1 DEF TypeOK, SendSome, Take
<1>8. CASE SendEnds \/ SendFails
  BY <1>0, <1>8 DEF TypeOK, SendEnds, SendFails, CloseClient
<1>9. CASE UNCHANGED vars
  BY <1>0, <1>9 DEF vars, outside
<1> QED
  BY <1>1, <1>2, <1>3, <1>4, <1>5, <1>6, <1>7, <1>8, <1>9 DEF Next, ServerStep

-------------------------------------------------------------------------
(* Edges.                                                                *)

\* Between two turns there are no events, EPOLLHUP tells the truth, and a context
\* at epoll_ctl MOD has found no room or has room again.
TurnInv == /\ pc \in {"loop", "wait"} => batch = {}
           /\ \A c \in hung : Reset(c)
           /\ pc = "mod" => cur \in nospace \/ Pollable(cur)

LEMMA TurnStep == TypeOK /\ TurnInv /\ [Next]_vars => TurnInv'
<1> SUFFICES ASSUME TypeOK, TurnInv, [Next]_vars PROVE TurnInv'
  OBVIOUS
<1> USE EpollAssumption DEF TurnInv, Reset, Pollable, Backlog
<1>1. ASSUME NEW c \in Clients, Connect(c) PROVE TurnInv'
  BY <1>1 DEF TypeOK, Connect, loop
<1>2. ASSUME NEW c \in Clients, PeerReads(c) PROVE TurnInv'
  BY <1>2 DEF TypeOK, PeerReads, loop
<1>3. ASSUME NEW c \in Clients, PeerResets(c) PROVE TurnInv'
  BY <1>3 DEF TypeOK, PeerResets, loop
<1>4. CASE Ask
  BY <1>4 DEF TypeOK, Ask, loop
<1>5. CASE Signal \/ SignalAgain \/ Loop \/ BatchDone
  BY <1>5 DEF TypeOK, Signal, SignalAgain, Loop, BatchDone, outside, kernel
<1>6. CASE Wait
  BY <1>6 DEF TypeOK, Wait, outside
<1>7. ASSUME NEW x \in Items, Dispatch(x) PROVE TurnInv'
  <2>1. pc' \in {"accept", "udp", "send"}
    BY <1>7 DEF Dispatch
  <2> QED
    BY <1>7, <2>1 DEF Dispatch, outside, kernel
<1>8. ASSUME NEW c \in Clients, HangUp(c) PROVE TurnInv'
  BY <1>8 DEF HangUp
<1>9. ASSUME NEW c \in Clients, AcceptOne(c) \/ AcceptDropped(c) PROVE TurnInv'
  BY <1>9 DEF AcceptOne, AcceptDropped, kernel, loop
<1>10. CASE AcceptFails \/ AcceptDone \/ UdpAnswer \/ UdpDone \/ UdpFails
  BY <1>10 DEF AcceptFails, AcceptDone, UdpAnswer, UdpDone, UdpFails, outside, kernel, loop
<1>11. ASSUME NEW n \in 1 .. L, SendSome(n) PROVE TurnInv'
  BY <1>11 DEF SendSome, Take, kernel, loop
<1>12. CASE SendAgain
  BY <1>12 DEF SendAgain, outside
<1>13. CASE Mod \/ SendEnds \/ SendFails
  BY <1>13 DEF TypeOK, Mod, SendEnds, SendFails, outside
<1>14. CASE UNCHANGED vars
  BY <1>14 DEF vars, outside, kernel, loop
<1> QED
  BY <1>1, <1>2, <1>3, <1>4, <1>5, <1>6, <1>7, <1>8, <1>9, <1>10, <1>11, <1>12,
     <1>13, <1>14 DEF Next, ServerStep

\* Every context is handled, on its way to its handler, or waits for room.
Awaited == pc # "stopped" =>
              \A c \in ctx : c \in ready \cup batch \cup nospace \/ Sending(c)

LEMMA AwaitedStep == TypeOK /\ EpollInv /\ [Next]_vars => Awaited'
<1> SUFFICES ASSUME TypeOK, EpollInv, [Next]_vars PROVE Awaited'
  OBVIOUS
<1> USE EpollAssumption
<1>0. Awaited /\ TurnInv
  BY DEF EpollInv, Awaited, TurnInv
<1>1. ASSUME NEW c \in Clients, Connect(c) PROVE Awaited'
  BY <1>0, <1>1 DEF Awaited, Sending, Connect, Notify, loop
<1>2. ASSUME NEW c \in Clients, PeerReads(c) PROVE Awaited'
  BY <1>0, <1>2 DEF Awaited, Sending, PeerReads, Notify, loop
<1>3. ASSUME NEW c \in Clients, PeerResets(c) PROVE Awaited'
  BY <1>0, <1>3 DEF Awaited, Sending, PeerResets, Notify, loop
<1>4. CASE Ask
  BY <1>0, <1>4 DEF Awaited, Sending, Ask, Notify, loop
<1>5. CASE Signal \/ SignalAgain \/ Loop \/ BatchDone
  BY <1>0, <1>5 DEF Awaited, Sending, Signal, SignalAgain, Loop, BatchDone,
                    outside, kernel
<1>6. CASE Wait
  <2>1. batch = {} /\ ctx \subseteq Clients
    BY <1>0, <1>6 DEF TurnInv, Wait, TypeOK
  <2> QED
    BY <1>0, <1>6, <2>1 DEF Awaited, Sending, Wait
<1>7. ASSUME NEW x \in Items, Dispatch(x) PROVE Awaited'
  <2>1. x \in Clients => pc' = "send" /\ cur' = x
    BY <1>7 DEF Dispatch
  <2>2. ctx \subseteq Clients
    BY DEF TypeOK
  <2> QED
    BY <1>0, <1>7, <2>1, <2>2 DEF Awaited, Sending, Dispatch, kernel
<1>8. ASSUME NEW c \in Clients, HangUp(c) PROVE Awaited'
  BY <1>0, <1>8 DEF Awaited, Sending, HangUp, CloseClient
<1>9. ASSUME NEW c \in Clients, AcceptOne(c) \/ AcceptDropped(c) PROVE Awaited'
  BY <1>0, <1>9 DEF Awaited, Sending, AcceptOne, AcceptDropped, kernel, loop
<1>10. CASE AcceptFails \/ AcceptDone \/ UdpAnswer \/ UdpDone \/ UdpFails
  BY <1>0, <1>10 DEF Awaited, Sending, AcceptFails, AcceptDone, UdpAnswer, UdpDone, UdpFails,
                     kernel, loop
<1>11. ASSUME NEW n \in 1 .. L, SendSome(n) PROVE Awaited'
  BY <1>0, <1>11 DEF Awaited, Sending, SendSome, Take, kernel, loop
<1>12. CASE SendAgain
  BY <1>0, <1>12 DEF Awaited, Sending, SendAgain
<1>13. CASE Mod
  BY <1>0, <1>13 DEF Awaited, TurnInv, Sending, Mod
<1>14. CASE SendEnds \/ SendFails
  BY <1>0, <1>14 DEF Awaited, Sending, SendEnds, SendFails, CloseClient
<1>15. CASE UNCHANGED vars
  BY <1>0, <1>15 DEF Awaited, Sending, vars, kernel, loop
<1> QED
  BY <1>1, <1>2, <1>3, <1>4, <1>5, <1>6, <1>7, <1>8, <1>9, <1>10, <1>11, <1>12,
     <1>13, <1>14, <1>15 DEF Next, ServerStep

\* A step that handles nobody, and leaves lists and connections as they are or adds
\* to the ready list, keeps NoLostEdge; the other steps are taken one at a time.
LEMMA EdgeStep == TypeOK /\ EpollInv /\ [Next]_vars => NoLostEdge'
<1> SUFFICES ASSUME TypeOK, EpollInv, [Next]_vars PROVE NoLostEdge'
  OBVIOUS
<1> USE EpollAssumption DEF Accepting, Sending, Pollable, Backlog, Reset
<1>0. NoLostEdge /\ TurnInv /\ ctx \subseteq Clients
  BY DEF EpollInv, TurnInv, TypeOK
<1>1. ASSUME NEW c \in Clients, Connect(c) PROVE NoLostEdge'
  BY <1>0, <1>1 DEF TypeOK, NoLostEdge, ghosts, Connect, Notify, loop
<1>2. ASSUME NEW c \in Clients, PeerReads(c) PROVE NoLostEdge'
  <2>1. \A d \in Clients : d # c => inflight'[d] = inflight[d]
    BY <1>2 DEF TypeOK, PeerReads
  <2>2. Awaited
    BY DEF EpollInv, Awaited
  <2> QED
    BY <1>0, <1>2, <2>1, <2>2 DEF NoLostEdge, ghosts, Awaited, PeerReads, Notify, loop
<1>3. ASSUME NEW c \in Clients, PeerResets(c) PROVE NoLostEdge'
  BY <1>0, <1>3 DEF TypeOK, NoLostEdge, ghosts, PeerResets, Notify, loop
<1>4. CASE Ask
  BY <1>0, <1>4 DEF NoLostEdge, ghosts, Ask, Notify, loop
<1>5. CASE Signal \/ SignalAgain \/ Loop \/ BatchDone
  BY <1>0, <1>5 DEF NoLostEdge, ghosts, Signal, SignalAgain, Loop, BatchDone, outside, kernel
<1>6. CASE Wait
  <2>1. /\ pc = "wait" /\ batch = {} /\ pc' \in {"wait", "batch"}
        /\ UNCHANGED <<conn, peer, inflight, udpq, ctx, missed, unread>>
    BY <1>0, <1>6 DEF TurnInv, Wait, outside, ghosts
  <2>2. \A x \in ready : x \in ready' \cup batch' \/ ~Pollable(x)
    BY <1>6 DEF Wait
  <2>3. \A x \in ctx : x # Listen /\ x # Udp
    BY <1>0
  <2> QED
    BY <1>0, <2>1, <2>2, <2>3 DEF TypeOK, NoLostEdge
<1>7. ASSUME NEW x \in Items, Dispatch(x) PROVE NoLostEdge'
  <2>1. /\ x = Listen => pc' = "accept"
        /\ x = Udp => pc' = "udp"
        /\ x \in Clients => pc' = "send" /\ cur' = x
    BY <1>7 DEF Dispatch
  <2>2. pc = "batch" /\ batch' = batch \ {x}
        /\ UNCHANGED <<conn, peer, inflight, udpq, ready, ctx, missed, unread>>
    BY <1>7 DEF Dispatch, outside, kernel, ghosts
  <2> QED
    BY <1>0, <2>1, <2>2 DEF NoLostEdge, ghosts
<1>8. ASSUME NEW c \in Clients, HangUp(c) PROVE NoLostEdge'
  BY <1>0, <1>8 DEF TypeOK, NoLostEdge, ghosts, HangUp, CloseClient
<1>9. ASSUME NEW c \in Clients, AcceptOne(c) PROVE NoLostEdge'
  BY <1>0, <1>9 DEF TypeOK, NoLostEdge, ghosts, AcceptOne
<1>10. ASSUME NEW c \in Clients, AcceptDropped(c) PROVE NoLostEdge'
  BY <1>0, <1>10 DEF TypeOK, NoLostEdge, ghosts, AcceptDropped, kernel, loop
<1>11. CASE AcceptFails \/ AcceptDone
  BY <1>0, <1>11 DEF NoLostEdge, ghosts, AcceptFails, AcceptDone, outside, kernel
<1>12. ASSUME NEW n \in 1 .. L, SendSome(n) PROVE NoLostEdge'
  BY <1>0, <1>12 DEF TypeOK, NoLostEdge, ghosts, SendSome, Take, kernel, loop
<1>13. CASE SendAgain
  BY <1>0, <1>13 DEF NoLostEdge, ghosts, SendAgain, outside
<1>14. CASE Mod
  BY <1>0, <1>14 DEF TypeOK, NoLostEdge, ghosts, Mod, outside
<1>15. CASE SendEnds \/ SendFails
  <2>1. CloseClient(cur, "closed") \/ CloseClient(cur, "dropped")
    BY <1>15 DEF SendEnds, SendFails
  <2>2. /\ pc = "send" /\ cur \in Clients /\ pc' = ret /\ ret \in {"batch", "accept"}
        /\ UNCHANGED <<peer, inflight, udpq, batch, missed, unread>>
    BY <1>15 DEF TypeOK, SendEnds, SendFails, ghosts
  <2>3. /\ Listen \in ready => Listen \in ready'
        /\ Udp \in ready => Udp \in ready'
        /\ ctx' = ctx \ {cur} /\ \A c \in ctx' : c \in ready => c \in ready'
    BY <2>1, <2>2 DEF CloseClient
  <2>4. {c \in Clients : conn'[c] = "backlog"} \subseteq Backlog
    BY <2>1, <2>2 DEF CloseClient, TypeOK
  <2> QED
    BY <1>0, <2>2, <2>3, <2>4 DEF NoLostEdge
<1>16. CASE UdpAnswer \/ UdpDone \/ UdpFails
  BY <1>0, <1>16 DEF TypeOK, NoLostEdge, ghosts, UdpAnswer, UdpDone, UdpFails, outside, kernel, loop
<1>17. CASE UNCHANGED vars
  BY <1>0, <1>17 DEF NoLostEdge, ghosts, vars, outside, kernel, loop
<1> QED
  BY <1>1, <1>2, <1>3, <1>4, <1>5, <1>6, <1>7, <1>8, <1>9, <1>10, <1>11, <1>12,
     <1>13, <1>14, <1>15, <1>16, <1>17 DEF Next, ServerStep

LEMMA InvStep == TypeOK /\ EpollInv /\ [Next]_vars => EpollInv'
<1> SUFFICES ASSUME TypeOK, EpollInv, [Next]_vars PROVE EpollInv'
  OBVIOUS
<1>0. TypeOK' /\ Streamed'
  BY TypeStep, StreamStep
<1>1. NoDangling' /\ WholeAnswer' /\ NoLostEdge' /\ Awaited'
  BY <1>0, DanglingStep, WholeStep, EdgeStep, AwaitedStep
<1>2. TurnInv
  BY DEF EpollInv, TurnInv
<1>3. TurnInv'
  BY <1>2, TurnStep
<1> QED
  BY <1>0, <1>1, <1>3 DEF EpollInv, TurnInv, Awaited

-------------------------------------------------------------------------
(* The theorems.                                                         *)

\* The variables of the server, the kernel and the clients keep their types; in
\* particular buf_sent never exceeds buf_len and no send buffer overflows.
THEOREM EpollTypes == Spec => []TypeOK
<1>1. Init => TypeOK
  BY TypeInit
<1>2. TypeOK /\ [Next]_vars => TypeOK'
  BY TypeStep
<1> QED
  BY <1>1, <1>2, PTL DEF Spec

\* The inductive invariant holds in every reachable state of the event loop.
THEOREM EpollInvariant == Spec => []EpollInv
<1>1. Init => EpollInv
  BY InvInit
<1>2. TypeOK /\ EpollInv /\ [Next]_vars => EpollInv'
  BY InvStep
<1> QED
  BY <1>1, <1>2, EpollTypes, PTL DEF Spec

\* No event and no handler ever meets a freed context, and no open connection is
\* without one, whatever batches epoll_wait returns.
THEOREM NothingDangles == Spec => []NoDangling
<1>1. EpollInv => NoDangling
  BY DEF EpollInv
<1> QED
  BY <1>1, EpollInvariant, PTL

\* The accept, recvfrom and send loops keep every edge: work that waits on a socket
\* is on the ready list, in the batch, or being handled.
THEOREM EdgesKept == Spec => []NoLostEdge
<1>1. EpollInv => NoLostEdge
  BY DEF EpollInv
<1> QED
  BY <1>1, EpollInvariant, PTL

\* A client that did not reset its connection, and for which no system call failed, is
\* closed with every byte of the answer sent once and in order, however the sends split it.
THEOREM AnswersWhole == Spec => []WholeAnswer
<1>1. EpollInv => WholeAnswer
  BY DEF EpollInv
<1> QED
  BY <1>1, EpollInvariant, PTL
=========================================================================
