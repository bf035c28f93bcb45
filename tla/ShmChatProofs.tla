--------------------------- MODULE ShmChatProofs ---------------------------
(***************************************************************************)
(* For every number of clients and every length of the ring: slots and     *)
(* positions agree however often the ring wraps, the server never sleeps   *)
(* over unread messages that nobody will wake it for, it handles no        *)
(* request twice although its answers overwrite the ring it is reading,    *)
(* receiving threads display the conversation in order, a registered client *)
(* with a name of its own is in the table, and one that has left is not.   *)
(***************************************************************************)
EXTENDS ShmChat, TLAPS

-------------------------------------------------------------------------
(* Positions and slots.                                                  *)

\* Division with remainder.
LEMMA Division ==
    ASSUME NEW h \in Nat \ {0}, NEW n \in Nat
    PROVE  /\ n \div h \in Int
           /\ n % h \in 0 .. h - 1
           /\ n = h * (n \div h) + (n % h)
  OBVIOUS

\* A quotient and a remainder are determined by their number.
LEMMA Unique ==
    ASSUME NEW h \in Nat \ {0}, NEW q \in Int, NEW p \in Int,
           NEW r \in 0 .. h - 1, NEW s \in 0 .. h - 1, h * q + r = h * p + s
    PROVE  q = p /\ r = s
  <1>1. ~ (q >= p + 1)
    <2> SUFFICES ASSUME q >= p + 1 PROVE FALSE
      OBVIOUS
    <2>1. h * q >= h * (p + 1)
      OBVIOUS
    <2>2. h * (p + 1) = h * p + h
      OBVIOUS
    <2> QED
      BY <2>1, <2>2
  <1>2. ~ (p >= q + 1)
    <2> SUFFICES ASSUME p >= q + 1 PROVE FALSE
      OBVIOUS
    <2>1. h * p >= h * (q + 1)
      OBVIOUS
    <2>2. h * (q + 1) = h * q + h
      OBVIOUS
    <2> QED
      BY <2>1, <2>2
  <1> QED
    BY <1>1, <1>2

\* Hence any way to write n as h * q + r gives n % h.
LEMMA Remainder ==
    ASSUME NEW h \in Nat \ {0}, NEW n \in Nat, NEW q \in Int, NEW r \in 0 .. h - 1,
           n = h * q + r
    PROVE  n % h = r
  <1> DEFINE p == n \div h
             s == n % h
  <1>1. p \in Int /\ s \in 0 .. h - 1 /\ n = h * p + s
    BY Division
  <1> HIDE DEF p, s
  <1>2. r = s
    BY <1>1, Unique, ZenonT(30)
  <1> QED
    BY <1>2 DEF s

\* The writers' index, one further and wrapped, is the slot of the next position.
LEMMA NextSlot ==
    ASSUME NEW h \in Nat \ {0}, NEW n \in Nat
    PROVE  (n + 1) % h = ((n % h) + 1) % h
  <1> DEFINE q == n \div h
             r == n % h
  <1>1. q \in Int /\ r \in 0 .. h - 1 /\ n = h * q + r
    BY Division
  <1> HIDE DEF q, r
  <1>2. CASE r + 1 < h
    <2>1. (n + 1) % h = r + 1
      <3>1. r + 1 \in 0 .. h - 1 /\ n + 1 = h * q + (r + 1)
        BY <1>1, <1>2
      <3> QED
        BY <1>1, <3>1, Remainder
    <2>2. (r + 1) % h = r + 1
      <3>1. r + 1 \in 0 .. h - 1 /\ r + 1 = h * 0 + (r + 1)
        BY <1>1, <1>2
      <3> QED
        BY <1>1, <3>1, Remainder
    <2> QED
      BY <2>1, <2>2 DEF r
  <1>3. CASE r + 1 = h
    <2>1. (n + 1) % h = 0
      <3>1. n + 1 = h * (q + 1) + 0
        BY <1>1, <1>3
      <3> QED
        BY <1>1, <3>1, Remainder
    <2>2. (r + 1) % h = 0
      <3>1. r + 1 = h * 1 + 0
        BY <1>1, <1>3
      <3> QED
        BY <1>1, <3>1, Remainder
    <2> QED
      BY <2>1, <2>2 DEF r
  <1> QED
    BY <1>1, <1>2, <1>3

\* Positions less than h apart have different slots.
LEMMA OtherSlot ==
    ASSUME NEW h \in Nat \ {0}, NEW n \in Nat, NEW i \in Nat, i < n, n - i < h
    PROVE  i % h # n % h
  <1> DEFINE q == i \div h
             r == i % h
             p == n \div h
  <1>1. q \in Int /\ r \in 0 .. h - 1 /\ i = h * q + r
    BY Division
  <1>2. p \in Int /\ n % h \in 0 .. h - 1 /\ n = h * p + (n % h)
    BY Division
  <1> HIDE DEF q, r, p
  <1> SUFFICES ASSUME r = n % h PROVE FALSE
    BY DEF r
  <1>3. n - i = h * (p - q)
    BY <1>1, <1>2
  <1>4. p - q >= 1
    BY <1>1, <1>2, <1>3
  <1>5. h * (p - q) >= h
    BY <1>1, <1>2, <1>4
  <1> QED
    BY <1>3, <1>5

-------------------------------------------------------------------------
(* The ring.                                                             *)

\* What RingHoldsLast says, of any value ch of the shared memory.
RingAt(ch) ==
    /\ ch.msgs = [s \in 0 .. H - 1 |-> ch.msgs[s]]
    /\ ch.msg_count \in Nat
    /\ ch.write_index = ch.msg_count % H
    /\ \A i \in 0 .. ch.msg_count - 1 : i >= ch.msg_count - H =>
          /\ ch.msgs[i % H] # Empty
          /\ ch.msgs[i % H].n = i

\* What one push leaves, and what it does not touch.
LEMMA PushRing ==
    ASSUME NEW ch, RingAt(ch), NEW m, m.type # "EMPTY"
    PROVE  LET new == Push(ch, m) IN
           /\ RingAt(new)
           /\ new.msg_count = ch.msg_count + 1
           /\ new.msgs[ch.msg_count % H] = At(m, ch.msg_count)
           /\ \A s \in 0 .. H - 1 :
                 s # ch.msg_count % H => new.msgs[s] = ch.msgs[s]
<1> DEFINE new == Push(ch, m)
           w   == ch.msg_count % H
<1>1. H \in Nat \ {0}
  BY ShmAssumption
<1>2. ch.msg_count \in Nat /\ ch.write_index = w
  BY DEF RingAt
<1>3. w \in 0 .. H - 1
  BY <1>1, <1>2, Division
<1>4. new.msg_count = ch.msg_count + 1
  BY DEF Push
<1>5. new.write_index = (ch.msg_count + 1) % H
  BY <1>1, <1>2, NextSlot DEF Push
<1>6. /\ new.msgs = [s \in 0 .. H - 1 |-> new.msgs[s]]
      /\ new.msgs[w] = At(m, ch.msg_count)
      /\ \A s \in 0 .. H - 1 : s # w => new.msgs[s] = ch.msgs[s]
  <2>1. new.msgs = [ch.msgs EXCEPT ![w] = At(m, ch.msg_count)]
    BY <1>2 DEF Push
  <2>2. ch.msgs = [s \in 0 .. H - 1 |-> ch.msgs[s]]
    BY DEF RingAt
  <2> HIDE DEF new, w
  <2>3. QED
    BY <1>3, <2>1, <2>2
<1>7. At(m, ch.msg_count) # Empty /\ At(m, ch.msg_count).n = ch.msg_count
  BY DEF At, Empty
<1> HIDE DEF new
<1>8. ASSUME NEW i \in 0 .. new.msg_count - 1, i >= new.msg_count - H
      PROVE  new.msgs[i % H] # Empty /\ new.msgs[i % H].n = i
  <2>1. CASE i = ch.msg_count
    BY <2>1, <1>6, <1>7
  <2>2. CASE i # ch.msg_count
    <3>1. i \in Nat /\ i < ch.msg_count /\ ch.msg_count - i < H
      BY <1>1, <1>2, <1>4, <1>8, <2>2
    <3>2. i % H # w /\ i % H \in 0 .. H - 1
      BY <1>1, <1>2, <3>1, OtherSlot, Division
    <3>3. new.msgs[i % H] = ch.msgs[i % H]
      BY <1>6, <3>2
    <3>4. ch.msgs[i % H] # Empty /\ ch.msgs[i % H].n = i
      <4>1. i \in 0 .. ch.msg_count - 1 /\ i >= ch.msg_count - H
        BY <1>1, <1>2, <3>1
      <4>2. QED
        BY <4>1 DEF RingAt
    <3>5. QED
      BY <3>3, <3>4
  <2>3. QED
    BY <2>1, <2>2
<1>9. RingAt(new)
  BY <1>2, <1>4, <1>5, <1>6, <1>8, SMTT(30) DEF RingAt
<1>10. QED
  BY <1>4, <1>6, <1>9 DEF new

-------------------------------------------------------------------------
(* The inductive invariant.                                              *)

\* Types, where the argument needs them.
Shape ==
    /\ event \in Nat
    /\ last_processed \in Nat
    /\ handled \in Int
    /\ cpc \in [Clients -> ClientPc]
    /\ my_last \in [Clients -> Nat]

\* mutex_sem is taken while the server drains the ring, so no client writes then.
Locked == spc = "drain" => mutex = 0

\* A backlog has a post to come also while the server is about to post itself.
Backlog ==
    spc \in {"event", "post"} /\ last_processed < Count => event > 0 \/ Posting # {}

\* No reader is ahead of the conversation.
NotAhead == \A c \in Clients : my_last[c] <= Count

\* What the server has handled lies behind it.
Behind == handled < last_processed

\* While it drains, what is left to read is the clients' message of that position or
\* a message of the server's own: only its answers overwrite the ring now.
Draining ==
    spc = "drain" => \A i \in last_processed .. Count - 1 :
                        Slot(i).sender # Server => Slot(i).n = i

ShmInv == /\ Shape /\ RingAt(chat)
          /\ Locked /\ Backlog /\ NotAhead /\ Behind /\ Draining

\* An empty ring, nothing read, nothing handled.
LEMMA ShmInit == Init => ShmInv
<1> SUFFICES ASSUME Init PROVE ShmInv
  OBVIOUS
<1>1. H \in Nat \ {0} /\ 0 % H = 0
  <2>1. H \in Nat \ {0}
    BY ShmAssumption
  <2>2. 0 \in 0 .. H - 1 /\ 0 = H * 0 + 0
    BY <2>1
  <2>3. QED
    BY <2>1, <2>2, Remainder
<1>2. RingAt(chat)
  BY <1>1 DEF Init, RingAt
<1>3. QED
  BY <1>2 DEF Init, ShmInv, Shape, ClientPc, Locked, Backlog, NotAhead, Behind,
              Draining, Count

\* A client's message, between the two semaphores.
LEMMA SendKeeps ==
    ASSUME ShmInv, NEW c \in Clients, NEW type, type # "EMPTY",
           NEW to \in {"join_post", "text_post", "leave_post"}, Send(c, type, to)
    PROVE  ShmInv'
<1> DEFINE m == FromClient(c, type)
<1>1. m.type # "EMPTY"
  BY DEF FromClient
<1>2. chat' = Push(chat, m)
  BY DEF Send
<1> HIDE DEF m
<1>3. RingAt(chat') /\ Count' = Count + 1 /\ Count \in Nat
  <2>1. RingAt(chat)
    BY DEF ShmInv
  <2>2. Count \in Nat
    BY <2>1 DEF RingAt, Count
  <2>3. RingAt(chat') /\ chat'.msg_count = chat.msg_count + 1
    BY <1>1, <1>2, <2>1, PushRing
  <2>4. QED
    BY <2>2, <2>3 DEF Count
<1>4. /\ cpc' = [cpc EXCEPT ![c] = to]
      /\ UNCHANGED <<event, mutex, spc, last_processed, handled, my_last>>
  BY DEF Send, sems, server, reader
<1>5. spc # "drain"
  BY DEF Send, ShmInv, Locked
<1>6. Shape'
  BY <1>4 DEF ShmInv, Shape, ClientPc
<1>7. Posting' # {}
  BY <1>4 DEF Posting, ShmInv, Shape
<1>8. NotAhead'
  BY <1>3, <1>4 DEF ShmInv, NotAhead, Shape
<1>9. QED
  BY <1>3, <1>4, <1>5, <1>6, <1>7, <1>8
     DEF ShmInv, Locked, Backlog, Behind, Draining

\* Steps that leave the ring and the server alone, and end no posting.
LEMMA QuietKeeps ==
    ASSUME ShmInv, UNCHANGED <<chat, sems, server>>,
           cpc' \in [Clients -> ClientPc], Posting \subseteq Posting',
           my_last' \in [Clients -> Nat], NotAhead'
    PROVE  ShmInv'
<1>1. UNCHANGED <<chat, mutex, event, spc, last_processed, handled>>
  BY DEF sems, server
<1>2. UNCHANGED Count /\ \A i : UNCHANGED Slot(i)
  BY <1>1 DEF Count, Slot
<1>3. QED
  BY <1>1, <1>2 DEF ShmInv, Shape, Locked, Backlog, Behind, Draining

\* A client's post of event_sem.
LEMMA PostKeeps ==
    ASSUME ShmInv, NEW c \in Clients, NEW from, NEW to \in ClientPc, Post(c, from, to)
    PROVE  ShmInv'
<1>1. /\ event' = event + 1
      /\ cpc' = [cpc EXCEPT ![c] = to]
      /\ UNCHANGED <<chat, mutex, spc, last_processed, handled, my_last>>
  BY DEF Post, server, reader
<1>2. UNCHANGED Count /\ \A i : UNCHANGED Slot(i)
  BY <1>1 DEF Count, Slot
<1>3. Shape' /\ event' > 0
  BY <1>1 DEF ShmInv, Shape
<1>4. QED
  BY <1>1, <1>2, <1>3 DEF ShmInv, Locked, Backlog, NotAhead, Behind, Draining

\* Steps of a client other than writing to the ring and posting.
LEMMA ClientKeeps ==
    ASSUME ShmInv, NEW c \in Clients,
           \/ GiveUp(c) \/ JoinThread(c) \/ PollFinds(c) \/ PollMisses(c)
           \/ CatchUp(c) \/ ShowHistory(c) \/ Quit(c) \/ RecvTurn(c) \/ RecvEnds(c)
    PROVE  ShmInv'
<1>1. UNCHANGED <<chat, sems, server>>
  BY DEF GiveUp, JoinThread, PollFinds, PollMisses, CatchUp, ShowHistory, Quit, RecvTurn, RecvEnds
<1>2. UNCHANGED Count /\ Count \in Nat
  BY <1>1 DEF Count, ShmInv, RingAt
<1> USE DEF ShmInv, Shape
<1>3. /\ cpc' \in [Clients -> ClientPc]
      /\ Posting \subseteq Posting'
  <2>1. CASE UNCHANGED cpc
    BY <2>1 DEF Posting
  <2>2. CASE /\ cpc[c] \in {"poll", "join_thread", "catchup", "show"}
             /\ \E to \in ClientPc : cpc' = [cpc EXCEPT ![c] = to]
    BY <2>2 DEF Posting, ClientPc
  <2>3. QED
    BY <2>1, <2>2 DEF GiveUp, JoinThread, PollFinds, PollMisses, CatchUp, ShowHistory, Quit,
                      RecvTurn, RecvEnds, ClientPc
<1>4. my_last' \in [Clients -> Nat] /\ NotAhead'
  <2>1. CASE UNCHANGED my_last
    BY <1>2, <2>1 DEF NotAhead
  <2>2. CASE \E p \in {0, Count} : my_last' = [my_last EXCEPT ![c] = p]
    BY <1>2, <2>2 DEF NotAhead
  <2>3. QED
    BY <2>1, <2>2 DEF GiveUp, JoinThread, PollFinds, PollMisses, CatchUp, ShowHistory, Quit,
                      RecvTurn, RecvEnds, reader, Count
<1>5. QED
  BY <1>1, <1>3, <1>4, QuietKeeps

\* The server wakes up: what it finds within the ring is all in its place.
LEMMA WakeUpKeeps == ASSUME ShmInv, WakeUp PROVE ShmInv'
<1>1. H \in Nat \ {0} /\ Count \in Nat /\ last_processed \in Nat /\ event \in Nat
  BY ShmAssumption DEF ShmInv, RingAt, Shape, Count
<1>2. /\ event > 0 /\ event' = event - 1 /\ mutex' = 0 /\ spc' = "drain"
      /\ UNCHANGED <<chat, handled, cpc, my_last>>
      /\ last_processed' = IF Count - last_processed > H THEN Count - H
                           ELSE last_processed
  BY DEF WakeUp, client, reader, Count
<1>3. /\ last_processed' \in Nat /\ last_processed' >= last_processed
      /\ last_processed' >= Count - H
  BY <1>1, <1>2
<1>4. UNCHANGED Count /\ \A i : UNCHANGED Slot(i)
  BY <1>2 DEF Count, Slot
<1>5. Draining'
  <2> SUFFICES ASSUME NEW i \in last_processed' .. Count - 1
               PROVE  Slot(i).n = i
    BY <1>4 DEF Draining
  <2>1. i \in 0 .. chat.msg_count - 1 /\ i >= chat.msg_count - H
    BY <1>1, <1>3 DEF Count
  <2>2. QED
    BY <2>1 DEF ShmInv, RingAt, Slot
<1>6. Shape' /\ Behind'
  BY <1>1, <1>2, <1>3 DEF ShmInv, Shape, Behind
<1>7. QED
  BY <1>2, <1>4, <1>5, <1>6 DEF ShmInv, Locked, Backlog, NotAhead

\* A message the server writes while it drains.
LEMMA AnswerKeeps ==
    ASSUME NEW ch, RingAt(ch), NEW lp \in Nat, NEW type, type # "EMPTY", NEW to,
           \A i \in lp .. ch.msg_count - 1 :
              ch.msgs[i % H].sender # Server => ch.msgs[i % H].n = i
    PROVE  LET new == Push(ch, FromServer(type, to)) IN
           /\ RingAt(new)
           /\ new.msg_count = ch.msg_count + 1
           /\ \A i \in lp .. new.msg_count - 1 :
                 new.msgs[i % H].sender # Server => new.msgs[i % H].n = i
<1> DEFINE m   == FromServer(type, to)
           new == Push(ch, m)
           w   == ch.msg_count % H
<1>1. m.type # "EMPTY" /\ At(m, ch.msg_count).sender = Server
  BY DEF FromServer, At
<1> HIDE DEF m
<1>2. /\ RingAt(new)
      /\ new.msg_count = ch.msg_count + 1
      /\ new.msgs[w] = At(m, ch.msg_count)
      /\ \A s \in 0 .. H - 1 : s # w => new.msgs[s] = ch.msgs[s]
  BY <1>1, PushRing
<1>3. H \in Nat \ {0} /\ ch.msg_count \in Nat
  BY ShmAssumption DEF RingAt
<1> HIDE DEF new
<1>4. ASSUME NEW i \in lp .. new.msg_count - 1, new.msgs[i % H].sender # Server
      PROVE  new.msgs[i % H].n = i
  <2>1. i % H # w
    BY <1>1, <1>2, <1>4
  <2>2. i % H \in 0 .. H - 1 /\ i \in lp .. ch.msg_count - 1
    <3>1. i \in Nat /\ i # ch.msg_count
      BY <2>1
    <3>2. i \in lp .. ch.msg_count - 1
      BY <1>2, <1>3, <3>1, SMTT(30)
    <3>3. QED
      BY <1>3, <3>1, <3>2, Division
  <2>3. new.msgs[i % H] = ch.msgs[i % H]
    BY <1>2, <2>1, <2>2
  <2>4. QED
    BY <1>4, <2>2, <2>3
<1>5. QED
  BY <1>2, <1>4 DEF new, m

\* The message before the server is a client's of that position, or the server's own.
LEMMA NextInPlace ==
    ASSUME ShmInv, HasNext, Next1.sender # Server
    PROVE  Next1.n = last_processed
<1>1. last_processed \in last_processed .. Count - 1
  BY DEF HasNext, ShmInv, Shape, RingAt, Count
<1>2. QED
  BY <1>1 DEF HasNext, ShmInv, Draining, Next1

\* A range without its first number.
LEMMA Later == ASSUME NEW a \in Int, NEW b \in Int PROVE a + 1 .. b - 1 \subseteq a .. b - 1
  OBVIOUS

\* What Advance does, whatever was written to the ring.
LEMMA AdvanceKeeps ==
    ASSUME ShmInv, HasNext, Advance, RingAt(chat'), Count' >= Count,
           \A i \in last_processed .. Count' - 1 :
              Slot(i)'.sender # Server => Slot(i)'.n = i
    PROVE  ShmInv'
<1>1. /\ spc = "drain" /\ last_processed \in Nat /\ handled \in Int
      /\ Count \in Nat /\ Count' \in Nat
  BY DEF HasNext, ShmInv, Shape, RingAt, Count
<1>2. /\ last_processed' = last_processed + 1
      /\ handled' \in {handled, Next1.n}
      /\ handled' # handled => Next1.sender # Server
      /\ UNCHANGED <<mutex, event, spc, cpc, my_last>>
  BY DEF Advance, sems, client, reader
<1>3. handled' \in Int /\ handled' < last_processed'
  BY <1>1, <1>2, NextInPlace DEF ShmInv, Behind
<1>4. NotAhead'
  BY <1>1, <1>2 DEF ShmInv, Shape, NotAhead
<1>5. Draining'
  <2> DEFINE n == Count'
  <2>1. last_processed + 1 .. n - 1 \subseteq last_processed .. n - 1
    <3>1. n \in Int /\ last_processed \in Int
      BY <1>1
    <3> HIDE DEF n
    <3>2. QED
      BY <3>1, Later
  <2>2. QED
    BY <1>2, <2>1 DEF Draining
<1>6. QED
  BY <1>1, <1>2, <1>3, <1>4, <1>5 DEF ShmInv, Shape, Locked, Backlog, Behind

\* Every message the server handles keeps the invariant.
LEMMA HandlingKeeps ==
    ASSUME ShmInv, HandleJoin \/ HandleRefusedJoin \/ HandleLeave \/ HandleOther
    PROVE  ShmInv'
<1>1. HasNext /\ Advance
  BY DEF HandleJoin, HandleRefusedJoin, HandleLeave, HandleOther
<1>2. /\ RingAt(chat) /\ last_processed \in Nat /\ Count \in Nat
      /\ \A i \in last_processed .. chat.msg_count - 1 :
            chat.msgs[i % H].sender # Server => chat.msgs[i % H].n = i
  BY <1>1 DEF HasNext, ShmInv, Shape, Draining, Slot, Count, RingAt
<1>3. CASE UNCHANGED chat
  BY <1>1, <1>2, <1>3, AdvanceKeeps DEF Slot, Count
<1>4. CASE HandleLeave
  <2>1. chat' = Push(chat, FromServer("LEAVE_NOTIFY", NoName))
    BY <1>4 DEF HandleLeave
  <2>2. /\ RingAt(chat')
        /\ chat'.msg_count = chat.msg_count + 1
        /\ \A i \in last_processed .. chat'.msg_count - 1 :
              chat'.msgs[i % H].sender # Server => chat'.msgs[i % H].n = i
    BY <1>2, <2>1, AnswerKeeps
  <2>3. QED
    BY <1>1, <1>2, <2>2, AdvanceKeeps DEF Slot, Count
<1>5. CASE HandleJoin
  <2>1. PICK name : chat' = Push(Push(chat, FromServer("JOIN_OK", name)),
                                 FromServer("JOIN_NOTIFY", NoName))
    BY <1>5 DEF HandleJoin
  <2> DEFINE ch == Push(chat, FromServer("JOIN_OK", name))
  <2>2. /\ RingAt(ch)
        /\ ch.msg_count = chat.msg_count + 1
        /\ \A i \in last_processed .. ch.msg_count - 1 :
              ch.msgs[i % H].sender # Server => ch.msgs[i % H].n = i
    BY <1>2, AnswerKeeps
  <2> HIDE DEF ch
  <2>3. chat' = Push(ch, FromServer("JOIN_NOTIFY", NoName))
    BY <2>1 DEF ch
  <2>4. /\ RingAt(chat')
        /\ chat'.msg_count = ch.msg_count + 1
        /\ \A i \in last_processed .. chat'.msg_count - 1 :
              chat'.msgs[i % H].sender # Server => chat'.msgs[i % H].n = i
    BY <1>2, <2>2, <2>3, AnswerKeeps
  <2>5. QED
    BY <1>1, <1>2, <2>2, <2>4, AdvanceKeeps DEF Slot, Count
<1>6. QED
  BY <1>3, <1>4, <1>5 DEF HandleRefusedJoin, HandleOther

\* The end of a critical section, and the server's post of its own event.
LEMMA LoopKeeps ==
    ASSUME ShmInv, Unlock \/ PostSelf \/ StopServer
    PROVE  ShmInv'
<1>1. UNCHANGED <<chat, last_processed, handled, cpc, my_last>>
  BY DEF Unlock, PostSelf, StopServer, client, reader
<1>2. UNCHANGED <<Count, Posting>> /\ \A i : UNCHANGED Slot(i)
  BY <1>1 DEF Count, Slot, Posting
<1>3. Count \in Nat /\ last_processed \in Nat /\ event \in Nat
  BY DEF ShmInv, Shape, RingAt, Count
<1>4. Shape' /\ RingAt(chat') /\ NotAhead' /\ Behind'
  BY <1>1, <1>2, <1>3 DEF ShmInv, Shape, NotAhead, Behind, Unlock, PostSelf,
                          StopServer, sems
<1>5. CASE Unlock
  BY <1>1, <1>2, <1>3, <1>4, <1>5 DEF Unlock, LoopAgain, ShmInv, Locked, Backlog,
                                      Draining, Count
<1>6. CASE PostSelf
  BY <1>1, <1>2, <1>3, <1>4, <1>6 DEF PostSelf, LoopAgain, ShmInv, Locked, Backlog,
                                      Draining
<1>7. CASE StopServer
  BY <1>1, <1>2, <1>4, <1>7 DEF StopServer, sems, ShmInv, Locked, Backlog, Draining
<1>8. QED
  BY <1>5, <1>6, <1>7

\* Every step keeps the invariant.
LEMMA ShmStep == ShmInv /\ [Next]_vars => ShmInv'
<1> SUFFICES ASSUME ShmInv, [Next]_vars PROVE ShmInv'
  OBVIOUS
<1>1. CASE ServerStep \/ StopServer
  BY <1>1, WakeUpKeeps, HandlingKeeps, LoopKeeps DEF ServerStep
<1>2. ASSUME NEW c \in Clients, PostJoin(c) \/ PostText(c) \/ PostLeave(c)
      PROVE  ShmInv'
  BY <1>2, PostKeeps DEF PostJoin, PostText, PostLeave, ClientPc
<1>3. ASSUME NEW c \in Clients, SendJoin(c) \/ SendText(c) \/ SendLeave(c)
      PROVE  ShmInv'
  BY <1>3, SendKeeps DEF SendJoin, SendText, SendLeave
<1>4. CASE UNCHANGED vars
  BY <1>4, QuietKeeps
     DEF vars, client, reader, ShmInv, Shape, Posting, NotAhead, Count
<1>5. QED
  BY <1>1, <1>2, <1>3, <1>4, ClientKeeps DEF Next, ClientStep, ClientLocked

\* The invariant holds in every reachable state.
LEMMA ShmInvariant == Spec => []ShmInv
BY ShmInit, ShmStep, PTL DEF Spec

-------------------------------------------------------------------------
(* Who is in the table.                                                  *)

\* Clients that have written their LEAVE.
Leaver(c) == cpc[c] \in {"leave_post", "join_thread", "left"}

\* Nobody else uses the name of c.
Sole(c) == \A d \in Clients \ {c} : NameOf[d] # NameOf[c]

\* Names are unique in a table t, so pids are.
TableOk(t) ==
    /\ t \in Seq([client_pid : Clients, name : Names])
    /\ \A i \in 1 .. Len(t) : t[i].name = NameOf[t[i].client_pid]
    /\ \A i, j \in 1 .. Len(t) : t[i].name = t[j].name => i = j

\* Whoever asks or leaves signs with its own name, once it has left that says so, and
\* only a listed client gets a JOIN_OK with a name that nobody else uses.
Honest(m) ==
    /\ m.type \in {"JOIN_REQ", "LEAVE"} => m.sender \in Clients
    /\ m.type = "JOIN_REQ" => m.name = NameOf[m.sender]
    /\ m.type = "LEAVE" => Leaver(m.sender)
    /\ m.type = "JOIN_OK" =>
          \A c \in Clients : Sole(c) /\ m.to = NameOf[c] => Listed(c) \/ Leaver(c)

\* A client that is registered under a name of its own is listed.
Seated(c) == Sole(c) /\ Registered(c) => Listed(c)

TableInv ==
    /\ TableOk(table)
    /\ temp_last \in [Clients -> Nat]
    /\ \A s \in 0 .. H - 1 : Honest(chat.msgs[s])
    /\ \A c \in Clients : Seated(c)

\* The position i of a leaver's message in the ring, and of its request.
LeaveAt(c, i) == Slot(i).type = "LEAVE" /\ Slot(i).sender = c
AsksAt(c, i)  == Slot(i).type = "JOIN_REQ" /\ Slot(i).sender = c

\* The server has missed a message, or will find that it has: an unread one is gone.
Missed == overrun \/ \E i \in last_processed .. Count - 1 : Slot(i).n # i

\* What a leaver has still to expect of the server: nothing any more, or its LEAVE is
\* unread with no request of its own behind it.
Expects(c) ==
    \/ /\ ~Listed(c)
       /\ \A i \in last_processed .. Count - 1 : ~AsksAt(c, i)
    \/ \E j \in last_processed .. Count - 1 :
          /\ LeaveAt(c, j)
          /\ \A i \in j + 1 .. Count - 1 : ~AsksAt(c, i)

LeaveInv ==
    /\ last_processed <= Count
    /\ \A c \in Clients : Leaver(c) => Missed \/ Expects(c)

\* The table after an entry has gone.
LEMMA RemoveEntries ==
    ASSUME TableOk(table), NEW pid
    PROVE  LET t == RemoveClient(pid) IN
           /\ TableOk(t)
           /\ \A c : (\E i \in 1 .. Len(t) : t[i].client_pid = c) <=> Listed(c) /\ c # pid
<1> DEFINE at == {i \in 1 .. Len(table) : table[i].client_pid = pid}
           t  == RemoveClient(pid)
<1>1. CASE at = {}
  BY <1>1 DEF RemoveClient, Listed
<1>2. CASE at # {}
  <2> DEFINE idx == CHOOSE i \in at : \A j \in at : i <= j
             old(i) == IF i < idx THEN i ELSE i + 1
  <2>1. idx \in 1 .. Len(table) /\ table[idx].client_pid = pid
    <3>1. PICK i \in at : TRUE
      BY <1>2
    <3>2. \A j \in at : i = j
      BY <3>1 DEF TableOk
    <3>3. idx \in at
      BY <3>1, <3>2
    <3>4. QED
      BY <3>3
  <2>2. t = [i \in 1 .. Len(table) - 1 |-> IF i < idx THEN table[i] ELSE table[i + 1]]
    BY <1>2 DEF RemoveClient
  <2> HIDE DEF idx, t
  <2>3. /\ t \in Seq([client_pid : Clients, name : Names])
        /\ Len(t) = Len(table) - 1 /\ Len(table) \in Nat
    <3> DEFINE E == [client_pid : Clients, name : Names]
    <3>1. table \in Seq(E)
      BY DEF TableOk
    <3> HIDE DEF E
    <3>2. Len(table) - 1 \in Nat /\ Len(table) \in Nat
      BY <2>1, <3>1
    <3>3. \A i \in 1 .. Len(table) - 1 :
             (IF i < idx THEN table[i] ELSE table[i + 1]) \in E
      BY <2>1, <3>1
    <3>4. t \in Seq(E)
      BY <2>2, <3>2, <3>3
    <3>5. QED
      BY <2>2, <3>2, <3>4 DEF E
  <2>4. ASSUME NEW i \in 1 .. Len(t)
        PROVE  old(i) \in 1 .. Len(table) /\ t[i] = table[old(i)] /\ old(i) # idx
    BY <2>1, <2>2, <2>3
  <2>5. ASSUME NEW i \in 1 .. Len(t), NEW j \in 1 .. Len(t), t[i].name = t[j].name
        PROVE  i = j
    <3>1. old(i) = old(j)
      BY <2>4, <2>5 DEF TableOk
    <3>2. QED
      BY <2>1, <2>3, <3>1
  <2>6. ASSUME NEW i \in 1 .. Len(t)
        PROVE  /\ t[i].name = NameOf[t[i].client_pid]
               /\ Listed(t[i].client_pid) /\ t[i].client_pid # pid
    <3>1. old(i) \in 1 .. Len(table) /\ t[i] = table[old(i)] /\ old(i) # idx
      BY <2>4
    <3> HIDE DEF old
    <3>2. QED
      BY <2>1, <3>1 DEF TableOk, Listed
  <2>7. ASSUME NEW k \in 1 .. Len(table), table[k].client_pid # pid
        PROVE  \E i \in 1 .. Len(t) : t[i].client_pid = table[k].client_pid
    <3>1. k < idx \/ k > idx
      BY <2>1, <2>7
    <3>2. CASE k < idx
      BY <2>1, <2>2, <2>3, <3>2
    <3>3. CASE k > idx
      <4>1. k - 1 \in 1 .. Len(t) /\ ~(k - 1 < idx) /\ (k - 1) + 1 = k
        BY <2>1, <2>3, <3>3
      <4>2. t[k - 1] = table[k]
        BY <2>2, <2>3, <4>1
      <4>3. QED
        BY <4>1, <4>2
    <3>4. QED
      BY <3>1, <3>2, <3>3
  <2>8. TableOk(t)
    BY <2>3, <2>5, <2>6 DEF TableOk
  <2>9. ASSUME NEW c
        PROVE  (\E i \in 1 .. Len(t) : t[i].client_pid = c) <=> Listed(c) /\ c # pid
    BY <2>6, <2>7 DEF Listed
  <2>10. QED
    BY <2>8, <2>9 DEF t
<1>3. QED
  BY <1>1, <1>2

\* What the server writes.
Answers == {"JOIN_OK", "JOIN_NOTIFY", "LEAVE_NOTIFY"}

\* The server has written to the ring old, and now it is new; names are those it
\* welcomed.
ByServer(old, new, names) ==
    /\ RingAt(new)
    /\ old.msg_count <= new.msg_count
    /\ \A s \in 0 .. H - 1 :
          \/ new.msgs[s] = old.msgs[s]
          \/ new.msgs[s].type \in Answers
             /\ (new.msgs[s].type = "JOIN_OK" => new.msgs[s].to \in names)
    /\ \A i \in 0 .. new.msg_count - 1 :
          \/ i < old.msg_count /\ new.msgs[i % H] = old.msgs[i % H]
          \/ new.msgs[i % H].n # i
          \/ i >= old.msg_count /\ new.msgs[i % H].type \in Answers

\* What a push does to the positions before it.
LEMMA PushSlots ==
    ASSUME NEW ch, RingAt(ch), NEW m, m.type # "EMPTY"
    PROVE  LET new == Push(ch, m) IN
           /\ RingAt(new)
           /\ new.msg_count = ch.msg_count + 1
           /\ \A s \in 0 .. H - 1 : new.msgs[s] \in {ch.msgs[s], At(m, ch.msg_count)}
           /\ \A i \in 0 .. ch.msg_count - 1 :
                 new.msgs[i % H] = ch.msgs[i % H] \/ new.msgs[i % H].n # i
           /\ new.msgs[ch.msg_count % H] = At(m, ch.msg_count)
<1> DEFINE new == Push(ch, m)
           w   == ch.msg_count % H
<1>1. H \in Nat \ {0} /\ ch.msg_count \in Nat
  BY ShmAssumption DEF RingAt
<1>2. /\ RingAt(new)
      /\ new.msg_count = ch.msg_count + 1
      /\ new.msgs[w] = At(m, ch.msg_count)
      /\ \A s \in 0 .. H - 1 : s # w => new.msgs[s] = ch.msgs[s]
  BY PushRing
<1> HIDE DEF new
<1>3. \A s \in 0 .. H - 1 : new.msgs[s] \in {ch.msgs[s], At(m, ch.msg_count)}
  BY <1>2
<1>4. ASSUME NEW i \in 0 .. ch.msg_count - 1
      PROVE  new.msgs[i % H] = ch.msgs[i % H] \/ new.msgs[i % H].n # i
  <2>1. i \in Nat /\ i # ch.msg_count /\ i % H \in 0 .. H - 1
    BY <1>1, Division
  <2>2. At(m, ch.msg_count).n = ch.msg_count
    BY DEF At
  <2>3. QED
    BY <1>3, <2>1, <2>2
<1>5. QED
  BY <1>2, <1>3, <1>4 DEF new

\* One answer more.
LEMMA ServerPush ==
    ASSUME NEW old, RingAt(old), NEW names, NEW ch, ByServer(old, ch, names),
           NEW type \in Answers, NEW to, type = "JOIN_OK" => to \in names
    PROVE  ByServer(old, Push(ch, FromServer(type, to)), names)
<1> DEFINE m   == FromServer(type, to)
           new == Push(ch, m)
<1>1. /\ m.type # "EMPTY"
      /\ At(m, ch.msg_count).type = type /\ At(m, ch.msg_count).to = to
  BY DEF FromServer, At, Answers
<1>2. RingAt(ch)
  BY DEF ByServer
<1> HIDE DEF m
<1>3. /\ RingAt(new)
      /\ new.msg_count = ch.msg_count + 1
      /\ \A s \in 0 .. H - 1 : new.msgs[s] \in {ch.msgs[s], At(m, ch.msg_count)}
      /\ \A i \in 0 .. ch.msg_count - 1 :
            new.msgs[i % H] = ch.msgs[i % H] \/ new.msgs[i % H].n # i
      /\ new.msgs[ch.msg_count % H] = At(m, ch.msg_count)
  BY <1>1, <1>2, PushSlots
<1> HIDE DEF new
<1>4. old.msg_count \in Nat /\ ch.msg_count \in Nat /\ old.msg_count <= ch.msg_count
  BY <1>2 DEF ByServer, RingAt
<1>5. \A s \in 0 .. H - 1 :
         \/ new.msgs[s] = old.msgs[s]
         \/ new.msgs[s].type \in Answers
            /\ (new.msgs[s].type = "JOIN_OK" => new.msgs[s].to \in names)
  BY <1>1, <1>3 DEF ByServer
<1>6. ASSUME NEW i \in 0 .. new.msg_count - 1
      PROVE  \/ i < old.msg_count /\ new.msgs[i % H] = old.msgs[i % H]
             \/ new.msgs[i % H].n # i
             \/ i >= old.msg_count /\ new.msgs[i % H].type \in Answers
  <2>1. CASE i = ch.msg_count
    BY <1>1, <1>3, <1>4, <2>1
  <2>2. CASE i # ch.msg_count
    <3>1. i \in 0 .. ch.msg_count - 1
      BY <1>3, <1>4, <2>2
    <3>2. new.msgs[i % H] = ch.msgs[i % H] \/ new.msgs[i % H].n # i
      BY <1>3, <3>1
    <3>3. QED
      BY <3>1, <3>2 DEF ByServer
  <2>3. QED
    BY <2>1, <2>2
<1>7. ByServer(old, new, names)
  BY <1>3, <1>4, <1>5, <1>6 DEF ByServer
<1>8. QED
  BY <1>7 DEF new, m

\* The server handles a message.
Handling == HandleJoin \/ HandleRefusedJoin \/ HandleLeave \/ HandleOther

\* What the server writes for a message.
LEMMA HandlingWrites ==
    ASSUME ShmInv, Handling
    PROVE  ByServer(chat, chat', IF HandleJoin THEN {Next1.name} ELSE {})
<1>1. RingAt(chat)
  BY DEF ShmInv
<1>2. ASSUME NEW names PROVE ByServer(chat, chat, names)
  <2>1. chat.msg_count \in Nat
    BY <1>1 DEF RingAt
  <2>2. chat.msg_count <= chat.msg_count /\ \A i \in 0 .. chat.msg_count - 1 : i < chat.msg_count
    BY <2>1
  <2>3. QED
    BY <1>1, <2>2 DEF ByServer
<1>3. CASE HandleJoin
  <2> DEFINE ch == Push(chat, FromServer("JOIN_OK", Next1.name))
  <2>1. ByServer(chat, ch, {Next1.name})
    BY <1>1, <1>2, ServerPush DEF Answers
  <2> HIDE DEF ch
  <2>2. chat' = Push(ch, FromServer("JOIN_NOTIFY", NoName))
    BY <1>3 DEF HandleJoin, ch
  <2>3. ByServer(chat, Push(ch, FromServer("JOIN_NOTIFY", NoName)), {Next1.name})
    BY <1>1, <2>1, ServerPush DEF Answers
  <2>4. QED
    BY <1>3, <2>2, <2>3
<1>4. CASE HandleLeave
  <2>1. ~HandleJoin /\ chat' = Push(chat, FromServer("LEAVE_NOTIFY", NoName))
    BY <1>4 DEF HandleLeave, HandleJoin
  <2>2. ByServer(chat, Push(chat, FromServer("LEAVE_NOTIFY", NoName)), {})
    BY <1>1, <1>2, ServerPush DEF Answers
  <2>3. QED
    BY <2>1, <2>2
<1>5. CASE HandleRefusedJoin \/ HandleOther
  <2>1. ~HandleJoin /\ chat' = chat
    BY <1>5 DEF HandleRefusedJoin, HandleOther, HandleJoin
  <2>2. QED
    BY <1>2, <2>1
<1>6. QED
  BY <1>3, <1>4, <1>5 DEF Handling

\* The message the server handles is an honest one.
LEMMA NextHonest == ASSUME ShmInv, TableInv, HasNext PROVE Honest(Next1)
<1>1. last_processed % H \in 0 .. H - 1
  BY ShmAssumption, Division DEF ShmInv, Shape
<1>2. QED
  BY <1>1 DEF TableInv, Next1, Slot

\* What it does to the table.
LEMMA TableAfter ==
    ASSUME ShmInv, TableInv, Handling
    PROVE  /\ TableOk(table')
           /\ \A c : Listed(c) /\ ~Listed(c)' => Next1.type = "LEAVE" /\ Next1.sender = c
           /\ \A c : ~Listed(c) /\ Listed(c)' => Next1.type = "JOIN_REQ" /\ Next1.sender = c
           /\ \A c : Next1.type = "LEAVE" /\ Next1.sender = c => ~Listed(c)'
           /\ \A c : HandleJoin /\ Next1.sender = c => Listed(c)'
<1>1. HasNext
  BY DEF Handling, HandleJoin, HandleRefusedJoin, HandleLeave, HandleOther
<1>2. Honest(Next1) /\ TableOk(table)
  BY <1>1, NextHonest DEF TableInv
<1>3. CASE HandleJoin
  <2> DEFINE E == [client_pid : Clients, name : Names]
             e == [client_pid |-> Next1.sender, name |-> Next1.name]
             n == Len(table)
  <2>1. /\ Next1.type = "JOIN_REQ" /\ table' = Append(table, e)
        /\ \A i \in 1 .. n : table[i].name # Next1.name
    BY <1>3 DEF HandleJoin, UniqueName
  <2>2. e \in E /\ e.name = NameOf[e.client_pid]
    BY <1>2, <2>1, ShmAssumption DEF Honest
  <2>3. e.name = Next1.name /\ e.client_pid = Next1.sender
    OBVIOUS
  <2>4. table \in Seq(E)
    BY <1>2 DEF TableOk
  <2> HIDE DEF E, e
  <2>5. /\ table' \in Seq(E) /\ Len(table') = n + 1 /\ n \in Nat
        /\ table'[n + 1] = e
        /\ \A i \in 1 .. n : table'[i] = table[i]
    BY <2>1, <2>2, <2>4
  <2> HIDE DEF n
  <2>6. TableOk(table')
    <3>1. \A i \in 1 .. n + 1 : i \in 1 .. n \/ i = n + 1
      BY <2>5
    <3>2. \A i \in 1 .. n + 1 : table'[i].name = NameOf[table'[i].client_pid]
      BY <1>2, <2>2, <2>5, <3>1 DEF TableOk, n
    <3>3. \A i, j \in 1 .. n + 1 : table'[i].name = table'[j].name => i = j
      BY <1>2, <2>1, <2>3, <2>5, <3>1 DEF TableOk, n
    <3>4. QED
      BY <2>5, <3>2, <3>3 DEF TableOk, E
  <2>7. \A c : Listed(c)' <=> Listed(c) \/ c = Next1.sender
    <3>1. \A i \in 1 .. n + 1 : i \in 1 .. n \/ i = n + 1
      BY <2>5
    <3>2. 1 .. n \subseteq 1 .. n + 1 /\ n + 1 \in 1 .. n + 1
      BY <2>5
    <3>3. QED
      BY <2>3, <2>5, <3>1, <3>2 DEF Listed, n
  <2>8. QED
    BY <2>1, <2>6, <2>7
<1>4. CASE HandleLeave
  <2>1. Next1.type = "LEAVE" /\ table' = RemoveClient(Next1.sender) /\ ~HandleJoin
    BY <1>4 DEF HandleLeave, HandleJoin
  <2> DEFINE t == RemoveClient(Next1.sender)
  <2>2. /\ TableOk(t)
        /\ \A c : (\E i \in 1 .. Len(t) : t[i].client_pid = c) <=> Listed(c) /\ c # Next1.sender
    BY <1>2, RemoveEntries
  <2> HIDE DEF t
  <2>3. table' = t
    BY <2>1 DEF t
  <2>4. \A c : Listed(c)' <=> Listed(c) /\ c # Next1.sender
    BY <2>2, <2>3 DEF Listed
  <2>5. QED
    BY <2>1, <2>2, <2>3, <2>4
<1>5. CASE HandleRefusedJoin \/ HandleOther
  <2>1. table' = table /\ Next1.type # "LEAVE" /\ ~HandleJoin
    BY <1>5 DEF HandleRefusedJoin, HandleOther, HandleJoin
  <2>2. QED
    BY <1>2, <2>1 DEF Listed
<1>6. QED
  BY <1>3, <1>4, <1>5 DEF Handling

\* The first thing every handling does.
LEMMA HandlingAdvances ==
    ASSUME Handling
    PROVE  /\ HasNext /\ last_processed' = last_processed + 1
           /\ overrun' = (overrun \/ Next1.n # last_processed)
           /\ UNCHANGED <<cpc, temp_last>>
  BY DEF Handling, HandleJoin, HandleRefusedJoin, HandleLeave, HandleOther, Advance,
         client, joining

\* A client that is dropped has said that it leaves.
LEMMA HandlingTable == ASSUME ShmInv, TableInv, Handling PROVE TableInv'
<1>1. HasNext /\ UNCHANGED <<cpc, temp_last>>
  BY HandlingAdvances
<1>2. Honest(Next1)
  BY <1>1, NextHonest
<1>3. \A c : Leaver(c)' <=> Leaver(c)
  BY <1>1 DEF Leaver
<1>4. ASSUME NEW c \in Clients, Listed(c), ~Listed(c)' PROVE Leaver(c)
  BY <1>2, <1>4, TableAfter DEF Honest
<1>5. ASSUME NEW s \in 0 .. H - 1 PROVE Honest(chat.msgs[s])'
  <2> DEFINE m == chat'.msgs[s]
  <2>1. \/ m = chat.msgs[s]
        \/ m.type \in Answers
           /\ (m.type = "JOIN_OK" => HandleJoin /\ m.to = Next1.name)
    BY HandlingWrites DEF ByServer
  <2> HIDE DEF m
  <2>2. CASE m = chat.msgs[s]
    <3>1. Honest(chat.msgs[s])
      BY DEF TableInv
    <3>2. /\ m.type \in {"JOIN_REQ", "LEAVE"} => m.sender \in Clients
          /\ m.type = "JOIN_REQ" => m.name = NameOf[m.sender]
          /\ m.type = "LEAVE" => Leaver(m.sender)
          /\ m.type = "JOIN_OK" =>
                \A c \in Clients : Sole(c) /\ m.to = NameOf[c] => Listed(c) \/ Leaver(c)
      BY <2>2, <3>1 DEF Honest
    <3>3. m.type = "JOIN_OK" =>
             \A c \in Clients : Sole(c) /\ m.to = NameOf[c] => Listed(c)' \/ Leaver(c)
      BY <1>4, <3>2
    <3>4. QED
      BY <1>3, <3>2, <3>3 DEF Honest, m, Sole
  <2>3. CASE /\ m.type \in Answers
             /\ m.type = "JOIN_OK" => HandleJoin /\ m.to = Next1.name
    <3>1. ASSUME NEW c \in Clients, m.type = "JOIN_OK", Sole(c), m.to = NameOf[c]
          PROVE  Listed(c)'
      <4>1. HandleJoin /\ Next1.sender \in Clients /\ NameOf[Next1.sender] = NameOf[c]
        BY <1>2, <2>3, <3>1 DEF HandleJoin, Honest
      <4>2. Next1.sender = c
        BY <3>1, <4>1 DEF Sole
      <4>3. QED
        BY <4>1, <4>2, TableAfter
    <3>2. QED
      BY <2>3, <3>1 DEF Honest, m, Answers, Sole
  <2>4. QED
    BY <2>1, <2>2, <2>3
<1>6. ASSUME NEW c \in Clients PROVE Seated(c)'
  <2>1. Registered(c)' => Registered(c) /\ ~Leaver(c)
    BY <1>1 DEF Registered, Leaver
  <2>2. Seated(c)
    BY DEF TableInv
  <2>3. QED
    BY <1>4, <2>1, <2>2 DEF Seated, Sole
<1>7. temp_last' \in [Clients -> Nat] /\ TableOk(table')
  BY <1>1, TableAfter DEF TableInv
<1>8. QED
  BY <1>5, <1>6, <1>7 DEF TableInv, TableOk

\* Steps that leave the ring and the table alone.
LEMMA TableQuiet ==
    ASSUME TableInv, UNCHANGED <<chat, table>>, temp_last' \in [Clients -> Nat],
           \A c \in Clients : (Leaver(c) => Leaver(c)') /\ (Registered(c)' => Listed(c) \/ ~Sole(c))
    PROVE  TableInv'
<1>1. \A c : Listed(c)' <=> Listed(c)
  BY DEF Listed
<1>2. ASSUME NEW s \in 0 .. H - 1 PROVE Honest(chat.msgs[s])'
  <2> DEFINE m == chat.msgs[s]
  <2>1. Honest(m) /\ m = chat'.msgs[s]
    BY DEF TableInv
  <2>2. QED
    BY <1>1, <2>1 DEF Honest, Sole
<1>3. \A c \in Clients : Seated(c)'
  BY <1>1 DEF Seated, Sole
<1>4. QED
  BY <1>2, <1>3 DEF TableInv, TableOk

\* What a client writes is honest.
LEMMA TableSend ==
    ASSUME ShmInv, TableInv, NEW c \in Clients, SendJoin(c) \/ SendText(c) \/ SendLeave(c)
    PROVE  TableInv'
<1>1. PICK type \in {"JOIN_REQ", "TEXT", "LEAVE"},
           to \in {"join_post", "text_post", "leave_post"} :
         /\ Send(c, type, to)
         /\ cpc[c] = IF type = "JOIN_REQ" THEN "join" ELSE "chat"
         /\ type = "JOIN_REQ" => to = "join_post"
         /\ type = "LEAVE" => to = "leave_post"
  BY DEF SendJoin, SendText, SendLeave
<1> DEFINE m == FromClient(c, type)
           k == Count
<1>2. /\ chat' = Push(chat, m) /\ cpc' = [cpc EXCEPT ![c] = to]
      /\ UNCHANGED <<table, temp_last>>
  BY <1>1 DEF Send, server, joining
<1>3. /\ At(m, k).type = type /\ At(m, k).sender = c /\ At(m, k).name = NameOf[c]
      /\ m.type # "EMPTY"
  BY DEF At, FromClient
<1> HIDE DEF m, k
<1>4. \A s \in 0 .. H - 1 : chat'.msgs[s] \in {chat.msgs[s], At(m, k)}
  BY <1>2, <1>3, PushSlots DEF ShmInv, Count, k
<1>5. cpc \in [Clients -> ClientPc]
  BY DEF ShmInv, Shape
<1>6. /\ \A d \in Clients : Leaver(d) => Leaver(d)'
      /\ \A d \in Clients : Registered(d)' => Registered(d)
      /\ type = "LEAVE" => Leaver(c)'
  BY <1>1, <1>2, <1>5 DEF Leaver, Registered
<1>7. \A d : Listed(d)' <=> Listed(d)
  BY <1>2 DEF Listed
<1>8. ASSUME NEW s \in 0 .. H - 1 PROVE Honest(chat.msgs[s])'
  <2>1. CASE chat'.msgs[s] = chat.msgs[s]
    <3> DEFINE x == chat.msgs[s]
    <3>1. Honest(x) /\ x = chat'.msgs[s]
      BY <2>1 DEF TableInv
    <3>2. QED
      BY <1>6, <1>7, <3>1 DEF Honest, Sole
  <2>2. CASE chat'.msgs[s] = At(m, k)
    <3> DEFINE x == At(m, k)
    <3>1. x = chat'.msgs[s] /\ x.type = type /\ x.sender = c /\ x.name = NameOf[c]
      BY <1>3, <2>2
    <3> HIDE DEF x
    <3>2. type # "JOIN_OK"
      OBVIOUS
    <3>3. QED
      BY <1>6, <3>1, <3>2 DEF Honest
  <2>3. QED
    BY <1>4, <2>1, <2>2
<1>9. \A d \in Clients : Seated(d)'
  BY <1>6, <1>7 DEF TableInv, Seated, Sole
<1>10. QED
  BY <1>2, <1>8, <1>9 DEF TableInv, TableOk

\* A client registers when it has found a JOIN_OK with its name.
LEMMA TableClient ==
    ASSUME ShmInv, TableInv, NEW c \in Clients,
           \/ PostJoin(c) \/ PostText(c) \/ PostLeave(c)
           \/ GiveUp(c) \/ JoinThread(c) \/ PollFinds(c) \/ PollMisses(c)
           \/ CatchUp(c) \/ ShowHistory(c) \/ Quit(c) \/ RecvTurn(c) \/ RecvEnds(c)
    PROVE  TableInv'
<1>1. UNCHANGED <<chat, table>>
  BY DEF PostJoin, PostText, PostLeave, Post, GiveUp, JoinThread, PollFinds, PollMisses,
         CatchUp, ShowHistory, Quit, RecvTurn, RecvEnds, server
<1>2. Count \in Nat /\ cpc \in [Clients -> ClientPc] /\ temp_last \in [Clients -> Nat]
  BY DEF ShmInv, Shape, RingAt, Count, TableInv
<1>3. CASE PollFinds(c)
  <2>1. /\ cpc[c] = "poll" /\ cpc' = [cpc EXCEPT ![c] = "catchup"]
        /\ \E i \in Welcomes(c) : temp_last' = [temp_last EXCEPT ![c] = i + 1]
    BY <1>3 DEF PollFinds
  <2>2. PICK i \in Welcomes(c) : temp_last' = [temp_last EXCEPT ![c] = i + 1]
    BY <2>1
  <2>3. i \in Nat /\ Slot(i).type = "JOIN_OK" /\ Slot(i).to = NameOf[c]
    BY <1>2, <2>2 DEF Welcomes, Unread, Count
  <2>4. i % H \in 0 .. H - 1
    BY <2>3, ShmAssumption, Division
  <2>5. Honest(Slot(i))
    BY <2>4 DEF TableInv, Slot
  <2>6. ~Leaver(c)
    BY <2>1 DEF Leaver
  <2>7. Sole(c) => Listed(c)
    BY <2>3, <2>5, <2>6 DEF Honest
  <2>8. temp_last' \in [Clients -> Nat]
    BY <1>2, <2>2, <2>3
  <2>9. \A d \in Clients : /\ Leaver(d) => Leaver(d)'
                           /\ Registered(d)' => Listed(d) \/ ~Sole(d)
    BY <1>2, <2>1, <2>7 DEF Leaver, Registered, TableInv, Seated
  <2>10. QED
    BY <1>1, <2>8, <2>9, TableQuiet
<1>4. CASE ~PollFinds(c)
  <2>1. temp_last' \in [Clients -> Nat]
    <3>1. CASE UNCHANGED temp_last
      BY <1>2, <3>1
    <3>2. CASE \E p \in {0, Count} : temp_last' = [temp_last EXCEPT ![c] = p]
      BY <1>2, <3>2
    <3>3. QED
      BY <1>4, <3>1, <3>2 DEF PostJoin, PostText, PostLeave, Post, GiveUp, JoinThread,
         PollMisses, CatchUp, ShowHistory, Quit, RecvTurn, RecvEnds, ForgetRegistration, joining, Count
  <2>2. \A d \in Clients : /\ Leaver(d) => Leaver(d)'
                           /\ Registered(d)' => Registered(d)
    <3>1. CASE UNCHANGED cpc
      BY <3>1 DEF Leaver, Registered
    <3>2. CASE \E q \in {<<"join_post", "poll">>, <<"text_post", "chat">>,
                         <<"leave_post", "join_thread">>, <<"poll", "failed">>,
                         <<"join_thread", "left">>, <<"catchup", "show">>,
                         <<"show", "chat">>} :
                  cpc[c] = q[1] /\ cpc' = [cpc EXCEPT ![c] = q[2]]
      BY <1>2, <3>2 DEF Leaver, Registered
    <3>3. QED
      BY <1>4, <3>1, <3>2 DEF PostJoin, PostText, PostLeave, Post, GiveUp, JoinThread,
         PollMisses, CatchUp, ShowHistory, Quit, RecvTurn, RecvEnds
  <2>3. QED
    BY <1>1, <2>1, <2>2, TableQuiet DEF TableInv, Seated
<1>5. QED
  BY <1>3, <1>4

\* Every step keeps the table and the JOIN_OKs in agreement.
LEMMA TableStep == ShmInv /\ TableInv /\ [Next]_vars => TableInv'
<1> SUFFICES ASSUME ShmInv, TableInv, [Next]_vars PROVE TableInv'
  OBVIOUS
<1>1. CASE WakeUp \/ Unlock \/ PostSelf \/ StopServer \/ UNCHANGED vars
  <2>1. UNCHANGED <<chat, table, cpc, temp_last>>
    BY <1>1 DEF WakeUp, Unlock, PostSelf, StopServer, vars, server, client, joining
  <2>2. \A c \in Clients : /\ Leaver(c) => Leaver(c)'
                           /\ Registered(c)' => Listed(c) \/ ~Sole(c)
    BY <2>1 DEF Leaver, Registered, TableInv, Seated
  <2>3. QED
    BY <2>1, <2>2, TableQuiet DEF TableInv
<1>2. CASE Handling
  BY <1>2, HandlingTable
<1>3. QED
  BY <1>1, <1>2, TableSend, TableClient DEF Next, ServerStep, Handling, ClientStep, ClientLocked

-------------------------------------------------------------------------
(* What leavers expect.                                                  *)

\* Missed and Expects with constants for the two positions.
LEMMA Positions ==
    ASSUME NEW p, NEW k, p = last_processed, k = Count
    PROVE  /\ Missed <=> overrun \/ \E i \in p .. k - 1 : Slot(i).n # i
           /\ \A c : Expects(c) <=>
                 \/ ~Listed(c) /\ \A i \in p .. k - 1 : ~AsksAt(c, i)
                 \/ \E j \in p .. k - 1 : /\ LeaveAt(c, j)
                                         /\ \A i \in j + 1 .. k - 1 : ~AsksAt(c, i)
  BY DEF Missed, Expects

\* The same for the next state.
LEMMA PositionsNext ==
    ASSUME NEW p, NEW k, p = last_processed', k = Count'
    PROVE  /\ Missed' <=> overrun' \/ \E i \in p .. k - 1 : Slot(i)'.n # i
           /\ \A c : Expects(c)' <=>
                 \/ ~Listed(c)' /\ \A i \in p .. k - 1 : ~AsksAt(c, i)'
                 \/ \E j \in p .. k - 1 : /\ LeaveAt(c, j)'
                                         /\ \A i \in j + 1 .. k - 1 : ~AsksAt(c, i)'
  BY DEF Missed, Expects

\* The server's turn: it serves the LEAVE before it, or keeps it unread, or has lost it.
LEMMA HandlingLeaves ==
    ASSUME ShmInv, TableInv, LeaveInv, Handling PROVE LeaveInv'
<1>1. /\ HasNext /\ last_processed' = last_processed + 1
      /\ overrun' = (overrun \/ Next1.n # last_processed)
      /\ UNCHANGED cpc
  BY HandlingAdvances
<1>2. /\ last_processed \in Nat /\ Count \in Nat /\ Count' \in Nat
      /\ last_processed < Count /\ Count <= Count'
  BY <1>1, HandlingWrites DEF HasNext, ShmInv, Shape, RingAt, ByServer, Count
<1>3. \A i \in 0 .. Count' - 1 :
         \/ i < Count /\ Slot(i)' = Slot(i)
         \/ Slot(i)'.n # i
         \/ i >= Count /\ Slot(i)'.type \in Answers
  BY HandlingWrites DEF ByServer, Slot, Count
<1>4. PICK p \in Nat, k \in Nat, n \in Nat :
         p = last_processed /\ k = Count /\ n = Count'
  BY <1>2
<1>5. p < k /\ k <= n /\ p + 1 = last_processed'
  BY <1>1, <1>2, <1>4
<1>6. /\ Missed <=> overrun \/ \E i \in p .. k - 1 : Slot(i).n # i
      /\ \A c : Expects(c) <=>
            \/ ~Listed(c) /\ \A i \in p .. k - 1 : ~AsksAt(c, i)
            \/ \E j \in p .. k - 1 : /\ LeaveAt(c, j)
                                    /\ \A i \in j + 1 .. k - 1 : ~AsksAt(c, i)
  BY <1>4, Positions
<1>7. /\ Missed' <=> overrun' \/ \E i \in p + 1 .. n - 1 : Slot(i)'.n # i
      /\ \A c : Expects(c)' <=>
            \/ ~Listed(c)' /\ \A i \in p + 1 .. n - 1 : ~AsksAt(c, i)'
            \/ \E j \in p + 1 .. n - 1 : /\ LeaveAt(c, j)'
                                        /\ \A i \in j + 1 .. n - 1 : ~AsksAt(c, i)'
  BY <1>4, <1>5, PositionsNext
<1>8. \A i \in 0 .. n - 1 :
         \/ i < k /\ Slot(i)' = Slot(i)
         \/ Slot(i)'.n # i
         \/ i >= k /\ Slot(i)'.type \in Answers
  BY <1>3, <1>4
<1>9. Next1 = Slot(p)
  BY <1>4 DEF Next1
<1>10. ASSUME NEW c \in Clients, Leaver(c), ~Missed' PROVE Expects(c)'
  <2>1. ~overrun /\ Slot(p).n = p
    BY <1>1, <1>4, <1>7, <1>9, <1>10
  <2>2. ASSUME NEW i \in p + 1 .. n - 1
        PROVE  \/ i < k /\ Slot(i)' = Slot(i) /\ Slot(i).n = i
               \/ i >= k /\ Slot(i)'.type \in Answers
    <3>1. i \in 0 .. n - 1
      BY <1>5
    <3>2. Slot(i)'.n = i
      BY <1>7, <1>10
    <3>3. QED
      BY <1>8, <3>1, <3>2
  <2>3. ASSUME NEW i \in p .. k - 1 PROVE Slot(i).n = i
    <3>1. i = p \/ (i \in p + 1 .. n - 1 /\ ~(i >= k))
      BY <1>5
    <3>2. QED
      BY <2>1, <2>2, <3>1
  <2>4. Expects(c)
    BY <1>6, <1>10, <2>1, <2>3 DEF LeaveInv
  <2>5. ASSUME NEW i \in p + 1 .. n - 1, AsksAt(c, i)'
        PROVE  i \in p + 1 .. k - 1 /\ AsksAt(c, i)
    <3>1. i < k /\ Slot(i)' = Slot(i)
      BY <2>2, <2>5 DEF AsksAt, Answers
    <3>2. QED
      BY <2>5, <3>1 DEF AsksAt
  <2>6. CASE ~Listed(c) /\ \A i \in p .. k - 1 : ~AsksAt(c, i)
    <3>1. ~(Next1.type = "JOIN_REQ" /\ Next1.sender = c)
      <4>1. p \in p .. k - 1
        BY <1>5
      <4>2. QED
        BY <1>9, <2>6, <4>1 DEF AsksAt
    <3>2. ~Listed(c)'
      BY <2>6, <3>1, TableAfter
    <3>3. p + 1 .. k - 1 \subseteq p .. k - 1
      BY Later
    <3>4. QED
      BY <1>7, <2>5, <2>6, <3>2, <3>3
  <2>7. ASSUME NEW j \in p .. k - 1, LeaveAt(c, j),
               \A i \in j + 1 .. k - 1 : ~AsksAt(c, i)
        PROVE  Expects(c)'
    <3>1. CASE j = p
      <4>1. Next1.type = "LEAVE" /\ Next1.sender = c
        BY <1>9, <2>7, <3>1 DEF LeaveAt
      <4>2. ~Listed(c)'
        BY <4>1, TableAfter
      <4>3. \A i \in p + 1 .. n - 1 : ~AsksAt(c, i)'
        BY <2>5, <2>7, <3>1
      <4>4. QED
        BY <1>7, <4>2, <4>3
    <3>2. CASE j # p
      <4>1. j \in p + 1 .. n - 1 /\ ~(j >= k)
        BY <1>5, <3>2
      <4>2. LeaveAt(c, j)'
        <5>1. Slot(j)' = Slot(j)
          BY <2>2, <4>1
        <5>2. QED
          BY <2>7, <5>1 DEF LeaveAt
      <4>3. ASSUME NEW i \in j + 1 .. n - 1 PROVE ~AsksAt(c, i)'
        <5>1. i \in p + 1 .. n - 1 /\ (i \in p + 1 .. k - 1 => i \in j + 1 .. k - 1)
          BY <4>1
        <5>2. QED
          BY <2>5, <2>7, <5>1
      <4>4. QED
        BY <1>7, <4>1, <4>2, <4>3
    <3>3. QED
      BY <3>1, <3>2
  <2>8. QED
    BY <1>6, <2>4, <2>6, <2>7
<1>11. last_processed' <= Count' /\ \A c : Leaver(c)' <=> Leaver(c)
  BY <1>1, <1>2, <1>4, <1>5 DEF Leaver
<1>12. QED
  BY <1>10, <1>11 DEF LeaveInv

\* A client writes: what it overwrites is missed, its own LEAVE comes last.
LEMMA SendLeaves ==
    ASSUME ShmInv, LeaveInv, NEW c \in Clients, SendJoin(c) \/ SendText(c) \/ SendLeave(c)
    PROVE  LeaveInv'
<1>1. PICK type \in {"JOIN_REQ", "TEXT", "LEAVE"},
           to \in {"join_post", "text_post", "leave_post"} :
         /\ Send(c, type, to)
         /\ cpc[c] = IF type = "JOIN_REQ" THEN "join" ELSE "chat"
         /\ type = "LEAVE" <=> to = "leave_post"
  BY DEF SendJoin, SendText, SendLeave
<1>2. PICK p \in Nat, k \in Nat : p = last_processed /\ k = Count
  BY DEF ShmInv, Shape, RingAt, Count
<1> DEFINE m == FromClient(c, type)
<1>3. /\ chat' = Push(chat, m) /\ cpc' = [cpc EXCEPT ![c] = to]
      /\ UNCHANGED <<table, last_processed, overrun>>
  BY <1>1 DEF Send, server
<1>4. At(m, k).type = type /\ At(m, k).sender = c /\ m.type # "EMPTY"
  BY DEF At, FromClient
<1> HIDE DEF m
<1>5. /\ Count' = k + 1
      /\ \A i \in 0 .. k - 1 : Slot(i)' = Slot(i) \/ Slot(i)'.n # i
      /\ Slot(k)' = At(m, k)
  <2>1. RingAt(chat)
    BY DEF ShmInv
  <2>2. /\ chat'.msg_count = chat.msg_count + 1
        /\ \A i \in 0 .. chat.msg_count - 1 :
              chat'.msgs[i % H] = chat.msgs[i % H] \/ chat'.msgs[i % H].n # i
        /\ chat'.msgs[chat.msg_count % H] = At(m, chat.msg_count)
    BY <1>3, <1>4, <2>1, PushSlots
  <2>3. QED
    BY <1>2, <2>2 DEF Slot, Count
<1>6. /\ Missed <=> overrun \/ \E i \in p .. k - 1 : Slot(i).n # i
      /\ \A d : Expects(d) <=>
            \/ ~Listed(d) /\ \A i \in p .. k - 1 : ~AsksAt(d, i)
            \/ \E j \in p .. k - 1 : /\ LeaveAt(d, j)
                                    /\ \A i \in j + 1 .. k - 1 : ~AsksAt(d, i)
  BY <1>2, Positions
<1>7. /\ Missed' <=> overrun' \/ \E i \in p .. (k + 1) - 1 : Slot(i)'.n # i
      /\ \A d : Expects(d)' <=>
            \/ ~Listed(d)' /\ \A i \in p .. (k + 1) - 1 : ~AsksAt(d, i)'
            \/ \E j \in p .. (k + 1) - 1 : /\ LeaveAt(d, j)'
                                          /\ \A i \in j + 1 .. (k + 1) - 1 : ~AsksAt(d, i)'
  BY <1>2, <1>3, <1>5, PositionsNext
<1>8. cpc \in [Clients -> ClientPc] /\ p <= k /\ (k + 1) - 1 = k
  BY <1>2 DEF ShmInv, Shape, LeaveInv
<1>9. ASSUME NEW d \in Clients, Leaver(d)', ~Missed' PROVE Expects(d)'
  <2>1. ASSUME NEW i \in p .. k - 1 PROVE Slot(i)' = Slot(i) /\ Slot(i).n = i
    <3>1. i \in 0 .. k - 1 /\ i \in p .. k
      OBVIOUS
    <3>2. Slot(i)'.n = i
      BY <1>7, <1>8, <1>9, <3>1
    <3>3. QED
      BY <1>5, <3>1, <3>2
  <2>2. ~Missed
    BY <1>3, <1>6, <1>7, <1>9, <2>1
  <2>3. \A i \in p .. k : i \in p .. k - 1 \/ i = k
    OBVIOUS
  <2>4. CASE d = c /\ type = "LEAVE"
    <3>1. k \in p .. k /\ k + 1 .. k = {}
      BY <1>8
    <3>2. LeaveAt(d, k)'
      BY <1>4, <1>5, <2>4 DEF LeaveAt
    <3>3. QED
      BY <1>7, <1>8, <3>1, <3>2
  <2>5. CASE ~(d = c /\ type = "LEAVE")
    <3>1. Leaver(d) /\ d # c
      BY <1>1, <1>3, <1>8, <1>9, <2>5 DEF Leaver
    <3>2. Expects(d)
      BY <2>2, <3>1 DEF LeaveInv
    <3>3. ~AsksAt(d, k)'
      BY <1>4, <1>5, <3>1 DEF AsksAt
    <3>4. \A i \in p .. k - 1 :
             (AsksAt(d, i)' <=> AsksAt(d, i)) /\ (LeaveAt(d, i)' <=> LeaveAt(d, i))
      BY <2>1 DEF AsksAt, LeaveAt
    <3>5. CASE ~Listed(d) /\ \A i \in p .. k - 1 : ~AsksAt(d, i)
      <4>1. ~Listed(d)'
        BY <1>3, <3>5 DEF Listed
      <4>2. \A i \in p .. k : ~AsksAt(d, i)'
        BY <2>3, <3>3, <3>4, <3>5
      <4>3. QED
        BY <1>7, <1>8, <4>1, <4>2
    <3>6. ASSUME NEW j \in p .. k - 1, LeaveAt(d, j),
                 \A i \in j + 1 .. k - 1 : ~AsksAt(d, i)
          PROVE  Expects(d)'
      <4>1. j \in p .. k /\ LeaveAt(d, j)'
        BY <3>4, <3>6
      <4>2. ASSUME NEW i \in j + 1 .. k PROVE ~AsksAt(d, i)'
        <5>1. i = k \/ (i \in j + 1 .. k - 1 /\ i \in p .. k - 1)
          OBVIOUS
        <5>2. QED
          BY <3>3, <3>4, <3>6, <5>1
      <4>3. QED
        BY <1>7, <1>8, <4>1, <4>2
    <3>7. QED
      BY <1>6, <3>2, <3>5, <3>6
  <2>6. QED
    BY <2>4, <2>5
<1>10. last_processed' <= Count'
  BY <1>2, <1>3, <1>5, <1>8
<1>11. QED
  BY <1>9, <1>10 DEF LeaveInv

\* Steps that leave ring, table and the server's position alone, and start no leaving.
LEMMA LeavesQuiet ==
    ASSUME LeaveInv, UNCHANGED <<chat, table, last_processed>>, overrun => overrun',
           \A c \in Clients : Leaver(c)' => Leaver(c)
    PROVE  LeaveInv'
<1>1. UNCHANGED Count /\ \A i : UNCHANGED Slot(i)
  BY DEF Count, Slot
<1>2. Missed => Missed'
  BY <1>1 DEF Missed
<1>3. \A c : Expects(c) => Expects(c)'
  BY <1>1 DEF Expects, Listed, AsksAt, LeaveAt
<1>4. QED
  BY <1>1, <1>2, <1>3 DEF LeaveInv

\* Every step keeps what leavers expect.
LEMMA LeaveStep == ShmInv /\ TableInv /\ LeaveInv /\ [Next]_vars => LeaveInv'
<1> SUFFICES ASSUME ShmInv, TableInv, LeaveInv, [Next]_vars PROVE LeaveInv'
  OBVIOUS
<1>1. CASE Handling
  BY <1>1, HandlingLeaves
<1>2. CASE WakeUp
  <2>1. /\ UNCHANGED <<chat, table, cpc>>
        /\ overrun' = (overrun \/ Count - last_processed > H)
        /\ last_processed' = IF Count - last_processed > H THEN Count - H
                             ELSE last_processed
    BY <1>2 DEF WakeUp, Count, client
  <2>2. H \in Nat /\ Count \in Nat /\ last_processed \in Nat
    BY ShmAssumption DEF ShmInv, Shape, RingAt, Count
  <2>3. CASE Count - last_processed > H
    <3>1. overrun' /\ Count' = Count /\ last_processed' <= Count
      <4>1. overrun'
        BY <2>1, <2>3, Zenon
      <4>2. Count' = Count
        BY <2>1 DEF Count
      <4>3. last_processed' <= Count
        BY <2>1, <2>2, <2>3
      <4>4. QED
        BY <4>1, <4>2, <4>3
    <3>2. Missed' /\ last_processed' <= Count'
      BY <3>1 DEF Missed
    <3>3. QED
      BY <3>2 DEF LeaveInv
  <2>4. CASE ~(Count - last_processed > H)
    BY <2>1, <2>4, LeavesQuiet DEF Leaver
  <2>5. QED
    BY <2>3, <2>4
<1>3. CASE Unlock \/ PostSelf \/ StopServer \/ UNCHANGED vars
  <2>1. UNCHANGED <<chat, table, last_processed, overrun, cpc>>
    BY <1>3 DEF Unlock, PostSelf, StopServer, vars, server, client
  <2>2. QED
    BY <2>1, LeavesQuiet DEF Leaver
<1>4. ASSUME NEW c \in Clients,
             \/ PostJoin(c) \/ PostText(c) \/ PostLeave(c)
             \/ GiveUp(c) \/ JoinThread(c) \/ PollFinds(c) \/ PollMisses(c)
             \/ CatchUp(c) \/ ShowHistory(c) \/ Quit(c) \/ RecvTurn(c) \/ RecvEnds(c)
      PROVE  LeaveInv'
  <2>1. UNCHANGED <<chat, server>>
    BY <1>4 DEF PostJoin, PostText, PostLeave, Post, GiveUp, JoinThread, PollFinds,
                PollMisses, CatchUp, ShowHistory, Quit, RecvTurn, RecvEnds
  <2>2. cpc \in [Clients -> ClientPc]
    BY DEF ShmInv, Shape
  <2>3. \A d \in Clients : Leaver(d)' => Leaver(d)
    <3>1. CASE UNCHANGED cpc
      BY <3>1 DEF Leaver
    <3>2. CASE \E q \in {<<"join_post", "poll">>, <<"text_post", "chat">>,
                         <<"leave_post", "join_thread">>, <<"poll", "failed">>,
                         <<"poll", "catchup">>,
                         <<"join_thread", "left">>, <<"catchup", "show">>,
                         <<"show", "chat">>} :
                  cpc[c] = q[1] /\ cpc' = [cpc EXCEPT ![c] = q[2]]
      BY <2>2, <3>2 DEF Leaver
    <3>3. QED
      BY <1>4, <3>1, <3>2 DEF PostJoin, PostText, PostLeave, Post, GiveUp, JoinThread,
         PollFinds, PollMisses, CatchUp, ShowHistory, Quit, RecvTurn, RecvEnds
  <2>4. QED
    BY <2>1, <2>3, LeavesQuiet DEF server
<1>5. QED
  BY <1>1, <1>2, <1>3, <1>4, SendLeaves
     DEF Next, ServerStep, Handling, ClientStep, ClientLocked

\* Nobody is listed at first, and nobody has left.
LEMMA TableInit == Init => TableInv /\ LeaveInv
<1> SUFFICES ASSUME Init PROVE TableInv /\ LeaveInv
  OBVIOUS
<1>1. TableOk(table) /\ temp_last \in [Clients -> Nat]
  BY DEF Init, TableOk
<1>2. \A s \in 0 .. H - 1 : Honest(chat.msgs[s])
  BY DEF Init, Honest, Empty
<1>3. \A c \in Clients : ~Registered(c) /\ ~Leaver(c)
  BY DEF Init, Registered, Leaver
<1>4. last_processed <= Count
  BY DEF Init, Count
<1>5. QED
  BY <1>1, <1>2, <1>3, <1>4 DEF TableInv, LeaveInv, Seated

\* Everything together holds in every reachable state.
LEMMA TableInvariant == Spec => [](ShmInv /\ TableInv /\ LeaveInv)
<1>1. Init => ShmInv /\ TableInv /\ LeaveInv
  BY ShmInit, TableInit
<1>2. ShmInv /\ TableInv /\ LeaveInv /\ [Next]_vars => (ShmInv /\ TableInv /\ LeaveInv)'
  BY ShmStep, TableStep, LeaveStep
<1>3. QED
  BY <1>1, <1>2, PTL DEF Spec

-------------------------------------------------------------------------
(* What receiving threads display.                                       *)

\* The thread starts where main's collecting ends, and stays at the end of what it has
\* displayed.
DisplayInv ==
    /\ temp_last \in [Clients -> Nat]
    /\ rpc \in [Clients -> {"off", "on", "ended"}]
    /\ shown \in [Clients -> Int]
    /\ \A c \in Clients :
          /\ cpc[c] = "show" => temp_last[c] = my_last[c]
          /\ rpc[c] = "on" => /\ cpc[c] \in {"chat", "text_post", "leave_post", "join_thread"}
                             /\ shown[c] = my_last[c] - 1

\* What is within the ring is displayed under its own positions.
LEMMA DisplayedInPlace ==
    ASSUME ShmInv, NEW a \in Nat, a >= Count - H
    PROVE  Displayed(a, Count) = [k \in 1 .. Count - a |-> a + k - 1]
<1>1. H \in Nat \ {0} /\ Count \in Nat
  BY ShmAssumption DEF ShmInv, RingAt, Count
<1>2. ASSUME NEW k \in 1 .. Count - a PROVE Slot(a + k - 1).n = a + k - 1
  <2>1. a + k - 1 \in 0 .. Count - 1 /\ a + k - 1 >= Count - H
    BY <1>1
  <2>2. QED
    BY <2>1 DEF ShmInv, RingAt, Slot, Count
<1>3. QED
  BY <1>2 DEF Displayed

\* A turn goes on after what is on the screen, up to the end of the conversation.
LEMMA TurnInOrder ==
    ASSUME ShmInv, DisplayInv, NEW c \in Clients, rpc[c] = "on"
    PROVE  LET screen == <<shown[c]>> \o View(c)
           IN  StepByStep(screen) /\ screen[Len(screen)] = Count - 1
<1> DEFINE screen == <<shown[c]>> \o View(c)
           m == my_last[c]
<1>1. H \in Nat \ {0} /\ Count \in Nat /\ m \in Nat /\ m <= Count /\ shown[c] = m - 1
  BY ShmAssumption DEF ShmInv, Shape, RingAt, NotAhead, Count, DisplayInv
<1>2. CASE Count - m > H
  <2>1. Count - H \in Nat /\ Count - H >= Count - H /\ m < Count - H
    BY <1>1, <1>2
  <2>2. View(c) = <<Lost>> \o [k \in 1 .. H |-> Count - H + k - 1]
    <3>1. Count - (Count - H) = H
      BY <1>1
    <3>2. QED
      BY <1>2, <2>1, <3>1, DisplayedInPlace DEF View, Count
  <2> HIDE DEF m
  <2>3. /\ Len(screen) = H + 2
        /\ screen[1] = m - 1 /\ screen[2] = Lost
        /\ \A i \in 3 .. H + 2 : screen[i] = Count - H + i - 3
    <3> DEFINE tail == [k \in 1 .. H |-> Count - H + k - 1]
    <3>1. tail \in Seq(Int) /\ Len(tail) = H
      BY <1>1
    <3>2. \A k \in 1 .. H : tail[k] = Count - H + k - 1
      OBVIOUS
    <3>3. screen = <<m - 1>> \o (<<Lost>> \o tail)
      BY <1>1, <2>2
    <3> HIDE DEF tail, screen
    <3>4. /\ Len(screen) = H + 2 /\ screen[1] = m - 1 /\ screen[2] = Lost
          /\ \A i \in 3 .. H + 2 : screen[i] = tail[i - 2]
      BY <1>1, <3>1, <3>3 DEF Lost
    <3>5. QED
      BY <1>1, <3>2, <3>4
  <2> HIDE DEF screen
  <2>4. StepByStep(screen)
    BY <1>1, <2>1, <2>3 DEF StepByStep, Lost
  <2>5. QED
    BY <1>1, <2>3, <2>4 DEF screen
<1>3. CASE ~(Count - m > H)
  <2>1. m >= Count - H
    BY <1>1, <1>3
  <2>2. View(c) = [k \in 1 .. Count - m |-> m + k - 1]
    BY <1>1, <1>3, <2>1, DisplayedInPlace DEF View, Count
  <2> HIDE DEF m
  <2>3. /\ Len(screen) = Count - m + 1
        /\ \A i \in 1 .. Count - m + 1 : screen[i] = m + i - 2
    <3> DEFINE tail == [k \in 1 .. Count - m |-> m + k - 1]
    <3>1. tail \in Seq(Int) /\ Len(tail) = Count - m
      BY <1>1
    <3>2. \A k \in 1 .. Count - m : tail[k] = m + k - 1
      OBVIOUS
    <3>3. screen = <<m - 1>> \o tail
      BY <1>1, <2>2
    <3> HIDE DEF tail, screen
    <3>4. /\ Len(screen) = Count - m + 1 /\ screen[1] = m - 1
          /\ \A i \in 2 .. Count - m + 1 : screen[i] = tail[i - 1]
      BY <1>1, <3>1, <3>3
    <3>5. QED
      BY <1>1, <3>2, <3>4
  <2> HIDE DEF screen
  <2>4. StepByStep(screen)
    BY <1>1, <2>3 DEF StepByStep, Lost
  <2>5. QED
    BY <1>1, <2>3, <2>4 DEF screen
<1>4. QED
  BY <1>2, <1>3

\* Every step keeps it; the turns and the hand-over move the thread's position.
LEMMA DisplayStep == ShmInv /\ DisplayInv /\ TableInv' /\ [Next]_vars => DisplayInv'
<1> SUFFICES ASSUME ShmInv, DisplayInv, TableInv', [Next]_vars PROVE DisplayInv'
  OBVIOUS
<1> USE DEF DisplayInv
<1>1. /\ Count \in Nat /\ cpc \in [Clients -> ClientPc] /\ my_last \in [Clients -> Nat]
      /\ temp_last' \in [Clients -> Nat]
  BY DEF ShmInv, Shape, RingAt, Count, TableInv
<1>2. CASE ServerStep \/ StopServer \/ UNCHANGED vars
  <2>1. UNCHANGED <<cpc, joining, reader>>
    BY <1>2 DEF ServerStep, StopServer, vars, client, WakeUp, HandleJoin,
                HandleRefusedJoin, HandleLeave, HandleOther, Advance, Unlock, PostSelf
  <2>2. QED
    BY <2>1 DEF joining, reader
<1>3. ASSUME NEW c \in Clients,
             \/ SendJoin(c) \/ SendText(c) \/ SendLeave(c)
             \/ PostJoin(c) \/ PostText(c) \/ PostLeave(c) \/ JoinThread(c) \/ Quit(c)
      PROVE  DisplayInv'
  <2>1. /\ UNCHANGED <<joining, reader>>
        /\ \/ UNCHANGED cpc
           \/ /\ cpc[c] \in {"join", "join_post"}
              /\ \E to \in {"join_post", "poll"} : cpc' = [cpc EXCEPT ![c] = to]
           \/ \E to \in {"chat", "text_post", "leave_post", "join_thread"} :
                 cpc' = [cpc EXCEPT ![c] = to]
           \/ rpc[c] = "ended" /\ cpc' = [cpc EXCEPT ![c] = "left"]
    BY <1>3 DEF SendJoin, SendText, SendLeave, Send, PostJoin, PostText, PostLeave, Post,
                JoinThread, Quit, ClientPc
  <2>2. QED
    BY <1>1, <2>1 DEF joining, reader
<1>4. ASSUME NEW c \in Clients, PollFinds(c) \/ PollMisses(c) \/ GiveUp(c)
      PROVE  DisplayInv'
  <2>1. /\ UNCHANGED reader /\ cpc[c] = "poll"
        /\ \A d \in Clients \ {c} : temp_last'[d] = temp_last[d]
        /\ \/ UNCHANGED cpc
           \/ \E to \in {"catchup", "failed"} : cpc' = [cpc EXCEPT ![c] = to]
    BY <1>4 DEF PollFinds, PollMisses, GiveUp, ForgetRegistration
  <2>2. QED
    BY <1>1, <2>1 DEF reader
<1>5. ASSUME NEW c \in Clients, CatchUp(c) PROVE DisplayInv'
  <2>1. /\ cpc' = [cpc EXCEPT ![c] = "show"] /\ UNCHANGED <<rpc, shown>>
        /\ temp_last' = [temp_last EXCEPT ![c] = Count]
        /\ my_last' = [my_last EXCEPT ![c] = Count]
    BY <1>5 DEF CatchUp, Count
  <2>2. rpc[c] # "on"
    BY <1>5 DEF CatchUp
  <2>3. QED
    BY <1>1, <2>1, <2>2
<1>6. ASSUME NEW c \in Clients, ShowHistory(c) PROVE DisplayInv'
  <2>1. /\ cpc[c] = "show" /\ cpc' = [cpc EXCEPT ![c] = "chat"] /\ UNCHANGED my_last
        /\ rpc' = [rpc EXCEPT ![c] = "on"]
        /\ shown' = [shown EXCEPT ![c] = temp_last[c] - 1]
        /\ temp_last' = [temp_last EXCEPT ![c] = 0]
    BY <1>6 DEF ShowHistory, ForgetRegistration
  <2>2. QED
    BY <1>1, <2>1
<1>7. ASSUME NEW c \in Clients, RecvTurn(c) PROVE DisplayInv'
  <2>1. /\ rpc[c] = "on" /\ UNCHANGED <<cpc, joining, rpc>>
        /\ LET screen == <<shown[c]>> \o View(c)
           IN  shown' = [shown EXCEPT ![c] = screen[Len(screen)]]
        /\ my_last' = [my_last EXCEPT ![c] = Count]
    BY <1>7 DEF RecvTurn, Count
  <2>2. shown' = [shown EXCEPT ![c] = Count - 1]
    BY <2>1, TurnInOrder
  <2>3. cpc[c] # "show"
    BY <2>1
  <2>4. QED
    BY <1>1, <2>1, <2>2, <2>3 DEF joining
<1>8. ASSUME NEW c \in Clients, RecvEnds(c) PROVE DisplayInv'
  <2>1. /\ rpc' = [rpc EXCEPT ![c] = "ended"] /\ UNCHANGED <<cpc, joining>>
        /\ my_last' = [my_last EXCEPT ![c] = 0]
        /\ shown' = [shown EXCEPT ![c] = Lost]
        /\ rpc[c] = "on"
    BY <1>8 DEF RecvEnds
  <2>2. cpc[c] # "show"
    BY <2>1
  <2>3. QED
    BY <1>1, <2>1, <2>2 DEF joining, Lost
<1>9. QED
  BY <1>2, <1>3, <1>4, <1>5, <1>6, <1>7, <1>8
     DEF Next, ServerStep, ClientStep, ClientLocked

-------------------------------------------------------------------------
(* The theorems.                                                         *)

\* Readers and writers agree which slot holds which position, however often the
\* ring has wrapped (server.c:66-70, 178; client.c:133-135, 151).
THEOREM RingKept == Spec => []RingHoldsLast
<1>1. ShmInv => RingHoldsLast
  BY DEF ShmInv, RingAt, RingHoldsLast, Slot, Count
<1>2. QED
  BY <1>1, ShmInvariant, PTL

\* The server never sleeps over unread messages without a post to come
\* (server.c:166, 243-245; client.c:136-137).
THEOREM BacklogCovered == Spec => []EventCoversBacklog
<1>1. ShmInv => EventCoversBacklog
  BY DEF ShmInv, Backlog, EventCoversBacklog
<1>2. QED
  BY <1>1, ShmInvariant, PTL

\* The receiving thread displays each message once and in order, from where main's
\* history ends, or says that history was lost (client.c:140-159, 309-320).
THEOREM DisplayInOrder == Spec => []ShownInOrder
<1>1. ShmInv /\ DisplayInv => ShownInOrder
  BY TurnInOrder DEF ShownInOrder
<1>2. Init => ShmInv /\ TableInv /\ DisplayInv
  BY ShmInit, TableInit DEF Init, DisplayInv, Lost
<1>3. ShmInv /\ TableInv /\ DisplayInv /\ [Next]_vars
        => (ShmInv /\ TableInv /\ DisplayInv)'
  BY ShmStep, TableStep, DisplayStep
<1>4. QED
  BY <1>1, <1>2, <1>3, PTL DEF Spec

\* The server handles no request of a client twice or out of order (server.c:176-239).
THEOREM HandledInOrder == Spec => HandledOnce
<1>1. ASSUME ShmInv, HandleJoin \/ HandleRefusedJoin \/ HandleLeave \/ HandleOther,
             Next1.sender # Server
      PROVE  handled' > handled
  <2>1. HasNext /\ handled' = Next1.n
    BY <1>1 DEF HandleJoin, HandleRefusedJoin, HandleLeave, HandleOther, Advance
  <2>2. Next1.n = last_processed
    BY <1>1, <2>1, NextInPlace
  <2>3. QED
    BY <1>1, <2>1, <2>2 DEF ShmInv, Shape, Behind
<1>2. ShmInv /\ [Next]_vars
        => [(HandleJoin \/ HandleRefusedJoin \/ HandleLeave \/ HandleOther)
            /\ Next1.sender # Server => handled' > handled]_vars
  BY <1>1
<1>3. QED
  BY <1>2, ShmInvariant, PTL DEF Spec, HandledOnce
\* A registered client whose name nobody else uses is in the table until it leaves,
\* however the ring wraps between its request and its registration
\* (client.c:278-299, server.c:193).
THEOREM SoleNamesListed == Spec => []SoleNameListed
<1>1. TableInv => SoleNameListed
  BY DEF TableInv, Seated, SoleNameListed, Sole
<1>2. QED
  BY <1>1, TableInvariant, PTL

\* A server that sleeps with nothing to come has dropped every client that left, unless
\* it has missed a message (server.c:223-231).
THEOREM QuietIsDone == Spec => []QuietMeansDone
<1>1. ASSUME ShmInv, LeaveInv PROVE QuietMeansDone
  <2> SUFFICES ASSUME spc = "event", event = 0, Posting = {}, ~overrun,
                      NEW c \in Clients, cpc[c] \in {"join_thread", "left"}
               PROVE  ~Listed(c)
    BY DEF QuietMeansDone
  <2>1. last_processed \in Nat /\ Count \in Nat /\ ~(last_processed < Count)
    BY <1>1 DEF ShmInv, Shape, RingAt, Count, Backlog
  <2>2. last_processed .. Count - 1 = {}
    BY <2>1
  <2>3. ~Missed /\ Leaver(c)
    BY <2>2 DEF Missed, Leaver
  <2>4. Expects(c)
    BY <1>1, <2>3 DEF LeaveInv
  <2>5. QED
    BY <2>2, <2>4 DEF Expects
<1>2. QED
  BY <1>1, TableInvariant, PTL
=========================================================================
