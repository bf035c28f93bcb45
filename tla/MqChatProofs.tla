---------------------------- MODULE MqChatProofs ----------------------------
(***************************************************************************)
(* For every number of clients, every length of the queues and of the      *)
(* history: the types, what the history ring holds and in which order it   *)
(* is replayed, that a client that has left is on its way out of the       *)
(* table, and that a client gets its history, its welcome and then every   *)
(* text, in order.                                                         *)
(***************************************************************************)
EXTENDS MqChat, FiniteSetTheorems, TLAPS

-------------------------------------------------------------------------
(* Sequences.                                                            *)

\* The % of server.c:41 and 48-50, less than two laps on.
LEMMA Wrapped ==
    ASSUME NEW x \in 0 .. 2 * H - 1
    PROVE  x % H = (IF x < H THEN x ELSE x - H) /\ x % H \in 0 .. H - 1
<1>1. H \in Nat \ {0}
  BY MqAssumption
<1>2. CASE x < H
  BY <1>1, <1>2
<1>3. CASE x >= H
  BY <1>1, <1>3
<1>4. QED
  BY <1>1, <1>2, <1>3

\* The entries of a concatenation.
LEMMA Concat ==
    ASSUME NEW S, NEW s \in Seq(S), NEW t \in Seq(S)
    PROVE  /\ s \o t \in Seq(S)
           /\ Len(s \o t) = Len(s) + Len(t)
           /\ \A i \in 1 .. Len(s \o t) :
                 (s \o t)[i] = IF i <= Len(s) THEN s[i] ELSE t[i - Len(s)]
  OBVIOUS

\* A sequence written as a function.
LEMMA Listing ==
    ASSUME NEW S, NEW n \in Nat, NEW f, \A i \in 1 .. n : f[i] \in S
    PROVE  LET s == [i \in 1 .. n |-> f[i]] IN
           s \in Seq(S) /\ Len(s) = n /\ \A i \in 1 .. n : s[i] = f[i]
  OBVIOUS

\* What is left of a sequence when its head goes.
LEMMA Rest ==
    ASSUME NEW S, NEW s \in Seq(S), s # <<>>
    PROVE  /\ Head(s) = s[1] /\ Head(s) \in S /\ Len(s) \in Nat \ {0}
           /\ Tail(s) \in Seq(S) /\ Len(Tail(s)) = Len(s) - 1
           /\ \A i \in 1 .. Len(s) - 1 : Tail(s)[i] = s[i + 1]
  OBVIOUS

\* Scripts that only send.
Sends == {s \in Seq(Op) : \A i \in 1 .. Len(s) : s[i].do = "send"}

LEMMA SendIsOp ==
    ASSUME NEW c \in Clients, NEW m \in ToClient
    PROVE  SendOp(c, m) \in Op /\ SendOp(c, m).do = "send"
  BY DEF SendOp, Op

\* A broadcast is a script of sends.
LEMMA BroadcastSends ==
    ASSUME NEW m \in ToClient, NEW others \in Seq(Clients)
    PROVE  Broadcast(m, others) \in Sends
<1>1. \A i \in 1 .. Len(others) : SendOp(others[i], m) \in Op /\ SendOp(others[i], m).do = "send"
  BY SendIsOp
<1>2. QED
  BY <1>1 DEF Broadcast, Sends

\* So is the replay of the history.
LEMMA HistorySends ==
    ASSUME TypeOK, NEW c \in Clients
    PROVE  SendHistory(c) \in Sends
<1> DEFINE start == (hist_head - hist_count + H) % H
<1>1. /\ H \in Nat \ {0} /\ hist_count \in Nat
      /\ hist_head - hist_count + H \in 0 .. 2 * H - 1
      /\ hist_count <= H
  BY MqAssumption DEF TypeOK
<1>2. start \in 0 .. H - 1
  BY <1>1, Wrapped
<1> HIDE DEF start
<1>3. ASSUME NEW i \in 1 .. hist_count
      PROVE  Msg("HIST", hist_buf[(start + i - 1) % H]) \in ToClient
  <2>1. start + i - 1 \in 0 .. 2 * H - 1
    BY <1>1, <1>2
  <2>2. hist_buf[(start + i - 1) % H] \in Nat
    BY <2>1, Wrapped DEF TypeOK
  <2>3. QED
    BY <2>2 DEF Msg, ToClient
<1>4. \A i \in 1 .. hist_count :
         LET op == SendOp(c, Msg("HIST", hist_buf[(start + i - 1) % H]))
         IN  op \in Op /\ op.do = "send"
  BY <1>3, SendIsOp
<1>5. QED
  BY <1>1, <1>4 DEF SendHistory, Sends, start

\* The table without an entry.
LEMMA WithoutType ==
    ASSUME table \in Seq(Clients), NEW c \in Clients
    PROVE  /\ Without(c) \in Seq(Clients)
           /\ Len(Without(c)) = IF Listed(c) THEN Len(table) - 1 ELSE Len(table)
<1>1. CASE Listed(c)
  <2> DEFINE idx == CHOOSE i \in 1 .. Len(table) : table[i] = c
  <2>1. idx \in 1 .. Len(table)
    BY <1>1 DEF Listed
  <2> HIDE DEF idx
  <2>2. Without(c) = [i \in 1 .. Len(table) - 1 |->
                        IF i < idx THEN table[i] ELSE table[i + 1]]
    BY <1>1 DEF Without, idx
  <2>3. Len(table) - 1 \in Nat
    BY <2>1
  <2>4. \A i \in 1 .. Len(table) - 1 :
           (IF i < idx THEN table[i] ELSE table[i + 1]) \in Clients
    BY <2>1
  <2>5. QED
    BY <1>1, <2>2, <2>3, <2>4
<1>2. CASE ~Listed(c)
  BY <1>2 DEF Without
<1>3. QED
  BY <1>1, <1>2

\* Who is left when an entry goes.
LEMMA WithoutEntries ==
    ASSUME table \in Seq(Clients), NEW c \in Clients,
           \A i, j \in 1 .. Len(table) : table[i] = table[j] => i = j
    PROVE  LET t == Without(c) IN
           /\ \A i, j \in 1 .. Len(t) : t[i] = t[j] => i = j
           /\ \A i \in 1 .. Len(t) : t[i] # c /\ Listed(t[i])
<1>1. CASE Listed(c)
  <2> DEFINE idx == CHOOSE i \in 1 .. Len(table) : table[i] = c
             old(i) == IF i < idx THEN i ELSE i + 1
             t == Without(c)
  <2>1. idx \in 1 .. Len(table) /\ table[idx] = c
    BY <1>1 DEF Listed
  <2> HIDE DEF idx
  <2>2. t = [i \in 1 .. Len(table) - 1 |-> IF i < idx THEN table[i] ELSE table[i + 1]]
    BY <1>1 DEF Without, idx
  <2>3. Len(t) = Len(table) - 1 /\ Len(table) \in Nat
    BY <1>1, WithoutType
  <2>4. ASSUME NEW i \in 1 .. Len(t)
        PROVE  old(i) \in 1 .. Len(table) /\ t[i] = table[old(i)] /\ old(i) # idx
    BY <2>1, <2>2, <2>3
  <2> HIDE DEF t
  <2>5. ASSUME NEW i \in 1 .. Len(t), NEW j \in 1 .. Len(t), t[i] = t[j] PROVE i = j
    <3>1. old(i) = old(j)
      BY <2>4, <2>5
    <3>2. QED
      BY <2>1, <2>3, <3>1
  <2>6. ASSUME NEW i \in 1 .. Len(t) PROVE t[i] # c /\ Listed(t[i])
    <3>1. old(i) \in 1 .. Len(table) /\ t[i] = table[old(i)] /\ old(i) # idx
      BY <2>4
    <3> HIDE DEF old
    <3>2. QED
      BY <2>1, <3>1 DEF Listed
  <2>7. QED
    BY <2>5, <2>6 DEF t
<1>2. CASE ~Listed(c)
  BY <1>2 DEF Without, Listed
<1>3. QED
  BY <1>1, <1>2

-------------------------------------------------------------------------
(* Scripts.                                                              *)

\* What the steps of a script are: sends, and at most one change of the table, op.
OneUpdate(s, op) ==
    /\ \A i \in 1 .. Len(s) : s[i].do # "send" => s[i] = op
    /\ \A i, j \in 1 .. Len(s) : s[i].do # "send" /\ s[j].do # "send" => i = j

\* One more send is a script of sends.
LEMMA SendsMore ==
    ASSUME NEW a \in Sends, NEW op \in Op, op.do = "send"
    PROVE  a \o <<op>> \in Sends
<1>1. a \in Seq(Op) /\ <<op>> \in Seq(Op) /\ Len(<<op>>) = 1 /\ <<op>>[1] = op
  BY DEF Sends
<1>2. /\ a \o <<op>> \in Seq(Op) /\ Len(a \o <<op>>) = Len(a) + 1
      /\ \A i \in 1 .. Len(a) + 1 : (a \o <<op>>)[i] = IF i <= Len(a) THEN a[i] ELSE op
  BY <1>1, Concat
<1> DEFINE s == a \o <<op>>
<1>3. s \in Seq(Op) /\ Len(s) = Len(a) + 1 /\ Len(a) \in Nat
      /\ \A i \in 1 .. Len(a) + 1 : s[i] = IF i <= Len(a) THEN a[i] ELSE op
  BY <1>1, <1>2
<1> HIDE DEF s
<1>4. \A i \in 1 .. Len(s) : s[i].do = "send"
  BY <1>3 DEF Sends
<1>5. s \in Sends
  BY <1>3, <1>4 DEF Sends
<1>6. QED
  BY <1>5 DEF s

\* Sends around one change of the table.
LEMMA Around ==
    ASSUME NEW a \in Sends, NEW b \in Sends, NEW op \in Op, op.do # "send",
           NEW s, s = (a \o <<op>>) \o b
    PROVE  /\ s \in Seq(Op)
           /\ OneUpdate(s, op)
           /\ \E i \in 1 .. Len(s) : s[i] = op
<1>1. /\ a \in Seq(Op) /\ b \in Seq(Op) /\ <<op>> \in Seq(Op) /\ Len(<<op>>) = 1
      /\ \A i \in 1 .. Len(a) : a[i].do = "send"
      /\ \A i \in 1 .. Len(b) : b[i].do = "send"
  BY DEF Sends
<1>2. /\ a \o <<op>> \in Seq(Op) /\ Len(a \o <<op>>) = Len(a) + 1
      /\ \A i \in 1 .. Len(a) : (a \o <<op>>)[i] = a[i]
      /\ (a \o <<op>>)[Len(a) + 1] = op
  BY <1>1, Concat
<1>3. /\ s \in Seq(Op) /\ Len(s) = Len(a) + 1 + Len(b)
      /\ \A i \in 1 .. Len(s) : s[i] = IF i <= Len(a) + 1 THEN (a \o <<op>>)[i]
                                       ELSE b[i - (Len(a) + 1)]
  BY <1>1, <1>2, Concat
<1>4. Len(a) \in Nat /\ Len(b) \in Nat
  BY <1>1
<1>5. s[Len(a) + 1] = op /\ Len(a) + 1 \in 1 .. Len(s)
  BY <1>2, <1>3, <1>4
<1>6. ASSUME NEW i \in 1 .. Len(s), i # Len(a) + 1 PROVE s[i].do = "send"
  <2>1. CASE i <= Len(a)
    BY <1>1, <1>2, <1>3, <1>4, <2>1
  <2>2. CASE i > Len(a) + 1
    BY <1>1, <1>3, <1>4, <2>2
  <2>3. QED
    BY <1>4, <1>6, <2>1, <2>2
<1>7. OneUpdate(s, op)
  BY <1>5, <1>6 DEF OneUpdate
<1>8. QED
  BY <1>3, <1>5, <1>7

\* The answer to a request adds its client, if the table has neither it nor too many.
LEMMA JoinShape ==
    ASSUME TypeOK, NEW c \in Clients
    PROVE  /\ JoinScript(c) \in Seq(Op)
           /\ OneUpdate(JoinScript(c), [do |-> "add", to |-> c])
           /\ JoinScript(c) # <<>> => ~Listed(c) /\ Len(table) < MaxClients
<1>1. CASE Listed(c) \/ Len(table) >= MaxClients \/ ~CanOpen(c)
  BY <1>1 DEF JoinScript, OneUpdate
<1>2. CASE ~ (Listed(c) \/ Len(table) >= MaxClients \/ ~CanOpen(c))
  <2> DEFINE op == [do |-> "add", to |-> c]
             ok == SendOp(c, Msg("JOIN_OK", 0))
             a == SendHistory(c)
             b == Broadcast(Msg("JOIN_NOTIFY", 0), Without(c))
  <2>1. a \in Sends
    BY HistorySends
  <2>2. b \in Sends
    <3>1. Msg("JOIN_NOTIFY", 0) \in ToClient /\ Without(c) \in Seq(Clients)
      BY WithoutType DEF Msg, ToClient, TypeOK
    <3>2. QED
      BY <3>1, BroadcastSends
  <2>3. op \in Op /\ op.do = "add" /\ op.do # "send"
    BY DEF Op
  <2>4. ok \in Op /\ ok.do = "send"
    <3>1. Msg("JOIN_OK", 0) \in ToClient
      BY DEF Msg, ToClient
    <3>2. QED
      BY <3>1, SendIsOp
  <2>5. JoinScript(c) = ((a \o <<ok>>) \o <<op>>) \o b
    BY <1>2 DEF JoinScript
  <2> HIDE DEF op, ok, a, b
  <2>6. a \o <<ok>> \in Sends
    BY <2>1, <2>4, SendsMore
  <2>8. JoinScript(c) \in Seq(Op) /\ OneUpdate(JoinScript(c), op)
    <3>1. PICK front \in Sends : JoinScript(c) = (front \o <<op>>) \o b
      BY <2>5, <2>6
    <3>2. QED
      BY <2>2, <2>3, <3>1, Around, ZenonT(40)
  <2>9. Len(table) \in Nat /\ MaxClients \in Nat
    BY MqAssumption DEF TypeOK
  <2>10. QED
    BY <1>2, <2>8, <2>9 DEF op
<1>3. QED
  BY <1>1, <1>2

\* The answer to LEAVE removes its client if it is in the table.
LEMMA LeaveShape ==
    ASSUME TypeOK, NEW c \in Clients
    PROVE  LET op == [do |-> "remove", to |-> c] IN
           /\ LeaveScript(c) \in Seq(Op)
           /\ OneUpdate(LeaveScript(c), op)
           /\ Listed(c) => \E i \in 1 .. Len(LeaveScript(c)) : LeaveScript(c)[i] = op
<1> DEFINE op == [do |-> "remove", to |-> c]
           a == Broadcast(Msg("LEAVE_NOTIFY", 0), Without(c))
<1>1. CASE ~Listed(c)
  BY <1>1 DEF LeaveScript, OneUpdate
<1>2. CASE Listed(c)
  <2>1. a \in Sends
    <3>1. Msg("LEAVE_NOTIFY", 0) \in ToClient /\ Without(c) \in Seq(Clients)
      BY WithoutType DEF Msg, ToClient, TypeOK
    <3>2. QED
      BY <3>1, BroadcastSends
  <2>2. op \in Op /\ op.do # "send" /\ <<>> \in Sends
    BY DEF Op, Sends
  <2>3. LeaveScript(c) = a \o <<op>>
    BY <1>2 DEF LeaveScript
  <2> HIDE DEF op, a
  <2>4. a \o <<op>> = (a \o <<op>>) \o <<>>
    BY <2>1, <2>2 DEF Sends
  <2>5. /\ LeaveScript(c) \in Seq(Op)
        /\ OneUpdate(LeaveScript(c), op)
        /\ \E i \in 1 .. Len(LeaveScript(c)) : LeaveScript(c)[i] = op
    <3> DEFINE b == <<>>
               s == LeaveScript(c)
    <3>1. s = (a \o <<op>>) \o b /\ b \in Sends
      BY <2>2, <2>3, <2>4
    <3> HIDE DEF b, s
    <3>2. s \in Seq(Op) /\ OneUpdate(s, op)
      BY <2>1, <2>2, <3>1, Around
    <3>3. \E i \in 1 .. Len(s) : s[i] = op
      BY <2>1, <2>2, <3>1, Around
    <3>4. QED
      BY <3>2, <3>3 DEF s
  <2>6. QED
    BY <2>5 DEF op
<1>3. QED
  BY <1>1, <1>2

-------------------------------------------------------------------------
(* The inductive invariant.                                              *)

\* The script belongs to one message and changes the table at most once; what it adds
\* is not there and has room.
ScriptInv ==
    /\ spc \in {"check", "receive"} => script = <<>>
    /\ \A i, j \in 1 .. Len(script) :
          script[i].do # "send" /\ script[j].do # "send" => i = j
    /\ \A i \in 1 .. Len(script) :
          script[i].do = "add" => ~Listed(script[i].to) /\ Len(table) < MaxClients

\* No client is in the table twice.
Distinct == \A i, j \in 1 .. Len(table) : table[i] = table[j] => i = j

Asks(m, c)   == m = [type |-> "JOIN_REQ", from |-> c]
Leaves(m, c) == m = [type |-> "LEAVE", from |-> c]

\* A client asks before it leaves.
AskedFirst ==
    \A c \in Clients : cpc[c] \in {"unlink", "gone"} =>
        \A i \in 1 .. Len(sq) : Asks(sq[i], c) =>
            \E j \in i + 1 .. Len(sq) : Leaves(sq[j], c)

MqInv == TypeOK /\ ScriptInv /\ Distinct /\ AskedFirst /\ LeaverInFlight

\* The script after its first step.
LEMMA ScriptRest ==
    ASSUME TypeOK, ScriptInv, spc = "run", script # <<>>, script' = Tail(script)
    PROVE  /\ script' \in Seq(Op)
           /\ \A i \in 1 .. Len(script') : i + 1 \in 1 .. Len(script) /\ script'[i] = script[i + 1]
           /\ Head(script) \in Op /\ Head(script) = script[1]
           /\ \A i \in 2 .. Len(script) : i - 1 \in 1 .. Len(script') /\ script'[i - 1] = script[i]
           /\ \A i, j \in 1 .. Len(script') :
                 script'[i].do # "send" /\ script'[j].do # "send" => i = j
           /\ Head(script).do # "send" =>
                 \A i \in 1 .. Len(script') : script'[i].do = "send"
<1>1. script \in Seq(Op)
  BY DEF TypeOK
<1>2. /\ script' \in Seq(Op) /\ Len(script') = Len(script) - 1 /\ Len(script) \in Nat \ {0}
      /\ Head(script) \in Op /\ Head(script) = script[1]
      /\ \A i \in 1 .. Len(script) - 1 : script'[i] = script[i + 1]
  BY <1>1, Rest
<1>3. \A i \in 1 .. Len(script') : i + 1 \in 1 .. Len(script) /\ script'[i] = script[i + 1]
  BY <1>2
<1>4. \A i \in 2 .. Len(script) : i - 1 \in 1 .. Len(script') /\ script'[i - 1] = script[i]
  <2> SUFFICES ASSUME NEW i \in 2 .. Len(script)
               PROVE  i - 1 \in 1 .. Len(script') /\ script'[i - 1] = script[i]
    OBVIOUS
  <2>1. i - 1 \in 1 .. Len(script) - 1 /\ (i - 1) + 1 = i
    BY <1>2
  <2>2. QED
    BY <1>2, <2>1
<1>5. \A i, j \in 1 .. Len(script') :
        script'[i].do # "send" /\ script'[j].do # "send" => i = j
  <2> SUFFICES ASSUME NEW i \in 1 .. Len(script'), NEW j \in 1 .. Len(script'),
                      script'[i].do # "send", script'[j].do # "send"
               PROVE  i = j
    OBVIOUS
  <2>1. i + 1 = j + 1
    BY <1>3 DEF ScriptInv
  <2>2. QED
    BY <2>1
<1>6. Head(script).do # "send" => \A i \in 1 .. Len(script') : script'[i].do = "send"
  <2> SUFFICES ASSUME script[1].do # "send", NEW i \in 1 .. Len(script'), script'[i].do # "send"
               PROVE  FALSE
    BY <1>2
  <2>1. i + 1 = 1
    BY <1>2, <1>3 DEF ScriptInv
  <2>2. QED
    BY <2>1
<1>7. QED
  BY <1>2, <1>3, <1>4, <1>5, <1>6

-------------------------------------------------------------------------
(* The types.                                                            *)

\* A message appended to a queue with room.
LEMMA Appended ==
    ASSUME NEW S, NEW s \in Seq(S), NEW m \in S
    PROVE  /\ Append(s, m) \in Seq(S) /\ Len(Append(s, m)) = Len(s) + 1
           /\ Append(s, m)[Len(s) + 1] = m
           /\ \A i \in 1 .. Len(s) : Append(s, m)[i] = s[i]
  OBVIOUS

\* What the server makes of the message it receives.
LEMMA ReceiveTypes ==
    ASSUME TypeOK, Receive
    PROVE  /\ sq' \in Seq(ToServer) /\ Len(sq') = Len(sq) - 1 /\ Len(sq) \in Nat \ {0}
           /\ \A i \in 1 .. Len(sq') : i + 1 \in 1 .. Len(sq) /\ sq'[i] = sq[i + 1]
           /\ sq[1] \in ToServer
           /\ \/ /\ sq[1].type = "JOIN_REQ" /\ UNCHANGED history
                 /\ script' = JoinScript(sq[1].from)
              \/ /\ sq[1].type = "LEAVE" /\ UNCHANGED history
                 /\ script' = LeaveScript(sq[1].from)
              \/ sq[1].type = "TEXT" /\ HistoryAdd /\ script' \in Sends
<1>1. /\ sq # <<>> /\ sq' = Tail(sq) /\ sq \in Seq(ToServer)
  BY DEF Receive, TypeOK
<1>2. /\ sq' \in Seq(ToServer) /\ Len(sq') = Len(sq) - 1 /\ Len(sq) \in Nat \ {0}
      /\ Head(sq) = sq[1] /\ Head(sq) \in ToServer
      /\ \A i \in 1 .. Len(sq) - 1 : sq'[i] = sq[i + 1]
  BY <1>1, Rest
<1>3. \A i \in 1 .. Len(sq') : i + 1 \in 1 .. Len(sq) /\ sq'[i] = sq[i + 1]
  BY <1>2
<1>4. CASE sq[1].type = "JOIN_REQ"
  BY <1>2, <1>3, <1>4 DEF Receive
<1>5. CASE sq[1].type = "LEAVE"
  BY <1>2, <1>3, <1>5 DEF Receive
<1>6. CASE sq[1].type = "TEXT"
  <2>1. HistoryAdd /\ script' = Broadcast(Msg("TEXT", stored'), table)
    BY <1>2, <1>6 DEF Receive
  <2>2. Msg("TEXT", stored') \in ToClient
    BY <2>1 DEF HistoryAdd, TypeOK, Msg, ToClient
  <2>3. script' \in Sends
    BY <2>1, <2>2, BroadcastSends DEF TypeOK
  <2>4. QED
    BY <1>2, <1>3, <1>6, <2>1, <2>3
<1>7. QED
  BY <1>2, <1>4, <1>5, <1>6 DEF ToServer

\* A text that joins the history keeps the ring's types.
LEMMA HistoryTypes ==
    ASSUME TypeOK, HistoryAdd
    PROVE  /\ hist_buf' \in [0 .. H - 1 -> Nat] /\ hist_head' \in 0 .. H - 1
           /\ hist_count' \in 0 .. H /\ stored' \in Nat
<1>1. H \in Nat \ {0} /\ hist_head + 1 \in 0 .. 2 * H - 1
  BY MqAssumption DEF TypeOK
<1>2. (hist_head + 1) % H \in 0 .. H - 1
  BY <1>1, Wrapped
<1>3. QED
  BY <1>1, <1>2 DEF HistoryAdd, TypeOK

\* Every step keeps the types.
LEMMA MqTypeStep == TypeOK /\ ScriptInv /\ [Next]_vars => TypeOK'
<1> SUFFICES ASSUME TypeOK, ScriptInv, [Next]_vars PROVE TypeOK'
  OBVIOUS
<1>0. ServerCap \in Nat /\ ClientCap \in Nat /\ MaxTexts \in Nat /\ MaxClients \in Nat
  BY MqAssumption
<1>1. CASE Receive
  <2>1. /\ sq' \in Seq(ToServer) /\ Len(sq') <= ServerCap
    BY <1>0, <1>1, ReceiveTypes, SMTT(30) DEF TypeOK
  <2>2. sq[1].from \in Clients
    BY <1>1, ReceiveTypes DEF ToServer
  <2>3. script' \in Seq(Op)
    BY <1>1, <2>2, ReceiveTypes, JoinShape, LeaveShape DEF Sends
  <2>4. /\ hist_buf' \in [0 .. H - 1 -> Nat] /\ hist_head' \in 0 .. H - 1
        /\ hist_count' \in 0 .. H /\ stored' \in Nat
    BY <1>1, ReceiveTypes, HistoryTypes DEF TypeOK, history
  <2>5. spc' = "run" /\ UNCHANGED <<cq, table, running, caught, client>>
    BY <1>1 DEF Receive
  <2>6. QED
    BY <2>1, <2>3, <2>4, <2>5 DEF TypeOK, ServerPc, client
<1>2. CASE SendNext
  <2>1. script' \in Seq(Op) /\ Head(script) \in Op
    BY <1>2, ScriptRest DEF SendNext
  <2>2. PICK c \in Clients, m \in ToClient :
           Len(cq[c]) < ClientCap /\ cq' = [cq EXCEPT ![c] = Append(cq[c], m)]
    BY <1>2, <2>1 DEF SendNext, Op
  <2>3. Append(cq[c], m) \in Seq(ToClient) /\ Len(Append(cq[c], m)) <= ClientCap
    BY <1>0, <2>2, Appended DEF TypeOK
  <2>4. cq' \in [Clients -> Seq(ToClient)] /\ \A d \in Clients : Len(cq'[d]) <= ClientCap
    BY <2>2, <2>3 DEF TypeOK
  <2>5. UNCHANGED <<sq, spc, table, running, caught, history, client>>
    BY <1>2 DEF SendNext
  <2>6. QED
    BY <2>1, <2>4, <2>5 DEF TypeOK, history, client
<1>3. CASE UpdateTable
  <2>1. script' \in Seq(Op) /\ Head(script) \in Op /\ Head(script) = script[1]
        /\ 1 \in 1 .. Len(script)
    <3>1. script' \in Seq(Op) /\ Head(script) \in Op /\ Head(script) = script[1]
      BY <1>3, ScriptRest DEF UpdateTable
    <3>2. 1 \in 1 .. Len(script)
      BY <1>3, Rest DEF UpdateTable, TypeOK
    <3>3. QED
      BY <3>1, <3>2
  <2>2. table' \in Seq(Clients) /\ Len(table') <= MaxClients
    <3>1. Head(script).to \in Clients
      BY <2>1 DEF Op
    <3>2. CASE Head(script).do = "add" /\ table' = Append(table, Head(script).to)
      <4>1. Len(table) < MaxClients
        BY <2>1, <3>2 DEF ScriptInv
      <4>2. QED
        BY <1>0, <3>1, <3>2, <4>1, Appended DEF TypeOK
    <3>3. CASE table' = Without(Head(script).to)
      <4>1. table \in Seq(Clients) /\ Len(table) <= MaxClients /\ Len(table) \in Nat
        BY DEF TypeOK
      <4>2. QED
        BY <1>0, <3>1, <3>3, <4>1, WithoutType
    <3>4. QED
      BY <1>3, <3>2, <3>3 DEF UpdateTable
  <2>3. UNCHANGED <<queues, spc, running, caught, history, client>>
    BY <1>3 DEF UpdateTable
  <2>4. QED
    BY <2>1, <2>2, <2>3 DEF TypeOK, queues, history, client
<1>4. CASE Check \/ Done \/ ReceiveFails \/ Kill
  BY <1>4 DEF Check, Done, ReceiveFails, Kill, TypeOK, ServerPc, queues, history, client
<1>5. CASE Interrupt
  <2>1. script' \in Seq(Op)
    BY <1>5, ScriptRest DEF Interrupt, TypeOK
  <2>2. spc' \in ServerPc
    BY <1>5 DEF Interrupt, TypeOK, ServerPc
  <2>3. /\ caught' \in 0 .. 2 /\ running' = FALSE
        /\ UNCHANGED <<queues, table, history, client>>
    BY <1>5 DEF Interrupt, TypeOK
  <2>4. QED
    BY <2>1, <2>2, <2>3 DEF TypeOK, queues, history, client
<1>6. ASSUME NEW c \in Clients, NEW type \in {"JOIN_REQ", "TEXT", "LEAVE"}, Post(c, type)
      PROVE  sq' \in Seq(ToServer) /\ Len(sq') <= ServerCap
  <2>1. [type |-> type, from |-> c] \in ToServer
    BY DEF ToServer
  <2>2. QED
    BY <1>0, <1>6, <2>1, Appended DEF Post, TypeOK
<1>7. ASSUME NEW c \in Clients, Join(c) \/ SendText(c) \/ SendLeave(c)
      PROVE  TypeOK'
  <2>1. sq' \in Seq(ToServer) /\ Len(sq') <= ServerCap
    BY <1>6, <1>7 DEF Join, SendText, SendLeave
  <2>2. texts' \in 0 .. MaxTexts
    BY <1>0, <1>7, SMTT(30) DEF Join, SendText, SendLeave, TypeOK
  <2>3. UNCHANGED <<cq, server, alive, got>>
    BY <1>7 DEF Join, SendText, SendLeave
  <2>4. cpc' \in [Clients -> ClientPc] /\ rpc' \in [Clients -> {"off", "on", "ended"}]
    BY <1>7 DEF Join, SendText, SendLeave, TypeOK, ClientPc
  <2>5. QED
    BY <2>1, <2>2, <2>3, <2>4 DEF TypeOK, server, history
<1>8. ASSUME NEW c \in Clients, RecvTurn(c) PROVE TypeOK'
  <2>1. cq[c] \in Seq(ToClient) /\ cq[c] # <<>> /\ got[c] \in Seq(ToClient)
        /\ Len(cq[c]) <= ClientCap
    BY <1>8 DEF RecvTurn, TypeOK
  <2>2. /\ Tail(cq[c]) \in Seq(ToClient) /\ Len(Tail(cq[c])) <= ClientCap
        /\ Append(got[c], Head(cq[c])) \in Seq(ToClient)
    BY <1>0, <2>1, Rest, Appended
  <2>3. QED
    BY <1>8, <2>2 DEF RecvTurn, TypeOK, server, history
<1>9. ASSUME NEW c \in Clients,
             JoinFails(c) \/ Quit(c) \/ RecvEnds(c) \/ Unlink(c) \/ Killed(c)
      PROVE  TypeOK'
  BY <1>9 DEF JoinFails, Quit, RecvEnds, Unlink, Killed, TypeOK, ClientPc, queues,
              server, history
<1>10. CASE UNCHANGED vars
  BY <1>10 DEF vars, queues, server, history, client, TypeOK
<1>11. QED
  BY <1>1, <1>2, <1>3, <1>4, <1>5, <1>7, <1>8, <1>9, <1>10
     DEF Next, ServerStep, ClientStep

-------------------------------------------------------------------------
(* Who has left is on the way out.                                       *)

\* A LEAVE of c waits in the server's queue.
InQueue(c) == \E i \in 1 .. Len(sq) : Leaves(sq[i], c)

InScript(c) == \E i \in 1 .. Len(script) : script[i] = [do |-> "remove", to |-> c]

LEMMA LeavingParts == \A c : Leaving(c) <=> InQueue(c) \/ InScript(c)
  BY DEF Leaving, InQueue, InScript, Leaves

Gone == {"unlink", "gone"}

\* The server takes a message: what it asks for becomes the script.
LEMMA ReceiveKeeps == ASSUME MqInv, Receive, TypeOK' PROVE MqInv'
<1> USE DEF MqInv
<1> DEFINE d == sq[1].from
<1>1. /\ sq' \in Seq(ToServer) /\ Len(sq') = Len(sq) - 1 /\ Len(sq) \in Nat \ {0}
      /\ \A i \in 1 .. Len(sq') : i + 1 \in 1 .. Len(sq) /\ sq'[i] = sq[i + 1]
      /\ sq[1] \in ToServer /\ d \in Clients
      /\ sq[1] = [type |-> sq[1].type, from |-> d]
  BY ReceiveTypes DEF ToServer
<1>2. /\ spc = "receive" /\ script = <<>> /\ spc' = "run"
      /\ UNCHANGED <<table, cpc>>
  BY DEF Receive, ScriptInv, client
<1>3. \/ /\ sq[1].type = "JOIN_REQ" /\ OneUpdate(script', [do |-> "add", to |-> d])
         /\ script' # <<>> => ~Listed(d) /\ Len(table) < MaxClients
      \/ /\ sq[1].type = "LEAVE" /\ OneUpdate(script', [do |-> "remove", to |-> d])
         /\ Listed(d) => \E i \in 1 .. Len(script') : script'[i] = [do |-> "remove", to |-> d]
      \/ sq[1].type = "TEXT" /\ \A i \in 1 .. Len(script') : script'[i].do = "send"
  <2>1. TypeOK
    OBVIOUS
  <2>2. /\ OneUpdate(JoinScript(d), [do |-> "add", to |-> d])
        /\ JoinScript(d) # <<>> => ~Listed(d) /\ Len(table) < MaxClients
    BY <1>1, <2>1, JoinShape
  <2>3. /\ OneUpdate(LeaveScript(d), [do |-> "remove", to |-> d])
        /\ Listed(d) =>
              \E i \in 1 .. Len(LeaveScript(d)) : LeaveScript(d)[i] = [do |-> "remove", to |-> d]
    BY <1>1, <2>1, LeaveShape
  <2> HIDE DEF MqInv
  <2>4. QED
    BY <2>1, <2>2, <2>3, ReceiveTypes, SMTT(30) DEF Sends
<1>4. \A i \in 1 .. Len(script') :
         script'[i].do = "add" => script'[i].to = d /\ sq[1].type = "JOIN_REQ"
                                  /\ ~Listed(d) /\ Len(table) < MaxClients
  <2>1. \A i \in 1 .. Len(script') : script' # <<>>
    BY SMTT(30) DEF TypeOK
  <2>2. QED
    BY <1>3, <2>1 DEF OneUpdate
<1>5. ScriptInv'
  <2>1. \A i, j \in 1 .. Len(script') :
           script'[i].do # "send" /\ script'[j].do # "send" => i = j
    BY <1>3 DEF OneUpdate
  <2>2. QED
    BY <1>2, <1>4, <2>1 DEF ScriptInv, Listed
<1>6. Distinct'
  BY <1>2 DEF Distinct
<1>7. \A c \in Clients : InQueue(c) => InQueue(c)' \/ (c = d /\ sq[1].type = "LEAVE")
  <2> SUFFICES ASSUME NEW c \in Clients, NEW i \in 1 .. Len(sq), Leaves(sq[i], c)
               PROVE  InQueue(c)' \/ (c = d /\ sq[1].type = "LEAVE")
    BY DEF InQueue
  <2>1. CASE i = 1
    BY <2>1 DEF Leaves
  <2>2. CASE i # 1
    <3>1. i - 1 \in 1 .. Len(sq') /\ (i - 1) + 1 = i
      BY <1>1, <2>2
    <3>2. sq'[i - 1] = sq[i]
      BY <1>1, <3>1
    <3>3. QED
      BY <3>1, <3>2 DEF InQueue
  <2>3. QED
    BY <2>1, <2>2
<1>8. AskedFirst'
  <2> SUFFICES ASSUME NEW c \in Clients, cpc[c] \in Gone,
                      NEW i \in 1 .. Len(sq'), Asks(sq'[i], c)
               PROVE  \E j \in i + 1 .. Len(sq') : Leaves(sq'[j], c)
    BY <1>2 DEF AskedFirst, Gone
  <2>1. i + 1 \in 1 .. Len(sq) /\ Asks(sq[i + 1], c)
    BY <1>1
  <2>2. PICK j \in (i + 1) + 1 .. Len(sq) : Leaves(sq[j], c)
    BY <2>1 DEF AskedFirst, Gone
  <2>3. j - 1 \in i + 1 .. Len(sq') /\ j - 1 \in 1 .. Len(sq') /\ (j - 1) + 1 = j
    BY <1>1
  <2>4. sq'[j - 1] = sq[j]
    BY <1>1, <2>3
  <2>5. QED
    BY <2>2, <2>3, <2>4
<1>9. LeaverInFlight'
  <2> SUFFICES ASSUME NEW c \in Clients, cpc[c] \in Gone, Listed(c) \/ Joining(c)'
               PROVE  InQueue(c)' \/ InScript(c)'
    BY <1>2 DEF LeaverInFlight, Gone, Listed, Joining, Leaving, InQueue, InScript, Leaves
  <2>1. ~InScript(c)
    BY <1>2 DEF InScript
  <2>2. CASE Listed(c)
    <3>1. InQueue(c)
      BY <2>1, <2>2, LeavingParts DEF LeaverInFlight, Gone
    <3>2. CASE c = d /\ sq[1].type = "LEAVE"
      BY <1>3, <2>2, <3>2 DEF InScript
    <3>3. QED
      BY <1>7, <3>1, <3>2
  <2>3. CASE Joining(c)'
    <3>1. c = d /\ sq[1].type = "JOIN_REQ"
      BY <1>4, <2>3 DEF Joining
    <3>2. 1 \in 1 .. Len(sq) /\ Asks(sq[1], c)
      BY <1>1, <3>1 DEF Asks
    <3>3. PICK j \in 1 + 1 .. Len(sq) : Leaves(sq[j], c)
      BY <3>2 DEF AskedFirst, Gone
    <3>4. InQueue(c)
      BY <1>1, <3>3 DEF InQueue
    <3>5. QED
      BY <1>7, <3>1, <3>4
  <2>4. QED
    BY <2>2, <2>3
<1>10. QED
  BY <1>5, <1>6, <1>8, <1>9

\* A send of the script is done or given up; nothing else of the script goes.
LEMMA SendDrops ==
    ASSUME MqInv, TypeOK', spc = "run", script # <<>>, Head(script).do = "send",
           script' = Tail(script), UNCHANGED <<sq, spc, table, cpc>>
    PROVE  MqInv'
<1> USE DEF MqInv
<1>1. /\ Head(script) = script[1]
      /\ \A i \in 1 .. Len(script') : i + 1 \in 1 .. Len(script) /\ script'[i] = script[i + 1]
      /\ \A i \in 2 .. Len(script) : i - 1 \in 1 .. Len(script') /\ script'[i - 1] = script[i]
      /\ \A i, j \in 1 .. Len(script') :
            script'[i].do # "send" /\ script'[j].do # "send" => i = j
  BY ScriptRest
<1>2. ScriptInv'
  BY <1>1 DEF ScriptInv, Listed
<1>3. \A c \in Clients : InScript(c) => InScript(c)'
  <2> SUFFICES ASSUME NEW c \in Clients, NEW i \in 1 .. Len(script),
                      script[i] = [do |-> "remove", to |-> c]
               PROVE  InScript(c)'
    BY DEF InScript
  <2>1. i # 1
    BY <1>1
  <2>2. i \in 2 .. Len(script)
    BY <2>1
  <2>3. QED
    BY <1>1, <2>2 DEF InScript
<1>4. \A c \in Clients : Joining(c)' => Joining(c)
  BY <1>1 DEF Joining
<1>5. LeaverInFlight'
  BY <1>3, <1>4 DEF LeaverInFlight, Leaving, InScript, Listed
<1>6. QED
  BY <1>2, <1>5 DEF Distinct, AskedFirst

\* The table changes as the script says.
LEMMA UpdateKeeps == ASSUME MqInv, TypeOK', UpdateTable PROVE MqInv'
<1> USE DEF MqInv
<1> DEFINE d == script[1].to
<1>1. /\ Head(script) = script[1] /\ script[1] \in Op /\ 1 \in 1 .. Len(script)
      /\ \A i \in 1 .. Len(script') : i + 1 \in 1 .. Len(script) /\ script'[i] = script[i + 1]
      /\ Head(script).do # "send" => \A i \in 1 .. Len(script') : script'[i].do = "send"
  <2>1. spc = "run" /\ script # <<>> /\ script' = Tail(script) /\ script \in Seq(Op)
    BY DEF UpdateTable, TypeOK
  <2>2. 1 \in 1 .. Len(script) /\ script[1] \in Op
    BY <2>1, Rest
  <2>3. QED
    BY <2>1, <2>2, ScriptRest
<1>2. spc = "run" /\ UNCHANGED <<sq, spc, cpc>>
  BY DEF UpdateTable, queues, client
<1>3. d \in Clients /\ \A i \in 1 .. Len(script') : script'[i].do = "send"
  BY <1>1 DEF UpdateTable, Op
<1>4. ScriptInv'
  BY <1>2, <1>3 DEF ScriptInv
<1>5. \A c : ~Joining(c)'
  BY <1>3 DEF Joining
<1>6. AskedFirst'
  BY <1>2 DEF AskedFirst
<1>7. CASE script[1].do = "add"
  <2>1. table' = Append(table, d) /\ ~Listed(d) /\ Joining(d)
    <3>1. table' = Append(table, d)
      BY <1>1, <1>7 DEF UpdateTable
    <3>2. ~Listed(d)
      BY <1>1, <1>7 DEF ScriptInv
    <3>3. script[1] = [do |-> "add", to |-> d]
      BY <1>1, <1>7 DEF Op
    <3>4. QED
      BY <1>1, <3>1, <3>2, <3>3 DEF Joining
  <2>2. /\ Len(table') = Len(table) + 1 /\ Len(table) \in Nat
        /\ table'[Len(table) + 1] = d
        /\ \A i \in 1 .. Len(table) : table'[i] = table[i]
    <3>1. table \in Seq(Clients) /\ Len(table) \in Nat
      BY DEF TypeOK
    <3> HIDE DEF d
    <3>2. QED
      BY <1>3, <2>1, <3>1, Appended
  <2>3. \A i \in 1 .. Len(table') : i \in 1 .. Len(table) \/ i = Len(table) + 1
    BY <2>2
  <2>4. Distinct'
    BY <2>1, <2>2, <2>3 DEF Distinct, Listed
  <2>5. \A c \in Clients : Listed(c)' => Listed(c) \/ Joining(c)
    BY <2>1, <2>2, <2>3 DEF Listed
  <2>6. \A c \in Clients : InScript(c) => InScript(c)'
    <3>1. \A c, i : i \in 1 .. Len(script) /\ script[i] = [do |-> "remove", to |-> c] => i = 1
      BY <1>1, <1>7 DEF ScriptInv
    <3>2. QED
      BY <1>7, <3>1 DEF InScript
  <2>7. LeaverInFlight'
    BY <1>2, <1>5, <2>5, <2>6 DEF LeaverInFlight, Leaving, InScript
  <2>8. QED
    BY <1>4, <1>6, <2>4, <2>7
<1>8. CASE script[1].do = "remove"
  <2>1. table' = Without(d)
    BY <1>1, <1>8 DEF UpdateTable
  <2>2. /\ \A i, j \in 1 .. Len(table') : table'[i] = table'[j] => i = j
        /\ \A i \in 1 .. Len(table') : table'[i] # d /\ Listed(table'[i])
    BY <1>3, <2>1, WithoutEntries DEF TypeOK, Distinct
  <2>3. \A c \in Clients : Listed(c)' => c # d /\ Listed(c)
    BY <2>2 DEF Listed
  <2>4. \A c \in Clients : InScript(c) => c = d
    <3>1. \A c, i : i \in 1 .. Len(script) /\ script[i] = [do |-> "remove", to |-> c] => i = 1
      BY <1>1, <1>8 DEF ScriptInv
    <3>2. QED
      BY <3>1 DEF InScript
  <2>5. LeaverInFlight'
    BY <1>2, <1>5, <2>3, <2>4 DEF LeaverInFlight, Leaving, InScript
  <2>6. QED
    BY <1>4, <1>6, <2>2, <2>5 DEF Distinct
<1>9. QED
  BY <1>1, <1>7, <1>8 DEF UpdateTable

\* Steps that touch neither the table nor the script nor what the clients have asked.
LEMMA QuietKeeps ==
    ASSUME MqInv, TypeOK', UNCHANGED <<sq, script, table>>,
           spc' \in {"check", "receive"} => script = <<>>,
           \A c \in Clients : cpc'[c] \in Gone => cpc[c] \in Gone
    PROVE  MqInv'
<1>1. ScriptInv' /\ Distinct'
  BY DEF MqInv, ScriptInv, Distinct, Listed
<1>2. AskedFirst'
  BY DEF MqInv, AskedFirst, Gone
<1>3. LeaverInFlight'
  BY DEF MqInv, LeaverInFlight, Leaving, Joining, Listed, Gone
<1>4. QED
  BY <1>1, <1>2, <1>3 DEF MqInv

\* A client's message goes to the end of the server's queue, a LEAVE behind its request.
LEMMA PostKeeps ==
    ASSUME MqInv, TypeOK', NEW c \in Clients, NEW type \in {"JOIN_REQ", "TEXT", "LEAVE"},
           Post(c, type), UNCHANGED <<script, table, spc>>,
           \A d \in Clients : cpc'[d] \in Gone => cpc[d] \in Gone \/ (d = c /\ type = "LEAVE"),
           cpc'[c] \in Gone => type = "LEAVE"
    PROVE  MqInv'
<1> DEFINE m == [type |-> type, from |-> c]
<1>1. /\ Len(sq') = Len(sq) + 1 /\ Len(sq) \in Nat
      /\ sq'[Len(sq) + 1] = m
      /\ \A i \in 1 .. Len(sq) : sq'[i] = sq[i]
  <2>1. m \in ToServer
    BY DEF ToServer
  <2>2. sq \in Seq(ToServer) /\ sq' = Append(sq, m) /\ Len(sq) \in Nat
    BY DEF Post, MqInv, TypeOK
  <2> HIDE DEF m
  <2>3. QED
    BY <2>1, <2>2, Appended
<1>2. ScriptInv' /\ Distinct'
  BY DEF MqInv, ScriptInv, Distinct, Listed
<1>3. type = "LEAVE" => Leaves(sq'[Len(sq) + 1], c)
  BY <1>1 DEF Leaves
<1>4. \A d \in Clients : InQueue(d) => InQueue(d)'
  <2>1. \A i \in 1 .. Len(sq) : i \in 1 .. Len(sq')
    BY <1>1
  <2>2. QED
    BY <1>1, <2>1 DEF InQueue
<1>5. AskedFirst'
  <2> SUFFICES ASSUME NEW d \in Clients, cpc'[d] \in Gone,
                      NEW i \in 1 .. Len(sq'), Asks(sq'[i], d)
               PROVE  \E j \in i + 1 .. Len(sq') : Leaves(sq'[j], d)
    BY DEF AskedFirst, Gone
  <2>1. i # Len(sq) + 1
    BY <1>1 DEF Asks
  <2>2. i \in 1 .. Len(sq) /\ Asks(sq[i], d)
    BY <1>1, <2>1
  <2>3. CASE d = c /\ type = "LEAVE"
    <3>1. Len(sq) + 1 \in i + 1 .. Len(sq')
      BY <1>1, <2>2
    <3>2. QED
      BY <1>3, <2>3, <3>1
  <2>4. CASE cpc[d] \in Gone
    <3>1. PICK j \in i + 1 .. Len(sq) : Leaves(sq[j], d)
      BY <2>2, <2>4 DEF MqInv, AskedFirst, Gone
    <3>2. j \in 1 .. Len(sq) /\ j \in i + 1 .. Len(sq')
      BY <1>1
    <3>3. QED
      BY <1>1, <3>1, <3>2
  <2>5. QED
    BY <2>3, <2>4
<1>6. LeaverInFlight'
  <2> SUFFICES ASSUME NEW d \in Clients, cpc'[d] \in Gone, Listed(d) \/ Joining(d)
               PROVE  InQueue(d)' \/ InScript(d)
    BY DEF LeaverInFlight, Gone, Listed, Joining, Leaving, InQueue, InScript, Leaves
  <2>1. CASE d = c /\ type = "LEAVE"
    <3>1. Len(sq) + 1 \in 1 .. Len(sq')
      BY <1>1
    <3>2. QED
      BY <1>3, <2>1, <3>1 DEF InQueue
  <2>2. CASE cpc[d] \in Gone
    BY <1>4, <2>2, LeavingParts DEF MqInv, LeaverInFlight, Gone
  <2>3. QED
    BY <2>1, <2>2
<1>7. QED
  BY <1>2, <1>5, <1>6 DEF MqInv

\* Every step keeps the invariant.
LEMMA MqStep == MqInv /\ [Next]_vars => MqInv'
<1> SUFFICES ASSUME MqInv, [Next]_vars PROVE MqInv'
  OBVIOUS
<1>0. TypeOK' /\ ScriptInv /\ TypeOK
  BY MqTypeStep DEF MqInv
<1>1. CASE Receive
  BY <1>0, <1>1, ReceiveKeeps
<1>2. CASE SendNext
  BY <1>0, <1>2, SendDrops DEF SendNext, client
<1>3. CASE UpdateTable
  BY <1>0, <1>3, UpdateKeeps
<1>4. CASE Check \/ Done \/ ReceiveFails \/ Kill
  BY <1>0, <1>4, QuietKeeps DEF Check, Done, ReceiveFails, Kill, ScriptInv, queues, client
<1>5. CASE Interrupt
  <2>1. UNCHANGED <<sq, table, cpc>>
    BY <1>5 DEF Interrupt, queues, client
  <2>2. CASE UNCHANGED <<spc, script>>
    BY <1>0, <2>1, <2>2, QuietKeeps DEF ScriptInv
  <2>3. CASE spc = "receive" /\ spc' = "check" /\ UNCHANGED script
    BY <1>0, <2>1, <2>3, QuietKeeps DEF ScriptInv
  <2>4. CASE /\ spc = "run" /\ script # <<>> /\ Head(script).do = "send"
             /\ script' = Tail(script) /\ UNCHANGED spc
    BY <1>0, <2>1, <2>4, SendDrops
  <2>5. QED
    BY <1>5, <2>2, <2>3, <2>4 DEF Interrupt
<1>6. ASSUME NEW c \in Clients, Join(c) \/ SendText(c) \/ SendLeave(c) PROVE MqInv'
  <2>1. UNCHANGED <<script, table, spc>> /\ cpc \in [Clients -> ClientPc]
    BY <1>0, <1>6 DEF Join, SendText, SendLeave, server, TypeOK
  <2>2. CASE Join(c)
    BY <1>0, <2>1, <2>2, PostKeeps DEF Join, Gone
  <2>3. CASE SendText(c)
    BY <1>0, <2>1, <2>3, PostKeeps DEF SendText, Gone
  <2>4. CASE SendLeave(c)
    BY <1>0, <2>1, <2>4, PostKeeps DEF SendLeave, Gone
  <2>5. QED
    BY <1>6, <2>2, <2>3, <2>4
<1>7. ASSUME NEW c \in Clients,
             \/ JoinFails(c) \/ RecvTurn(c) \/ Quit(c) \/ RecvEnds(c) \/ Unlink(c)
             \/ Killed(c)
      PROVE  MqInv'
  <2>1. UNCHANGED <<sq, script, table, spc>> /\ cpc \in [Clients -> ClientPc]
    BY <1>0, <1>7 DEF JoinFails, RecvTurn, Quit, RecvEnds, Unlink, Killed, queues,
                      server, TypeOK
  <2>2. \A d \in Clients : cpc'[d] \in Gone => cpc[d] \in Gone
    BY <1>7, <2>1 DEF JoinFails, RecvTurn, Quit, RecvEnds, Unlink, Killed, Gone
  <2>3. QED
    BY <1>0, <2>1, <2>2, QuietKeeps DEF ScriptInv
<1>8. CASE UNCHANGED vars
  BY <1>0, <1>8, QuietKeeps DEF vars, queues, server, client, ScriptInv
<1>9. QED
  BY <1>1, <1>2, <1>3, <1>4, <1>5, <1>6, <1>7, <1>8 DEF Next, ServerStep, ClientStep

-------------------------------------------------------------------------
(* The history ring.                                                     *)

\* A number less than two laps on, and the slot of the i-th of n texts when the next
\* one goes to slot h.
Wrap(x) == IF x < H THEN x ELSE x - H
HistSlot(h, n, i) == Wrap(Wrap(h - n + H) + i - 1)

\* The ring holds the last texts stored, as many as fit, oldest first.
HistoryInv ==
    /\ hist_count = IF stored < H THEN stored ELSE H
    /\ \A i \in 1 .. hist_count :
          hist_buf[HistSlot(hist_head, hist_count, i)] = stored - hist_count + i

\* history_add keeps the last texts.
LEMMA HistoryStep == TypeOK /\ HistoryInv /\ [Next]_vars => HistoryInv'
<1> SUFFICES ASSUME TypeOK, HistoryInv, [Next]_vars PROVE HistoryInv'
  OBVIOUS
<1>1. CASE UNCHANGED history
  BY <1>1 DEF HistoryInv, history
<1>2. CASE HistoryAdd
  <2> DEFINE h == hist_head
             n == hist_count
             h2 == hist_head'
             n2 == hist_count'
  <2>1. /\ H \in Nat \ {0} /\ h \in 0 .. H - 1 /\ n \in 0 .. H /\ stored \in Nat
        /\ hist_buf \in [0 .. H - 1 -> Nat]
    BY MqAssumption DEF TypeOK
  <2>2. h2 = Wrap(h + 1)
    <3>1. h + 1 \in 0 .. 2 * H - 1 /\ h2 = (h + 1) % H
      BY <1>2, <2>1 DEF HistoryAdd
    <3>2. QED
      BY <3>1, Wrapped DEF Wrap
  <2>3. /\ n2 = IF n < H THEN n + 1 ELSE n
        /\ stored' = stored + 1
        /\ hist_buf' = [hist_buf EXCEPT ![h] = stored + 1]
    BY <1>2 DEF HistoryAdd
  <2>4. n = IF stored < H THEN stored ELSE H
    BY DEF HistoryInv
  <2>5. \A i \in 1 .. n : hist_buf[HistSlot(h, n, i)] = stored - n + i
    BY DEF HistoryInv
  <2> HIDE DEF h, n, h2, n2
  \* The others keep their slots, or the oldest gives up its own.
  <2>6. /\ HistSlot(h2, n2, n2) = h
        /\ \A i \in 1 .. n2 - 1 :
              /\ i + (n + 1 - n2) \in 1 .. n
              /\ HistSlot(h2, n2, i) = HistSlot(h, n, i + (n + 1 - n2))
              /\ HistSlot(h2, n2, i) # h /\ HistSlot(h2, n2, i) \in 0 .. H - 1
    <3>1. h2 \in 0 .. H - 1 /\ n2 \in 0 .. H
      BY <2>1, <2>2, <2>3 DEF Wrap
    <3>2. h2 = Wrap(h + 1) /\ n2 = IF n < H THEN n + 1 ELSE n
      BY <2>2, <2>3
    <3>3. CASE n < H
      BY <2>1, <3>1, <3>2, <3>3 DEF HistSlot, Wrap
    <3>4. CASE n = H
      BY <2>1, <3>1, <3>2, <3>4 DEF HistSlot, Wrap
    <3>5. QED
      BY <2>1, <3>3, <3>4
  <2>7. ASSUME NEW i \in 1 .. n2
        PROVE  hist_buf'[HistSlot(h2, n2, i)] = stored' - n2 + i
    <3>1. CASE i = n2
      BY <2>1, <2>3, <2>6, <3>1
    <3>2. CASE i # n2
      <4>1. i \in 1 .. n2 - 1
        BY <2>1, <2>3, <3>2
      <4>2. hist_buf'[HistSlot(h2, n2, i)] = hist_buf[HistSlot(h, n, i + (n + 1 - n2))]
        BY <2>1, <2>3, <2>6, <4>1
      <4>3. hist_buf[HistSlot(h, n, i + (n + 1 - n2))] = stored - n + (i + (n + 1 - n2))
        BY <2>5, <2>6, <4>1
      <4>4. stored - n + (i + (n + 1 - n2)) = stored' - n2 + i
        BY <2>1, <2>3
      <4>5. QED
        BY <4>2, <4>3, <4>4
    <3>3. QED
      BY <3>1, <3>2
  <2>8. n2 = IF stored' < H THEN stored' ELSE H
    BY <2>1, <2>3, <2>4
  <2>9. QED
    BY <2>7, <2>8 DEF HistoryInv, h2, n2
<1>3. QED
  BY <1>1, <1>2, ReceiveTypes
     DEF Next, ServerStep, ClientStep, Check, SendNext, UpdateTable, Done, Interrupt,
         ReceiveFails, Kill, Join, JoinFails, SendText, RecvTurn, Quit, RecvEnds, SendLeave, Unlink,
         Killed, server, vars

\* send_history replays the newest texts, as many as fit and no other ones, in the
\* order in which they were stored, however often the ring has wrapped (server.c:38-55).
ReplaysNewest ==
    \A c \in Clients :
        /\ Len(SendHistory(c)) = IF stored < H THEN stored ELSE H
        /\ \A i \in 1 .. Len(SendHistory(c)) :
              SendHistory(c)[i] = SendOp(c, Msg("HIST", stored - Len(SendHistory(c)) + i))

LEMMA Replay == MqInv /\ HistoryInv => ReplaysNewest
<1> SUFFICES ASSUME MqInv, HistoryInv PROVE ReplaysNewest
  OBVIOUS
<1> SUFFICES ASSUME NEW c \in Clients
             PROVE  /\ Len(SendHistory(c)) = IF stored < H THEN stored ELSE H
                    /\ \A i \in 1 .. Len(SendHistory(c)) :
                          SendHistory(c)[i]
                            = SendOp(c, Msg("HIST", stored - Len(SendHistory(c)) + i))
  BY DEF ReplaysNewest
<1> DEFINE start == (hist_head - hist_count + H) % H
<1>1. /\ H \in Nat \ {0} /\ hist_count \in 0 .. H /\ hist_head \in 0 .. H - 1
  BY MqAssumption DEF MqInv, TypeOK
<1>2. start = Wrap(hist_head - hist_count + H) /\ start \in 0 .. H - 1
  <2>1. hist_head - hist_count + H \in 0 .. 2 * H - 1
    BY <1>1
  <2>2. QED
    BY <2>1, Wrapped DEF Wrap
<1>3. SendHistory(c) = [i \in 1 .. hist_count |->
                          SendOp(c, Msg("HIST", hist_buf[(start + i - 1) % H]))]
  BY DEF SendHistory
<1> HIDE DEF start
<1>4. Len(SendHistory(c)) = hist_count
  BY <1>1, <1>3
<1>5. ASSUME NEW i \in 1 .. hist_count
      PROVE  hist_buf[(start + i - 1) % H] = stored - hist_count + i
  <2>1. start + i - 1 \in 0 .. 2 * H - 1
    BY <1>1, <1>2
  <2>2. (start + i - 1) % H = HistSlot(hist_head, hist_count, i)
    BY <1>2, <2>1, Wrapped DEF HistSlot, Wrap
  <2>3. QED
    BY <2>2 DEF HistoryInv
<1>6. \A i \in 1 .. hist_count :
         SendHistory(c)[i] = SendOp(c, Msg("HIST", stored - hist_count + i))
  BY <1>3, <1>5
<1>7. QED
  BY <1>4, <1>6 DEF HistoryInv

-------------------------------------------------------------------------
(* What a client gets.                                                   *)

\* A client's part of a script; "other" stands for the steps that are not for it.
ToIt(op, c)  == op.do = "send" /\ op.to = c
View(s, c)   == [i \in 1 .. Len(s) |-> IF ToIt(s[i], c) THEN s[i].m ELSE Msg("other", 0)]

\* What has been sent to c.
Line(c) == got[c] \o cq[c]

LEMMA SentIs == \A c : Sent(c) = Line(c) \o View(script, c)
  BY DEF Sent, Line, View, ToIt

Entries == ToClient \cup {Msg("other", 0)}

\* What has been sent and what is to come, entry by entry.
Shows(a, line, s, c) ==
    /\ Len(line) \in Nat /\ Len(s) \in Nat
    /\ a \in Seq(Entries) /\ Len(a) = Len(line) + Len(s)
    /\ \A i \in 1 .. Len(line) : a[i] = line[i] /\ a[i].type # "other"
    /\ \A i \in 1 .. Len(s) :
          a[Len(line) + i] = IF ToIt(s[i], c) THEN s[i].m ELSE Msg("other", 0)

LEMMA Parts ==
    ASSUME NEW line \in Seq(ToClient), NEW s \in Seq(Op), NEW c
    PROVE  Shows(line \o View(s, c), line, s, c)
<1> DEFINE v == View(s, c)
           a == line \o View(s, c)
<1>1. Len(line) \in Nat /\ Len(s) \in Nat
  OBVIOUS
<1>2. \A i \in 1 .. Len(s) : (IF ToIt(s[i], c) THEN s[i].m ELSE Msg("other", 0)) \in Entries
  <2> SUFFICES ASSUME NEW i \in 1 .. Len(s), ToIt(s[i], c)
               PROVE  s[i].m \in ToClient
    BY DEF Entries
  <2>1. s[i] \in Op
    OBVIOUS
  <2> QED
    BY <2>1 DEF ToIt, Op
<1>3. /\ v \in Seq(Entries) /\ Len(v) = Len(s)
      /\ \A i \in 1 .. Len(s) : v[i] = IF ToIt(s[i], c) THEN s[i].m ELSE Msg("other", 0)
  BY <1>1, <1>2 DEF View
<1>4. line \in Seq(Entries)
  BY DEF Entries
<1> HIDE DEF v, a
<1>5. /\ line \o v \in Seq(Entries) /\ Len(line \o v) = Len(line) + Len(v)
      /\ \A i \in 1 .. Len(line \o v) :
            (line \o v)[i] = IF i <= Len(line) THEN line[i] ELSE v[i - Len(line)]
  BY <1>3, <1>4, Concat, ZenonT(40)
<1>6. a = line \o v
  BY DEF v, a
<1>7. \A i \in 1 .. Len(line) : a[i] = line[i] /\ a[i].type # "other"
  <2> SUFFICES ASSUME NEW i \in 1 .. Len(line) PROVE a[i] = line[i] /\ a[i].type # "other"
    OBVIOUS
  <2>1. a[i] = line[i]
    BY <1>1, <1>3, <1>5, <1>6
  <2>2. line[i] \in ToClient
    OBVIOUS
  <2> QED
    BY <2>1, <2>2 DEF ToClient
<1>8. \A i \in 1 .. Len(s) : a[Len(line) + i] = v[i]
  BY <1>1, <1>3, <1>5, <1>6
<1>9. Shows(a, line, s, c)
  BY <1>1, <1>3, <1>5, <1>6, <1>7, <1>8 DEF Shows
<1> QED
  BY <1>9 DEF a

IsText(m)  == m.type \in {"HIST", "TEXT"}
IsEarly(m) == m.type \in {"HIST", "JOIN_OK"}

\* All of a is early only as long as nothing else came, and what is not early comes after
\* a welcome among the first n.
OrderlyIn(a, n) ==
    /\ \A i, j \in 1 .. Len(a) :
          i < j /\ a[i].type # "other" /\ IsEarly(a[j]) => a[i].type = "HIST"
    /\ \A j \in 1 .. Len(a) : a[j].type # "other" /\ ~IsEarly(a[j]) =>
          \E k \in 1 .. n : k < j /\ a[k].type = "JOIN_OK"

\* The texts of a come in the order of their numbers, which are those from first to last
\* but for lost ones.
InOrder(a) ==
    \A i, j \in 1 .. Len(a) : i < j /\ IsText(a[i]) /\ IsText(a[j]) => a[i].n < a[j].n

Covers(a, first, last, lost) ==
    /\ \A i \in 1 .. Len(a) : IsText(a[i]) => a[i].n \in first .. last
    /\ \A n \in (first .. last) \ lost : \E i \in 1 .. Len(a) : IsText(a[i]) /\ a[i].n = n

\* b is a without entry p.
Cut(a, b, p) ==
    /\ Len(a) \in Nat /\ Len(b) = Len(a) - 1 /\ p \in 1 .. Len(a)
    /\ \A i \in 1 .. Len(b) : b[i] = a[IF i < p THEN i ELSE i + 1]

\* What is cut after the first n entries leaves the order, and a text that is cut is lost.
LEMMA CutOrderly ==
    ASSUME NEW a, NEW b, NEW p, NEW n \in Nat, Cut(a, b, p), p > n, OrderlyIn(a, n)
    PROVE  OrderlyIn(b, n)
<1> DEFINE old(i) == IF i < p THEN i ELSE i + 1
<1>1. \A i \in 1 .. Len(b) : b[i] = a[old(i)] /\ old(i) \in 1 .. Len(a)
  BY DEF Cut
<1>2. \A i, j \in 1 .. Len(b) : i < j => old(i) < old(j)
  BY DEF Cut
<1>3. \A k \in 1 .. n : old(k) = k
  BY DEF Cut
<1>4. \A k \in 1 .. n, j \in 1 .. Len(b) : k < old(j) => k < j
  BY DEF Cut
<1>5. \A k \in 1 .. n, j \in 1 .. Len(b) : k < j => k \in 1 .. Len(b)
  BY DEF Cut
<1> HIDE DEF old
<1>6. ASSUME NEW i \in 1 .. Len(b), NEW j \in 1 .. Len(b), i < j, b[i].type # "other", IsEarly(b[j])
      PROVE  b[i].type = "HIST"
  BY <1>1, <1>2, <1>6, SMTT(30) DEF OrderlyIn
<1>7. ASSUME NEW j \in 1 .. Len(b), b[j].type # "other", ~IsEarly(b[j])
      PROVE  \E k \in 1 .. n : k < j /\ b[k].type = "JOIN_OK"
  <2>1. PICK k \in 1 .. n : k < old(j) /\ a[k].type = "JOIN_OK"
    BY <1>1, <1>7 DEF OrderlyIn
  <2>2. k < j /\ k \in 1 .. Len(b)
    BY <1>4, <1>5, <2>1
  <2>3. b[k] = a[k]
    BY <1>1, <1>3, <2>2
  <2> QED
    BY <2>1, <2>2, <2>3
<1> QED
  BY <1>6, <1>7 DEF OrderlyIn

LEMMA CutTexts ==
    ASSUME NEW a, NEW b, NEW p, Cut(a, b, p), InOrder(a),
           NEW first, NEW last, NEW lost, Covers(a, first, last, lost),
           NEW more, lost \subseteq more, IsText(a[p]) => a[p].n \in more
    PROVE  InOrder(b) /\ Covers(b, first, last, more)
<1> DEFINE old(i) == IF i < p THEN i ELSE i + 1
           new(i) == IF i < p THEN i ELSE i - 1
<1>1. \A i \in 1 .. Len(b) : b[i] = a[old(i)] /\ old(i) \in 1 .. Len(a)
  BY DEF Cut
<1>2. \A i, j \in 1 .. Len(b) : i < j => old(i) < old(j)
  BY DEF Cut
<1>3. \A i \in 1 .. Len(a) : i # p => new(i) \in 1 .. Len(b) /\ old(new(i)) = i
  BY DEF Cut
<1> HIDE DEF old, new
<1>4. InOrder(b)
  <2> SUFFICES ASSUME NEW i \in 1 .. Len(b), NEW j \in 1 .. Len(b), i < j,
                      IsText(b[i]), IsText(b[j])
               PROVE  b[i].n < b[j].n
    BY DEF InOrder
  <2> QED
    BY <1>1, <1>2 DEF InOrder
<1>5. \A i \in 1 .. Len(b) : IsText(b[i]) => b[i].n \in first .. last
  BY <1>1 DEF Covers
<1>6. ASSUME NEW n \in (first .. last) \ more PROVE \E i \in 1 .. Len(b) : IsText(b[i]) /\ b[i].n = n
  <2>1. PICK i \in 1 .. Len(a) : IsText(a[i]) /\ a[i].n = n
    BY <1>6 DEF Covers
  <2>2. i # p
    BY <1>6, <2>1
  <2>3. new(i) \in 1 .. Len(b) /\ b[new(i)] = a[i]
    BY <1>1, <1>3, <2>2
  <2> QED
    BY <2>1, <2>3
<1> QED
  BY <1>4, <1>5, <1>6 DEF Covers

\* A client asks once, and until its request is read nothing is sent to it.
Asking(c) == cpc[c] = "start" \/ \E i \in 1 .. Len(sq) : Asks(sq[i], c)

AskedOnce(c) ==
    /\ \A i, j \in 1 .. Len(sq) : Asks(sq[i], c) /\ Asks(sq[j], c) => i = j
    /\ cpc[c] = "start" => \A i \in 1 .. Len(sq) : ~Asks(sq[i], c)

Asked(c) ==
    /\ AskedOnce(c)
    /\ Asking(c) => /\ ~Listed(c) /\ ~Joining(c)
                    /\ \A i \in 1 .. Len(Sent(c)) : Sent(c)[i].type = "other"

Welcomed(c) == \E k \in 1 .. Len(Line(c)) : Sent(c)[k].type = "JOIN_OK"

Adds(op, c) == op = [do |-> "add", to |-> c]

\* Who is in the table has been welcomed, and who is being added is before it is there,
\* unless a signal gave a send up; then the server reads no more messages.
Greeted(c) ==
    /\ Listed(c) => Welcomed(c) \/ (~running /\ spc # "receive")
    /\ \A i \in 1 .. Len(script) : Adds(script[i], c) =>
          \/ Welcomed(c) \/ ~running
          \/ \E j \in 1 .. i - 1 : ToIt(script[j], c) /\ script[j].m.type = "JOIN_OK"

\* The texts of c are the newest ones, the whole history at least, but for one that each
\* signal may have cost.
Newest(c) ==
    \E first \in 1 .. stored - hist_count + 1, lost \in SUBSET (1 .. stored) :
        Cardinality(lost) <= caught /\ Covers(Sent(c), first, stored, lost)

DeliveryOf(c) ==
    /\ Asked(c) /\ OrderlyIn(Sent(c), Len(Line(c))) /\ Greeted(c)
    /\ Listed(c) \/ Joining(c) => InOrder(Sent(c)) /\ Newest(c)

DeliveryInv == \A c \in Clients : DeliveryOf(c)

\* Lost texts are finitely many.
LEMMA LostCount ==
    ASSUME NEW n \in Nat, NEW lost \in SUBSET (1 .. n)
    PROVE  IsFiniteSet(lost) /\ Cardinality(lost) \in Nat
<1>1. IsFiniteSet(1 .. n)
  BY FS_Interval
<1>2. IsFiniteSet(lost)
  BY <1>1, FS_Subset
<1> QED
  BY <1>2, FS_CardinalityType

\* What the chat promises follows.
LEMMA DeliveryPromises == TypeOK /\ DeliveryInv => NothingMissed /\ WelcomeEndsHistory
<1> SUFFICES ASSUME TypeOK, DeliveryInv PROVE NothingMissed /\ WelcomeEndsHistory
  OBVIOUS
<1>1. ASSUME NEW c \in Clients, Listed(c) \/ Joining(c)
      PROVE  /\ \A i, j \in TextAt(c) : i < j => Sent(c)[i].n < Sent(c)[j].n
             /\ \E first \in 1 .. stored - hist_count + 1 :
                   /\ TextsOf(c) \subseteq first .. stored
                   /\ Cardinality((first .. stored) \ TextsOf(c)) <= caught
  <2> DEFINE a == Sent(c)
             t == {a[i].n : i \in TextAt(c)}
  <2>1. InOrder(a) /\ Newest(c)
    BY <1>1 DEF DeliveryInv, DeliveryOf
  <2>2. PICK first \in 1 .. stored - hist_count + 1, lost \in SUBSET (1 .. stored) :
           Cardinality(lost) <= caught /\ Covers(a, first, stored, lost)
    BY <2>1 DEF Newest
  <2>3. \A i : i \in TextAt(c) <=> i \in 1 .. Len(a) /\ IsText(a[i])
    BY DEF TextAt, SentAt, IsText
  <2>4. t = TextsOf(c)
    BY DEF TextsOf
  <2> HIDE DEF a
  <2>5. \A i, j \in TextAt(c) : i < j => a[i].n < a[j].n
    BY <2>1, <2>3 DEF InOrder
  <2>6. t \subseteq first .. stored /\ (first .. stored) \ t \subseteq lost
    BY <2>2, <2>3 DEF Covers
  <2> HIDE DEF t
  <2>7. Cardinality((first .. stored) \ t) <= caught
    <3>1. stored \in Nat /\ caught \in Nat
      BY DEF TypeOK
    <3>2. IsFiniteSet(lost) /\ Cardinality(lost) \in Nat
      BY <3>1, LostCount
    <3>3. /\ Cardinality((first .. stored) \ t) <= Cardinality(lost)
          /\ IsFiniteSet((first .. stored) \ t)
      BY <2>6, <3>2, FS_Subset
    <3>4. Cardinality((first .. stored) \ t) \in Nat
      BY <3>3, FS_CardinalityType
    <3> QED
      BY <2>2, <3>1, <3>2, <3>3, <3>4
  <2>8. TextsOf(c) \subseteq first .. stored
        /\ Cardinality((first .. stored) \ TextsOf(c)) <= caught
    BY <2>4, <2>6, <2>7
  <2> QED
    BY <2>5, <2>8 DEF a
<1>2. ASSUME NEW c \in Clients, NEW i \in SentAt(c), NEW j \in SentAt(c), i < j
      PROVE  /\ Sent(c)[j].type \in {"HIST", "JOIN_OK"} => Sent(c)[i].type = "HIST"
             /\ Sent(c)[i].type = "HIST" =>
                   \/ Sent(c)[j].type \in {"HIST", "JOIN_OK"}
                   \/ \E k \in i .. j : Sent(c)[k].type = "JOIN_OK"
  <2> DEFINE a == Sent(c)
             n == Len(Line(c))
  <2>1. OrderlyIn(a, n)
    BY DEF DeliveryInv, DeliveryOf
  <2>2. i \in 1 .. Len(a) /\ a[i].type # "other" /\ j \in 1 .. Len(a) /\ a[j].type # "other"
    BY DEF SentAt
  <2> HIDE DEF a, n
  <2>3. IsEarly(a[j]) => a[i].type = "HIST"
    BY <1>2, <2>1, <2>2 DEF OrderlyIn
  <2>4. ASSUME a[i].type = "HIST", ~IsEarly(a[j]) PROVE \E k \in i .. j : a[k].type = "JOIN_OK"
    <3>1. PICK k \in 1 .. n : k < j /\ a[k].type = "JOIN_OK"
      BY <2>1, <2>2, <2>4 DEF OrderlyIn
    <3>2. k \in 1 .. Len(a)
      BY <2>2, <3>1
    <3>3. ~(k < i)
      BY <2>1, <2>2, <2>4, <3>1, <3>2 DEF OrderlyIn, IsEarly
    <3>4. k \in i .. j
      BY <2>2, <3>1, <3>2, <3>3
    <3> QED
      BY <3>1, <3>4
  <2> QED
    BY <2>3, <2>4 DEF a, IsEarly
<1> QED
  BY <1>1, <1>2 DEF NothingMissed, WelcomeEndsHistory

-------------------------------------------------------------------------
(* One step of the script goes.                                          *)

LEMMA SameSeq ==
    ASSUME NEW S, NEW a \in Seq(S), NEW b \in Seq(S), Len(a) = Len(b),
           \A i \in 1 .. Len(a) : a[i] = b[i]
    PROVE  a = b
  OBVIOUS

\* Done for c, it moves to what has been sent.
LEMMA PopTo ==
    ASSUME NEW line \in Seq(ToClient), NEW s \in Seq(Op), s # <<>>, NEW c, ToIt(s[1], c)
    PROVE  /\ Append(line, s[1].m) \o View(Tail(s), c) = line \o View(s, c)
           /\ Len(Append(line, s[1].m)) = Len(line) + 1
<1> DEFINE a == line \o View(s, c)
           more == Append(line, s[1].m)
           rest == Tail(s)
           b == more \o View(rest, c)
<1>1. /\ s[1] \in Op /\ Len(s) \in Nat \ {0} /\ rest \in Seq(Op)
      /\ Len(rest) = Len(s) - 1 /\ \A i \in 1 .. Len(s) - 1 : rest[i] = s[i + 1]
  BY Rest
<1>2. s[1].m \in ToClient
  BY <1>1 DEF ToIt, Op
<1>3. /\ more \in Seq(ToClient) /\ Len(more) = Len(line) + 1
      /\ more[Len(line) + 1] = s[1].m
      /\ \A i \in 1 .. Len(line) : more[i] = line[i]
  BY <1>2, Appended
<1>a. Shows(a, line, s, c) /\ Shows(b, more, rest, c)
  <2> HIDE DEF more, rest
  <2> QED
    BY <1>1, <1>3, Parts
<1> HIDE DEF a, more, rest, b
<1>4. /\ Len(line) \in Nat /\ a \in Seq(Entries) /\ Len(a) = Len(line) + Len(s)
      /\ \A i \in 1 .. Len(line) : a[i] = line[i]
      /\ \A i \in 1 .. Len(s) :
            a[Len(line) + i] = IF ToIt(s[i], c) THEN s[i].m ELSE Msg("other", 0)
  BY <1>a DEF Shows
<1>5. /\ b \in Seq(Entries) /\ Len(b) = Len(line) + 1 + (Len(s) - 1)
      /\ \A i \in 1 .. Len(line) + 1 : b[i] = more[i]
      /\ \A i \in 1 .. Len(s) - 1 :
            b[Len(line) + 1 + i] = IF ToIt(rest[i], c) THEN rest[i].m ELSE Msg("other", 0)
  BY <1>1, <1>3, <1>a DEF Shows
<1>6. ASSUME NEW i \in 1 .. Len(a) PROVE a[i] = b[i]
  <2>1. CASE i <= Len(line)
    <3>1. a[i] = line[i]
      BY <1>4, <2>1
    <3>2. b[i] = more[i] /\ more[i] = line[i]
      BY <1>3, <1>4, <1>5, <2>1
    <3> QED
      BY <3>1, <3>2
  <2>2. CASE i = Len(line) + 1
    <3>1. a[i] = s[1].m
      BY <1>1, <1>4, <2>2, SMTT(30)
    <3>2. b[i] = s[1].m
      BY <1>3, <1>4, <1>5, <2>2
    <3> QED
      BY <3>1, <3>2
  <2>3. CASE i > Len(line) + 1
    <3>1. PICK j \in 1 .. Len(s) - 1 : i = Len(line) + 1 + j
      <4>1. i - (Len(line) + 1) \in 1 .. Len(s) - 1 /\ i = Len(line) + 1 + (i - (Len(line) + 1))
        BY <1>1, <1>4, <2>3
      <4> QED
        BY <4>1
    <3>2. a[Len(line) + (j + 1)] = IF ToIt(s[j + 1], c) THEN s[j + 1].m ELSE Msg("other", 0)
      BY <1>1, <1>4
    <3>3. i = Len(line) + (j + 1)
      BY <1>1, <1>4, <3>1
    <3>4. b[i] = IF ToIt(s[j + 1], c) THEN s[j + 1].m ELSE Msg("other", 0)
      BY <1>1, <1>5, <3>1
    <3> QED
      BY <3>2, <3>3, <3>4
  <2> QED
    BY <1>4, <2>1, <2>2, <2>3
<1>7. Len(a) = Len(b)
  BY <1>1, <1>4, <1>5
<1>8. a = b
  BY <1>4, <1>5, <1>6, <1>7, SameSeq
<1> QED
  BY <1>3, <1>8 DEF a, b, more, rest

\* Otherwise it is cut.
LEMMA PopCut ==
    ASSUME NEW line \in Seq(ToClient), NEW s \in Seq(Op), s # <<>>, NEW c
    PROVE  Cut(line \o View(s, c), line \o View(Tail(s), c), Len(line) + 1)
<1> DEFINE a == line \o View(s, c)
           rest == Tail(s)
           b == line \o View(rest, c)
<1>1. /\ Len(s) \in Nat \ {0} /\ rest \in Seq(Op)
      /\ Len(rest) = Len(s) - 1 /\ \A i \in 1 .. Len(s) - 1 : rest[i] = s[i + 1]
  BY Rest
<1>a. Shows(a, line, s, c) /\ Shows(b, line, rest, c)
  <2> HIDE DEF rest
  <2> QED
    BY <1>1, Parts
<1> HIDE DEF a, rest, b
<1>2. /\ Len(line) \in Nat /\ Len(a) = Len(line) + Len(s)
      /\ \A i \in 1 .. Len(line) : a[i] = line[i]
      /\ \A i \in 1 .. Len(s) :
            a[Len(line) + i] = IF ToIt(s[i], c) THEN s[i].m ELSE Msg("other", 0)
  BY <1>a DEF Shows
<1>3. /\ Len(b) = Len(line) + (Len(s) - 1)
      /\ \A i \in 1 .. Len(line) : b[i] = line[i]
      /\ \A i \in 1 .. Len(s) - 1 :
            b[Len(line) + i] = IF ToIt(rest[i], c) THEN rest[i].m ELSE Msg("other", 0)
  BY <1>1, <1>a DEF Shows
<1>4. ASSUME NEW i \in 1 .. Len(b) PROVE b[i] = a[IF i < Len(line) + 1 THEN i ELSE i + 1]
  <2>1. CASE i <= Len(line)
    BY <1>2, <1>3, <2>1
  <2>2. CASE i > Len(line)
    <3>1. PICK j \in 1 .. Len(s) - 1 : i = Len(line) + j
      <4>1. i - Len(line) \in 1 .. Len(s) - 1 /\ i = Len(line) + (i - Len(line))
        BY <1>1, <1>2, <1>3, <2>2
      <4> QED
        BY <4>1
    <3>2. a[Len(line) + (j + 1)] = IF ToIt(s[j + 1], c) THEN s[j + 1].m ELSE Msg("other", 0)
      BY <1>1, <1>2
    <3>3. i + 1 = Len(line) + (j + 1)
      BY <1>1, <1>2, <3>1
    <3>4. b[i] = IF ToIt(s[j + 1], c) THEN s[j + 1].m ELSE Msg("other", 0)
      BY <1>1, <1>3, <3>1
    <3> QED
      BY <1>2, <2>2, <3>2, <3>3, <3>4
  <2> QED
    BY <1>2, <1>3, <2>1, <2>2
<1>5. Cut(a, b, Len(line) + 1)
  BY <1>1, <1>2, <1>3, <1>4 DEF Cut
<1> QED
  BY <1>5 DEF a, b, rest

LEMMA LineType == ASSUME TypeOK, NEW c \in Clients PROVE Line(c) \in Seq(ToClient)
<1>1. got[c] \in Seq(ToClient) /\ cq[c] \in Seq(ToClient)
  BY DEF TypeOK
<1> QED
  BY <1>1, Concat DEF Line

LEMMA SentShows == ASSUME TypeOK, NEW c \in Clients PROVE Shows(Sent(c), Line(c), script, c)
<1>1. script \in Seq(Op)
  BY DEF TypeOK
<1> QED
  BY <1>1, LineType, Parts, SentIs

LEMMA SentIsNext == \A c : Sent(c)' = Line(c)' \o View(script', c)
  BY DEF Sent, Line, View, ToIt

\* What the first step of the script does to what c gets, done or given up.
LEMMA Popped ==
    ASSUME TypeOK, NEW c \in Clients, script # <<>>, script' = Tail(script),
           \/ ToIt(script[1], c) /\ Line(c)' = Append(Line(c), script[1].m)
           \/ Line(c)' = Line(c)
    PROVE  /\ Len(Line(c)) \in Nat
           /\ \/ /\ ToIt(script[1], c)
                 /\ Sent(c)' = Sent(c) /\ Len(Line(c)') = Len(Line(c)) + 1
                 /\ Sent(c)[Len(Line(c)) + 1] = script[1].m
              \/ /\ Len(Line(c)') = Len(Line(c))
                 /\ Cut(Sent(c), Sent(c)', Len(Line(c)) + 1)
           /\ ~ToIt(script[1], c) => Sent(c)[Len(Line(c)) + 1] = Msg("other", 0)
<1>1. Line(c) \in Seq(ToClient) /\ script \in Seq(Op) /\ Len(script) \in Nat \ {0}
  BY LineType, Rest DEF TypeOK
<1>2. Shows(Sent(c), Line(c), script, c)
  BY SentShows
<1>3. Sent(c)[Len(Line(c)) + 1] = IF ToIt(script[1], c) THEN script[1].m ELSE Msg("other", 0)
  BY <1>1, <1>2 DEF Shows
<1>4. Sent(c) = Line(c) \o View(script, c) /\ Sent(c)' = Line(c)' \o View(Tail(script), c)
  BY SentIs, SentIsNext
<1>5. CASE ToIt(script[1], c) /\ Line(c)' = Append(Line(c), script[1].m)
  <2>1. Sent(c)' = Sent(c) /\ Len(Line(c)') = Len(Line(c)) + 1
    BY <1>1, <1>4, <1>5, PopTo
  <2> QED
    BY <1>2, <1>3, <1>5, <2>1 DEF Shows
<1>6. CASE Line(c)' = Line(c)
  <2>1. Cut(Sent(c), Sent(c)', Len(Line(c)) + 1)
    BY <1>1, <1>4, <1>6, PopCut
  <2> QED
    BY <1>2, <1>3, <1>6, <2>1 DEF Shows
<1> QED
  BY <1>5, <1>6

\* Nobody loses the order when the script goes on, nor a text unless it is a signal that
\* takes its head.
LEMMA PopDelivers ==
    ASSUME TypeOK, NEW c \in Clients, DeliveryOf(c),
           spc = "run", spc' = "run", script # <<>>, script' = Tail(script),
           UNCHANGED <<sq, cpc, stored, hist_count>>, running' => running,
           \/ ToIt(script[1], c) /\ Line(c)' = Append(Line(c), script[1].m) /\ caught' = caught
           \/ Line(c)' = Line(c) /\ caught' = caught /\ ~ToIt(script[1], c)
           \/ Line(c)' = Line(c) /\ caught' = caught + 1 /\ ~running',
           Listed(c)' => Listed(c) \/ Adds(script[1], c)
    PROVE  DeliveryOf(c)'
<1> DEFINE a == Sent(c)
           b == Sent(c)'
           n == Len(Line(c))
           m == Len(Line(c)')
<1>0. /\ script \in Seq(Op) /\ Len(script) \in Nat \ {0} /\ Len(script') = Len(script) - 1
      /\ 1 \in 1 .. Len(script)
      /\ \A i \in 1 .. Len(script') : i + 1 \in 1 .. Len(script) /\ script'[i] = script[i + 1]
  BY Rest DEF TypeOK
<1>1. /\ n \in Nat
      /\ \/ ToIt(script[1], c) /\ b = a /\ m = n + 1 /\ a[n + 1] = script[1].m
         \/ m = n /\ Cut(a, b, n + 1)
      /\ ~ToIt(script[1], c) => a[n + 1] = Msg("other", 0)
  BY Popped
<1>2. \/ /\ ToIt(script[1], c) /\ b = a /\ m = n + 1 /\ a[n + 1] = script[1].m
         /\ caught' = caught
      \/ /\ m = n /\ Cut(a, b, n + 1) /\ ~IsText(a[n + 1]) /\ ~ToIt(script[1], c)
         /\ caught' = caught
      \/ m = n /\ Cut(a, b, n + 1) /\ caught' = caught + 1 /\ ~running'
  <2>1. CASE Line(c)' = Line(c) /\ caught' = caught /\ ~ToIt(script[1], c)
    BY <1>1, <2>1 DEF IsText, Msg
  <2>2. CASE ToIt(script[1], c) /\ Line(c)' = Append(Line(c), script[1].m) /\ caught' = caught
    <3>1. m = n + 1
      BY <2>2, LineType, Appended
    <3> QED
      BY <1>1, <2>2, <3>1
  <2>3. CASE Line(c)' = Line(c) /\ caught' = caught + 1 /\ ~running'
    BY <1>1, <2>3
  <2> QED
    BY <2>1, <2>2, <2>3
<1>3. OrderlyIn(a, n) /\ Asked(c) /\ Greeted(c)
  BY DEF DeliveryOf
<1>4. OrderlyIn(b, m)
  <2> HIDE DEF a, b, n, m
  <2>1. CASE b = a /\ m = n + 1
    BY <1>1, <1>3, <2>1 DEF OrderlyIn
  <2>2. CASE m = n /\ Cut(a, b, n + 1)
    BY <1>1, <1>3, <2>2, CutOrderly
  <2> QED
    BY <1>1, <2>1, <2>2
<1>5. Joining(c)' => Joining(c)
  BY <1>0 DEF Joining
<1>6. Listed(c)' \/ Joining(c)' => Listed(c) \/ Joining(c)
  BY <1>0, <1>5 DEF Adds, Joining
<1>7. Asked(c)'
  <2>1. Asking(c)' <=> Asking(c)
    BY DEF Asking
  <2>2. ASSUME \A i \in 1 .. Len(a) : a[i].type = "other"
        PROVE  \A i \in 1 .. Len(b) : b[i].type = "other"
    <3> HIDE DEF a, b, n, m
    <3>1. CASE b = a
      BY <2>2, <3>1
    <3>2. CASE Cut(a, b, n + 1)
      BY <2>2, <3>2, <1>1 DEF Cut
    <3> QED
      BY <1>1, <3>1, <3>2
  <2> QED
    BY <1>3, <1>6, <2>1, <2>2 DEF Asked, AskedOnce
<1>8. Welcomed(c) => Welcomed(c)'
  <2> SUFFICES ASSUME NEW k \in 1 .. n, a[k].type = "JOIN_OK"
               PROVE  \E l \in 1 .. m : b[l].type = "JOIN_OK"
    BY DEF Welcomed
  <2> HIDE DEF a, b, n, m
  <2>1. k \in 1 .. m
    BY <1>1
  <2>2. b[k] = a[k]
    <3>1. CASE Cut(a, b, n + 1)
      <4>1. k < n + 1 /\ k \in 1 .. Len(b)
        BY <1>1, <3>1 DEF Cut
      <4> QED
        BY <3>1, <4>1 DEF Cut
    <3> QED
      BY <1>1, <3>1
  <2> QED
    BY <2>1, <2>2
<1>9. running' /\ ToIt(script[1], c) /\ script[1].m.type = "JOIN_OK" => Welcomed(c)'
  <2> SUFFICES ASSUME running', ToIt(script[1], c), script[1].m.type = "JOIN_OK"
               PROVE  \E l \in 1 .. m : b[l].type = "JOIN_OK"
    BY DEF Welcomed
  <2>1. b = a /\ m = n + 1 /\ a[n + 1] = script[1].m
    BY <1>2
  <2> HIDE DEF a, b, n, m
  <2> QED
    BY <1>1, <2>1
<1>10. Greeted(c)'
  <2>1. Listed(c)' => Welcomed(c)' \/ (~running' /\ spc' # "receive")
    <3>1. CASE Listed(c)
      BY <1>3, <1>8, <3>1 DEF Greeted
    <3>2. CASE Adds(script[1], c)
      BY <1>0, <1>3, <1>8, <3>2 DEF Greeted
    <3> QED
      BY <3>1, <3>2
  <2>2. ASSUME NEW i \in 1 .. Len(script'), Adds(script'[i], c)
        PROVE  \/ Welcomed(c)' \/ ~running'
               \/ \E j \in 1 .. i - 1 : ToIt(script'[j], c) /\ script'[j].m.type = "JOIN_OK"
    <3>1. i + 1 \in 1 .. Len(script) /\ Adds(script[i + 1], c)
      BY <1>0, <2>2
    <3>2. CASE Welcomed(c) \/ ~running
      BY <1>8, <3>2
    <3>3. CASE \E j \in 1 .. (i + 1) - 1 : ToIt(script[j], c) /\ script[j].m.type = "JOIN_OK"
      <4>1. PICK j \in 1 .. (i + 1) - 1 : ToIt(script[j], c) /\ script[j].m.type = "JOIN_OK"
        BY <3>3
      <4>2. CASE j = 1
        BY <1>9, <4>1, <4>2
      <4>3. CASE j # 1
        <5>1. j - 1 \in 1 .. i - 1 /\ j - 1 \in 1 .. Len(script') /\ (j - 1) + 1 = j
          BY <1>0, <4>3
        <5>2. script'[j - 1] = script[j]
          BY <1>0, <5>1
        <5> QED
          BY <4>1, <5>1, <5>2
      <4> QED
        BY <4>2, <4>3
    <3> QED
      BY <1>3, <3>1, <3>2, <3>3 DEF Greeted
  <2> QED
    BY <2>1, <2>2 DEF Greeted
<1>11. ASSUME Listed(c)' \/ Joining(c)' PROVE InOrder(b) /\ Newest(c)'
  <2>1. InOrder(a) /\ Newest(c)
    BY <1>6, <1>11 DEF DeliveryOf
  <2>2. PICK first \in 1 .. stored - hist_count + 1, lost \in SUBSET (1 .. stored) :
           Cardinality(lost) <= caught /\ Covers(a, first, stored, lost)
    BY <2>1 DEF Newest
  <2>3. CASE caught' = caught
    <3>1. InOrder(b) /\ Covers(b, first, stored, lost)
      <4> HIDE DEF a, b, n, m
      <4>1. CASE b = a
        BY <2>1, <2>2, <4>1
      <4>2. CASE Cut(a, b, n + 1) /\ ~IsText(a[n + 1])
        BY <2>1, <2>2, <4>2, CutTexts
      <4> QED
        BY <1>2, <2>3, <4>1, <4>2 DEF TypeOK
    <3> QED
      BY <2>2, <2>3, <3>1 DEF Newest
  <2>4. CASE Cut(a, b, n + 1) /\ caught' = caught + 1
    <3> DEFINE x == a[n + 1]
               more == IF IsText(x) THEN lost \cup {x.n} ELSE lost
    <3>1. InOrder(b) /\ Covers(b, first, stored, more)
      <4>1. lost \subseteq more /\ (IsText(x) => x.n \in more)
        OBVIOUS
      <4> HIDE DEF a, b, n, m, more
      <4> QED
        BY <2>1, <2>2, <2>4, <4>1, CutTexts
    <3>2. more \in SUBSET (1 .. stored)
      <4>1. IsText(x) => x.n \in first .. stored
        <5> HIDE DEF a, b, n, m
        <5> QED
          BY <2>2, <2>4 DEF Covers, Cut
      <4>2. stored \in Nat /\ first \in Int /\ 1 <= first
        BY DEF TypeOK
      <4>3. first .. stored \subseteq 1 .. stored
        BY <4>2
      <4>4. CASE IsText(x)
        BY <4>1, <4>3, <4>4
      <4>5. CASE ~IsText(x)
        BY <4>5
      <4> QED
        BY <4>4, <4>5
    <3>3. Cardinality(more) <= caught'
      <4>1. stored \in Nat /\ caught \in Nat
        BY DEF TypeOK
      <4>2. IsFiniteSet(lost) /\ Cardinality(lost) \in Nat
        BY <4>1, LostCount
      <4>3. ASSUME NEW y
            PROVE  Cardinality(lost \cup {y}) \in {Cardinality(lost), Cardinality(lost) + 1}
        BY <4>2, FS_AddElement
      <4>4. Cardinality(more) \in {Cardinality(lost), Cardinality(lost) + 1}
        BY <4>3
      <4> HIDE DEF more
      <4> QED
        BY <2>2, <2>4, <4>1, <4>2, <4>4
    <3> HIDE DEF more
    <3> QED
      BY <3>1, <3>2, <3>3 DEF Newest
  <2> QED
    BY <1>2, <2>3, <2>4
<1> QED
  BY <1>4, <1>7, <1>10, <1>11 DEF DeliveryOf

\* A message sent is the last of what has been sent; one received was the first that waits.
LEMMA Shift ==
    ASSUME NEW g \in Seq(ToClient), NEW q \in Seq(ToClient), NEW m \in ToClient
    PROVE  /\ g \o Append(q, m) = Append(g \o q, m)
           /\ q # <<>> => Append(g, Head(q)) \o Tail(q) = g \o q
<1>1. g \o Append(q, m) = Append(g \o q, m)
  <2> DEFINE q2 == Append(q, m)
             l == g \o q
  <2>1. /\ q2 \in Seq(ToClient) /\ Len(q2) = Len(q) + 1 /\ q2[Len(q) + 1] = m
        /\ \A i \in 1 .. Len(q) : q2[i] = q[i]
    BY Appended
  <2>2. /\ l \in Seq(ToClient) /\ Len(l) = Len(g) + Len(q) /\ Len(g) \in Nat /\ Len(q) \in Nat
        /\ \A i \in 1 .. Len(l) : l[i] = IF i <= Len(g) THEN g[i] ELSE q[i - Len(g)]
    BY Concat
  <2> HIDE DEF q2, l
  <2> DEFINE a == g \o q2
             b == Append(l, m)
  <2>3. /\ a \in Seq(ToClient) /\ Len(a) = Len(g) + Len(q2)
        /\ \A i \in 1 .. Len(a) : a[i] = IF i <= Len(g) THEN g[i] ELSE q2[i - Len(g)]
    BY <2>1, Concat
  <2>4. /\ b \in Seq(ToClient) /\ Len(b) = Len(l) + 1 /\ b[Len(l) + 1] = m
        /\ \A i \in 1 .. Len(l) : b[i] = l[i]
    BY <2>2, Appended
  <2> HIDE DEF a, b
  <2>5. Len(a) = Len(b)
    BY <2>1, <2>2, <2>3, <2>4
  <2>6. ASSUME NEW i \in 1 .. Len(a) PROVE a[i] = b[i]
    <3>1. CASE i <= Len(g)
      <4>1. a[i] = g[i]
        BY <2>3, <3>1
      <4>2. i \in 1 .. Len(l) /\ l[i] = g[i]
        BY <2>2, <2>3, <3>1
      <4> QED
        BY <2>4, <4>1, <4>2
    <3>2. CASE i > Len(g) /\ i <= Len(l)
      <4>1. a[i] = q2[i - Len(g)] /\ i - Len(g) \in 1 .. Len(q)
        BY <2>1, <2>2, <2>3, <3>2
      <4>2. b[i] = l[i] /\ l[i] = q[i - Len(g)]
        BY <2>2, <2>3, <2>4, <3>2
      <4> QED
        BY <2>1, <4>1, <4>2
    <3>3. CASE i = Len(l) + 1
      <4>1. a[i] = q2[i - Len(g)] /\ i - Len(g) = Len(q) + 1
        BY <2>1, <2>2, <2>3, <3>3
      <4> QED
        BY <2>1, <2>4, <3>3, <4>1
    <3> QED
      BY <2>1, <2>2, <2>3, <3>1, <3>2, <3>3
  <2>7. a = b
    BY <2>3, <2>4, <2>5, <2>6, SameSeq
  <2> QED
    BY <2>7 DEF a, b, q2, l
<1>2. ASSUME q # <<>> PROVE Append(g, Head(q)) \o Tail(q) = g \o q
  <2> DEFINE g2 == Append(g, Head(q))
             q2 == Tail(q)
  <2>1. /\ Head(q) = q[1] /\ Head(q) \in ToClient /\ Len(q) \in Nat \ {0}
        /\ q2 \in Seq(ToClient) /\ Len(q2) = Len(q) - 1
        /\ \A i \in 1 .. Len(q) - 1 : q2[i] = q[i + 1]
    BY <1>2, Rest
  <2>2. /\ g2 \in Seq(ToClient) /\ Len(g2) = Len(g) + 1 /\ g2[Len(g) + 1] = q[1]
        /\ \A i \in 1 .. Len(g) : g2[i] = g[i]
    BY <2>1, Appended
  <2> HIDE DEF g2, q2
  <2> DEFINE a == g2 \o q2
             b == g \o q
  <2>0. g2 \in Seq(ToClient) /\ q2 \in Seq(ToClient) /\ Len(g) \in Nat
    BY <2>1, <2>2
  <2>3. /\ a \in Seq(ToClient) /\ Len(a) = Len(g2) + Len(q2) /\ Len(g) \in Nat
        /\ \A i \in 1 .. Len(a) : a[i] = IF i <= Len(g2) THEN g2[i] ELSE q2[i - Len(g2)]
    BY <2>0, Concat
  <2>4. /\ b \in Seq(ToClient) /\ Len(b) = Len(g) + Len(q)
        /\ \A i \in 1 .. Len(b) : b[i] = IF i <= Len(g) THEN g[i] ELSE q[i - Len(g)]
    BY Concat
  <2> HIDE DEF a, b
  <2>5. Len(a) = Len(b)
    BY <2>1, <2>2, <2>3, <2>4
  <2>6. ASSUME NEW i \in 1 .. Len(a) PROVE a[i] = b[i]
    <3>1. CASE i <= Len(g)
      <4>1. a[i] = g2[i] /\ g2[i] = g[i]
        BY <2>2, <2>3, <3>1
      <4>2. b[i] = g[i]
        BY <2>3, <2>4, <2>5, <3>1
      <4> QED
        BY <4>1, <4>2
    <3>2. CASE i = Len(g) + 1
      BY <2>2, <2>3, <2>4, <2>5, <3>2
    <3>3. CASE i > Len(g) + 1
      <4>1. a[i] = q2[i - (Len(g) + 1)] /\ i - (Len(g) + 1) \in 1 .. Len(q) - 1
        BY <2>1, <2>2, <2>3, <3>3
      <4>2. b[i] = q[i - Len(g)] /\ (i - (Len(g) + 1)) + 1 = i - Len(g)
        BY <2>1, <2>3, <2>4, <2>5, <3>3
      <4> QED
        BY <2>1, <4>1, <4>2
    <3> QED
      BY <2>3, <3>1, <3>2, <3>3
  <2>7. a = b
    BY <2>3, <2>4, <2>5, <2>6, SameSeq
  <2> QED
    BY <2>7 DEF a, b, g2, q2
<1> QED
  BY <1>1, <1>2

LEMMA SendDelivers == ASSUME MqInv, DeliveryInv, SendNext PROVE DeliveryInv'
<1> DEFINE d == Head(script).to
           m == Head(script).m
<1>1. /\ script # <<>> /\ script \in Seq(Op) /\ Head(script) = script[1] /\ script[1] \in Op
      /\ spc = "run" /\ TypeOK /\ script' = Tail(script)
      /\ cq' = [cq EXCEPT ![d] = Append(cq[d], m)]
      /\ UNCHANGED <<sq, spc, table, running, caught, history, client>>
      /\ script[1].do = "send"
  BY Rest DEF MqInv, TypeOK, SendNext
<1>2. d \in Clients /\ m \in ToClient
  BY <1>1 DEF Op
<1>3. ASSUME NEW c \in Clients
      PROVE  \/ ToIt(script[1], c) /\ Line(c)' = Append(Line(c), script[1].m)
             \/ Line(c)' = Line(c) /\ ~ToIt(script[1], c)
  <2>1. got[c] \in Seq(ToClient) /\ cq[c] \in Seq(ToClient) /\ got'[c] = got[c]
        /\ cq \in [Clients -> Seq(ToClient)]
    BY <1>1 DEF TypeOK, client
  <2>2. CASE c = d
    <3>1. cq'[c] = Append(cq[c], m)
      BY <1>1, <2>1, <2>2
    <3>2. got[c] \o Append(cq[c], m) = Append(got[c] \o cq[c], m)
      BY <1>2, <2>1, Shift
    <3>3. Line(c)' = Append(Line(c), m)
      BY <2>1, <3>1, <3>2 DEF Line
    <3> QED
      BY <1>1, <2>2, <3>3 DEF ToIt
  <2>3. CASE c # d
    <3>1. cq'[c] = cq[c]
      BY <1>1, <2>1, <2>3
    <3> QED
      BY <1>1, <2>1, <2>3, <3>1 DEF Line, ToIt
  <2> QED
    BY <2>2, <2>3
<1>4. ASSUME NEW c \in Clients PROVE DeliveryOf(c)'
  <2>1. DeliveryOf(c) /\ UNCHANGED <<sq, cpc, stored, hist_count, running, caught>> /\ spc' = "run"
        /\ (Listed(c)' => Listed(c))
    BY <1>1 DEF DeliveryInv, client, history, Listed
  <2> HIDE DEF d, m
  <2> QED
    BY <1>1, <1>3, <2>1, PopDelivers
<1> QED
  BY <1>4 DEF DeliveryInv

LEMMA UpdateDelivers == ASSUME MqInv, DeliveryInv, UpdateTable PROVE DeliveryInv'
<1>1. /\ script # <<>> /\ script \in Seq(Op) /\ Head(script) = script[1] /\ script[1] \in Op
      /\ spc = "run" /\ TypeOK /\ script' = Tail(script) /\ table \in Seq(Clients)
      /\ UNCHANGED <<queues, spc, running, caught, history, client>>
  BY Rest DEF MqInv, TypeOK, UpdateTable
<1>2. \/ script[1].do = "add" /\ table' = Append(table, script[1].to)
      \/ script[1].do = "remove" /\ table' = Without(script[1].to)
  BY <1>1 DEF UpdateTable
<1>3. script[1].to \in Clients
  BY <1>1 DEF Op
<1>4. ASSUME NEW c \in Clients PROVE Listed(c)' => Listed(c) \/ Adds(script[1], c)
  <2>1. CASE script[1].do = "add" /\ table' = Append(table, script[1].to)
    <3>1. script[1] = [do |-> "add", to |-> script[1].to]
      BY <1>1, <2>1 DEF Op
    <3>2. /\ Len(table') = Len(table) + 1 /\ table'[Len(table) + 1] = script[1].to
          /\ \A i \in 1 .. Len(table) : table'[i] = table[i]
      BY <1>1, <1>3, <2>1, Appended
    <3>3. \A i \in 1 .. Len(table') : i \in 1 .. Len(table) \/ i = Len(table) + 1
      BY <1>1, <3>2
    <3> QED
      BY <3>1, <3>2, <3>3 DEF Listed, Adds
  <2>2. CASE table' = Without(script[1].to)
    <3>1. \A i \in 1 .. Len(table') : Listed(table'[i])
      BY <1>1, <1>3, <2>2, WithoutEntries DEF MqInv, Distinct
    <3> QED
      BY <3>1 DEF Listed
  <2> QED
    BY <1>2, <2>1, <2>2
<1>5. ASSUME NEW c \in Clients PROVE DeliveryOf(c)'
  <2>1. /\ DeliveryOf(c) /\ UNCHANGED <<sq, cpc, stored, hist_count, running, caught>>
        /\ spc' = "run"
        /\ Line(c)' = Line(c) /\ ~ToIt(script[1], c)
    BY <1>1, <1>2 DEF DeliveryInv, client, queues, history, Line, ToIt
  <2> QED
    BY <1>1, <1>4, <2>1, PopDelivers
<1> QED
  BY <1>5 DEF DeliveryInv

-------------------------------------------------------------------------
(* The other steps.                                                      *)

\* Nothing goes to c, and nothing is stored.
LEMMA QuietDelivers ==
    ASSUME TypeOK, NEW c \in Clients, DeliveryOf(c),
           Line(c)' = Line(c), UNCHANGED <<script, table, stored, hist_count>>,
           caught' \in {caught, caught + 1}, running' => running,
           spc' = "receive" => spc = "receive" \/ running,
           Asking(c)' => Asking(c), AskedOnce(c)'
    PROVE  DeliveryOf(c)'
<1>1. Sent(c)' = Sent(c)
  BY SentIs, SentIsNext
<1>2. (Listed(c)' <=> Listed(c)) /\ (Joining(c)' <=> Joining(c))
  BY DEF Listed, Joining
<1>3. Asked(c)'
  BY <1>1, <1>2 DEF DeliveryOf, Asked
<1>4. Welcomed(c)' <=> Welcomed(c)
  BY <1>1 DEF Welcomed
<1>5. Greeted(c)'
  BY <1>2, <1>4 DEF DeliveryOf, Greeted
<1>6. Newest(c) => Newest(c)'
  <2>1. ASSUME NEW lost \in SUBSET (1 .. stored), Cardinality(lost) <= caught
        PROVE  Cardinality(lost) <= caught'
    <3>1. stored \in Nat /\ caught \in Nat
      BY DEF TypeOK
    <3>2. Cardinality(lost) \in Nat
      BY <3>1, LostCount
    <3> QED
      BY <2>1, <3>1, <3>2
  <2> QED
    BY <1>1, <2>1 DEF Newest
<1> QED
  BY <1>1, <1>2, <1>3, <1>5, <1>6 DEF DeliveryOf

\* A message goes to the server: it asks for its client, once, or for nobody.
LEMMA PostAsks ==
    ASSUME TypeOK, NEW c \in Clients, DeliveryOf(c),
           NEW d \in Clients, NEW type \in {"JOIN_REQ", "TEXT", "LEAVE"}, Post(d, type),
           type = "JOIN_REQ" => cpc[d] = "start" /\ cpc'[d] # "start",
           cpc'[c] = "start" => cpc[c] = "start"
    PROVE  (Asking(c)' => Asking(c)) /\ AskedOnce(c)'
<1> DEFINE m == [type |-> type, from |-> d]
<1>1. /\ Len(sq') = Len(sq) + 1 /\ Len(sq) \in Nat
      /\ sq'[Len(sq) + 1] = m
      /\ \A i \in 1 .. Len(sq) : sq'[i] = sq[i]
  <2>1. m \in ToServer
    BY DEF ToServer
  <2> QED
    BY <2>1, Appended DEF Post, TypeOK
<1>2. \A i \in 1 .. Len(sq') : i \in 1 .. Len(sq) \/ i = Len(sq) + 1
  BY <1>1
<1>3. Asks(m, c) => d = c /\ cpc[c] = "start" /\ cpc'[c] # "start"
  BY DEF Asks
<1>4. \A i \in 1 .. Len(sq') : Asks(sq'[i], c) =>
         (i \in 1 .. Len(sq) /\ Asks(sq[i], c)) \/ (i = Len(sq) + 1 /\ Asks(m, c))
  BY <1>1, <1>2
<1>5. AskedOnce(c)
  BY DEF DeliveryOf, Asked
<1> HIDE DEF m
<1>6. Asking(c)' => Asking(c)
  BY <1>3, <1>4 DEF Asking
<1>7. AskedOnce(c)'
  BY <1>3, <1>4, <1>5 DEF AskedOnce
<1> QED
  BY <1>6, <1>7

-------------------------------------------------------------------------
(* A new script.                                                         *)

\* What c gets, a, followed by its part of the script s.
Grows(a, b, s, c) ==
    /\ Len(a) \in Nat /\ Len(s) \in Nat /\ Len(b) = Len(a) + Len(s)
    /\ \A i \in 1 .. Len(a) : b[i] = a[i] /\ a[i].type # "other"
    /\ \A i \in 1 .. Len(s) :
          b[Len(a) + i] = IF ToIt(s[i], c) THEN s[i].m ELSE Msg("other", 0)

\* The script of a message received is the first one.
LEMMA NewScript ==
    ASSUME TypeOK, NEW c \in Clients, script = <<>>, script' \in Seq(Op), Line(c)' = Line(c)
    PROVE  Len(Line(c)) = Len(Sent(c)) /\ Grows(Sent(c), Sent(c)', script', c)
<1> DEFINE a == Sent(c)
           b == Sent(c)'
           line == Line(c)
           s == script'
<1>1. line \in Seq(ToClient)
  BY LineType
<1>2. Shows(a, line, script, c)
  BY SentShows
<1>3. Shows(b, line, s, c)
  <2>1. b = line \o View(s, c)
    BY SentIsNext
  <2> HIDE DEF b, line, s
  <2> QED
    BY <1>1, <2>1, Parts DEF s
<1>4. Len(script) = 0
  OBVIOUS
<1> HIDE DEF a, b, line, s
<1>5. /\ Len(a) = Len(line) /\ Len(a) \in Nat
      /\ \A i \in 1 .. Len(a) : a[i] = line[i] /\ a[i].type # "other"
  BY <1>2, <1>4 DEF Shows
<1>6. Grows(a, b, s, c)
  BY <1>3, <1>5 DEF Shows, Grows
<1> QED
  BY <1>5, <1>6 DEF a, b, line, s

\* Each entry is of one part or the other.
LEMMA GrownEntry ==
    ASSUME NEW a, NEW b, NEW s, NEW c, Grows(a, b, s, c), NEW i \in 1 .. Len(b)
    PROVE  \/ i \in 1 .. Len(a) /\ b[i] = a[i]
           \/ \E j \in 1 .. Len(s) : i = Len(a) + j /\ ToIt(s[j], c) /\ b[i] = s[j].m
           \/ i > Len(a) /\ b[i].type = "other" /\ ~IsText(b[i]) /\ ~IsEarly(b[i])
<1>1. CASE i <= Len(a)
  BY <1>1 DEF Grows
<1>2. CASE i > Len(a)
  <2>1. PICK j \in 1 .. Len(s) : i = Len(a) + j
    <3>1. i - Len(a) \in 1 .. Len(s) /\ i = Len(a) + (i - Len(a))
      BY <1>2 DEF Grows
    <3> QED
      BY <3>1
  <2>2. b[i] = IF ToIt(s[j], c) THEN s[j].m ELSE Msg("other", 0)
    BY <2>1 DEF Grows
  <2>3. LET m == Msg("other", 0) IN m.type = "other" /\ ~IsText(m) /\ ~IsEarly(m)
    BY DEF Msg, IsText, IsEarly
  <2> QED
    BY <1>2, <2>1, <2>2, <2>3
<1> QED
  BY <1>1, <1>2 DEF Grows

\* What is no part of the joining goes to who has been welcomed.
LEMMA GrowsOrderly ==
    ASSUME NEW a, NEW b, NEW s, NEW c, Grows(a, b, s, c), OrderlyIn(a, Len(a)),
           \A j \in 1 .. Len(s) : ToIt(s[j], c) =>
              ~IsEarly(s[j].m) /\ \E k \in 1 .. Len(a) : a[k].type = "JOIN_OK"
    PROVE  OrderlyIn(b, Len(a))
<1>1. ASSUME NEW i \in 1 .. Len(b), NEW j \in 1 .. Len(b), i < j, b[i].type # "other", IsEarly(b[j])
      PROVE  b[i].type = "HIST"
  <2>1. j \in 1 .. Len(a) /\ b[j] = a[j]
    BY <1>1, GrownEntry
  <2>2. i \in 1 .. Len(a) /\ b[i] = a[i]
    BY <1>1, <2>1 DEF Grows
  <2> QED
    BY <1>1, <2>1, <2>2 DEF OrderlyIn
<1>2. ASSUME NEW j \in 1 .. Len(b), b[j].type # "other", ~IsEarly(b[j])
      PROVE  \E k \in 1 .. Len(a) : k < j /\ b[k].type = "JOIN_OK"
  <2>1. CASE j \in 1 .. Len(a) /\ b[j] = a[j]
    <3>1. PICK k \in 1 .. Len(a) : k < j /\ a[k].type = "JOIN_OK"
      BY <1>2, <2>1 DEF OrderlyIn
    <3> QED
      BY <3>1 DEF Grows
  <2>2. ASSUME NEW l \in 1 .. Len(s), j = Len(a) + l, ToIt(s[l], c)
        PROVE  \E k \in 1 .. Len(a) : k < j /\ b[k].type = "JOIN_OK"
    <3>1. PICK k \in 1 .. Len(a) : a[k].type = "JOIN_OK"
      BY <2>2
    <3>2. k < j
      BY <2>2 DEF Grows
    <3> QED
      BY <3>1, <3>2 DEF Grows
  <2> QED
    BY <1>2, <2>1, <2>2, GrownEntry
<1> QED
  BY <1>1, <1>2 DEF OrderlyIn

\* A script without texts brings none.
LEMMA GrowsTextless ==
    ASSUME NEW a, NEW b, NEW s, NEW c, Grows(a, b, s, c),
           \A j \in 1 .. Len(s) : ToIt(s[j], c) => ~IsText(s[j].m),
           InOrder(a), NEW first, NEW last, NEW lost, Covers(a, first, last, lost)
    PROVE  InOrder(b) /\ Covers(b, first, last, lost)
<1>1. \A i \in 1 .. Len(b) : IsText(b[i]) => i \in 1 .. Len(a) /\ b[i] = a[i]
  <2> SUFFICES ASSUME NEW i \in 1 .. Len(b), IsText(b[i])
               PROVE  i \in 1 .. Len(a) /\ b[i] = a[i]
    OBVIOUS
  <2> QED
    BY GrownEntry
<1>2. \A i \in 1 .. Len(a) : i \in 1 .. Len(b) /\ b[i] = a[i]
  BY DEF Grows
<1>3. InOrder(b)
  BY <1>1 DEF InOrder
<1>4. Covers(b, first, last, lost)
  <2>1. \A i \in 1 .. Len(b) : IsText(b[i]) => b[i].n \in first .. last
    BY <1>1 DEF Covers
  <2>2. \A n \in (first .. last) \ lost : \E i \in 1 .. Len(b) : IsText(b[i]) /\ b[i].n = n
    BY <1>2 DEF Covers
  <2> QED
    BY <2>1, <2>2 DEF Covers
<1> QED
  BY <1>3, <1>4

\* One text, with the next number, comes to who is once in the table.
LEMMA GrowsByOne ==
    ASSUME NEW a, NEW b, NEW s, NEW c, Grows(a, b, s, c),
           NEW first \in Nat, NEW last \in Nat, first <= last + 1,
           NEW x \in 1 .. Len(s), ToIt(s[x], c), s[x].m = Msg("TEXT", last + 1),
           \A j \in 1 .. Len(s) : ToIt(s[j], c) => j = x,
           InOrder(a), NEW lost, Covers(a, first, last, lost)
    PROVE  InOrder(b) /\ Covers(b, first, last + 1, lost)
<1> DEFINE p == Len(a) + x
<1>1. p \in 1 .. Len(b) /\ b[p] = Msg("TEXT", last + 1) /\ p > Len(a)
  BY DEF Grows
<1>2. \A i \in 1 .. Len(a) : i \in 1 .. Len(b) /\ b[i] = a[i] /\ i < p
  BY <1>1 DEF Grows
<1>3. \A i \in 1 .. Len(b) : IsText(b[i]) => (i \in 1 .. Len(a) /\ b[i] = a[i]) \/ i = p
  <2> SUFFICES ASSUME NEW i \in 1 .. Len(b), IsText(b[i])
               PROVE  (i \in 1 .. Len(a) /\ b[i] = a[i]) \/ i = p
    OBVIOUS
  <2>1. ASSUME NEW j \in 1 .. Len(s), i = Len(a) + j, ToIt(s[j], c) PROVE i = p
    BY <2>1
  <2> QED
    BY <2>1, GrownEntry
<1>4. IsText(b[p]) /\ b[p].n = last + 1
  BY <1>1 DEF IsText, Msg
<1> HIDE DEF p
<1>5. ASSUME NEW i \in 1 .. Len(b), NEW j \in 1 .. Len(b), i < j, IsText(b[i]), IsText(b[j])
      PROVE  b[i].n < b[j].n
  <2>1. i \in 1 .. Len(a) /\ b[i] = a[i]
    <3>1. CASE i = p
      <4>1. j \in 1 .. Len(a) \/ j = p
        BY <1>3, <1>5
      <4>2. ~(p < j)
        BY <1>1, <1>2, <4>1 DEF Grows
      <4> QED
        BY <1>5, <3>1, <4>2
    <3> QED
      BY <1>3, <1>5, <3>1
  <2>2. CASE j \in 1 .. Len(a) /\ b[j] = a[j]
    BY <1>5, <2>1, <2>2 DEF InOrder
  <2>3. CASE j = p
    <3>1. a[i].n \in first .. last
      BY <1>5, <2>1 DEF Covers
    <3> QED
      BY <1>4, <2>1, <2>3, <3>1
  <2> QED
    BY <1>3, <1>5, <2>2, <2>3
<1>6. \A i \in 1 .. Len(b) : IsText(b[i]) => b[i].n \in first .. last + 1
  <2>1. \A i \in 1 .. Len(a) : IsText(a[i]) => a[i].n \in first .. last + 1
    BY DEF Covers
  <2>2. last + 1 \in first .. last + 1
    OBVIOUS
  <2> QED
    BY <1>3, <1>4, <2>1, <2>2
<1>7. ASSUME NEW n \in (first .. last + 1) \ lost PROVE \E i \in 1 .. Len(b) : IsText(b[i]) /\ b[i].n = n
  <2>1. CASE n = last + 1
    BY <1>1, <1>4, <2>1
  <2>2. CASE n \in (first .. last) \ lost
    <3>1. PICK i \in 1 .. Len(a) : IsText(a[i]) /\ a[i].n = n
      BY <2>2 DEF Covers
    <3> QED
      BY <1>2, <3>1
  <2> QED
    BY <1>7, <2>1, <2>2
<1> QED
  BY <1>5, <1>6, <1>7 DEF InOrder, Covers

\* The last h texts and the welcome are all that s has for c.
Opens(s, c, h, last) ==
    /\ h \in Nat /\ last \in Nat /\ h <= last /\ h + 1 <= Len(s)
    /\ \A i \in 1 .. h : s[i] = SendOp(c, Msg("HIST", last - h + i))
    /\ s[h + 1] = SendOp(c, Msg("JOIN_OK", 0))
    /\ \A i \in 1 .. Len(s) : i > h + 1 => ~ToIt(s[i], c)

\* Who joins gets the history and the welcome first.
LEMMA GrowsHistory ==
    ASSUME NEW a, NEW b, NEW s, NEW c, Grows(a, b, s, c), Len(a) = 0,
           NEW h, NEW last, Opens(s, c, h, last)
    PROVE  /\ OrderlyIn(b, 0)
           /\ InOrder(b) /\ Covers(b, last - h + 1, last, {})
<1> USE DEF Opens
<1>0. Len(s) \in Nat /\ Len(b) = Len(s)
  BY DEF Grows
<1>1. \A i \in 1 .. Len(s) : b[i] = IF ToIt(s[i], c) THEN s[i].m ELSE Msg("other", 0)
  <2> SUFFICES ASSUME NEW i \in 1 .. Len(s)
               PROVE  b[i] = IF ToIt(s[i], c) THEN s[i].m ELSE Msg("other", 0)
    OBVIOUS
  <2>1. Len(a) + i = i
    OBVIOUS
  <2> QED
    BY <2>1 DEF Grows
<1>a. \A m : ToIt(SendOp(c, m), c) /\ SendOp(c, m).m = m
  BY DEF SendOp, ToIt
<1>2. \A i \in 1 .. h : b[i] = Msg("HIST", last - h + i)
  <2> SUFFICES ASSUME NEW i \in 1 .. h PROVE b[i] = Msg("HIST", last - h + i)
    OBVIOUS
  <2>1. i \in 1 .. Len(s)
    BY <1>0
  <2> QED
    BY <1>1, <1>a, <2>1
<1>b. ASSUME NEW i \in 1 .. h PROVE b[i].type = "HIST" /\ b[i].n = last - h + i
  <2>1. b[i] = [type |-> "HIST", n |-> last - h + i]
    BY <1>2 DEF Msg
  <2> QED
    BY <2>1
<1>3. b[h + 1] = Msg("JOIN_OK", 0)
  BY <1>0, <1>1, <1>a
<1>4. \A i \in 1 .. Len(b) : i > h + 1 => b[i] = Msg("other", 0)
  BY <1>0, <1>1
<1>5. \A i \in 1 .. Len(b) : i \in 1 .. h \/ i = h + 1 \/ i > h + 1
  BY <1>0
<1>6. ASSUME NEW i \in 1 .. Len(b)
      PROVE  /\ IsText(b[i]) => i \in 1 .. h /\ b[i].n = last - h + i
             /\ IsEarly(b[i]) => i \in 1 .. h \/ i = h + 1
             /\ IsEarly(b[i]) \/ b[i].type = "other"
  <2>1. CASE i \in 1 .. h
    BY <1>b, <2>1 DEF IsText, IsEarly
  <2>2. CASE i = h + 1
    BY <1>3, <2>2 DEF Msg, IsText, IsEarly
  <2>3. CASE i > h + 1
    BY <1>4, <2>3 DEF Msg, IsText, IsEarly
  <2> QED
    BY <1>5, <2>1, <2>2, <2>3
<1>7. OrderlyIn(b, 0)
  <2>1. ASSUME NEW i \in 1 .. Len(b), NEW j \in 1 .. Len(b), i < j, IsEarly(b[j])
        PROVE  b[i].type = "HIST"
    <3>1. j \in 1 .. h \/ j = h + 1
      BY <1>6, <2>1
    <3>2. i \in 1 .. h
      BY <1>0, <2>1, <3>1
    <3> QED
      BY <1>b, <3>2
  <2> QED
    BY <1>6, <2>1 DEF OrderlyIn
<1>8. InOrder(b)
  BY <1>6 DEF InOrder
<1>9. Covers(b, last - h + 1, last, {})
  <2>1. \A i \in 1 .. Len(b) : IsText(b[i]) => b[i].n \in last - h + 1 .. last
    BY <1>6
  <2>2. ASSUME NEW n \in last - h + 1 .. last
        PROVE  \E i \in 1 .. Len(b) : IsText(b[i]) /\ b[i].n = n
    <3>1. /\ n - (last - h) \in 1 .. h /\ n - (last - h) \in 1 .. Len(b)
          /\ last - h + (n - (last - h)) = n
      BY <1>0
    <3> QED
      BY <1>b, <3>1 DEF IsText
  <2> QED
    BY <2>1, <2>2 DEF Covers
<1> QED
  BY <1>7, <1>8, <1>9

-------------------------------------------------------------------------
(* What the scripts send to whom.                                        *)

LEMMA BroadcastEntries ==
    ASSUME NEW m, NEW others \in Seq(Clients)
    PROVE  /\ Len(Broadcast(m, others)) = Len(others)
           /\ \A i \in 1 .. Len(others) : Broadcast(m, others)[i] = SendOp(others[i], m)
  BY DEF Broadcast

\* The table without d names clients of the table other than d.
LEMMA OthersListed ==
    ASSUME MqInv, NEW d \in Clients
    PROVE  /\ Without(d) \in Seq(Clients)
           /\ \A i \in 1 .. Len(Without(d)) : Without(d)[i] # d /\ Listed(Without(d)[i])
  BY WithoutType, WithoutEntries DEF MqInv, TypeOK, Distinct

\* A joining client gets the history and the welcome before it is added; the others are told.
LEMMA JoinEntries ==
    ASSUME MqInv, HistoryInv, NEW d \in Clients, NEW s, s = JoinScript(d), s # <<>>
    PROVE  /\ ~Listed(d)
           /\ hist_count + 2 <= Len(s)
           /\ \A i \in 1 .. hist_count :
                 s[i] = SendOp(d, Msg("HIST", stored - hist_count + i))
           /\ s[hist_count + 1] = SendOp(d, Msg("JOIN_OK", 0))
           /\ s[hist_count + 2] = [do |-> "add", to |-> d]
           /\ \A i \in 1 .. Len(s) : i > hist_count + 2 =>
                 \E e \in Clients : /\ e # d /\ Listed(e)
                                    /\ s[i] = SendOp(e, Msg("JOIN_NOTIFY", 0))
<1> DEFINE h == hist_count
           a == SendHistory(d)
           ok == SendOp(d, Msg("JOIN_OK", 0))
           op == [do |-> "add", to |-> d]
           w == Without(d)
           b == Broadcast(Msg("JOIN_NOTIFY", 0), w)
           a1 == a \o <<ok>>
           a2 == a1 \o <<op>>
<1>1. ~Listed(d) /\ s = a2 \o b
  BY DEF JoinScript
<1>2. /\ a \in Seq(Op) /\ Len(a) = h /\ h \in Nat
      /\ \A i \in 1 .. h : a[i] = SendOp(d, Msg("HIST", stored - h + i))
  <2>1. a \in Seq(Op)
    BY HistorySends DEF Sends, MqInv
  <2>2. h \in Nat
    BY MqAssumption DEF MqInv, TypeOK
  <2>3. ReplaysNewest
    BY Replay
  <2>4. Len(a) = h
    BY <2>3 DEF ReplaysNewest, HistoryInv
  <2> QED
    BY <2>1, <2>2, <2>3, <2>4 DEF ReplaysNewest
<1>3. ok \in Op /\ op \in Op
  <2>1. Msg("JOIN_OK", 0) \in ToClient
    BY DEF Msg, ToClient
  <2> QED
    BY <2>1, SendIsOp DEF Op
<1>4. /\ w \in Seq(Clients) /\ \A i \in 1 .. Len(w) : w[i] # d /\ Listed(w[i])
  BY OthersListed
<1>5. /\ b \in Seq(Op) /\ Len(b) = Len(w)
      /\ \A i \in 1 .. Len(w) : b[i] = SendOp(w[i], Msg("JOIN_NOTIFY", 0))
  <2>1. Msg("JOIN_NOTIFY", 0) \in ToClient
    BY DEF Msg, ToClient
  <2> HIDE DEF w
  <2> QED
    BY <1>4, <2>1, BroadcastSends, BroadcastEntries DEF Sends
<1> HIDE DEF a, w, b, ok, op
<1>6. <<ok>> \in Seq(Op) /\ Len(<<ok>>) = 1 /\ <<ok>>[1] = ok
      /\ <<op>> \in Seq(Op) /\ Len(<<op>>) = 1 /\ <<op>>[1] = op
  BY <1>3
<1>7. /\ a1 \in Seq(Op) /\ Len(a1) = h + 1
      /\ \A i \in 1 .. h : a1[i] = a[i]
      /\ a1[h + 1] = ok
  BY <1>2, <1>6, Concat
<1> HIDE DEF a1
<1>8. /\ a2 \in Seq(Op) /\ Len(a2) = h + 2
      /\ \A i \in 1 .. h : a2[i] = a[i]
      /\ a2[h + 1] = ok /\ a2[h + 2] = op
  BY <1>2, <1>6, <1>7, Concat
<1> HIDE DEF a2
<1>9. /\ Len(s) = h + 2 + Len(b) /\ Len(b) \in Nat
      /\ \A i \in 1 .. Len(s) : s[i] = IF i <= h + 2 THEN a2[i] ELSE b[i - (h + 2)]
  <2>1. /\ Len(a2 \o b) = Len(a2) + Len(b)
        /\ \A i \in 1 .. Len(a2 \o b) :
              (a2 \o b)[i] = IF i <= Len(a2) THEN a2[i] ELSE b[i - Len(a2)]
    BY <1>5, <1>8, Concat, ZenonT(40)
  <2>2. Len(b) \in Nat
    BY <1>5
  <2> QED
    BY <1>1, <1>8, <2>1, <2>2
<1>10. ASSUME NEW i \in 1 .. Len(s), i > h + 2
       PROVE  \E e \in Clients : e # d /\ Listed(e) /\ s[i] = SendOp(e, Msg("JOIN_NOTIFY", 0))
  <2>1. i - (h + 2) \in 1 .. Len(b) /\ s[i] = b[i - (h + 2)]
    BY <1>2, <1>9, <1>10
  <2>2. w[i - (h + 2)] \in Clients
    BY <1>4, <1>5, <2>1
  <2> QED
    BY <1>4, <1>5, <2>1, <2>2
<1>11. \A i \in 1 .. h : s[i] = SendOp(d, Msg("HIST", stored - h + i))
  BY <1>2, <1>8, <1>9
<1>12. s[h + 1] = ok /\ s[h + 2] = op /\ h + 2 <= Len(s)
  BY <1>2, <1>8, <1>9
<1> QED
  BY <1>1, <1>10, <1>11, <1>12 DEF ok, op

\* When one leaves, the others are told.
LEMMA LeaveEntries ==
    ASSUME MqInv, NEW d \in Clients, NEW i \in 1 .. Len(LeaveScript(d))
    PROVE  \/ LeaveScript(d)[i] = [do |-> "remove", to |-> d]
           \/ \E e \in Clients : /\ Listed(e)
                                 /\ LeaveScript(d)[i] = SendOp(e, Msg("LEAVE_NOTIFY", 0))
<1> DEFINE w == Without(d)
           b == Broadcast(Msg("LEAVE_NOTIFY", 0), w)
           op == [do |-> "remove", to |-> d]
           s == LeaveScript(d)
<1>1. w \in Seq(Clients) /\ \A j \in 1 .. Len(w) : Listed(w[j])
  BY OthersListed
<1>2. /\ b \in Seq(Op) /\ Len(b) = Len(w)
      /\ \A j \in 1 .. Len(w) : b[j] = SendOp(w[j], Msg("LEAVE_NOTIFY", 0))
  <2>1. Msg("LEAVE_NOTIFY", 0) \in ToClient
    BY DEF Msg, ToClient
  <2> HIDE DEF w
  <2> QED
    BY <1>1, <2>1, BroadcastSends, BroadcastEntries DEF Sends
<1>3. op \in Op
  BY DEF Op
<1>4. CASE ~Listed(d)
  BY <1>4 DEF LeaveScript
<1>5. CASE Listed(d)
  <2>1. s = b \o <<op>>
    BY <1>5 DEF LeaveScript
  <2> HIDE DEF w, b, op, s
  <2>2. <<op>> \in Seq(Op) /\ Len(<<op>>) = 1 /\ <<op>>[1] = op
    BY <1>3
  <2>3. /\ Len(s) = Len(b) + 1 /\ Len(b) \in Nat
        /\ \A j \in 1 .. Len(s) : s[j] = IF j <= Len(b) THEN b[j] ELSE op
    <3>1. /\ Len(b \o <<op>>) = Len(b) + Len(<<op>>)
          /\ \A j \in 1 .. Len(b \o <<op>>) :
                (b \o <<op>>)[j] = IF j <= Len(b) THEN b[j] ELSE <<op>>[j - Len(b)]
      BY <1>2, <2>2, Concat
    <3>2. Len(b) \in Nat
      BY <1>2
    <3> QED
      BY <2>1, <2>2, <3>1, <3>2
  <2>4. i \in 1 .. Len(s)
    BY DEF s
  <2>5. CASE i <= Len(b)
    <3>1. s[i] = b[i] /\ i \in 1 .. Len(w)
      BY <1>2, <2>3, <2>4, <2>5
    <3>2. w[i] \in Clients /\ Listed(w[i]) /\ s[i] = SendOp(w[i], Msg("LEAVE_NOTIFY", 0))
      BY <1>1, <1>2, <3>1
    <3> QED
      BY <3>2 DEF s
  <2>6. CASE i > Len(b)
    BY <2>3, <2>4, <2>6 DEF s, op
  <2> QED
    BY <2>3, <2>4, <2>5, <2>6
<1> QED
  BY <1>4, <1>5

\* A script that tells c something only if it is in the table, and never a text.
Tells(s, c) ==
    \A i \in 1 .. Len(s) :
        /\ ~Adds(s[i], c)
        /\ ToIt(s[i], c) => Listed(c) /\ ~IsEarly(s[i].m) /\ ~IsText(s[i].m)

\* What a message received makes of the part of c.
LEMMA ReceiveParts ==
    ASSUME MqInv, HistoryInv, Receive, NEW c \in Clients
    PROVE  \/ UNCHANGED <<stored, hist_count>> /\ Tells(script', c)
           \/ /\ UNCHANGED <<stored, hist_count>> /\ Asks(sq[1], c)
              /\ script' = JoinScript(c) /\ script' # <<>>
           \/ /\ HistoryAdd /\ script' = Broadcast(Msg("TEXT", stored + 1), table)
              /\ ~Asks(sq[1], c)
<1> DEFINE d == sq[1].from
           s == script'
<1>1. d \in Clients /\ sq[1] = [type |-> sq[1].type, from |-> d]
  BY ReceiveTypes DEF MqInv, ToServer
<1>2. \A e, m : SendOp(e, m).do = "send" /\ SendOp(e, m).to = e /\ SendOp(e, m).m = m
                /\ ~Adds(SendOp(e, m), c)
  BY DEF SendOp, Adds
<1>3. CASE sq[1].type = "JOIN_REQ" /\ UNCHANGED history /\ s = JoinScript(d)
  <2>1. CASE s = <<>>
    BY <1>3, <2>1 DEF Tells, history
  <2>2. CASE s # <<>> /\ c = d
    BY <1>1, <1>3, <2>2 DEF Asks, history
  <2>3. CASE s # <<>> /\ c # d
    <3>1. /\ \A i \in 1 .. hist_count : s[i] = SendOp(d, Msg("HIST", stored - hist_count + i))
          /\ s[hist_count + 1] = SendOp(d, Msg("JOIN_OK", 0))
          /\ s[hist_count + 2] = [do |-> "add", to |-> d]
          /\ \A i \in 1 .. Len(s) : i > hist_count + 2 =>
                \E e \in Clients : /\ e # d /\ Listed(e)
                                   /\ s[i] = SendOp(e, Msg("JOIN_NOTIFY", 0))
      BY <1>1, <1>3, <2>3, JoinEntries
    <3>2. hist_count \in Nat
      BY MqAssumption DEF MqInv, TypeOK
    <3> HIDE DEF s, d
    <3>3. ASSUME NEW i \in 1 .. Len(s)
          PROVE  /\ ~Adds(s[i], c)
                 /\ ToIt(s[i], c) => Listed(c) /\ ~IsEarly(s[i].m) /\ ~IsText(s[i].m)
      <4>1. CASE i <= hist_count + 1
        <5>1. \E m : s[i] = SendOp(d, m)
          BY <3>1, <3>2, <4>1
        <5> QED
          BY <1>2, <2>3, <5>1 DEF ToIt
      <4>2. CASE i = hist_count + 2
        BY <2>3, <3>1, <4>2 DEF Adds, ToIt
      <4>3. CASE i > hist_count + 2
        <5>1. PICK e \in Clients : Listed(e) /\ s[i] = SendOp(e, Msg("JOIN_NOTIFY", 0))
          BY <3>1, <4>3
        <5>2. ~IsEarly(Msg("JOIN_NOTIFY", 0)) /\ ~IsText(Msg("JOIN_NOTIFY", 0))
          BY DEF Msg, IsEarly, IsText
        <5> QED
          BY <1>2, <5>1, <5>2 DEF ToIt
      <4> QED
        BY <3>2, <4>1, <4>2, <4>3
    <3>4. Tells(s, c)
      BY <3>3 DEF Tells
    <3> QED
      BY <1>3, <3>4 DEF s, history
  <2> QED
    BY <2>1, <2>2, <2>3
<1>4. CASE sq[1].type = "LEAVE" /\ UNCHANGED history /\ s = LeaveScript(d)
  <2>1. ASSUME NEW i \in 1 .. Len(s)
        PROVE  /\ ~Adds(s[i], c)
               /\ ToIt(s[i], c) => Listed(c) /\ ~IsEarly(s[i].m) /\ ~IsText(s[i].m)
    <3>1. \/ s[i] = [do |-> "remove", to |-> d]
          \/ \E e \in Clients : Listed(e) /\ s[i] = SendOp(e, Msg("LEAVE_NOTIFY", 0))
      BY <1>1, <1>4, LeaveEntries
    <3>2. ~IsEarly(Msg("LEAVE_NOTIFY", 0)) /\ ~IsText(Msg("LEAVE_NOTIFY", 0))
      BY DEF Msg, IsEarly, IsText
    <3> HIDE DEF s, d
    <3>3. CASE s[i] = [do |-> "remove", to |-> d]
      BY <3>3 DEF Adds, ToIt
    <3>4. CASE \E e \in Clients : Listed(e) /\ s[i] = SendOp(e, Msg("LEAVE_NOTIFY", 0))
      BY <1>2, <3>2, <3>4 DEF ToIt
    <3> QED
      BY <3>1, <3>3, <3>4
  <2> QED
    BY <1>4, <2>1 DEF Tells, history
<1>5. CASE sq[1].type = "TEXT"
  <2>1. sq # <<>> /\ Head(sq) = sq[1]
    BY Rest DEF Receive, MqInv, TypeOK
  <2>2. HistoryAdd /\ s = Broadcast(Msg("TEXT", stored'), table)
    BY <1>5, <2>1 DEF Receive
  <2>3. stored' = stored + 1
    BY <2>2 DEF HistoryAdd
  <2> QED
    BY <1>5, <2>2, <2>3 DEF Asks
<1> QED
  BY <1>3, <1>4, <1>5, ReceiveTypes DEF MqInv

\* The server takes a message.
LEMMA ReceiveDelivers ==
    ASSUME MqInv, HistoryInv, DeliveryInv, Receive, TypeOK' PROVE DeliveryInv'
<1> SUFFICES ASSUME NEW c \in Clients PROVE DeliveryOf(c)'
  BY DEF DeliveryInv
<1> DEFINE a == Sent(c)
           b == Sent(c)'
           s == script'
           n == Len(a)
<1>1. /\ TypeOK /\ spc = "receive" /\ spc' = "run" /\ script = <<>> /\ script' \in Seq(Op)
      /\ UNCHANGED <<cq, table, running, caught, client>>
  BY DEF MqInv, ScriptInv, Receive, TypeOK
<1>2. /\ Len(sq') = Len(sq) - 1 /\ Len(sq) \in Nat \ {0}
      /\ \A i \in 1 .. Len(sq') : i + 1 \in 1 .. Len(sq) /\ sq'[i] = sq[i + 1]
  BY <1>1, ReceiveTypes
<1>3. Line(c)' = Line(c) /\ UNCHANGED cpc /\ (Listed(c)' <=> Listed(c))
  BY <1>1 DEF Line, client, Listed
<1>4. Len(Line(c)) = n /\ Len(Line(c)') = n /\ Grows(a, b, s, c)
  BY <1>1, <1>3, NewScript
<1>5. /\ OrderlyIn(a, n) /\ Asked(c) /\ AskedOnce(c) /\ Greeted(c)
      /\ Listed(c) => InOrder(a) /\ Newest(c)
  BY <1>4 DEF DeliveryInv, DeliveryOf, Asked
<1>6. /\ hist_count \in Nat /\ stored \in Nat /\ hist_count <= stored /\ H \in Nat \ {0}
      /\ hist_count <= H
  BY MqAssumption, <1>1 DEF HistoryInv, TypeOK
<1>s. \A e, m : /\ ToIt(SendOp(e, m), c) <=> e = c
               /\ SendOp(e, m).m = m /\ ~Adds(SendOp(e, m), c)
  BY DEF SendOp, ToIt, Adds
<1>7. AskedOnce(c)' /\ (Asking(c)' => Asking(c) /\ ~Asks(sq[1], c))
  <2>1. \A i \in 1 .. Len(sq') : Asks(sq'[i], c) => ~Asks(sq[1], c)
    <3> SUFFICES ASSUME NEW i \in 1 .. Len(sq'), Asks(sq'[i], c), Asks(sq[1], c) PROVE FALSE
      OBVIOUS
    <3>1. i + 1 = 1
      BY <1>2, <1>5 DEF AskedOnce
    <3> QED
      BY <3>1
  <2>2. cpc[c] = "start" => ~Asks(sq[1], c)
    BY <1>2, <1>5 DEF AskedOnce
  <2>3. ASSUME NEW i \in 1 .. Len(sq'), NEW j \in 1 .. Len(sq'), Asks(sq'[i], c), Asks(sq'[j], c)
        PROVE  i = j
    <3>1. i + 1 = j + 1
      BY <1>2, <1>5, <2>3 DEF AskedOnce
    <3> QED
      BY <3>1
  <2>4. cpc'[c] = "start" => \A i \in 1 .. Len(sq') : ~Asks(sq'[i], c)
    BY <1>2, <1>3, <1>5 DEF AskedOnce
  <2>5. Asking(c)' => Asking(c)
    BY <1>2, <1>3 DEF Asking
  <2>6. Asking(c)' => ~Asks(sq[1], c)
    BY <1>3, <2>1, <2>2 DEF Asking
  <2> QED
    BY <2>3, <2>4, <2>5, <2>6 DEF AskedOnce
<1>8. Asking(c) => n = 0 /\ ~Listed(c)
  <2>1. Asking(c) => \A i \in 1 .. n : a[i].type = "other"
    BY <1>5 DEF Asked
  <2>2. n \in Nat /\ \A i \in 1 .. n : a[i].type # "other"
    BY <1>4 DEF Grows
  <2>3. Asking(c) => ~ (1 \in 1 .. n)
    BY <2>1, <2>2
  <2> QED
    BY <1>5, <2>2, <2>3 DEF Asked
<1>9. Listed(c) => \E k \in 1 .. n : a[k].type = "JOIN_OK"
  BY <1>1, <1>4, <1>5 DEF Greeted, Welcomed
<1>10. (\E k \in 1 .. n : a[k].type = "JOIN_OK") => Welcomed(c)'
  <2> SUFFICES ASSUME NEW k \in 1 .. n, a[k].type = "JOIN_OK"
               PROVE  \E l \in 1 .. Len(Line(c)') : b[l].type = "JOIN_OK"
    BY DEF Welcomed
  <2> HIDE DEF a, b, s
  <2> QED
    BY <1>4 DEF Grows
<1>11. ASSUME \A i \in 1 .. Len(s) : ~Adds(s[i], c) /\ (ToIt(s[i], c) => Listed(c))
       PROVE  Asked(c)' /\ Greeted(c)' /\ ~Joining(c)'
  <2>1. ~Joining(c)'
    BY <1>11 DEF Joining, Adds
  <2>2. ASSUME Asking(c)' PROVE \A i \in 1 .. Len(b) : b[i].type = "other"
    <3>1. n = 0 /\ \A i \in 1 .. Len(s) : ~ToIt(s[i], c)
      BY <1>7, <1>8, <1>11, <2>2
    <3> HIDE DEF a, b, s
    <3>2. ASSUME NEW i \in 1 .. Len(b) PROVE b[i].type = "other"
      BY <1>4, <3>1, GrownEntry DEF n
    <3> QED
      BY <3>2
  <2>3. Asked(c)'
    BY <1>3, <1>7, <1>8, <2>1, <2>2 DEF Asked
  <2>4. Greeted(c)'
    BY <1>3, <1>9, <1>10, <1>11 DEF Greeted
  <2> QED
    BY <2>1, <2>3, <2>4
<1>12. CASE UNCHANGED <<stored, hist_count>> /\ Tells(s, c)
  <2>1. OrderlyIn(b, n)
    <3>1. \A j \in 1 .. Len(s) : ToIt(s[j], c) =>
             ~IsEarly(s[j].m) /\ \E k \in 1 .. n : a[k].type = "JOIN_OK"
      BY <1>9, <1>12 DEF Tells
    <3> HIDE DEF a, b, s
    <3> QED
      BY <1>4, <1>5, <3>1, GrowsOrderly DEF n
  <2>2. ASSUME Listed(c) PROVE InOrder(b) /\ Newest(c)'
    <3>1. InOrder(a) /\ Newest(c)
      BY <1>5, <2>2
    <3>2. PICK first \in 1 .. stored - hist_count + 1, lost \in SUBSET (1 .. stored) :
             Cardinality(lost) <= caught /\ Covers(a, first, stored, lost)
      BY <3>1 DEF Newest
    <3>3. \A j \in 1 .. Len(s) : ToIt(s[j], c) => ~IsText(s[j].m)
      BY <1>12 DEF Tells
    <3>4. InOrder(b) /\ Covers(b, first, stored, lost)
      <4> HIDE DEF a, b, s
      <4> QED
        BY <1>4, <3>1, <3>2, <3>3, GrowsTextless
    <3> QED
      BY <1>1, <1>12, <3>2, <3>4 DEF Newest
  <2>3. Asked(c)' /\ Greeted(c)' /\ ~Joining(c)'
    BY <1>11, <1>12 DEF Tells
  <2> QED
    BY <1>1, <1>3, <1>4, <2>1, <2>2, <2>3 DEF DeliveryOf
<1>13. CASE /\ UNCHANGED <<stored, hist_count>> /\ Asks(sq[1], c)
            /\ s = JoinScript(c) /\ s # <<>>
  <2>1. Asking(c) /\ ~Asking(c)'
    BY <1>2, <1>7, <1>13 DEF Asking
  <2>2. n = 0 /\ ~Listed(c)
    BY <1>8, <2>1
  <2>3. /\ hist_count + 2 <= Len(s)
        /\ \A i \in 1 .. hist_count :
              s[i] = SendOp(c, Msg("HIST", stored - hist_count + i))
        /\ s[hist_count + 1] = SendOp(c, Msg("JOIN_OK", 0))
        /\ s[hist_count + 2] = [do |-> "add", to |-> c]
        /\ \A i \in 1 .. Len(s) : i > hist_count + 2 =>
              \E e \in Clients : /\ e # c /\ Listed(e)
                                 /\ s[i] = SendOp(e, Msg("JOIN_NOTIFY", 0))
    BY <1>13, JoinEntries
  <2>4. \A i \in 1 .. Len(s) : i > hist_count + 1 => ~ToIt(s[i], c)
    <3>1. ~ToIt(s[hist_count + 2], c)
      BY <2>3 DEF ToIt
    <3>2. \A i \in 1 .. Len(s) : i > hist_count + 2 => ~ToIt(s[i], c)
      BY <1>s, <2>3
    <3> QED
      BY <1>6, <3>1, <3>2
  <2>5. OrderlyIn(b, 0) /\ InOrder(b) /\ Covers(b, stored - hist_count + 1, stored, {})
    <3>1. Opens(s, c, hist_count, stored)
      <4>1. Len(s) \in Nat /\ hist_count + 1 <= Len(s)
        BY <1>1, <1>6, <2>3
      <4> QED
        BY <1>6, <2>3, <2>4, <4>1 DEF Opens
    <3>2. Grows(a, b, s, c) /\ Len(a) = 0
      BY <1>4, <2>2
    <3> HIDE DEF a, b, s, n
    <3> QED
      BY <3>1, <3>2, GrowsHistory
  <2>6. Newest(c)'
    <3>1. stored - hist_count + 1 \in 1 .. stored - hist_count + 1
      BY <1>6
    <3>2. Cardinality({}) <= caught' /\ {} \in SUBSET (1 .. stored)
      BY <1>1, FS_EmptySet, SMTT(30) DEF TypeOK
    <3> QED
      BY <1>13, <2>5, <3>1, <3>2 DEF Newest
  <2>7. Asked(c)'
    BY <1>7, <2>1 DEF Asked
  <2>8. Greeted(c)'
    <3>1. ToIt(s[hist_count + 1], c) /\ s[hist_count + 1].m.type = "JOIN_OK"
      BY <2>3 DEF ToIt, SendOp, Msg
    <3>2. ASSUME NEW i \in 1 .. Len(s), Adds(s[i], c)
          PROVE  \E j \in 1 .. i - 1 : ToIt(s[j], c) /\ s[j].m.type = "JOIN_OK"
      <4>1. \A e, m : SendOp(e, m).do = "send"
        BY DEF SendOp
      <4>2. s[i].do = "add"
        BY <3>2 DEF Adds
      <4>3. ~ (i \in 1 .. hist_count) /\ i # hist_count + 1
        BY <2>3, <4>1, <4>2
      <4>4. hist_count + 1 \in 1 .. i - 1
        BY <1>6, <4>3
      <4> QED
        BY <3>1, <4>4
    <3> QED
      BY <1>3, <2>2, <3>2 DEF Greeted
  <2> QED
    BY <1>3, <1>4, <2>2, <2>5, <2>6, <2>7, <2>8 DEF DeliveryOf
<1>14. CASE HistoryAdd /\ s = Broadcast(Msg("TEXT", stored + 1), table) /\ ~Asks(sq[1], c)
  <2>1. /\ Len(s) = Len(table) /\ table \in Seq(Clients)
        /\ \A i \in 1 .. Len(table) : s[i] = SendOp(table[i], Msg("TEXT", stored + 1))
    BY <1>1, <1>14, BroadcastEntries DEF TypeOK
  <2>2. \A i \in 1 .. Len(s) :
           /\ ~Adds(s[i], c)
           /\ ToIt(s[i], c) <=> table[i] = c
           /\ s[i].m = Msg("TEXT", stored + 1)
    BY <1>s, <2>1
  <2>3. \A i \in 1 .. Len(s) : ToIt(s[i], c) => Listed(c)
    BY <2>1, <2>2 DEF Listed
  <2>4. Asked(c)' /\ Greeted(c)' /\ ~Joining(c)'
    BY <1>11, <2>2, <2>3
  <2>5. OrderlyIn(b, n)
    <3>1. \A j \in 1 .. Len(s) : ToIt(s[j], c) =>
             ~IsEarly(s[j].m) /\ \E k \in 1 .. n : a[k].type = "JOIN_OK"
      BY <1>9, <2>2, <2>3 DEF IsEarly, Msg
    <3> HIDE DEF a, b, s
    <3> QED
      BY <1>4, <1>5, <3>1, GrowsOrderly DEF n
  <2>6. stored' = stored + 1 /\ hist_count' \in {hist_count, hist_count + 1}
    BY <1>6, <1>14 DEF HistoryAdd
  <2>7. ASSUME Listed(c) PROVE InOrder(b) /\ Newest(c)'
    <3>1. InOrder(a) /\ Newest(c)
      BY <1>5, <2>7
    <3>2. PICK first \in 1 .. stored - hist_count + 1, lost \in SUBSET (1 .. stored) :
             Cardinality(lost) <= caught /\ Covers(a, first, stored, lost)
      BY <3>1 DEF Newest
    <3>3. PICK x \in 1 .. Len(s) : ToIt(s[x], c)
      BY <2>1, <2>2, <2>7 DEF Listed
    <3>4. s[x].m = Msg("TEXT", stored + 1) /\ \A j \in 1 .. Len(s) : ToIt(s[j], c) => j = x
      BY <2>1, <2>2, <3>3 DEF MqInv, Distinct
    <3>5. first \in Nat /\ first <= stored + 1
      BY <1>6
    <3>6. InOrder(b) /\ Covers(b, first, stored + 1, lost)
      <4> HIDE DEF a, b, s
      <4> QED
        BY <1>4, <1>6, <3>1, <3>2, <3>3, <3>4, <3>5, GrowsByOne
    <3>7. first \in 1 .. stored' - hist_count' + 1
      <4>1. CASE hist_count' = hist_count
        BY <1>6, <2>6, <4>1
      <4>2. CASE hist_count' = hist_count + 1
        BY <1>6, <2>6, <4>2
      <4> QED
        BY <2>6, <4>1, <4>2
    <3>8. lost \in SUBSET (1 .. stored') /\ Cardinality(lost) <= caught'
      BY <1>1, <1>6, <2>6, <3>2
    <3> QED
      BY <2>6, <3>6, <3>7, <3>8 DEF Newest
  <2> QED
    BY <1>1, <1>3, <1>4, <2>4, <2>5, <2>7 DEF DeliveryOf
<1> QED
  BY <1>12, <1>13, <1>14, ReceiveParts

\* The server gives a send up, or goes on without one.
LEMMA InterruptDelivers == ASSUME MqInv, DeliveryInv, Interrupt PROVE DeliveryInv'
<1> SUFFICES ASSUME NEW c \in Clients PROVE DeliveryOf(c)'
  BY DEF DeliveryInv
<1>1. /\ TypeOK /\ DeliveryOf(c) /\ AskedOnce(c) /\ running' = FALSE /\ caught' = caught + 1
      /\ UNCHANGED <<sq, cpc, table, stored, hist_count>> /\ Line(c)' = Line(c)
      /\ (Listed(c)' => Listed(c))
  BY DEF MqInv, DeliveryInv, DeliveryOf, Asked, Interrupt, queues, history, client, Line, Listed
<1>2. AskedOnce(c)' /\ (Asking(c)' => Asking(c))
  BY <1>1 DEF AskedOnce, Asking
<1>3. CASE UNCHANGED script /\ (spc' = "receive" => spc = "receive")
  BY <1>1, <1>2, <1>3, QuietDelivers
<1>4. CASE spc = "run" /\ spc' = "run" /\ script # <<>> /\ script' = Tail(script)
  BY <1>1, <1>4, PopDelivers
<1> QED
  BY <1>3, <1>4 DEF Interrupt

\* A receiving thread takes a message: it has been sent before and after.
LEMMA RecvDelivers == ASSUME MqInv, DeliveryInv, NEW d \in Clients, RecvTurn(d) PROVE DeliveryInv'
<1> SUFFICES ASSUME NEW c \in Clients PROVE DeliveryOf(c)'
  BY DEF DeliveryInv
<1>1. /\ TypeOK /\ DeliveryOf(c) /\ AskedOnce(c)
      /\ UNCHANGED <<sq, cpc, script, table, stored, hist_count, running, caught, spc>>
  BY DEF MqInv, DeliveryInv, DeliveryOf, Asked, RecvTurn, server, history
<1>2. AskedOnce(c)' /\ (Asking(c)' => Asking(c))
  BY <1>1 DEF AskedOnce, Asking
<1>3. Line(c)' = Line(c)
  <2>1. /\ got \in [Clients -> Seq(ToClient)] /\ cq \in [Clients -> Seq(ToClient)]
        /\ got[c] \in Seq(ToClient) /\ cq[c] \in Seq(ToClient) /\ cq[d] # <<>>
        /\ got' = [got EXCEPT ![d] = Append(got[d], Head(cq[d]))]
        /\ cq' = [cq EXCEPT ![d] = Tail(cq[d])]
    BY DEF MqInv, TypeOK, RecvTurn
  <2>2. CASE c = d
    <3>1. got'[c] = Append(got[c], Head(cq[c])) /\ cq'[c] = Tail(cq[c])
      BY <2>1, <2>2
    <3>2. Head(cq[c]) \in ToClient
      BY <2>1, <2>2, Rest
    <3> QED
      BY <2>1, <2>2, <3>1, <3>2, Shift DEF Line
  <2>3. CASE c # d
    <3>1. got'[c] = got[c] /\ cq'[c] = cq[c]
      BY <2>1, <2>3
    <3> QED
      BY <3>1 DEF Line
  <2> QED
    BY <2>2, <2>3
<1> QED
  BY <1>1, <1>2, <1>3, QuietDelivers

\* Every step keeps what has been sent in order and complete.
LEMMA DeliveryStep ==
    MqInv /\ MqInv' /\ HistoryInv /\ DeliveryInv /\ [Next]_vars => DeliveryInv'
<1> SUFFICES ASSUME MqInv, MqInv', HistoryInv, DeliveryInv, [Next]_vars PROVE DeliveryInv'
  OBVIOUS
<1>0. TypeOK /\ TypeOK'
  BY DEF MqInv
<1>1. CASE Receive
  BY <1>0, <1>1, ReceiveDelivers
<1>2. CASE SendNext
  BY <1>2, SendDelivers
<1>3. CASE UpdateTable
  BY <1>3, UpdateDelivers
<1>4. CASE Interrupt
  BY <1>4, InterruptDelivers
<1>5. ASSUME NEW d \in Clients, RecvTurn(d) PROVE DeliveryInv'
  BY <1>5, RecvDelivers
<1>6. ASSUME NEW d \in Clients, Join(d) \/ SendText(d) \/ SendLeave(d) PROVE DeliveryInv'
  <2> SUFFICES ASSUME NEW c \in Clients PROVE DeliveryOf(c)'
    BY DEF DeliveryInv
  <2>1. /\ DeliveryOf(c) /\ Line(c)' = Line(c)
        /\ UNCHANGED <<script, table, stored, hist_count, running, caught, spc>>
    BY <1>6 DEF DeliveryInv, Join, SendText, SendLeave, server, history, Line
  <2>2. cpc'[c] = "start" => cpc[c] = "start"
    BY <1>0, <1>6 DEF Join, SendText, SendLeave, TypeOK
  <2>3. PICK type \in {"JOIN_REQ", "TEXT", "LEAVE"} :
           Post(d, type) /\ (type = "JOIN_REQ" => cpc[d] = "start" /\ cpc'[d] # "start")
    <3>1. CASE Join(d)
      BY <1>0, <3>1 DEF Join, TypeOK
    <3>2. CASE SendText(d)
      BY <3>2 DEF SendText
    <3>3. CASE SendLeave(d)
      BY <3>3 DEF SendLeave
    <3> QED
      BY <1>6, <3>1, <3>2, <3>3
  <2>4. (Asking(c)' => Asking(c)) /\ AskedOnce(c)'
    BY <1>0, <2>1, <2>2, <2>3, PostAsks
  <2> QED
    BY <1>0, <2>1, <2>4, QuietDelivers
<1>7. ASSUME UNCHANGED <<sq, cq, script, table, running, caught, history, got>>,
             spc' = "receive" => spc = "receive" \/ running,
             \A c \in Clients : cpc'[c] = "start" => cpc[c] = "start"
      PROVE  DeliveryInv'
  <2> SUFFICES ASSUME NEW c \in Clients PROVE DeliveryOf(c)'
    BY DEF DeliveryInv
  <2>1. /\ DeliveryOf(c) /\ AskedOnce(c) /\ Line(c)' = Line(c)
        /\ UNCHANGED <<stored, hist_count>>
    BY <1>7 DEF DeliveryInv, DeliveryOf, Asked, history, Line
  <2>2. AskedOnce(c)' /\ (Asking(c)' => Asking(c))
    BY <1>7, <2>1 DEF AskedOnce, Asking
  <2> QED
    BY <1>0, <1>7, <2>1, <2>2, QuietDelivers
<1>8. CASE Check \/ Done \/ ReceiveFails \/ Kill
  <2>1. UNCHANGED <<sq, cq, script, table, running, caught, history, got, cpc>>
    BY <1>8 DEF Check, Done, ReceiveFails, Kill, queues, client
  <2>2. spc' = "receive" => spc = "receive" \/ running
    BY <1>8 DEF Check, Done, ReceiveFails, Kill
  <2> QED
    BY <1>7, <2>1, <2>2
<1>9. ASSUME NEW d \in Clients,
             JoinFails(d) \/ Quit(d) \/ RecvEnds(d) \/ Unlink(d) \/ Killed(d)
      PROVE  DeliveryInv'
  <2>1. UNCHANGED <<sq, cq, script, table, running, caught, history, got, spc>>
    BY <1>9 DEF JoinFails, Quit, RecvEnds, Unlink, Killed, queues, server
  <2>2. \A c \in Clients : cpc'[c] = "start" => cpc[c] = "start"
    BY <1>0, <1>9 DEF JoinFails, Quit, RecvEnds, Unlink, Killed, TypeOK
  <2> QED
    BY <1>7, <2>1, <2>2
<1>10. CASE UNCHANGED vars
  <2>1. UNCHANGED <<sq, cq, script, table, running, caught, history, got, spc, cpc>>
    BY <1>10 DEF vars, queues, server, client
  <2> QED
    BY <1>7, <2>1
<1> QED
  BY <1>1, <1>2, <1>3, <1>4, <1>5, <1>6, <1>8, <1>9, <1>10 DEF Next, ServerStep, ClientStep

LEMMA DeliveryInit == Init => DeliveryInv
<1> SUFFICES ASSUME Init, NEW c \in Clients PROVE DeliveryOf(c)
  BY DEF DeliveryInv
<1>1. /\ sq = <<>> /\ script = <<>> /\ table = <<>> /\ got[c] = <<>> /\ cq[c] = <<>>
  BY DEF Init
<1>2. Line(c) = <<>> /\ Sent(c) = <<>> /\ Len(Sent(c)) = 0
  BY <1>1 DEF Line, Sent
<1>3. ~Listed(c) /\ ~Joining(c)
  BY <1>1 DEF Listed, Joining
<1>4. Asked(c)
  BY <1>1, <1>2, <1>3 DEF Asked, AskedOnce
<1>5. OrderlyIn(Sent(c), Len(Line(c)))
  BY <1>2 DEF OrderlyIn
<1>6. Greeted(c)
  BY <1>1, <1>3 DEF Greeted
<1> QED
  BY <1>3, <1>4, <1>5, <1>6 DEF DeliveryOf

-------------------------------------------------------------------------
(* The theorems.                                                         *)

\* Nothing is written, nobody is listed.
LEMMA MqInit == Init => MqInv /\ HistoryInv
<1> SUFFICES ASSUME Init PROVE MqInv /\ HistoryInv
  OBVIOUS
<1>1. H \in Nat \ {0} /\ ServerCap \in Nat /\ ClientCap \in Nat /\ MaxClients \in Nat
      /\ MaxTexts \in Nat
  BY MqAssumption
<1>2. TypeOK
  BY <1>1 DEF Init, TypeOK, ServerPc, ClientPc
<1>3. ScriptInv /\ Distinct /\ AskedFirst /\ LeaverInFlight
  BY DEF Init, ScriptInv, Distinct, AskedFirst, LeaverInFlight
<1>4. HistoryInv
  BY <1>1 DEF Init, HistoryInv
<1>5. QED
  BY <1>2, <1>3, <1>4 DEF MqInv

\* The invariant and what the history ring holds, in every reachable state.
LEMMA MqInvariant == Spec => [](MqInv /\ HistoryInv)
<1>1. MqInv => TypeOK
  BY DEF MqInv
<1>2. QED
  BY <1>1, MqInit, MqStep, HistoryStep, PTL DEF Spec

\* Queues stay within their capacity, the table within MAX_CLIENTS, and every variable
\* within its type, for every capacity and number of clients.
THEOREM MqTypes == Spec => []TypeOK
<1>1. MqInv => TypeOK
  BY DEF MqInv
<1>2. QED
  BY <1>1, MqInvariant, PTL

\* No entry of the table outlives its client unnoticed: the LEAVE of a client that has
\* left is in the server's queue or is being handled (server.c:206-213).
THEOREM LeaverTracked == Spec => []LeaverInFlight
<1>1. MqInv => LeaverInFlight
  BY DEF MqInv
<1>2. QED
  BY <1>1, MqInvariant, PTL

\* The replay is right in every reachable state, whatever HISTORY_SIZE is.
THEOREM HistoryReplayed == Spec => []ReplaysNewest
<1>1. QED
  BY Replay, MqInvariant, PTL

LEMMA DeliveryInvariant == Spec => []DeliveryInv
<1>1. QED
  BY MqInvariant, DeliveryInit, DeliveryStep, PTL DEF Spec

\* Whoever is in the table, or is being put there, gets a run of consecutive texts that
\* ends with the newest and begins with its history, in order, none twice, and none lost
\* but one for each signal, for every number of clients and every capacity
\* (server.c:38-68, 128-181).
THEOREM NothingIsMissed == Spec => []NothingMissed
<1>1. MqInv => TypeOK
  BY DEF MqInv
<1>2. QED
  BY <1>1, MqInvariant, DeliveryInvariant, DeliveryPromises, PTL

\* JOIN_OK ends the history of every client and comes before everything else
\* (message.h:13).
THEOREM WelcomeIsLast == Spec => []WelcomeEndsHistory
<1>1. MqInv => TypeOK
  BY DEF MqInv
<1>2. QED
  BY <1>1, MqInvariant, DeliveryInvariant, DeliveryPromises, PTL
=========================================================================
