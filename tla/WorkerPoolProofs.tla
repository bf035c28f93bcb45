------------------------ MODULE WorkerPoolProofs ------------------------
(* Proofs about the thread pool, for every set of workers, every set of   *)
(* connections and every capacity of the ring.                            *)
EXTENDS WorkerPool, FiniteSetTheorems, TLAPS

-------------------------------------------------------------------------
(* Arithmetic of the ring.                                                *)

\* The % of server.c:73 and 85 is a wrap-around.
LEMMA NextSlot ==
    ASSUME NEW i \in 0 .. Cap - 1
    PROVE  (i + 1) % Cap = Wrap(i + 1) /\ (i + 1) % Cap \in 0 .. Cap - 1
<1>1. Cap \in Nat \ {0}
  BY PoolAssumption
<1>2. CASE i + 1 < Cap
  BY <1>1, <1>2 DEF Wrap
<1>3. CASE i + 1 = Cap
  BY <1>1, <1>3 DEF Wrap
<1> QED
  BY <1>1, <1>2, <1>3

\* The j-th slot after the next one is the next slot after the j-th.
LEMMA WrapNext ==
    ASSUME NEW i \in 0 .. Cap - 1, NEW j \in 0 .. Cap - 1
    PROVE  Wrap(Wrap(i + 1) + j) = Wrap(i + j + 1)
  BY PoolAssumption DEF Wrap

LEMMA WorkersFinite ==
    /\ Cardinality(Workers) \in Nat
    /\ \A S \in SUBSET Workers : IsFiniteSet(S) /\ Cardinality(S) \in Nat
                                 /\ Cardinality(S) <= Cardinality(Workers)
  BY PoolAssumption, FS_CardinalityType, FS_Subset

-------------------------------------------------------------------------
(* Every variable keeps its type.                                         *)

LEMMA TypeInit == Init => TypeOK
<1> SUFFICES ASSUME Init PROVE TypeOK
  OBVIOUS
<1>1. 0 \in 0 .. Cap - 1 /\ 0 \in 0 .. Cap /\ 0 \in 0 .. Cardinality(Workers)
  BY WorkersFinite, PoolAssumption
<1> QED
  BY <1>1 DEF Init, TypeOK, Tasks, MainPc, WorkerPc, ConnState

LEMMA TypeStep == TypeOK /\ MainInv /\ [Next]_vars => TypeOK'
<1> SUFFICES ASSUME TypeOK, MainInv, [Next]_vars PROVE TypeOK'
  OBVIOUS
<1> USE DEF TypeOK, Tasks, MainPc, WorkerPc, ConnState, ring, main, pool, outside
<1>1. ASSUME NEW c \in Conns, Connect(c) PROVE TypeOK'
  BY <1>1 DEF Connect
<1>2. ASSUME NEW c \in Conns, Accept(c) PROVE TypeOK'
  BY <1>2 DEF Accept
<1>3. CASE Signal
  BY <1>3 DEF Signal
<1>4. CASE AcceptFails \/ EnterAccept \/ Join
  BY <1>4 DEF AcceptFails, EnterAccept, Join
<1>5. CASE CloseListener
  BY <1>5 DEF CloseListener
<1>6. CASE PushLock \/ PushWait
  BY <1>6 DEF PushLock, PushWait
<1>7. CASE PushStore
  <2>1. tail' \in 0 .. Cap - 1 /\ size' \in 0 .. Cap
    BY <1>7, NextSlot, PoolAssumption DEF PushStore
  <2>2. pills' \in 0 .. Cardinality(Workers)
    BY <1>7, WorkersFinite DEF PushStore, MainInv
  <2>3. wpc' \in [Workers -> WorkerPc]
    BY <1>7 DEF PushStore, SignalNotEmpty, Waiting
  <2> QED
    BY <1>7, <2>1, <2>2, <2>3 DEF PushStore
<1>8. CASE PushUnlock
  BY <1>8 DEF PushUnlock
<1>9. ASSUME NEW w \in Workers, PopLock(w) PROVE TypeOK'
  BY <1>9 DEF PopLock
<1>10. ASSUME NEW w \in Workers, PopWait(w) PROVE TypeOK'
  BY <1>10 DEF PopWait
<1>11. ASSUME NEW w \in Workers, PopTake(w) PROVE TypeOK'
  <2>1. head' \in 0 .. Cap - 1 /\ size' \in 0 .. Cap
    BY <1>11, NextSlot, PoolAssumption DEF PopTake
  <2> QED
    BY <1>11, <2>1 DEF PopTake, SignalNotFull
<1>12. ASSUME NEW w \in Workers, PopUnlock(w) PROVE TypeOK'
  BY <1>12 DEF PopUnlock
<1>13. ASSUME NEW w \in Workers, Send(w) PROVE TypeOK'
  BY <1>13 DEF Send
<1>14. ASSUME NEW w \in Workers, Close(w) PROVE TypeOK'
  BY <1>14 DEF Close
<1>15. CASE SpuriousWakeup
  BY <1>15 DEF SpuriousWakeup, Waiting
<1>16. CASE UNCHANGED vars
  BY <1>16 DEF vars
<1> QED
  BY <1>1, <1>2, <1>3, <1>4, <1>5, <1>6, <1>7, <1>8, <1>9, <1>10, <1>11, <1>12,
     <1>13, <1>14, <1>15, <1>16 DEF Next, MainStep, WorkerStep, Terminated

-------------------------------------------------------------------------
(* The mutex has one holder, and each thread is where its task says.      *)

LEMMA MutexStep == TypeOK /\ MutexInv /\ [Next]_vars => MutexInv'
<1> SUFFICES ASSUME TypeOK, MutexInv, [Next]_vars PROVE MutexInv'
  OBVIOUS
<1> USE PoolAssumption DEF TypeOK, MutexInv, ring, main, pool, outside
<1>1. ASSUME NEW c \in Conns, Connect(c) \/ Accept(c) PROVE MutexInv'
  BY <1>1 DEF Connect, Accept
<1>2. CASE Signal \/ AcceptFails \/ EnterAccept \/ CloseListener \/ Join
  BY <1>2 DEF Signal, AcceptFails, EnterAccept, CloseListener, Join
<1>3. CASE PushLock \/ PushWait \/ PushUnlock
  BY <1>3 DEF PushLock, PushWait, PushUnlock
<1>4. CASE PushStore
  BY <1>4 DEF PushStore, SignalNotEmpty, Waiting
<1>5. ASSUME NEW w \in Workers, PopLock(w) \/ PopWait(w) \/ PopUnlock(w) PROVE MutexInv'
  BY <1>5 DEF PopLock, PopWait, PopUnlock, WorkerPc
<1>6. ASSUME NEW w \in Workers, PopTake(w) PROVE MutexInv'
  BY <1>6 DEF PopTake, SignalNotFull
<1>7. ASSUME NEW w \in Workers, Send(w) \/ Close(w) PROVE MutexInv'
  BY <1>7 DEF Send, Close
<1>8. CASE SpuriousWakeup \/ UNCHANGED vars
  BY <1>8 DEF SpuriousWakeup, Waiting, vars
<1> QED
  BY <1>1, <1>2, <1>3, <1>4, <1>5, <1>6, <1>7, <1>8
  DEF Next, MainStep, WorkerStep, Terminated

LEMMA MainStepInv ==
    TypeOK /\ MutexInv /\ MainInv /\ [Next]_vars => MainInv'
<1> SUFFICES ASSUME TypeOK, MutexInv, MainInv, [Next]_vars PROVE MainInv'
  OBVIOUS
<1> USE PoolAssumption, WorkersFinite
    DEF TypeOK, MainInv, MainPc, Tasks, ring, main, pool, outside
<1>1. ASSUME NEW c \in Conns, Connect(c) \/ Accept(c) PROVE MainInv'
  BY <1>1 DEF Connect, Accept
<1>2. CASE Signal \/ AcceptFails \/ EnterAccept \/ Join
  BY <1>2 DEF Signal, AcceptFails, EnterAccept, Join
<1>3. CASE CloseListener
  <2>1. Cardinality(Workers) > 0
    BY FS_EmptySet
  <2> QED
    BY <1>3, <2>1 DEF CloseListener
<1>4. CASE PushLock \/ PushWait \/ PushUnlock
  BY <1>4 DEF PushLock, PushWait, PushUnlock
<1>5. CASE PushStore
  BY <1>5 DEF PushStore
<1>6. ASSUME NEW w \in Workers, PopLock(w) \/ PopWait(w) \/ PopUnlock(w) PROVE MainInv'
  BY <1>6 DEF PopLock, PopWait, PopUnlock, WorkerPc
<1>7. ASSUME NEW w \in Workers, PopTake(w) PROVE MainInv'
  BY <1>7 DEF PopTake, SignalNotFull
<1>8. ASSUME NEW w \in Workers, Send(w) \/ Close(w) PROVE MainInv'
  BY <1>8 DEF Send, Close
<1>9. CASE SpuriousWakeup \/ UNCHANGED vars
  BY <1>9 DEF SpuriousWakeup, Waiting, vars
<1> QED
  BY <1>1, <1>2, <1>3, <1>4, <1>5, <1>6, <1>7, <1>8, <1>9
  DEF Next, MainStep, WorkerStep, Terminated

LEMMA WorkerStepInv ==
    TypeOK /\ MutexInv /\ RingInv /\ WorkerInv /\ [Next]_vars => WorkerInv'
<1> SUFFICES ASSUME TypeOK, MutexInv, RingInv, WorkerInv, [Next]_vars PROVE WorkerInv'
  OBVIOUS
<1> USE PoolAssumption
    DEF TypeOK, WorkerInv, WorkerPc, Tasks, ring, main, pool, outside
<1>1. ASSUME NEW c \in Conns, Connect(c) \/ Accept(c) PROVE WorkerInv'
  BY <1>1 DEF Connect, Accept
<1>2. CASE Signal \/ AcceptFails \/ EnterAccept \/ CloseListener \/ Join
  BY <1>2 DEF Signal, AcceptFails, EnterAccept, CloseListener, Join
<1>3. CASE PushLock \/ PushWait \/ PushUnlock
  BY <1>3 DEF PushLock, PushWait, PushUnlock
<1>4. CASE PushStore
  BY <1>4 DEF PushStore, SignalNotEmpty, Waiting
<1>5. ASSUME NEW w \in Workers, PopLock(w) \/ PopWait(w) PROVE WorkerInv'
  BY <1>5 DEF PopLock, PopWait
<1>6. ASSUME NEW w \in Workers, PopTake(w) PROVE WorkerInv'
  <2>1. items[head] \in Tasks
    <3>1. 1 \in 1 .. size /\ Wrap(head + 1 - 1) = head
      BY <1>6 DEF PopTake, Wrap
    <3>2. Queued[1] = items[head]
      BY <3>1 DEF Queued
    <3> QED
      BY <3>1, <3>2 DEF RingInv
  <2> QED
    BY <1>6, <2>1 DEF PopTake
<1>7. ASSUME NEW w \in Workers, PopUnlock(w) PROVE WorkerInv'
  BY <1>7 DEF PopUnlock
<1>8. ASSUME NEW w \in Workers, Send(w) \/ Close(w) PROVE WorkerInv'
  BY <1>8 DEF Send, Close
<1>9. CASE SpuriousWakeup \/ UNCHANGED vars
  BY <1>9 DEF SpuriousWakeup, Waiting, vars
<1> QED
  BY <1>1, <1>2, <1>3, <1>4, <1>5, <1>6, <1>7, <1>8, <1>9
  DEF Next, MainStep, WorkerStep, Terminated

-------------------------------------------------------------------------
(* What a push and a pop do to the sequence of queued tasks.              *)

LEMMA PushAppends ==
    ASSUME TypeOK, RingInv, PushStore
    PROVE  /\ size' = size + 1
           /\ \A k \in 1 .. size : Queued'[k] = Queued[k]
           /\ Queued'[size + 1] = pending
           /\ tail' = Wrap(head' + size')
           /\ DOMAIN Queued' = 1 .. size'
<1> USE PoolAssumption DEF TypeOK, RingInv, PushStore
<1>1. tail' = Wrap(tail + 1)
  BY NextSlot
<1>2. size' = size + 1 /\ head' = head /\ tail' = Wrap(head' + size')
  BY <1>1 DEF Wrap
<1>3. \A k \in 1 .. size : Wrap(head + k - 1) \in 0 .. Cap - 1 /\ Wrap(head + k - 1) # tail
  BY DEF Wrap
<1>4. \A k \in 1 .. size : items'[Wrap(head' + k - 1)] = items[Wrap(head + k - 1)]
  BY <1>2, <1>3
<1>5. \A k \in 1 .. size : Queued'[k] = Queued[k]
  BY <1>2, <1>4 DEF Queued
<1>6. items'[tail] = pending /\ Wrap(head' + (size + 1) - 1) = tail
  BY <1>2 DEF Wrap
<1>7. Queued'[size + 1] = pending
  BY <1>2, <1>6 DEF Queued
<1> QED
  BY <1>2, <1>5, <1>7 DEF Queued

LEMMA PopDropsHead ==
    ASSUME TypeOK, RingInv, NEW w \in Workers, PopTake(w)
    PROVE  /\ size > 0
           /\ size' = size - 1
           /\ task' = [task EXCEPT ![w] = Queued[1]]
           /\ \A k \in 1 .. size' : Queued'[k] = Queued[k + 1]
           /\ tail' = Wrap(head' + size')
           /\ DOMAIN Queued' = 1 .. size'
<1> USE PoolAssumption DEF TypeOK, RingInv, PopTake
<1>1. head' = Wrap(head + 1)
  BY NextSlot
<1>2. size > 0 /\ size' = size - 1 /\ tail' = Wrap(head' + size')
  <2>1. /\ size \in 1 .. Cap /\ size' = size - 1 /\ head \in 0 .. Cap - 1
        /\ tail' = Wrap(head + size)
    OBVIOUS
  <2> QED
    BY ONLY <1>1, <2>1, PoolAssumption DEF Wrap
<1>3. 1 \in 1 .. size /\ Wrap(head + 1 - 1) = head
  BY <1>2 DEF Wrap
<1>4. Queued[1] = items[head]
  BY <1>3 DEF Queued
<1>5. ASSUME NEW k \in 1 .. size'
      PROVE  k + 1 \in 1 .. size /\ Wrap(head' + k - 1) = Wrap(head + (k + 1) - 1)
  <2>1. k + 1 \in 1 .. size /\ k - 1 \in 0 .. Cap - 1
    BY <1>2
  <2>2. Wrap(Wrap(head + 1) + (k - 1)) = Wrap(head + (k - 1) + 1)
    BY <2>1, WrapNext
  <2>3. head' + (k - 1) = head' + k - 1 /\ head + (k - 1) + 1 = head + (k + 1) - 1
    BY <1>1, <2>1, NextSlot
  <2> QED
    BY <1>1, <2>1, <2>2, <2>3
<1>6. \A k \in 1 .. size' : Queued'[k] = Queued[k + 1]
  BY <1>2, <1>5 DEF Queued
<1> QED
  BY <1>2, <1>4, <1>6 DEF Queued

LEMMA RingStep == TypeOK /\ MainInv /\ RingInv /\ [Next]_vars => RingInv'
<1> SUFFICES ASSUME TypeOK, MainInv, RingInv, [Next]_vars PROVE RingInv'
  OBVIOUS
<1>1. CASE PushStore
  <2>1. pending \in Tasks
    BY <1>1 DEF PushStore, TypeOK, MainInv
  <2>2. size' = size + 1 /\ size \in Nat
    BY <1>1 DEF PushStore, TypeOK
  <2>3. \A k \in 1 .. size' : Queued'[k] \in Tasks
    BY <1>1, <2>1, <2>2, PushAppends DEF RingInv
  <2> QED
    BY <1>1, <2>3, PushAppends DEF RingInv
<1>2. ASSUME NEW w \in Workers, PopTake(w) PROVE RingInv'
  <2>1. size' = size - 1 /\ size \in Nat
    BY <1>2 DEF PopTake, TypeOK
  <2>2. \A k \in 1 .. size' : Queued'[k] \in Tasks
    BY <1>2, <2>1, PopDropsHead DEF RingInv
  <2> QED
    BY <1>2, <2>2, PopDropsHead DEF RingInv
<1>3. CASE UNCHANGED ring
  BY <1>3 DEF RingInv, Queued, ring
<1> QED
  BY <1>1, <1>2, <1>3
  DEF Next, MainStep, WorkerStep, Terminated, Connect, Accept, Signal, AcceptFails,
      EnterAccept, CloseListener, Join, PushLock, PushWait, PushUnlock, PopLock,
      PopWait, PopUnlock, Send, Close, SpuriousWakeup, vars

-------------------------------------------------------------------------
(* The pills are behind every connection.                                 *)

LEMMA CountOne ==
    ASSUME NEW S \in SUBSET Workers, NEW w \in Workers
    PROVE  /\ w \notin S => Cardinality(S \cup {w}) = Cardinality(S) + 1
           /\ w \in S => Cardinality(S \ {w}) = Cardinality(S) - 1
  BY WorkersFinite, FS_AddElement, FS_RemoveElement

LEMMA PillStep ==
    TypeOK /\ RingInv /\ MainInv /\ WorkerInv /\ PillInv /\ [Next]_vars => PillInv'
<1> SUFFICES ASSUME TypeOK, RingInv, MainInv, WorkerInv, PillInv, [Next]_vars
             PROVE  PillInv'
  OBVIOUS
<1> DEFINE d == Cardinality(Drawn)
<1>0. /\ Drawn \in SUBSET Workers /\ d \in Nat
      /\ Drawn = {} <=> d = 0
      /\ pills \in Nat /\ size \in Nat /\ Undrawn = pills - d
  <2>1. Drawn \in SUBSET Workers
    BY DEF Drawn
  <2>2. IsFiniteSet(Drawn) /\ d \in Nat
    BY <2>1, WorkersFinite
  <2>3. Drawn = {} <=> d = 0
    BY <2>2, FS_EmptySet
  <2>4. pills \in Nat /\ size \in Nat
    BY WorkersFinite, PoolAssumption DEF TypeOK
  <2> QED
    BY <2>1, <2>2, <2>3, <2>4 DEF Undrawn
<1>1. CASE PushStore
  <2>1. Drawn' = Drawn /\ pending \in Tasks
    BY <1>1 DEF PushStore, Drawn, MainInv, TypeOK
  <2>2. size' = size + 1 /\ (\A k \in 1 .. size : Queued'[k] = Queued[k])
        /\ Queued'[size + 1] = pending
    BY <1>1, PushAppends
  <2>3. CASE pending = Pill
    <3>1. Undrawn' = Undrawn + 1
      BY <1>0, <1>1, <2>1, <2>3 DEF PushStore, Undrawn
    <3> QED
      BY <1>0, <2>1, <2>2, <2>3, <3>1 DEF PillInv
  <2>4. CASE pending # Pill
    <3>1. pills = 0 /\ pills' = 0
      BY <1>1, <2>1, <2>4 DEF PushStore, MainInv, Tasks, TypeOK
    <3>2. d = 0 /\ Undrawn = 0 /\ Undrawn' = 0
      BY <1>0, <2>1, <3>1 DEF PillInv, Undrawn
    <3> QED
      BY <1>0, <2>1, <2>2, <2>4, <3>2 DEF PillInv
  <2> QED
    BY <2>3, <2>4
<1>2. ASSUME NEW w \in Workers, PopTake(w) PROVE PillInv'
  <2>1. size > 0 /\ size' = size - 1 /\ task' = [task EXCEPT ![w] = Queued[1]]
        /\ \A k \in 1 .. size' : Queued'[k] = Queued[k + 1]
    BY <1>2, PopDropsHead
  <2>2. w \notin Drawn /\ pills' = pills
    BY <1>2, PoolAssumption DEF PopTake, Drawn, WorkerInv
  <2>3. CASE Queued[1] = Pill
    <3>1. Drawn' = Drawn \cup {w}
      BY <2>1, <2>3 DEF Drawn, TypeOK
    <3>2. Undrawn' = Undrawn - 1
      BY <1>0, <2>2, <3>1, CountOne DEF Undrawn
    <3>3. Undrawn = size
      BY <1>0, <2>1, <2>3 DEF PillInv
    <3> QED
      BY <1>0, <2>1, <3>2, <3>3 DEF PillInv
  <2>4. CASE Queued[1] # Pill
    <3>1. Drawn' = Drawn
      BY <2>1, <2>2, <2>4 DEF Drawn, TypeOK
    <3>2. Undrawn' = Undrawn
      BY <2>2, <3>1 DEF Undrawn
    <3>3. 1 <= size - Undrawn
      BY <1>0, <2>1, <2>4 DEF PillInv
    <3> QED
      BY <1>0, <2>1, <3>1, <3>2, <3>3 DEF PillInv
  <2> QED
    BY <2>3, <2>4
<1>3. ASSUME NEW w \in Workers, Close(w) PROVE PillInv'
  <2>1. Drawn' = Drawn
    BY <1>3, PoolAssumption DEF Close, Drawn, WorkerInv, TypeOK
  <2> QED
    BY <1>3, <2>1 DEF PillInv, Undrawn, Close, ring, main, Queued
<1>4. CASE UNCHANGED <<ring, pills, task>>
  BY <1>4 DEF PillInv, Undrawn, Drawn, Queued, ring
<1> QED
  BY <1>1, <1>2, <1>3, <1>4
  DEF Next, MainStep, WorkerStep, Terminated, Connect, Accept, Signal, AcceptFails,
      EnterAccept, CloseListener, Join, PushLock, PushWait, PushUnlock, PopLock,
      PopWait, PopUnlock, Send, SpuriousWakeup, vars, main, pool

-------------------------------------------------------------------------
(* No wake-up is lost.                                                    *)

LEMMA WakeupStep == TypeOK /\ NoLostWakeup /\ [Next]_vars => NoLostWakeup'
<1> SUFFICES ASSUME TypeOK, NoLostWakeup, [Next]_vars PROVE NoLostWakeup'
  OBVIOUS
<1>0. /\ Arriving \in SUBSET Workers /\ Cardinality(Arriving) \in Nat
      /\ size \in Nat /\ wpc \in [Workers -> WorkerPc]
  BY WorkersFinite DEF Arriving, TypeOK
<1>1. CASE PushStore
  <2>1. size' = size + 1 /\ mpc' = "pushed"
    BY <1>1 DEF PushStore
  <2>2. CASE Waiting = {}
    BY <1>1, <2>1, <2>2 DEF PushStore, SignalNotEmpty, NoLostWakeup, Waiting
  <2>3. ASSUME NEW w \in Waiting, wpc' = [wpc EXCEPT ![w] = "pop"]
        PROVE  NoLostWakeup'
    <3>1. w \notin Arriving /\ Arriving' = Arriving \cup {w}
      BY <1>0, <2>3 DEF Arriving, Waiting
    <3>2. Cardinality(Arriving') = Cardinality(Arriving) + 1
      BY <1>0, <3>1, CountOne DEF Waiting
    <3> QED
      BY <1>0, <2>1, <3>2 DEF NoLostWakeup
  <2> QED
    BY <1>1, <2>2, <2>3 DEF PushStore, SignalNotEmpty
<1>2. ASSUME NEW w \in Workers, PopTake(w) PROVE NoLostWakeup'
  <2>1. w \in Arriving /\ Arriving' = Arriving \ {w} /\ Waiting' = Waiting
    BY <1>0, <1>2 DEF PopTake, Arriving, Waiting
  <2>2. Cardinality(Arriving') = Cardinality(Arriving) - 1
    BY <1>0, <2>1, CountOne
  <2> QED
    BY <1>0, <1>2, <2>1, <2>2 DEF NoLostWakeup, PopTake, SignalNotFull
<1>3. ASSUME NEW w \in Workers, PopLock(w) PROVE NoLostWakeup'
  <2>1. Arriving' = Arriving /\ Waiting' = Waiting
    BY <1>0, <1>3 DEF PopLock, Arriving, Waiting
  <2> QED
    BY <1>3, <2>1 DEF NoLostWakeup, PopLock, ring, main
<1>4. ASSUME NEW w \in Workers, PopWait(w) PROVE NoLostWakeup'
  <2>1. Cardinality(Arriving') \in Nat
    BY <1>0, WorkersFinite DEF Arriving
  <2> QED
    BY <1>4, <2>1 DEF NoLostWakeup, PopWait, ring, main
<1>5. ASSUME NEW w \in Workers, PopUnlock(w) \/ Send(w) PROVE NoLostWakeup'
  <2>1. Arriving' = Arriving /\ Waiting' = Waiting
    BY <1>0, <1>5 DEF PopUnlock, Send, Arriving, Waiting
  <2> QED
    BY <1>5, <2>1 DEF NoLostWakeup, PopUnlock, Send, ring, main
<1>6. ASSUME NEW w \in Workers, wpc[w] \in {"wait", "close"},
             wpc' = [wpc EXCEPT ![w] = "pop"], UNCHANGED size, mpc' # "wait" \/ mpc' = mpc
      PROVE  NoLostWakeup'
  <2>1. w \notin Arriving /\ Arriving' = Arriving \cup {w}
    BY <1>0, <1>6 DEF Arriving
  <2>2. Cardinality(Arriving') = Cardinality(Arriving) + 1
    BY <1>0, <2>1, CountOne
  <2>3. Waiting' \subseteq Waiting
    BY <1>0, <1>6 DEF Waiting
  <2> QED
    BY <1>0, <1>6, <2>2, <2>3 DEF NoLostWakeup
<1>7. ASSUME NEW w \in Workers, Close(w) PROVE NoLostWakeup'
  BY <1>6, <1>7 DEF Close, ring, main
<1>8. CASE SpuriousWakeup
  <2>1. CASE mpc' = "push" /\ UNCHANGED <<wpc, size>>
    BY <2>1 DEF NoLostWakeup, Waiting, Arriving
  <2>2. ASSUME NEW w \in Waiting, wpc' = [wpc EXCEPT ![w] = "pop"], UNCHANGED <<mpc, size>>
        PROVE  NoLostWakeup'
    BY <1>6, <2>2 DEF Waiting
  <2> QED
    BY <1>8, <2>1, <2>2 DEF SpuriousWakeup, ring
<1>9. CASE UNCHANGED <<ring, wpc>> /\ (mpc' = "wait" => mpc = "wait" \/ size = Cap)
  <2>1. Arriving' = Arriving /\ Waiting' = Waiting /\ size' = size
    BY <1>9 DEF Arriving, Waiting, ring
  <2> QED
    BY <1>9, <2>1 DEF NoLostWakeup
<1> QED
  BY <1>1, <1>2, <1>3, <1>4, <1>5, <1>7, <1>8, <1>9
  DEF Next, MainStep, WorkerStep, Terminated, Connect, Accept, Signal, AcceptFails,
      EnterAccept, CloseListener, Join, PushLock, PushWait, PushUnlock, vars, main, pool

-------------------------------------------------------------------------
(* An accepted connection is held until it is closed.                     *)

OpenHeld == \A c \in Conns : conn[c] \in {"open", "answered"} => Held(c)

LEMMA HeldStep ==
    TypeOK /\ RingInv /\ MainInv /\ WorkerInv /\ OpenHeld /\ [Next]_vars => OpenHeld'
<1> SUFFICES ASSUME TypeOK, RingInv, MainInv, WorkerInv, OpenHeld, [Next]_vars,
                    NEW c \in Conns, conn'[c] \in {"open", "answered"}
             PROVE  Held(c)'
  BY DEF OpenHeld
<1>0. c # NoTask /\ c # Pill /\ conn \in [Conns -> ConnState]
  BY PoolAssumption DEF TypeOK
<1>1. CASE PushStore
  <2>1. /\ size \in Nat /\ size' = size + 1 /\ Queued'[size + 1] = pending
        /\ \A k \in 1 .. size : Queued'[k] = Queued[k]
        /\ UNCHANGED <<task, conn>>
    BY <1>1, PushAppends DEF PushStore, TypeOK, outside
  <2> QED
    BY <2>1 DEF OpenHeld, Held
<1>2. ASSUME NEW w \in Workers, PopTake(w) PROVE Held(c)'
  <2>0. size \in Nat /\ UNCHANGED <<pending, conn>>
    BY <1>2, PoolAssumption DEF PopTake, TypeOK, outside
  <2>1. /\ size > 0 /\ size' = size - 1
        /\ task' = [task EXCEPT ![w] = Queued[1]]
        /\ \A k \in 1 .. size' : Queued'[k] = Queued[k + 1]
        /\ UNCHANGED <<pending, conn>>
    BY <1>2, <2>0, PopDropsHead
  <2>2. Held(c)
    BY <2>1 DEF OpenHeld
  <2>3. CASE pending = c
    BY <2>1, <2>3 DEF Held
  <2>4. ASSUME NEW k \in 1 .. size, Queued[k] = c PROVE Held(c)'
    <3>1. CASE k = 1
      BY <2>0, <2>1, <2>4, <3>1 DEF Held, TypeOK
    <3>2. CASE k # 1
      <4>1. k - 1 \in 1 .. size' /\ (k - 1) + 1 = k
        BY <2>0, <2>1, <3>2
      <4> QED
        BY <2>0, <2>1, <2>4, <4>1 DEF Held
    <3> QED
      BY <3>1, <3>2
  <2>5. ASSUME NEW v \in Workers, task[v] = c PROVE Held(c)'
    <3>1. v # w
      BY <1>0, <1>2, <2>5 DEF WorkerInv, PopTake
    <3> QED
      BY <2>1, <2>5, <3>1 DEF Held, TypeOK
  <2> QED
    BY <2>2, <2>3, <2>4, <2>5 DEF Held
<1>3. ASSUME NEW d \in Conns, Accept(d) PROVE Held(c)'
  <2>1. pending = NoTask /\ pending' = d /\ UNCHANGED <<ring, task>>
        /\ (c # d => conn'[c] = conn[c])
    BY <1>0, <1>3 DEF Accept, MainInv, pool
  <2>2. CASE c = d
    BY <2>1, <2>2 DEF Held
  <2>3. CASE c # d
    BY <1>0, <2>1, <2>3 DEF OpenHeld, Held, Queued, ring
  <2> QED
    BY <2>2, <2>3
<1>4. CASE CloseListener \/ PushUnlock
  <2>1. pending = NoTask /\ UNCHANGED <<ring, task>> /\ conn'[c] = conn[c]
    BY <1>0, <1>4 DEF CloseListener, PushUnlock, MainInv, pool, outside
  <2> QED
    BY <1>0, <2>1 DEF OpenHeld, Held, Queued, ring
<1>5. ASSUME NEW w \in Workers, Send(w) PROVE Held(c)'
  <2>1. task[w] \in Conns /\ UNCHANGED <<ring, task, pending>>
        /\ (c # task[w] => conn'[c] = conn[c])
    BY <1>0, <1>5 DEF Send, WorkerInv, main
  <2> QED
    BY <2>1 DEF OpenHeld, Held, Queued, ring
<1>6. ASSUME NEW w \in Workers, Close(w) PROVE Held(c)'
  <2>1. /\ task[w] \in Conns /\ UNCHANGED <<ring, pending>>
        /\ task' = [task EXCEPT ![w] = NoTask]
        /\ c # task[w] /\ conn'[c] = conn[c]
    BY <1>0, <1>6 DEF Close, WorkerInv, main
  <2> QED
    BY <2>1 DEF OpenHeld, Held, Queued, ring, TypeOK
<1>7. ASSUME NEW d \in Conns, Connect(d) PROVE Held(c)'
  <2>1. UNCHANGED <<ring, task, pending>> /\ conn'[c] = conn[c]
    BY <1>0, <1>7 DEF Connect, main, pool
  <2> QED
    BY <2>1 DEF OpenHeld, Held, Queued, ring
<1>8. CASE UNCHANGED <<ring, task, pending, conn>>
  BY <1>8 DEF OpenHeld, Held, Queued, ring
<1> QED
  BY <1>1, <1>2, <1>3, <1>4, <1>5, <1>6, <1>7, <1>8
  DEF Next, MainStep, WorkerStep, Terminated, Signal, AcceptFails, EnterAccept, Join,
      PushLock, PushWait, PopLock, PopWait, PopUnlock, SpuriousWakeup, vars, main,
      pool, outside

-------------------------------------------------------------------------
(* The inductive invariant, and what follows from it.                     *)

LEMMA InvInit == Init => TypeOK /\ PoolInv
<1> SUFFICES ASSUME Init PROVE PoolInv
  BY TypeInit
<1> USE PoolAssumption DEF Init
<1>1. RingInv
  BY DEF RingInv, Wrap
<1>2. MutexInv /\ MainInv /\ WorkerInv
  BY DEF MutexInv, MainInv, WorkerInv
<1>3. Drawn = {} /\ Undrawn = 0
  <2>1. \A w \in Workers : task[w] # Pill
    OBVIOUS
  <2>2. Drawn = {}
    BY <2>1 DEF Drawn
  <2>3. Cardinality(Drawn) = 0 /\ pills = 0
    BY <2>2, FS_EmptySet
  <2> QED
    BY <2>2, <2>3 DEF Undrawn
<1>4. PillInv
  BY <1>3 DEF PillInv
<1>5. NoLostWakeup
  BY DEF NoLostWakeup, Waiting
<1> QED
  BY <1>1, <1>2, <1>4, <1>5 DEF PoolInv

LEMMA InvStep == TypeOK /\ PoolInv /\ [Next]_vars => TypeOK' /\ PoolInv'
  BY TypeStep, MutexStep, MainStepInv, WorkerStepInv, RingStep, PillStep, WakeupStep,
     HeldStep DEF PoolInv, OpenHeld

\* Every variable of the pool server keeps its type.
THEOREM TypeCorrect == Spec => []TypeOK
<1>1. Spec => [](TypeOK /\ PoolInv)
  BY InvInit, InvStep, PTL DEF Spec
<1> QED
  BY <1>1, PTL

\* The inductive invariant holds of every reachable state.
THEOREM PoolInvariant == Spec => []PoolInv
<1>1. Spec => [](TypeOK /\ PoolInv)
  BY InvInit, InvStep, PTL DEF Spec
<1> QED
  BY <1>1, PTL

\* However many workers there are, signalling one thread per push and per pop
\* loses no wake-up (server.c:75, 87).
THEOREM WakeupsKept == Spec => []NoLostWakeup
<1>1. PoolInv => NoLostWakeup
  BY DEF PoolInv
<1> QED
  BY <1>1, PoolInvariant, PTL

\* No accepted connection is behind the pill that ends a worker (server.c:182-187).
THEOREM Drained == Spec => []DrainBeforeExit
<1>1. TypeOK /\ PoolInv => DrainBeforeExit
  <2> SUFFICES ASSUME TypeOK, PoolInv, NEW w \in Workers, task[w] = Pill,
                      NEW k \in 1 .. size
               PROVE  Queued[k] = Pill
    BY DEF DrainBeforeExit
  <2>1. Undrawn = size
    BY DEF PoolInv, PillInv, Drawn
  <2> QED
    BY <2>1 DEF PoolInv, PillInv, TypeOK
<1> QED
  BY <1>1, TypeCorrect, PoolInvariant, PTL

\* When main destroys the mutex and the conditions every worker has ended, the ring
\* is empty and every accepted connection has been closed (server.c:189-195).
THEOREM DestroySafe == Spec => []SafeDestroy
<1>1. TypeOK /\ PoolInv => SafeDestroy
  <2> SUFFICES ASSUME TypeOK, PoolInv, mpc = "exit"
               PROVE  /\ mu = NoThread
                      /\ \A w \in Workers : wpc[w] = "exited"
                      /\ size = 0
                      /\ \A c \in Conns : conn[c] \notin {"open", "answered"}
    BY DEF SafeDestroy
  <2>1. \A w \in Workers : wpc[w] = "exited" /\ task[w] = Pill
    BY DEF PoolInv, MainInv, WorkerInv
  <2>2. mu = NoThread
    BY <2>1 DEF PoolInv, MutexInv, TypeOK
  <2>3. Drawn = Workers /\ pills = Cardinality(Workers)
    BY <2>1 DEF Drawn, PoolInv, MainInv
  <2>4. Undrawn = 0 /\ Drawn # {}
    BY <2>3, WorkersFinite, PoolAssumption DEF Undrawn
  <2>5. size = 0
    BY <2>4 DEF PoolInv, PillInv
  <2>6. pending = NoTask
    BY DEF PoolInv, MainInv
  <2>7. \A c \in Conns : ~Held(c)
    BY <2>1, <2>5, <2>6, PoolAssumption DEF Held
  <2> QED
    BY <2>1, <2>2, <2>5, <2>7 DEF PoolInv
<1> QED
  BY <1>1, TypeCorrect, PoolInvariant, PTL

-------------------------------------------------------------------------
(* An accepted connection has one owner.                                  *)

\* A connection is in at most one place, and in none before it is accepted or after
\* it is closed.
Sole(c) ==
    /\ Held(c) => conn[c] \in {"open", "answered"}
    /\ pending = c => /\ \A k \in 1 .. size : Queued[k] # c
                      /\ \A w \in Workers : task[w] # c
    /\ \A j, k \in 1 .. size : Queued[j] = c /\ Queued[k] = c => j = k
    /\ \A k \in 1 .. size, w \in Workers : Queued[k] = c => task[w] # c
    /\ \A v, w \in Workers : task[v] = c /\ task[w] = c => v = w

AllSole == \A c \in Conns : Sole(c)

\* Every step keeps each connection in its one place, or moves it to another one.
LEMMA SoleStep ==
    TypeOK /\ RingInv /\ MainInv /\ WorkerInv /\ AllSole /\ [Next]_vars => AllSole'
<1> SUFFICES ASSUME TypeOK, RingInv, MainInv, WorkerInv, AllSole, [Next]_vars,
                    NEW c \in Conns
             PROVE  Sole(c)'
  BY DEF AllSole
<1>0. /\ c # NoTask /\ c # Pill /\ conn \in [Conns -> ConnState]
      /\ task \in [Workers -> Tasks \cup {NoTask}] /\ size \in Nat
  BY PoolAssumption DEF TypeOK
<1>00. Sole(c)
  BY DEF AllSole
<1>1. CASE PushStore
  <2>1. /\ size' = size + 1 /\ Queued'[size + 1] = pending
        /\ \A k \in 1 .. size : Queued'[k] = Queued[k]
        /\ pending' = NoTask /\ UNCHANGED <<task, conn>>
    BY <1>1, PushAppends DEF PushStore, outside
  <2>2. \A k \in 1 .. size' : \/ k \in 1 .. size /\ Queued'[k] = Queued[k]
                              \/ k = size + 1 /\ Queued'[k] = pending
    BY <1>0, <2>1
  <2>3. Held(c)' => Held(c)
    BY <1>0, <2>1, <2>2 DEF Held
  <2> QED
    BY <1>0, <1>00, <2>1, <2>2, <2>3 DEF Sole
<1>2. ASSUME NEW w \in Workers, PopTake(w) PROVE Sole(c)'
  <2>1. /\ size > 0 /\ size' = size - 1 /\ task[w] = NoTask
        /\ task' = [task EXCEPT ![w] = Queued[1]]
        /\ \A k \in 1 .. size' : Queued'[k] = Queued[k + 1]
        /\ UNCHANGED <<pending, conn>>
    BY <1>2, PopDropsHead DEF PopTake, outside, WorkerInv
  <2>2. /\ 1 \in 1 .. size
        /\ \A k \in 1 .. size' : k + 1 \in 1 .. size /\ k + 1 # 1
    BY <1>0, <2>1
  <2>3. \A v \in Workers : task'[v] = IF v = w THEN Queued[1] ELSE task[v]
    BY <1>0, <2>1
  <2>4. Held(c)' => Held(c)
    BY <2>1, <2>2, <2>3 DEF Held
  <2>5. \A j, k \in 1 .. size' : Queued'[j] = c /\ Queued'[k] = c => j = k
    <3>1. \A j, k \in 1 .. size' : j + 1 = k + 1 => j = k
      BY <1>0, <2>1
    <3> QED
      BY <1>00, <2>1, <2>2, <3>1 DEF Sole
  <2>6. \A k \in 1 .. size', v \in Workers : Queued'[k] = c => task'[v] # c
    BY <1>00, <2>1, <2>2, <2>3 DEF Sole
  <2>7. \A u, v \in Workers : task'[u] = c /\ task'[v] = c => u = v
    BY <1>00, <2>2, <2>3 DEF Sole
  <2>8. pending' = c => /\ \A k \in 1 .. size' : Queued'[k] # c
                       /\ \A v \in Workers : task'[v] # c
    BY <1>00, <2>1, <2>2, <2>3 DEF Sole
  <2> QED
    BY <1>00, <2>1, <2>4, <2>5, <2>6, <2>7, <2>8 DEF Sole
<1>3. ASSUME NEW d \in Conns, Accept(d) PROVE Sole(c)'
  <2>1. /\ pending = NoTask /\ pending' = d /\ UNCHANGED <<ring, task>>
        /\ conn' = [conn EXCEPT ![d] = "open"] /\ conn[d] = "backlog"
    BY <1>3, PoolAssumption DEF Accept, MainInv, pool
  <2>2. UNCHANGED <<size, Queued>>
    BY <2>1 DEF ring, Queued
  <2>3. CASE c = d
    <3>1. ~Held(c)
      BY <1>00, <2>1, <2>3 DEF Sole
    <3> QED
      BY <1>0, <2>1, <2>2, <2>3, <3>1 DEF Sole, Held
  <2>4. CASE c # d
    BY <1>0, <1>00, <2>1, <2>2, <2>4 DEF Sole, Held
  <2> QED
    BY <2>3, <2>4
<1>4. CASE CloseListener \/ PushUnlock
  <2>1. /\ UNCHANGED <<ring, task>> /\ pending' # c
        /\ conn'[c] = IF conn[c] = "backlog" THEN conn'[c] ELSE conn[c]
    BY <1>0, <1>4 DEF CloseListener, PushUnlock, MainInv, pool, outside, Backlog
  <2>2. UNCHANGED <<size, Queued>>
    BY <2>1 DEF ring, Queued
  <2> QED
    BY <1>00, <2>1, <2>2 DEF Sole, Held
<1>5. ASSUME NEW w \in Workers, Send(w) PROVE Sole(c)'
  <2>1. /\ UNCHANGED <<ring, task, pending>>
        /\ conn' = [conn EXCEPT ![task[w]] = "answered"]
    BY <1>5 DEF Send, main
  <2>2. UNCHANGED <<size, Queued>>
    BY <2>1 DEF ring, Queued
  <2> QED
    BY <1>0, <1>00, <2>1, <2>2 DEF Sole, Held
<1>6. ASSUME NEW w \in Workers, Close(w) PROVE Sole(c)'
  <2>1. /\ UNCHANGED <<ring, pending>>
        /\ task' = [task EXCEPT ![w] = NoTask]
        /\ conn' = [conn EXCEPT ![task[w]] = "closed"]
    BY <1>6 DEF Close, main
  <2>2. UNCHANGED <<size, Queued>>
    BY <2>1 DEF ring, Queued
  <2>3. \A v \in Workers : task'[v] = IF v = w THEN NoTask ELSE task[v]
    BY <1>0, <2>1
  <2>4. CASE task[w] = c
    <3>1. ~Held(c)'
      BY <1>0, <1>00, <2>1, <2>2, <2>3, <2>4 DEF Sole, Held
    <3> QED
      BY <1>00, <2>1, <2>2, <2>3, <3>1 DEF Sole, Held
  <2>5. CASE task[w] # c
    <3>1. conn'[c] = conn[c]
      BY <1>0, <2>1, <2>5
    <3> QED
      BY <1>0, <1>00, <2>1, <2>2, <2>3, <3>1 DEF Sole, Held
  <2> QED
    BY <2>4, <2>5
<1>7. ASSUME NEW d \in Conns, Connect(d) PROVE Sole(c)'
  <2>1. /\ UNCHANGED <<ring, task, pending>>
        /\ conn'[c] = IF conn[c] = "idle" THEN conn'[c] ELSE conn[c]
    BY <1>0, <1>7 DEF Connect, main, pool
  <2>2. UNCHANGED <<size, Queued>>
    BY <2>1 DEF ring, Queued
  <2> QED
    BY <1>00, <2>1, <2>2 DEF Sole, Held
<1>8. CASE UNCHANGED <<ring, task, pending, conn>>
  <2>1. UNCHANGED <<size, Queued>>
    BY <1>8 DEF ring, Queued
  <2> QED
    BY <1>00, <1>8, <2>1 DEF Sole, Held
<1> QED
  BY <1>1, <1>2, <1>3, <1>4, <1>5, <1>6, <1>7, <1>8
  DEF Next, MainStep, WorkerStep, Terminated, Signal, AcceptFails, EnterAccept, Join,
      PushLock, PushWait, PopLock, PopWait, PopUnlock, SpuriousWakeup, vars, main,
      pool, outside

\* A set with at most one element has one element or none.
LEMMA AtMostOne ==
    ASSUME NEW S, \A x, y \in S : x = y
    PROVE  Cardinality(S) = IF S = {} THEN 0 ELSE 1
<1>1. CASE S = {}
  BY <1>1, FS_EmptySet
<1>2. CASE S # {}
  <2>1. PICK x : S = {x}
    BY <1>2
  <2> QED
    BY <1>2, <2>1, FS_Singleton
<1> QED
  BY <1>1, <1>2

\* No accepted connection is dropped, served twice or closed twice, whatever the
\* interleaving of main, the workers and the signal (server.c:95-115, 171-177).
THEOREM OwnedOnce == Spec => []OneOwner
<1>1. Init => AllSole
  <2> SUFFICES ASSUME Init, NEW c \in Conns PROVE Sole(c)
    BY DEF AllSole
  <2>1. c # NoTask /\ size = 0 /\ pending = NoTask /\ \A w \in Workers : task[w] = NoTask
    BY PoolAssumption DEF Init
  <2> QED
    BY <2>1 DEF Sole, Held
<1>2. TypeOK /\ PoolInv /\ AllSole /\ [Next]_vars => AllSole'
  BY SoleStep DEF PoolInv
<1>3. ASSUME TypeOK, PoolInv, AllSole PROVE OneOwner
  <2> SUFFICES ASSUME NEW c \in Conns
               PROVE  Cardinality({k \in 1 .. size : Queued[k] = c})
                        + Cardinality({w \in Workers : task[w] = c})
                        + Cardinality({t \in {Main} : pending = c})
                      = IF conn[c] \in {"open", "answered"} THEN 1 ELSE 0
    BY DEF OneOwner
  <2> DEFINE Slots   == {k \in 1 .. size : Queued[k] = c}
             Holders == {w \in Workers : task[w] = c}
             InMain  == {t \in {Main} : pending = c}
  <2>1. Sole(c) /\ (conn[c] \in {"open", "answered"} => Held(c))
    BY <1>3 DEF AllSole, PoolInv
  <2>2. Cardinality(Slots) = IF Slots = {} THEN 0 ELSE 1
    BY <2>1, AtMostOne DEF Sole
  <2>3. Cardinality(Holders) = IF Holders = {} THEN 0 ELSE 1
    BY <2>1, AtMostOne DEF Sole
  <2>4. Cardinality(InMain) = IF InMain = {} THEN 0 ELSE 1
    BY AtMostOne
  <2>5. conn[c] \in {"open", "answered"} <=> ~ (Slots = {} /\ Holders = {} /\ InMain = {})
    BY <2>1 DEF Sole, Held
  <2>6. /\ ~ (Slots # {} /\ Holders # {})
        /\ InMain # {} => Slots = {} /\ Holders = {}
    BY <2>1 DEF Sole
  <2> HIDE DEF Slots, Holders, InMain
  <2>7. Cardinality(Slots) + Cardinality(Holders) + Cardinality(InMain)
          = IF conn[c] \in {"open", "answered"} THEN 1 ELSE 0
    BY <2>2, <2>3, <2>4, <2>5, <2>6
  <2> QED
    BY <2>7 DEF Slots, Holders, InMain
<1>4. Spec => []AllSole
  BY <1>1, <1>2, TypeCorrect, PoolInvariant, PTL DEF Spec
<1> QED
  BY <1>3, <1>4, TypeCorrect, PoolInvariant, PTL

-------------------------------------------------------------------------
(* The ring implements the abstract task queue.                           *)

LEMMA QueuedSeq == TypeOK /\ RingInv => Queued \in Seq(Tasks) /\ Len(Queued) = size
<1> SUFFICES ASSUME TypeOK, RingInv PROVE Queued \in Seq(Tasks) /\ Len(Queued) = size
  OBVIOUS
<1>1. size \in Nat
  BY PoolAssumption DEF TypeOK
<1>2. \A k \in 1 .. size : items[Wrap(head + k - 1)] \in Tasks
  BY DEF RingInv, Queued
<1>3. Queued \in [1 .. size -> Tasks]
  BY <1>2 DEF Queued
<1> QED
  BY <1>1, <1>3

LEMMA QueuedSeqNext ==
    (TypeOK /\ RingInv)' => (Queued \in Seq(Tasks) /\ Len(Queued) = size)'
  BY QueuedSeq, PTL

LEMMA FifoInit == Init => Fifo!Init
<1> SUFFICES ASSUME Init PROVE Queued = <<>>
  BY DEF Init, Fifo!Init
<1>1. Queued = [k \in {} |-> items[Wrap(head + k - 1)]]
  BY DEF Queued, Init
<1> QED
  BY <1>1

LEMMA FifoStep ==
    TypeOK /\ TypeOK' /\ PoolInv /\ PoolInv' /\ [Next]_vars => [Fifo!Next]_(Fifo!vars)
<1> SUFFICES ASSUME TypeOK, TypeOK', PoolInv, PoolInv', [Next]_vars
             PROVE  [Fifo!Next]_(Fifo!vars)
  OBVIOUS
<1>0. /\ Queued \in Seq(Tasks) /\ Len(Queued) = size
      /\ Queued' \in Seq(Tasks) /\ Len(Queued') = size'
      /\ size \in Nat
  BY QueuedSeq, QueuedSeqNext, PoolAssumption DEF PoolInv, TypeOK
<1>1. CASE PushStore
  <2>1. pending \in Tasks /\ size < Cap /\ task' = task
    BY <1>1 DEF PushStore, PoolInv, MainInv, TypeOK
  <2>2. Append(Queued, pending) \in Seq(Tasks) /\ Len(Append(Queued, pending)) = size'
    BY <1>0, <1>1, <2>1, PushAppends DEF PoolInv
  <2>3. \A k \in 1 .. size' : Queued'[k] = Append(Queued, pending)[k]
    BY <1>0, <1>1, <2>1, PushAppends DEF PoolInv
  <2>4. Queued' = Append(Queued, pending)
    BY <1>0, <2>2, <2>3
  <2> QED
    BY <1>0, <2>1, <2>4 DEF Fifo!Next, Fifo!Put
<1>2. ASSUME NEW w \in Workers, PopTake(w) PROVE Fifo!Next
  <2>1. /\ size > 0 /\ size' = size - 1 /\ task' = [task EXCEPT ![w] = Queued[1]]
        /\ \A k \in 1 .. size' : Queued'[k] = Queued[k + 1]
    BY <1>2, PopDropsHead DEF PoolInv
  <2>2. Queued # <<>> /\ Head(Queued) = Queued[1]
    BY <1>0, <2>1
  <2>3. /\ Tail(Queued) \in Seq(Tasks) /\ Len(Tail(Queued)) = size'
        /\ \A k \in 1 .. size' : Tail(Queued)[k] = Queued[k + 1]
    BY <1>0, <2>1, <2>2
  <2>4. Queued' = Tail(Queued)
    BY <1>0, <2>1, <2>3
  <2>5. task[w] = NoTask
    BY <1>2 DEF PopTake, PoolInv, WorkerInv
  <2> QED
    BY <2>1, <2>2, <2>4, <2>5 DEF Fifo!Next, Fifo!Take
<1>3. ASSUME NEW w \in Workers, Close(w) PROVE Fifo!Next
  <2>1. task[w] \notin {NoTask, Pill} /\ task' = [task EXCEPT ![w] = NoTask]
    BY <1>3, PoolAssumption DEF Close, PoolInv, WorkerInv
  <2>2. Queued' = Queued
    BY <1>3 DEF Close, Queued, ring
  <2> QED
    BY <2>1, <2>2 DEF Fifo!Next, Fifo!Finish
<1>4. CASE UNCHANGED <<ring, task>>
  BY <1>4 DEF Fifo!vars, Queued, ring
<1> QED
  BY <1>1, <1>2, <1>3, <1>4
  DEF Next, MainStep, WorkerStep, Terminated, Connect, Accept, Signal, AcceptFails,
      EnterAccept, CloseListener, Join, PushLock, PushWait, PushUnlock, PopLock,
      PopWait, PopUnlock, Send, SpuriousWakeup, vars, main, pool

\* The ring with its mutex and its two conditions is a first-in first-out queue
\* of at most Cap tasks, each drawn by one worker (server.c:44-89).
THEOREM FifoImplemented == Spec => FifoRefinement
<1>1. Init => Fifo!Init
  BY FifoInit
<1>2. TypeOK /\ TypeOK' /\ PoolInv /\ PoolInv' /\ [Next]_vars => [Fifo!Next]_(Fifo!vars)
  BY FifoStep
<1> QED
  BY <1>1, <1>2, TypeCorrect, PoolInvariant, PTL DEF Spec, FifoRefinement, Fifo!Spec

=========================================================================
