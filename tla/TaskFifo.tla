---------------------------- MODULE TaskFifo ----------------------------
(***************************************************************************)
(* What the pool's task queue promises to the threads around it, with no   *)
(* ring, no mutex and no condition variable: tasks leave in the order they *)
(* entered, each to one worker, at most Cap of them are waiting, and a     *)
(* worker that drew the stop task never draws another one.                 *)
(***************************************************************************)
EXTENDS Integers, Sequences

CONSTANTS Workers,   \* the threads that take tasks
          Tasks,     \* the values that can be queued, Stop among them
          Stop,      \* the task that ends the worker that draws it
          NoTask,    \* what a worker holds between two tasks
          Cap        \* the most tasks that can wait

VARIABLES q,         \* the waiting tasks, oldest first
          hand       \* the task each worker has drawn and not finished

vars == <<q, hand>>

Init == /\ q = <<>>
        /\ hand = [w \in Workers |-> NoTask]

Put(t) == /\ Len(q) < Cap
          /\ q' = Append(q, t)
          /\ UNCHANGED hand

Take(w) == /\ q # <<>>
           /\ hand[w] = NoTask
           /\ hand' = [hand EXCEPT ![w] = Head(q)]
           /\ q' = Tail(q)

Finish(w) == /\ hand[w] \notin {NoTask, Stop}
             /\ hand' = [hand EXCEPT ![w] = NoTask]
             /\ UNCHANGED q

Next == \/ \E t \in Tasks : Put(t)
        \/ \E w \in Workers : Take(w) \/ Finish(w)

Spec == Init /\ [][Next]_vars
=========================================================================
