------------------------------ MODULE ProcTree ------------------------------
(***************************************************************************)
(* The tree of six processes of 10_homework/2/main.c: 0 starts 1 and 2,    *)
(* 1 starts 3 and 4, 2 starts 5; everybody reports success upwards by its  *)
(* exit status, 52.  Any fork may fail and any process may be killed.      *)
(***************************************************************************)
EXTENDS Naturals

VARIABLES pc,      \* each process, by the call it is about to make
          code     \* how it ended: an exit status, or by a signal

vars == <<pc, code>>

SUCCES == 52
Killed == 256       \* no exit status has this value

Procs == 0 .. 5
Children(p) == IF p = 0 THEN {1, 2} ELSE IF p = 1 THEN {3, 4} ELSE IF p = 2 THEN {5} ELSE {}

TypeOK ==
    /\ pc \in [Procs -> {"none", "fork first", "fork second", "wait", "sleep",
                         "fall through", "ended"}]
    /\ code \in [Procs -> {0, 1, SUCCES, Killed}]

Init ==
    /\ pc = [p \in Procs |-> IF p = 0 THEN "fork first" ELSE "none"]
    /\ code = [p \in Procs |-> 0]

Goto(p, l) == pc' = [pc EXCEPT ![p] = l] /\ UNCHANGED code

EndsWith(p, status) ==
    /\ pc' = [pc EXCEPT ![p] = "ended"]
    /\ code' = [code EXCEPT ![p] = status]

\* p starts child c and goes on at label l, or exits with 1 without waiting for anybody.
Fork(p, c, l) ==
    \/ /\ pc' = [pc EXCEPT ![p] = l,
                           ![c] = IF Children(c) = {} THEN "sleep" ELSE "fork first"]
       /\ UNCHANGED code
    \/ EndsWith(p, 1)

ForkFirst ==
    \/ pc[0] = "fork first" /\ Fork(0, 1, "fork second")
    \/ pc[1] = "fork first" /\ Fork(1, 3, "fork second")
    \/ pc[2] = "fork first" /\ Fork(2, 5, "wait")

ForkSecond ==
    \/ pc[0] = "fork second" /\ Fork(0, 2, "wait")
    \/ pc[1] = "fork second" /\ Fork(1, 4, "wait")

AllEnded(p)     == \A c \in Children(p) : pc[c] = "ended"
AllSucceeded(p) == \A c \in Children(p) : code[c] = SUCCES

\* Mutant of Wait1: one child that succeeded is enough.
Wait1Either ==
    /\ pc[1] = "wait" /\ AllEnded(1)
    /\ IF \E c \in Children(1) : code[c] = SUCCES THEN Goto(1, "sleep") ELSE EndsWith(1, 0)

\* Process 1 leaves its block when a child failed; the next one is not its own.
Wait1 ==
    /\ pc[1] = "wait" /\ AllEnded(1)
    /\ IF AllSucceeded(1) THEN Goto(1, "sleep") ELSE EndsWith(1, 0)

\* Process 2 leaves its block, too, but into the code of its parent.
Wait2 ==
    /\ pc[2] = "wait" /\ AllEnded(2)
    /\ Goto(2, IF AllSucceeded(2) THEN "sleep" ELSE "fall through")

Wait0 ==
    /\ pc[0] = "wait" /\ AllEnded(0)
    /\ IF AllSucceeded(0) THEN Goto(0, "sleep") ELSE EndsWith(0, 0)

\* Process 2 waits for pid1, which is not its child, and for pid2, which is 0 in it:
\* both calls fail, and status1 and status2 are read as they are, never written.
FallThrough ==
    /\ pc[2] = "fall through"
    /\ Goto(2, "sleep") \/ EndsWith(2, 0)

\* sleep(1), then exit(SUCCES).
Exit(p) == pc[p] = "sleep" /\ EndsWith(p, SUCCES)

Kill(p) == pc[p] \notin {"none", "ended"} /\ EndsWith(p, Killed)

Next ==
    \/ ForkFirst \/ ForkSecond
    \/ Wait0 \/ Wait1 \/ Wait2 \/ FallThrough
    \/ \E p \in Procs : Exit(p) \/ Kill(p)

Spec == Init /\ [][Next]_vars

\* The root reports success only when all processes have been started, have ended, and
\* have succeeded, with one exception: process 2 may report it over a process 5 that
\* failed, because it then decides by two statuses nobody wrote (main.c:10, 97-104).
SuccessMeansAll ==
    pc[0] = "ended" /\ code[0] = SUCCES =>
        \A p \in Procs : pc[p] = "ended" /\ (code[p] = SUCCES \/ p = 5)
=============================================================================
