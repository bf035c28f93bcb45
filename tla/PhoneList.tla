---------------------------- MODULE PhoneList ----------------------------
(***************************************************************************)
(* The phonebook as a doubly linked list: 6_homework.  A node stands for   *)
(* its block and its abonent's block; malloc returns any free node.  An    *)
(* addition that fails, for want of memory or input, changes nothing.      *)
(* Searching and showing only read, along next from head.                  *)
(***************************************************************************)
EXTENDS Naturals, Sequences, FiniteSets

CONSTANTS Abonents, Tels,
          Nodes,     \* bound: the nodes malloc can return
          Null,      \* NULL, not in Nodes
          Unused     \* what a free node holds, not in Abonents

VARIABLES head, tail, count, prev, next, data, open

vars == <<head, tail, count, prev, next, data, open>>

Pointers == Nodes \cup {Null}

TypeOK ==
    /\ head \in Pointers /\ tail \in Pointers
    /\ count \in 0 .. Cardinality(Nodes)
    /\ prev \in [Nodes -> Pointers] /\ next \in [Nodes -> Pointers]
    /\ data \in [Nodes -> Abonents \cup {Unused}]
    /\ open \in BOOLEAN

Init ==
    /\ head = Null /\ tail = Null /\ count = 0
    /\ prev = [n \in Nodes |-> Null] /\ next = [n \in Nodes |-> Null]
    /\ data = [n \in Nodes |-> Unused]
    /\ open = TRUE

\* w are the nodes from p along f, in order, up to NULL.
Leads(p, f, w) ==
    /\ p = IF w = <<>> THEN Null ELSE w[1]
    /\ \A i \in 1 .. Len(w) : f[w[i]] = IF i = Len(w) THEN Null ELSE w[i + 1]

\* No list is longer than there are nodes.
Chain(p, f) ==
    CHOOSE w \in UNION {[1 .. n -> Nodes] : n \in 0 .. Cardinality(Nodes)} : Leads(p, f, w)

Walk == Chain(head, next)

\* Mutant of Add: prev of the new node is not set.
AddOneWay(a) ==
    /\ open
    /\ \E n \in Nodes :
          /\ data[n] = Unused
          /\ data' = [data EXCEPT ![n] = a]
          /\ next' = IF head = Null THEN next ELSE [next EXCEPT ![tail] = n]
          /\ head' = IF head = Null THEN n ELSE head
          /\ tail' = n
    /\ count' = count + 1
    /\ UNCHANGED <<prev, open>>

Add(a) ==
    /\ open
    /\ \E n \in Nodes :
          /\ data[n] = Unused
          /\ data' = [data EXCEPT ![n] = a]
          /\ IF head = Null
             THEN head' = n /\ UNCHANGED <<prev, next>>
             ELSE /\ prev' = [prev EXCEPT ![n] = tail]
                  /\ next' = [next EXCEPT ![tail] = n]
                  /\ UNCHANGED head
          /\ tail' = n
    /\ count' = count + 1
    /\ UNCHANGED open

\* n is the first node of the walk with number t.
Found(n, t) ==
    \E i \in DOMAIN Walk :
        /\ Walk[i] = n
        /\ data[n].tel = t
        /\ \A j \in 1 .. i - 1 : data[Walk[j]].tel # t

\* free(n), with its pointers.
Freed(f, n) == [f EXCEPT ![n] = Null]

\* The four ways to take n out of the list.
UnlinkOnly(n) ==
    /\ prev[n] = Null /\ next[n] = Null
    /\ head' = Null /\ tail' = Null
    /\ prev' = Freed(prev, n) /\ next' = Freed(next, n)

UnlinkFirst(n) ==
    /\ prev[n] = Null /\ next[n] # Null
    /\ head' = next[n]
    /\ prev' = [Freed(prev, n) EXCEPT ![next[n]] = Null]
    /\ next' = Freed(next, n)
    /\ UNCHANGED tail

\* Mutant of UnlinkLast: tail stays.
UnlinkLastKeepsTail(n) ==
    /\ prev[n] # Null /\ next[n] = Null
    /\ next' = [Freed(next, n) EXCEPT ![prev[n]] = Null]
    /\ prev' = Freed(prev, n)
    /\ UNCHANGED <<head, tail>>

UnlinkLast(n) ==
    /\ prev[n] # Null /\ next[n] = Null
    /\ tail' = prev[n]
    /\ next' = [Freed(next, n) EXCEPT ![prev[n]] = Null]
    /\ prev' = Freed(prev, n)
    /\ UNCHANGED head

UnlinkMiddle(n) ==
    /\ prev[n] # Null /\ next[n] # Null
    /\ next' = [Freed(next, n) EXCEPT ![prev[n]] = next[n]]
    /\ prev' = [Freed(prev, n) EXCEPT ![next[n]] = prev[n]]
    /\ UNCHANGED <<head, tail>>

Delete(t) ==
    /\ open
    /\ count # 0
    /\ \E n \in Nodes :
          /\ Found(n, t)
          /\ UnlinkOnly(n) \/ UnlinkFirst(n) \/ UnlinkLast(n) \/ UnlinkMiddle(n)
          /\ data' = [data EXCEPT ![n] = Unused]
    /\ count' = count - 1
    /\ UNCHANGED open

\* Exit frees the nodes one by one from head (not their abonents) and ends.
Exit ==
    /\ open
    /\ open' = FALSE
    /\ head' = Null
    /\ UNCHANGED <<tail, count, prev, next, data>>

Next == (\E a \in Abonents : Add(a)) \/ (\E t \in Tels : Delete(t)) \/ Exit

Spec == Init /\ [][Next]_vars

-------------------------------------------------------------------------
Contents == IF open THEN [i \in DOMAIN Walk |-> data[Walk[i]]] ELSE <<>>

Book == INSTANCE PhoneBook WITH book <- Contents

\* The linked list implements the phonebook: what a walk from head finds is the
\* abonents in their order, after any additions and deletions (server.c:23-139).
ListIsBook == Book!Spec

\* The list is well formed: walking back from tail is walking forward from head, no
\* node in use is off the list, and count counts the nodes (server.c:45-59, 110-137).
WellLinked ==
    open =>
        /\ Len(Walk) = count
        /\ Chain(tail, prev) = [i \in 1 .. count |-> Walk[count + 1 - i]]
        /\ {Walk[i] : i \in 1 .. count} = {n \in Nodes : data[n] # Unused}
=========================================================================
