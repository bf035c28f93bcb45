--------------------------- MODULE PhoneArray ---------------------------
(***************************************************************************)
(* The phonebook as an array of N entries: 4_homework/directory.c, and the *)
(* same program with functions, 5_homework/1.c.  Searching and showing     *)
(* only read.  Input ends with the command Exit, never before.             *)
(***************************************************************************)
EXTENDS Naturals, Sequences

CONSTANTS Abonents, Tels, N,
          Junk       \* what an entry holds before it is written

ASSUME ArrayAssumption ==
    /\ N \in Nat \ {0}
    /\ \A a \in Abonents : a.tel \in Tels

VARIABLES phonebook, count, open

vars == <<phonebook, count, open>>

TypeOK ==
    /\ phonebook \in [0 .. N - 1 -> Abonents \cup {Junk}]
    /\ count \in 0 .. N - 1
    /\ open \in BOOLEAN
    /\ \A i \in 0 .. count - 1 : phonebook[i] \in Abonents

Init ==
    /\ phonebook = [i \in 0 .. N - 1 |-> Junk]
    /\ count = 0 /\ open = TRUE

\* Mutant of Add: the test is count > N - 1.
AddOneMore(a) ==
    /\ open
    /\ count <= N - 1
    /\ phonebook' = [phonebook EXCEPT ![count] = a]
    /\ count' = count + 1
    /\ UNCHANGED open

\* One entry stays unused: the test is count >= N - 1.
Add(a) ==
    /\ open
    /\ count < N - 1
    /\ phonebook' = [phonebook EXCEPT ![count] = a]
    /\ count' = count + 1
    /\ UNCHANGED open

\* The first entry with number t.
Found(i, t) ==
    /\ i \in 0 .. count - 1
    /\ phonebook[i].tel = t
    /\ \A j \in 0 .. i - 1 : phonebook[j].tel # t

\* Mutant of Delete: the last entry fills the hole.
DeleteBySwap(t) ==
    /\ open
    /\ \E i \in 0 .. N - 1 :
          /\ Found(i, t)
          /\ phonebook' = [phonebook EXCEPT ![i] = phonebook[count - 1]]
    /\ count' = count - 1
    /\ UNCHANGED open

Delete(t) ==
    /\ open
    /\ \E i \in 0 .. N - 1 :
          /\ Found(i, t)
          /\ phonebook' = [k \in 0 .. N - 1 |->
                IF k \in i .. count - 2 THEN phonebook[k + 1] ELSE phonebook[k]]
    /\ count' = count - 1
    /\ UNCHANGED open

Exit ==
    /\ open
    /\ open' = FALSE
    /\ UNCHANGED <<phonebook, count>>

Next == (\E a \in Abonents : Add(a)) \/ (\E t \in Tels : Delete(t)) \/ Exit

Spec == Init /\ [][Next]_vars

Contents == IF open THEN [i \in 1 .. count |-> phonebook[i - 1]] ELSE <<>>

Book == INSTANCE PhoneBook WITH book <- Contents

\* The array, with its shifting and its limit, implements the phonebook
\* (directory.c:24-77).
ArrayIsBook == Book!Spec
=========================================================================
