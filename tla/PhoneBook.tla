---------------------------- MODULE PhoneBook ----------------------------
(***************************************************************************)
(* What every phonebook of homework 4, 5 and 6 promises: a list of         *)
(* abonents in the order in which they were added.                         *)
(***************************************************************************)
EXTENDS Naturals, Sequences

CONSTANTS Abonents,   \* records with a field tel
          Tels        \* the numbers a user types

VARIABLES book, open

Init == book = <<>> /\ open = TRUE

Add(a) ==
    /\ open
    /\ book' = Append(book, a)
    /\ UNCHANGED open

Hits(t) == {i \in DOMAIN book : book[i].tel = t}

\* The first abonent with number t goes, the others keep their order.
Delete(t) ==
    /\ open
    /\ \E i \in Hits(t) :
          /\ \A j \in Hits(t) : i <= j
          /\ book' = [k \in 1 .. Len(book) - 1 |-> IF k < i THEN book[k] ELSE book[k + 1]]
    /\ UNCHANGED open

\* The program ends; nothing is saved.
Exit ==
    /\ open
    /\ open' = FALSE
    /\ book' = <<>>

Next == (\E a \in Abonents : Add(a)) \/ (\E t \in Tels : Delete(t)) \/ Exit

Spec == Init /\ [][Next]_<<book, open>>
=========================================================================
