----------------------------- MODULE Market -----------------------------
(***************************************************************************)
(* The market, 11_homework: stalls with a mutex each, buyer threads that   *)
(* shop until their need is met, a loader thread that restocks, and main,  *)
(* which joins the buyers, stops the loader and destroys the mutexes.      *)
(*                                                                         *)
(* A visit is two steps: the trylock with the load of s->count, and the    *)
(* store with the unlock.  rand_r is a choice of any stall.  A buyer whose *)
(* trylock fails goes back to sleep as it came: a stuttering step.         *)
(***************************************************************************)
EXTENDS Integers

CONSTANTS Stalls, Buyers,
          Loader,      \* the loader thread
          Free,        \* no owner
          Nowhere,     \* no stall
          FirstStock,  \* the counts init_market draws from
          Needs,       \* the needs a buyer draws from
          Delivery,    \* the goods of a delivery
          MaxStock     \* bound: the goods of a stall

ASSUME MarketAssumption ==
    /\ Loader \notin Buyers
    /\ Free \notin Buyers \cup {Loader}
    /\ Nowhere \notin Stalls
    /\ FirstStock \subseteq Nat /\ Needs \subseteq Nat \ {0}
    /\ Delivery \in Nat \ {0} /\ MaxStock \in Nat

VARIABLES
    count, owner,     \* each stall's goods, and who holds its mutex
    need,             \* each buyer's need
    pc, at, seen,     \* each thread: where, at which stall, the count it loaded
    main,             \* the main thread
    loader_running,
    supplied, sold    \* ghosts: all the goods a stall ever had, and has sold

vars == <<count, owner, need, pc, at, seen, main, loader_running, supplied, sold>>

Threads == Buyers \cup {Loader}

TypeOK ==
    /\ count \in [Stalls -> Nat]
    /\ owner \in [Stalls -> Threads \cup {Free}]
    /\ need \in [Buyers -> Nat]
    /\ pc \in [Threads -> {"new", "asleep", "awake", "inside", "done"}]
    /\ at \in [Threads -> Stalls \cup {Nowhere}]
    /\ \A t \in Threads : pc[t] = "inside" => at[t] \in Stalls
    /\ seen \in [Threads -> Nat]
    /\ main \in {"joinBuyers", "joinLoader", "destroyed"}
    /\ loader_running \in BOOLEAN
    /\ supplied \in [Stalls -> Nat] /\ sold \in [Stalls -> Nat]

Init ==
    /\ count \in [Stalls -> FirstStock]
    /\ owner = [s \in Stalls |-> Free]
    /\ need = [b \in Buyers |-> 0]
    /\ pc = [t \in Threads |-> IF t = Loader THEN "asleep" ELSE "new"]
    /\ at = [t \in Threads |-> Nowhere]
    /\ seen = [t \in Threads |-> 0]
    /\ main = "joinBuyers" /\ loader_running = TRUE
    /\ supplied = count /\ sold = [s \in Stalls |-> 0]

-------------------------------------------------------------------------
(* Visits.                                                               *)

\* pthread_mutex_trylock succeeds, and t loads the count of s.
GoIn(t, s) ==
    /\ owner[s] = Free
    /\ owner' = [owner EXCEPT ![s] = t]
    /\ pc' = [pc EXCEPT ![t] = "inside"]
    /\ at' = [at EXCEPT ![t] = s]
    /\ seen' = [seen EXCEPT ![t] = count[s]]

\* t stores a count of n and unlocks.
GoOut(t, n, next) ==
    /\ count' = [count EXCEPT ![at[t]] = n]
    /\ owner' = [owner EXCEPT ![at[t]] = Free]
    /\ pc' = [pc EXCEPT ![t] = next]
    /\ at' = [at EXCEPT ![t] = Nowhere]
    /\ seen' = [seen EXCEPT ![t] = 0]

-------------------------------------------------------------------------
(* Buyers.                                                               *)

Start(b) ==
    /\ pc[b] = "new"
    /\ \E n \in Needs : need' = [need EXCEPT ![b] = n]
    /\ pc' = [pc EXCEPT ![b] = "asleep"]
    /\ UNCHANGED <<count, owner, at, seen, main, loader_running, supplied, sold>>

\* Mutant of EnterStallForBuyer: the result of trylock is not tested.
EnterUntested(b, s) ==
    /\ pc[b] = "asleep"
    /\ owner' = [owner EXCEPT ![s] = b]
    /\ pc' = [pc EXCEPT ![b] = "inside"]
    /\ at' = [at EXCEPT ![b] = s]
    /\ seen' = [seen EXCEPT ![b] = count[s]]
    /\ UNCHANGED <<count, need, main, loader_running, supplied, sold>>

EnterStallForBuyer(b, s) ==
    /\ pc[b] = "asleep"
    /\ GoIn(b, s)
    /\ UNCHANGED <<count, need, main, loader_running, supplied, sold>>

\* The goods buyer b takes.
Taken(b) == IF need[b] >= seen[b] THEN seen[b] ELSE need[b]

\* The buyer takes the goods and leaves; it comes back until its need is 0.
LeaveStall(b) ==
    /\ pc[b] = "inside"
    /\ need' = [need EXCEPT ![b] = @ - Taken(b)]
    /\ GoOut(b, seen[b] - Taken(b), IF need[b] > Taken(b) THEN "asleep" ELSE "done")
    /\ sold' = [sold EXCEPT ![at[b]] = @ + Taken(b)]
    /\ UNCHANGED <<main, loader_running, supplied>>

-------------------------------------------------------------------------
(* The loader.                                                           *)

\* while (loader_running): the flag is read some time before the visit.
LoaderWakes ==
    /\ pc[Loader] = "asleep"
    /\ pc' = [pc EXCEPT ![Loader] = IF loader_running THEN "awake" ELSE "done"]
    /\ UNCHANGED <<count, owner, need, at, seen, main, loader_running, supplied, sold>>

Full(s) == count[s] + Delivery > MaxStock

EnterStallForLoader(s) ==
    /\ pc[Loader] = "awake"
    /\ ~Full(s)
    /\ GoIn(Loader, s)
    /\ UNCHANGED <<count, need, main, loader_running, supplied, sold>>

\* trylock fails (or the bound MaxStock forbids the delivery).
LoaderSkips(s) ==
    /\ pc[Loader] = "awake"
    /\ owner[s] # Free \/ Full(s)
    /\ pc' = [pc EXCEPT ![Loader] = "asleep"]
    /\ UNCHANGED <<count, owner, need, at, seen, main, loader_running, supplied, sold>>

LoaderLeaves ==
    /\ pc[Loader] = "inside"
    /\ GoOut(Loader, seen[Loader] + Delivery, "asleep")
    /\ supplied' = [supplied EXCEPT ![at[Loader]] = @ + Delivery]
    /\ UNCHANGED <<need, main, loader_running, sold>>

-------------------------------------------------------------------------
(* main.                                                                 *)

\* Mutants of JoinBuyers: the loader is not joined; the flag is not cleared.
JoinBuyersOnly ==
    /\ main = "joinBuyers"
    /\ \A b \in Buyers : pc[b] = "done"
    /\ loader_running' = FALSE
    /\ main' = "destroyed"
    /\ UNCHANGED <<count, owner, need, pc, at, seen, supplied, sold>>
JoinBuyersFlagKept ==
    /\ main = "joinBuyers"
    /\ \A b \in Buyers : pc[b] = "done"
    /\ main' = "joinLoader"
    /\ UNCHANGED <<count, owner, need, pc, at, seen, loader_running, supplied, sold>>

JoinBuyers ==
    /\ main = "joinBuyers"
    /\ \A b \in Buyers : pc[b] = "done"
    /\ loader_running' = FALSE
    /\ main' = "joinLoader"
    /\ UNCHANGED <<count, owner, need, pc, at, seen, supplied, sold>>

\* main joins the loader and destroys the mutexes.
DestroyMarket ==
    /\ main = "joinLoader"
    /\ pc[Loader] = "done"
    /\ main' = "destroyed"
    /\ UNCHANGED <<count, owner, need, pc, at, seen, loader_running, supplied, sold>>

\* The program has ended.
Closed == main = "destroyed" /\ UNCHANGED vars

-------------------------------------------------------------------------
LoaderStep ==
    \/ LoaderWakes \/ LoaderLeaves
    \/ \E s \in Stalls : EnterStallForLoader(s) \/ LoaderSkips(s)

Next ==
    \/ \E b \in Buyers :
          \/ Start(b) \/ LeaveStall(b)
          \/ \E s \in Stalls : EnterStallForBuyer(b, s)
    \/ LoaderStep
    \/ JoinBuyers \/ DestroyMarket \/ Closed

Spec == Init /\ [][Next]_vars

\* Threads are scheduled; the draws of rand_r bring every thread to every stall again
\* and again, and not always when it is taken: a visit is short, the sleep between
\* two visits is one or two seconds.
LoaderGetsIn(s) ==
    []<>(pc[Loader] = "awake" /\ ~Full(s)) => []<><<EnterStallForLoader(s)>>_vars

Fairness ==
    /\ \A b \in Buyers : WF_vars(Start(b)) /\ WF_vars(LeaveStall(b))
    /\ \A b \in Buyers, s \in Stalls : SF_vars(EnterStallForBuyer(b, s))
    /\ WF_vars(LoaderStep)
    /\ \A s \in Stalls : LoaderGetsIn(s)
    /\ WF_vars(JoinBuyers) /\ WF_vars(DestroyMarket)

FairSpec == Spec /\ Fairness

-------------------------------------------------------------------------
(* What the market promises.                                             *)

\* No purchase and no delivery is lost, although every visit loads the count, and
\* stores it later: what a stall has and has sold is what it was given
\* (market.c:10-46).
StockConserved == \A s \in Stalls : count[s] + sold[s] = supplied[s]

\* The mutexes are destroyed when nobody holds one or will try to: the buyers have
\* all they need and the loader has ended, also when the flag was cleared between
\* its test and the visit (client.c:22-29, market.c:70-86).
SafeClosing ==
    main = "destroyed" =>
        /\ \A s \in Stalls : owner[s] = Free
        /\ \A b \in Buyers : pc[b] = "done" /\ need[b] = 0
        /\ pc[Loader] = "done"

\* The inductive invariant: the threads inside a stall are the owners of its mutex,
\* what they loaded is still the count, and only buyers with a need go shopping.
MarketInv ==
    /\ StockConserved
    /\ \A t \in Threads :
          pc[t] = "inside" => owner[at[t]] = t /\ seen[t] = count[at[t]]
    /\ \A s \in Stalls :
          owner[s] # Free => pc[owner[s]] = "inside" /\ at[owner[s]] = s
    /\ \A b \in Buyers : pc[b] = "done" => need[b] = 0
    /\ main # "joinBuyers" => \A b \in Buyers : pc[b] = "done"
    /\ main = "destroyed" => pc[Loader] = "done"

\* The needs are met in the end, and the market closes.
MarketCloses == <>(main = "destroyed")
=========================================================================
