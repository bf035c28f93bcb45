-------------------------- MODULE MarketProofs --------------------------
(***************************************************************************)
(* Proofs about Market, for every set of stalls and buyers and every       *)
(* quantity of goods.  MarketInv is inductive together with TypeOK.        *)
(***************************************************************************)
EXTENDS Market, TLAPS

USE MarketAssumption DEF Threads

LEMMA TypeInit == Init => TypeOK
<1> SUFFICES ASSUME Init PROVE TypeOK
  OBVIOUS
<1>1. pc \in [Threads -> {"new", "asleep", "awake", "inside", "done"}]
  BY DEF Init
<1>2. count \in [Stalls -> Nat] /\ supplied \in [Stalls -> Nat]
  BY DEF Init
<1> QED
  BY <1>1, <1>2 DEF Init, TypeOK

\* What a buyer takes is in the stall and is needed.
LEMMA TakenBounds ==
  ASSUME TypeOK, NEW b \in Buyers
  PROVE  Taken(b) \in Nat /\ Taken(b) <= seen[b] /\ Taken(b) <= need[b]
  BY DEF TypeOK, Taken

LEMMA TypeStep == TypeOK /\ [Next]_vars => TypeOK'
<1> SUFFICES ASSUME TypeOK, [Next]_vars PROVE TypeOK'
  OBVIOUS
<1>1. ASSUME NEW b \in Buyers, Start(b) PROVE TypeOK'
  BY <1>1 DEF TypeOK, Start
<1>2. ASSUME NEW b \in Buyers, LeaveStall(b) PROVE TypeOK'
  <2>1. at[b] \in Stalls
    BY <1>2 DEF TypeOK, LeaveStall
  <2>2. seen[b] - Taken(b) \in Nat /\ need[b] - Taken(b) \in Nat /\ Taken(b) \in Nat
    BY TakenBounds DEF TypeOK
  <2>3. (IF need[b] > Taken(b) THEN "asleep" ELSE "done") \in {"asleep", "done"}
    OBVIOUS
  <2> QED
    BY <1>2, <2>1, <2>2, <2>3 DEF TypeOK, LeaveStall, GoOut
<1>3. ASSUME NEW b \in Buyers, NEW s \in Stalls, EnterStallForBuyer(b, s) PROVE TypeOK'
  BY <1>3 DEF TypeOK, EnterStallForBuyer, GoIn
<1>4. CASE LoaderWakes
  BY <1>4 DEF TypeOK, LoaderWakes
<1>5. CASE LoaderLeaves
  <2>1. at[Loader] \in Stalls
    BY <1>5 DEF TypeOK, LoaderLeaves
  <2> QED
    BY <1>5, <2>1 DEF TypeOK, LoaderLeaves, GoOut
<1>6. ASSUME NEW s \in Stalls, EnterStallForLoader(s) \/ LoaderSkips(s) PROVE TypeOK'
  BY <1>6 DEF TypeOK, EnterStallForLoader, LoaderSkips, GoIn
<1>7. CASE JoinBuyers \/ DestroyMarket \/ Closed \/ UNCHANGED vars
  BY <1>7 DEF TypeOK, JoinBuyers, DestroyMarket, Closed, vars
<1> QED
  BY <1>1, <1>2, <1>3, <1>4, <1>5, <1>6, <1>7 DEF Next, LoaderStep

LEMMA InvInit == Init => MarketInv
<1> SUFFICES ASSUME Init PROVE MarketInv
  OBVIOUS
<1>1. TypeOK
  BY TypeInit
<1>2. \A t \in Threads : pc[t] \in {"asleep", "new"}
  BY DEF Init
<1> QED
  BY <1>1, <1>2 DEF Init, TypeOK, MarketInv, StockConserved

\* A visit ends: the thread is the owner of its stall, so it is alone in it.
LEMMA InvStep == TypeOK /\ MarketInv /\ [Next]_vars => MarketInv'
<1> SUFFICES ASSUME TypeOK, MarketInv, [Next]_vars PROVE MarketInv'
  OBVIOUS
<1> USE DEF MarketInv, StockConserved
<1>1. ASSUME NEW b \in Buyers, Start(b) PROVE MarketInv'
  BY <1>1 DEF TypeOK, Start
<1>2. ASSUME NEW b \in Buyers, LeaveStall(b) PROVE MarketInv'
  <2>1. at[b] \in Stalls /\ owner[at[b]] = b /\ seen[b] = count[at[b]]
    BY <1>2 DEF TypeOK, LeaveStall
  <2>2. Taken(b) \in Nat /\ Taken(b) <= seen[b] /\ Taken(b) <= need[b]
    BY TakenBounds
  <2>3. pc'[b] = "asleep" \/ (pc'[b] = "done" /\ need'[b] = 0)
    BY <1>2, <2>2 DEF TypeOK, LeaveStall, GoOut
  <2>4. /\ \A t \in Threads \ {b} : pc'[t] = pc[t] /\ at'[t] = at[t] /\ seen'[t] = seen[t]
        /\ \A d \in Buyers \ {b} : need'[d] = need[d]
    BY <1>2 DEF TypeOK, LeaveStall, GoOut
  <2>5. /\ count'[at[b]] = seen[b] - Taken(b) /\ sold'[at[b]] = sold[at[b]] + Taken(b)
        /\ owner'[at[b]] = Free
        /\ \A s \in Stalls \ {at[b]} :
              count'[s] = count[s] /\ sold'[s] = sold[s] /\ owner'[s] = owner[s]
    BY <1>2, <2>1 DEF TypeOK, LeaveStall, GoOut
  <2>6. UNCHANGED <<main, supplied>> /\ pc[b] = "inside"
    BY <1>2 DEF LeaveStall
  <2>7. StockConserved'
    BY <2>1, <2>2, <2>5, <2>6 DEF TypeOK
  <2>8. \A t \in Threads :
           pc'[t] = "inside" => owner'[at'[t]] = t /\ seen'[t] = count'[at'[t]]
    BY <2>1, <2>3, <2>4, <2>5 DEF TypeOK
  <2>9. \A s \in Stalls :
           owner'[s] # Free => pc'[owner'[s]] = "inside" /\ at'[owner'[s]] = s
    BY <2>1, <2>4, <2>5 DEF TypeOK
  <2> QED
    BY <2>3, <2>4, <2>6, <2>7, <2>8, <2>9 DEF TypeOK
<1>3. ASSUME NEW b \in Buyers, NEW s \in Stalls, EnterStallForBuyer(b, s)
      PROVE MarketInv'
  BY <1>3 DEF TypeOK, EnterStallForBuyer, GoIn
<1>4. CASE LoaderWakes
  BY <1>4 DEF TypeOK, LoaderWakes
<1>5. CASE LoaderLeaves
  <2>1. at[Loader] \in Stalls /\ owner[at[Loader]] = Loader
        /\ seen[Loader] = count[at[Loader]]
    BY <1>5 DEF TypeOK, LoaderLeaves
  <2> QED
    BY <1>5, <2>1 DEF TypeOK, LoaderLeaves, GoOut
<1>6. ASSUME NEW s \in Stalls, EnterStallForLoader(s) \/ LoaderSkips(s)
      PROVE MarketInv'
  BY <1>6 DEF TypeOK, EnterStallForLoader, LoaderSkips, GoIn
<1>7. CASE JoinBuyers \/ DestroyMarket \/ Closed \/ UNCHANGED vars
  BY <1>7 DEF TypeOK, JoinBuyers, DestroyMarket, Closed, vars
<1> QED
  BY <1>1, <1>2, <1>3, <1>4, <1>5, <1>6, <1>7 DEF Next, LoaderStep

-------------------------------------------------------------------------
(* The theorems.                                                         *)

\* Counts and needs never become negative, for any deliveries and needs.
THEOREM MarketTypes == Spec => []TypeOK
<1>1. Init => TypeOK
  BY TypeInit
<1>2. TypeOK /\ [Next]_vars => TypeOK'
  BY TypeStep
<1> QED
  BY <1>1, <1>2, PTL DEF Spec

\* Owners, visitors and loaded counts agree in every reachable state.
THEOREM MarketInvariant == Spec => []MarketInv
<1>1. Init => MarketInv
  BY InvInit
<1>2. TypeOK /\ MarketInv /\ [Next]_vars => MarketInv'
  BY InvStep
<1> QED
  BY <1>1, <1>2, MarketTypes, PTL DEF Spec

\* The trylock of each stall is enough: no purchase and no delivery is lost.
THEOREM NothingLost == Spec => []StockConserved
<1>1. MarketInv => StockConserved
  BY DEF MarketInv
<1> QED
  BY <1>1, MarketInvariant, PTL

\* The two joins are enough: the mutexes are destroyed when they are free and no
\* thread will use them again.
THEOREM ClosesSafely == Spec => []SafeClosing
<1>1. TypeOK /\ MarketInv => SafeClosing
  BY DEF TypeOK, MarketInv, SafeClosing
<1> QED
  BY <1>1, MarketTypes, MarketInvariant, PTL
=========================================================================
