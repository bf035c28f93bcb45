---------------------------- MODULE SmallProofs ----------------------------
(***************************************************************************)
(* What MCSmall checks of the small programs, for every value of the       *)
(* constants: here the file manager's panels, both phonebooks, the process *)
(* tree and the types of the shell; the hand-shakes and the time servers   *)
(* in the modules it extends.  The last section puts them together.        *)
(***************************************************************************)
EXTENDS HandShakeProofs, TimeServerProofs, FiniteSetTheorems, WellFoundedInduction,
        NaturalsInduction

-------------------------------------------------------------------------
(* The file manager: the selection stays on a visible entry, for every     *)
(* height of the window and all listings.  SelectionVisible is inductive   *)
(* together with the types.                                                *)

PanelInv == PanelTypeOK /\ SelectionVisible

\* What panel_load leaves in panel p satisfies the invariant if p did before: a new
\* listing starts at its first entry, a failed opendir leaves an empty one.
LEMMA LoadKeeps ==
    ASSUME PanelInv, NEW p \in Sides, Load(p)
    PROVE  /\ items' \in [Sides -> Seq(Entries)]
           /\ selected' \in [Sides -> Nat] /\ scroll' \in [Sides -> Nat]
           /\ SelectionVisible'
<1> USE PanelAssumption DEF PanelInv, PanelTypeOK, Sides, Entries, Count
<1>1. ASSUME NEW l \in Listings, items' = [items EXCEPT ![p] = l],
             selected' = [selected EXCEPT ![p] = 0],
             scroll' = [scroll EXCEPT ![p] = 0]
      PROVE  /\ items' \in [Sides -> Seq(Entries)]
             /\ selected' \in [Sides -> Nat] /\ scroll' \in [Sides -> Nat]
             /\ SelectionVisible'
  <2>1. l \in Seq(Entries) /\ Len(l) \in Nat
    OBVIOUS
  <2>2. QED
    BY <1>1, <2>1 DEF SelectionVisible
<1>2. ASSUME items' = [items EXCEPT ![p] = <<>>], UNCHANGED <<selected, scroll>>
      PROVE  /\ items' \in [Sides -> Seq(Entries)]
             /\ selected' \in [Sides -> Nat] /\ scroll' \in [Sides -> Nat]
             /\ SelectionVisible'
  BY <1>2 DEF SelectionVisible
<1>3. QED
  BY <1>1, <1>2 DEF Load

\* Going up, by key or by entering "..", keeps the invariant.
LEMMA GoUpKeeps ==
    ASSUME PanelInv, NEW p \in Sides, GoUp(p)
    PROVE  PanelInv'
<1>1. Load(p)
  BY DEF GoUp
<1>2. depth' \in [Sides -> Nat] /\ active' \in Sides
  BY DEF GoUp, PanelInv, PanelTypeOK
<1>3. QED
  BY <1>1, <1>2, LoadKeeps DEF PanelInv, PanelTypeOK

\* Entering keeps the invariant.
LEMMA EnterKeeps ==
    ASSUME PanelInv, NEW p \in Sides, Enter(p)
    PROVE  PanelInv'
<1>1. CASE GoUp(p)
  BY <1>1, GoUpKeeps
<1>2. CASE /\ depth' = [depth EXCEPT ![p] = @ + 1]
           /\ Load(p)
           /\ UNCHANGED active
  <2>1. depth' \in [Sides -> Nat] /\ active' \in Sides
    BY <1>2 DEF PanelInv, PanelTypeOK
  <2>2. QED
    BY <1>2, <2>1, LoadKeeps DEF PanelInv, PanelTypeOK
<1>3. QED
  BY <1>1, <1>2 DEF Enter

\* The invariant holds at the start and every key keeps it.
LEMMA PanelInductive == PanelInv /\ [PanelNext]_panelVars => PanelInv'
<1> SUFFICES ASSUME PanelInv, [PanelNext]_panelVars
             PROVE  PanelInv'
  OBVIOUS
<1>0. active \in Sides
  BY DEF PanelInv, PanelTypeOK
<1>1. CASE Tab
  BY <1>1 DEF Tab, Other, PanelInv, PanelTypeOK, SelectionVisible, Sides, Count
<1>2. CASE Up(active)
  <2>1. PanelTypeOK'
    BY <1>0, <1>2 DEF Up, PanelInv, PanelTypeOK, SelectionVisible
  <2>2. SelectionVisible'
    BY <1>0, <1>2, PanelAssumption
       DEF Up, PanelInv, PanelTypeOK, SelectionVisible, Count, Entries
  <2>3. QED
    BY <2>1, <2>2 DEF PanelInv
<1>3. CASE Down(active)
  <2>1. PanelTypeOK'
    BY <1>0, <1>3 DEF Down, PanelInv, PanelTypeOK
  <2>2. \A p \in Sides : Len(items[p]) \in Nat
    BY DEF PanelInv, PanelTypeOK
  <2>3. SelectionVisible'
    BY <1>0, <1>3, <2>2, PanelAssumption
       DEF Down, PanelInv, PanelTypeOK, SelectionVisible, Count
  <2>4. QED
    BY <2>1, <2>3 DEF PanelInv
<1>4. CASE GoUp(active)
  BY <1>0, <1>4, GoUpKeeps
<1>5. CASE Enter(active)
  BY <1>0, <1>5, EnterKeeps
<1>6. CASE UNCHANGED panelVars
  BY <1>6 DEF panelVars, PanelInv, PanelTypeOK, SelectionVisible, Count
<1>7. QED
  BY <1>1, <1>2, <1>3, <1>4, <1>5, <1>6 DEF PanelNext

LEMMA PanelInvInit == PanelInit => PanelInv
<1> SUFFICES ASSUME PanelInit PROVE PanelInv
  OBVIOUS
<1> USE PanelAssumption
<1>1. PanelTypeOK
  <2>1. items \in [Sides -> Seq(Entries)]
    <3>1. Listings \cup {<<>>} \subseteq Seq(Entries)
      <4>1. <<>> \in Seq(Entries)
        OBVIOUS
      <4>2. Listings \subseteq Seq(Entries)
        BY DEF Entries
      <4>3. QED
        BY <4>1, <4>2
    <3>2. items \in [Sides -> Listings \cup {<<>>}]
      BY DEF PanelInit
    <3>3. \A S : Listings \cup {<<>>} \subseteq S => items \in [Sides -> S]
      BY <3>2
    <3>4. QED
      BY <3>1, <3>3
  <2>2. depth \in [Sides -> Nat]
    BY DEF PanelInit
  <2>3. selected \in [Sides -> Nat] /\ scroll \in [Sides -> Nat] /\ active \in Sides
    BY DEF PanelInit, Sides
  <2>4. QED
    BY <2>1, <2>2, <2>3 DEF PanelTypeOK
<1>2. SelectionVisible
  BY <1>1 DEF PanelInit, PanelTypeOK, SelectionVisible, Count
<1>3. QED
  BY <1>1, <1>2 DEF PanelInv

\* The selected line is always on the screen, and an entry when there are any.
THEOREM SelectionStaysVisible == PanelSpec => []SelectionVisible
<1>1. PanelInv => SelectionVisible
  BY DEF PanelInv
<1>2. QED
  BY PanelInvInit, <1>1, PanelInductive, PTL DEF PanelSpec

-------------------------------------------------------------------------
(* The array phonebook implements PhoneBook, for every N and every set of  *)
(* abonents.                                                               *)

USE ArrayAssumption

LEMMA TypeInit == Init => TypeOK
  BY DEF Init, TypeOK

LEMMA TypeStep == TypeOK /\ [Next]_vars => TypeOK'
<1> SUFFICES ASSUME TypeOK, [Next]_vars PROVE TypeOK'
  OBVIOUS
<1>1. ASSUME NEW a \in Abonents, Add(a) PROVE TypeOK'
  BY <1>1 DEF TypeOK, Add
<1>2. ASSUME NEW t \in Tels, Delete(t) PROVE TypeOK'
  <2>1. PICK i \in 0 .. N - 1 :
           /\ Found(i, t)
           /\ phonebook' = [k \in 0 .. N - 1 |->
                IF k \in i .. count - 2 THEN phonebook[k + 1] ELSE phonebook[k]]
    BY <1>2 DEF Delete
  <2>2. count' = count - 1 /\ i \in 0 .. count - 1 /\ open' = open
    BY <1>2, <2>1 DEF Delete, Found
  <2>3. \A k \in 0 .. N - 1 : phonebook'[k] \in Abonents \cup {Junk}
    BY <2>1, <2>2 DEF TypeOK
  <2>4. \A k \in 0 .. count' - 1 : phonebook'[k] \in Abonents
    BY <2>1, <2>2 DEF TypeOK
  <2> QED
    BY <2>1, <2>2, <2>3, <2>4 DEF TypeOK
<1>3. CASE Exit
  BY <1>3 DEF TypeOK, Exit
<1>4. CASE UNCHANGED vars
  BY <1>4 DEF TypeOK, vars
<1> QED
  BY <1>1, <1>2, <1>3, <1>4 DEF Next

\* The entries below count, as a sequence.
LEMMA ContentsAreEntries ==
  ASSUME TypeOK
  PROVE  /\ Contents \in Seq(Abonents)
         /\ open => /\ Len(Contents) = count
                    /\ DOMAIN Contents = 1 .. count
                    /\ \A i \in 1 .. count : Contents[i] = phonebook[i - 1]
         /\ ~open => Contents = <<>>
  BY DEF TypeOK, Contents

\* An addition appends.
LEMMA AddAppends ==
  ASSUME TypeOK, TypeOK', NEW a \in Abonents, Add(a)
  PROVE  Book!Add(a)
<1>1. open /\ open' /\ count' = count + 1
  BY DEF Add
<1>2. Contents' \in Seq(Abonents) /\ Len(Contents') = count + 1
      /\ \A i \in 1 .. count + 1 : Contents'[i] = phonebook'[i - 1]
  BY <1>1 DEF TypeOK, Contents
<1>3. Contents \in Seq(Abonents) /\ Len(Contents) = count
      /\ \A i \in 1 .. count : Contents[i] = phonebook[i - 1]
  BY <1>1, ContentsAreEntries
<1>4. \A i \in 1 .. count + 1 :
         phonebook'[i - 1] = IF i = count + 1 THEN a ELSE phonebook[i - 1]
  BY DEF TypeOK, Add
<1>5. /\ Append(Contents, a) \in Seq(Abonents)
      /\ Len(Append(Contents, a)) = Len(Contents) + 1
      /\ \A i \in 1 .. Len(Contents) : Append(Contents, a)[i] = Contents[i]
      /\ Append(Contents, a)[Len(Contents) + 1] = a
  BY <1>3, AppendProperties
<1>6. ASSUME NEW i \in 1 .. count + 1 PROVE Contents'[i] = Append(Contents, a)[i]
  <2>1. CASE i = count + 1
    BY <1>2, <1>3, <1>4, <1>5, <2>1
  <2>2. CASE i # count + 1
    <3>1. i \in 1 .. count
      BY <2>2 DEF TypeOK
    <3>2. Contents'[i] = Contents[i]
      BY <1>2, <1>3, <1>4, <2>2, <3>1
    <3> QED
      BY <1>3, <1>5, <3>1, <3>2
  <2> QED
    BY <2>1, <2>2
<1>7. Contents' = Append(Contents, a)
  <2>1. Len(Contents') = Len(Append(Contents, a))
    BY <1>2, <1>3, <1>5
  <2> QED
    BY <1>2, <1>5, <1>6, <2>1, SeqEqual
<1> QED
  BY <1>1, <1>7 DEF Book!Add

\* A deletion takes the first abonent with the number out and closes the gap.
LEMMA DeleteCloses ==
  ASSUME TypeOK, TypeOK', NEW t \in Tels, Delete(t)
  PROVE  Book!Delete(t)
<1>1. PICK i \in 0 .. N - 1 :
         /\ Found(i, t)
         /\ phonebook' = [k \in 0 .. N - 1 |->
              IF k \in i .. count - 2 THEN phonebook[k + 1] ELSE phonebook[k]]
  BY DEF Delete
<1>2. open /\ open' /\ count' = count - 1 /\ count \in Nat /\ count <= N - 1
  BY DEF Delete, TypeOK
<1>3. Len(Contents) = count /\ DOMAIN Contents = 1 .. count
      /\ \A k \in 1 .. count : Contents[k] = phonebook[k - 1]
  BY <1>2, ContentsAreEntries
<1>4. i + 1 \in Book!Hits(t) /\ \A j \in Book!Hits(t) : i + 1 <= j
  BY <1>1, <1>2, <1>3 DEF Found, Book!Hits
<1>5. \A k \in 1 .. count - 1 :
         phonebook'[k - 1] = IF k < i + 1 THEN Contents[k] ELSE Contents[k + 1]
  BY <1>1, <1>2, <1>3 DEF Found
<1>6. Contents' = [k \in 1 .. count - 1 |-> phonebook'[k - 1]]
  BY <1>2 DEF Contents
<1>7. Contents' = [k \in 1 .. Len(Contents) - 1 |->
                      IF k < i + 1 THEN Contents[k] ELSE Contents[k + 1]]
  BY <1>3, <1>5, <1>6
<1>8. i + 1 \in Book!Hits(t)
      /\ (\A j \in Book!Hits(t) : i + 1 <= j)
      /\ Contents' = [k \in 1 .. Len(Contents) - 1 |->
                         IF k < i + 1 THEN Contents[k] ELSE Contents[k + 1]]
  BY <1>4, <1>7
<1> QED
  BY <1>2, <1>8 DEF Book!Delete

\* The entries of the array keep their types, and those below count are written.
THEOREM ArrayTypes == Spec => []TypeOK
<1>1. Init => TypeOK
  BY TypeInit
<1>2. TypeOK /\ [Next]_vars => TypeOK'
  BY TypeStep
<1> QED
  BY <1>1, <1>2, PTL DEF Spec

\* Every step of the array program is a step of the phonebook or changes nothing a
\* user can see: shifting the entries down is deleting the first match.
THEOREM ArrayImplements == Spec => ArrayIsBook
<1>1. Init => Book!Init
  BY DEF Init, Contents, Book!Init
<1>2. TypeOK /\ TypeOK' /\ [Next]_vars => [Book!Next]_<<Contents, open>>
  <2> SUFFICES ASSUME TypeOK, TypeOK', [Next]_vars
               PROVE  [Book!Next]_<<Contents, open>>
    OBVIOUS
  <2>1. ASSUME NEW a \in Abonents, Add(a) PROVE Book!Next
    BY <2>1, AddAppends DEF Book!Next
  <2>2. ASSUME NEW t \in Tels, Delete(t) PROVE Book!Next
    BY <2>2, DeleteCloses DEF Book!Next
  <2>3. CASE Exit
    BY <2>3 DEF Exit, Contents, Book!Exit, Book!Next
  <2>4. CASE UNCHANGED vars
    BY <2>4 DEF vars, Contents
  <2> QED
    BY <2>1, <2>2, <2>3, <2>4 DEF Next
<1> QED
  BY <1>1, <1>2, ArrayTypes, PTL DEF Spec, ArrayIsBook, Book!Spec

HIDE ArrayAssumption

-------------------------------------------------------------------------
(* The linked phonebook: it is well linked, and implements PhoneBook, for  *)
(* every number of nodes and every choice malloc makes.                    *)

\* There is a least natural number in every set of them that is not empty.
LEMMA Smallest ==
    ASSUME NEW T \in SUBSET Nat, T # {}
    PROVE  \E m \in T : \A k \in T : m <= k
<1>1. IsWellFoundedOn(OpToRel(<, Nat), Nat)
  BY NatLessThanWellFounded
<1>2. PICK m \in T : \A k \in T : ~(<<k, m>> \in OpToRel(<, Nat))
  BY <1>1, WFMin, Zenon
<1>3. \A k \in T : k < m => <<k, m>> \in OpToRel(<, Nat)
  BY DEF OpToRel
<1>4. \A k \in T : ~(k < m)
  BY <1>2, <1>3, Zenon
<1> HIDE <1>2
<1> QED
  BY <1>4

\* PhoneList counts nodes with an instance of Cardinality of its own.
LEMMA SameCardinality == List!Cardinality(Nodes) = Cardinality(Nodes)
  BY DEF List!Cardinality, Cardinality

\* Two sequences that p leads to along f agree as far as the first goes.
LEMMA LeadsAgree ==
    ASSUME NEW p, NEW f, NEW v \in Seq(Nodes), NEW w \in Seq(Nodes),
           List!Leads(p, f, v), List!Leads(p, f, w)
    PROVE  \A i \in 1 .. Len(v) : i <= Len(w) /\ v[i] = w[i]
<1> DEFINE T == {i \in 1 .. Len(v) : ~(i <= Len(w) /\ v[i] = w[i])}
<1> SUFFICES ASSUME T # {} PROVE FALSE
  OBVIOUS
<1>1. PICK m \in T : \A k \in T : m <= k
  <2>1. T \in SUBSET Nat
    OBVIOUS
  <2> QED
    BY <2>1, Smallest
<1>2. m \in 1 .. Len(v) /\ ~(m <= Len(w) /\ v[m] = w[m])
  OBVIOUS
<1>3. \A k \in 1 .. Len(v) : k < m => k <= Len(w) /\ v[k] = w[k]
  BY <1>1, <1>2
<1>4. \A i \in 1 .. Len(v) : v[i] \in Nodes /\ v[i] # Null
  BY ListAssumption
<1> HIDE DEF T
<1>5. CASE m = 1
  <2>1. v # <<>> /\ p = v[1] /\ p # Null
    BY <1>2, <1>4, <1>5 DEF List!Leads
  <2>2. w # <<>> /\ p = w[1]
    BY <2>1 DEF List!Leads
  <2>3. Len(w) >= 1
    BY <2>2, EmptySeq
  <2> QED
    BY <1>2, <1>5, <2>1, <2>2, <2>3
<1>6. CASE m # 1
  <2>1. m - 1 \in 1 .. Len(v) /\ m - 1 < m /\ m - 1 # Len(v)
    BY <1>2, <1>6
  <2>2. m - 1 \in 1 .. Len(w) /\ v[m - 1] = w[m - 1]
    BY <1>3, <2>1
  <2>3. f[v[m - 1]] = v[m] /\ v[m] # Null
    BY <1>2, <1>4, <2>1 DEF List!Leads
  <2>4. f[w[m - 1]] = IF m - 1 = Len(w) THEN Null ELSE w[m]
    BY <1>2, <2>2 DEF List!Leads
  <2>5. m - 1 # Len(w) /\ v[m] = w[m]
    BY <2>2, <2>3, <2>4
  <2> QED
    BY <1>2, <2>2, <2>5
<1> QED
  BY <1>5, <1>6

\* So the chain from p is the only sequence that p leads to.
LEMMA ChainIs ==
    ASSUME NEW p, NEW f, NEW m \in 0 .. Cardinality(Nodes), NEW w \in [1 .. m -> Nodes],
           List!Leads(p, f, w)
    PROVE  List!Chain(p, f) = w
<1> DEFINE All == UNION {[1 .. n -> Nodes] : n \in 0 .. Cardinality(Nodes)}
           v   == List!Chain(p, f)
<1>1. w \in All
  OBVIOUS
<1>2. v \in All /\ List!Leads(p, f, v)
  BY <1>1, SameCardinality DEF List!Chain
<1>3. PICK l \in 0 .. Cardinality(Nodes) : v \in [1 .. l -> Nodes]
  BY <1>2
<1> HIDE DEF v, All
<1>4. Cardinality(Nodes) \in Nat
  BY ListAssumption, FS_CardinalityType
<1>5. v \in Seq(Nodes) /\ Len(v) = l /\ w \in Seq(Nodes) /\ Len(w) = m
  BY <1>3, <1>4
<1>6. /\ \A i \in 1 .. l : i <= m /\ v[i] = w[i]
      /\ \A i \in 1 .. m : i <= l /\ w[i] = v[i]
  BY <1>2, <1>5, LeadsAgree
<1>7. l = m
  BY <1>3, <1>4, <1>6
<1> QED
  BY <1>3, <1>6, <1>7 DEF v

\* w are the nodes in use, each once, linked both ways in this order; until the program
\* ends head is the first.
IsList(w) ==
    /\ w \in [1 .. lcount -> Nodes]
    /\ \A i, j \in 1 .. lcount : w[i] = w[j] => i = j
    /\ \A i \in 1 .. lcount : data[w[i]] # Unused
    /\ \A n \in Nodes : data[n] # Unused => \E i \in 1 .. lcount : w[i] = n
    /\ \A i \in 1 .. lcount : next[w[i]] = IF i = lcount THEN Null ELSE w[i + 1]
    /\ \A i \in 1 .. lcount : prev[w[i]] = IF i = 1 THEN Null ELSE w[i - 1]
    /\ tail = IF lcount = 0 THEN Null ELSE w[lcount]
    /\ lopen => head = IF lcount = 0 THEN Null ELSE w[1]

\* The inductive invariant: there is such a sequence, and free nodes point nowhere.
ListInv ==
    /\ List!TypeOK
    /\ \A n \in Nodes : data[n] = Unused => prev[n] = Null /\ next[n] = Null
    /\ \E w : IsList(w)

\* A list of distinct nodes is no longer than there are nodes.
LEMMA CountFits ==
    ASSUME NEW m \in Nat, NEW w \in [1 .. m -> Nodes],
           \A i, j \in 1 .. m : w[i] = w[j] => i = j
    PROVE  m <= Cardinality(Nodes)
<1>1. w \in Injection(1 .. m, Nodes)
  BY DEF Injection, IsInjective
<1>2. Cardinality(1 .. m) = m
  <2>1. Cardinality(1 .. m) = IF 1 <= m THEN m - 1 + 1 ELSE 0
    BY FS_Interval
  <2> QED
    BY <2>1
<1>3. Cardinality(1 .. m) <= Cardinality(Nodes)
  BY <1>1, FS_Injection, ListAssumption, Zenon
<1> QED
  BY <1>2, <1>3

\* A walk from head finds the list, and a walk from tail finds it from its end.
LEMMA WalksAre ==
    ASSUME List!TypeOK, lopen, NEW w, IsList(w)
    PROVE  /\ List!Walk = w /\ Len(w) = lcount /\ DOMAIN w = 1 .. lcount
           /\ List!Chain(tail, prev) = [i \in 1 .. lcount |-> w[lcount + 1 - i]]
<1>1. lcount \in 0 .. Cardinality(Nodes) /\ Cardinality(Nodes) \in Nat
  BY ListAssumption, FS_CardinalityType, SameCardinality DEF List!TypeOK
<1>2. lcount \in Nat /\ w \in [1 .. lcount -> Nodes] /\ Len(w) = lcount /\ w \in Seq(Nodes)
  BY <1>1 DEF IsList
<1>3. w = <<>> <=> lcount = 0
  BY <1>2, EmptySeq
<1>4. List!Leads(head, next, w)
  BY <1>2, <1>3 DEF List!Leads, IsList
<1>5. PICK v : v = [i \in 1 .. lcount |-> w[lcount + 1 - i]]
  OBVIOUS
<1>6. /\ v \in [1 .. lcount -> Nodes] /\ v \in Seq(Nodes) /\ Len(v) = lcount
      /\ \A i \in 1 .. lcount : v[i] = w[lcount + 1 - i]
  BY <1>2, <1>5
<1>7. v = <<>> <=> lcount = 0
  BY <1>2, <1>6, EmptySeq
<1>8. List!Leads(tail, prev, v)
  <2>1. tail = IF v = <<>> THEN Null ELSE v[1]
    BY <1>2, <1>6, <1>7 DEF IsList
  <2>2. ASSUME NEW i \in 1 .. Len(v)
        PROVE  prev[v[i]] = IF i = Len(v) THEN Null ELSE v[i + 1]
    <3>1. i \in 1 .. lcount /\ lcount + 1 - i \in 1 .. lcount
      BY <1>2, <1>6
    <3>2. prev[v[i]] = IF lcount + 1 - i = 1 THEN Null ELSE w[lcount - i]
      BY <1>2, <1>6, <3>1 DEF IsList
    <3>3. i # lcount => v[i + 1] = w[lcount - i]
      BY <1>2, <1>6, <3>1
    <3> QED
      BY <1>2, <1>6, <3>1, <3>2, <3>3
  <2> QED
    BY <2>1, <2>2 DEF List!Leads
<1> QED
  BY <1>1, <1>2, <1>4, <1>5, <1>6, <1>8, ChainIs DEF List!Walk

LEMMA ListInvInit == List!Init => ListInv
<1> SUFFICES ASSUME List!Init PROVE ListInv
  OBVIOUS
<1>1. Cardinality(Nodes) \in Nat
  BY ListAssumption, FS_CardinalityType
<1>2. List!TypeOK
  BY <1>1, SameCardinality DEF List!Init, List!TypeOK, List!Pointers
<1>3. IsList(<<>>)
  BY ListAssumption DEF List!Init, IsList
<1> QED
  BY <1>2, <1>3 DEF ListInv, List!Init

\* An addition puts a free node at the end.
LEMMA AddKeepsList ==
    ASSUME ListInv, NEW a \in Abonents, List!Add(a), NEW w, IsList(w)
    PROVE  /\ ListInv'
           /\ \E n \in Nodes : \E v :
                 /\ data' = [data EXCEPT ![n] = a] /\ data[n] = Unused
                 /\ v = [i \in 1 .. lcount + 1 |-> IF i = lcount + 1 THEN n ELSE w[i]]
                 /\ IsList(v)'
<1>1. PICK n \in Nodes :
          /\ data[n] = Unused
          /\ data' = [data EXCEPT ![n] = a]
          /\ IF head = Null
             THEN head' = n /\ UNCHANGED <<prev, next>>
             ELSE /\ prev' = [prev EXCEPT ![n] = tail]
                  /\ next' = [next EXCEPT ![tail] = n]
                  /\ UNCHANGED head
          /\ tail' = n
  BY DEF List!Add
<1>2. lopen /\ lcount' = lcount + 1 /\ lopen' = lopen
  BY DEF List!Add
<1>3. lcount \in Nat /\ w \in [1 .. lcount -> Nodes]
  BY ListAssumption, FS_CardinalityType, SameCardinality DEF ListInv, List!TypeOK, IsList
<1>4. PICK v : v = [i \in 1 .. lcount + 1 |-> IF i = lcount + 1 THEN n ELSE w[i]]
  OBVIOUS
<1>5. /\ v \in [1 .. lcount + 1 -> Nodes]
      /\ \A i \in 1 .. lcount : v[i] = w[i]
      /\ v[lcount + 1] = n
  BY <1>3, <1>4
<1>6. \A i \in 1 .. lcount : w[i] # n
  BY <1>1 DEF IsList
<1>7. /\ head = Null <=> lcount = 0
      /\ lcount # 0 => tail = w[lcount] /\ tail \in Nodes /\ tail # n
  BY <1>2, <1>3, <1>6, ListAssumption DEF IsList
<1>8. /\ prev' \in [Nodes -> List!Pointers] /\ next' \in [Nodes -> List!Pointers]
      /\ data' \in [Nodes -> Abonents \cup {Unused}]
      /\ head' \in List!Pointers /\ tail' \in List!Pointers
  BY <1>1 DEF ListInv, List!TypeOK, List!Pointers
<1>9. /\ prev'[n] = IF lcount = 0 THEN Null ELSE tail
      /\ \A m \in Nodes : m # n => prev'[m] = prev[m]
      /\ \A m \in Nodes : next'[m] = IF lcount # 0 /\ m = tail THEN n ELSE next[m]
  <2>1. prev \in [Nodes -> List!Pointers] /\ next \in [Nodes -> List!Pointers]
    BY DEF ListInv, List!TypeOK
  <2>2. prev[n] = Null
    BY <1>1 DEF ListInv
  <2> QED
    BY <1>1, <1>7, <2>1, <2>2
<1>10. /\ data'[n] = a /\ a # Unused
       /\ \A m \in Nodes : m # n => data'[m] = data[m]
  BY <1>1, ListAssumption DEF ListInv, List!TypeOK
<1>11. IsList(v)'
  <2>1. \A i, j \in 1 .. lcount + 1 : v[i] = v[j] => i = j
    BY <1>3, <1>5, <1>6 DEF IsList
  <2>2. \A i \in 1 .. lcount + 1 : data'[v[i]] # Unused
    <3>1. \A i \in 1 .. lcount : data'[w[i]] # Unused
      BY <1>3, <1>6, <1>10 DEF IsList
    <3> QED
      BY <1>3, <1>5, <1>10, <3>1
  <2>3. ASSUME NEW m \in Nodes, data'[m] # Unused PROVE \E i \in 1 .. lcount + 1 : v[i] = m
    <3>1. CASE m = n
      BY <1>3, <1>5, <3>1
    <3>2. ASSUME m # n PROVE \E i \in 1 .. lcount + 1 : v[i] = m
      <4>1. PICK i \in 1 .. lcount : w[i] = m
        BY <1>10, <2>3, <3>2 DEF IsList
      <4> QED
        BY <1>3, <1>5, <4>1
    <3> QED
      BY <3>1, <3>2
  <2>4. \A i \in 1 .. lcount + 1 : next'[v[i]] = IF i = lcount + 1 THEN Null ELSE v[i + 1]
    <3>1. next'[n] = Null
      BY <1>1, <1>7, <1>9 DEF ListInv
    <3>2. ASSUME NEW i \in 1 .. lcount PROVE next'[v[i]] = v[i + 1]
      <4>1. CASE i = lcount
        BY <1>3, <1>5, <1>7, <1>9, <4>1
      <4>2. CASE i # lcount
        <5>1. i + 1 \in 1 .. lcount /\ w[i] # w[lcount] /\ w[i] \in Nodes /\ lcount # 0
          BY <1>3, <4>2 DEF IsList
        <5>2. next'[w[i]] = w[i + 1]
          BY <1>7, <1>9, <4>2, <5>1 DEF IsList
        <5> QED
          BY <1>5, <5>1, <5>2
      <4> QED
        BY <4>1, <4>2
    <3> QED
      BY <1>3, <1>5, <3>1, <3>2
  <2>5. \A i \in 1 .. lcount + 1 : prev'[v[i]] = IF i = 1 THEN Null ELSE v[i - 1]
    <3>1. prev'[v[lcount + 1]] = IF lcount + 1 = 1 THEN Null ELSE v[lcount]
      BY <1>3, <1>5, <1>7, <1>9
    <3>2. ASSUME NEW i \in 1 .. lcount PROVE prev'[v[i]] = IF i = 1 THEN Null ELSE v[i - 1]
      <4>1. prev'[w[i]] = IF i = 1 THEN Null ELSE w[i - 1]
        BY <1>3, <1>6, <1>9 DEF IsList
      <4> QED
        BY <1>3, <1>5, <4>1
    <3> QED
      BY <1>3, <3>1, <3>2
  <2>6. head' = v[1]
    <3>1. CASE lcount = 0
      BY <1>1, <1>5, <1>7, <3>1
    <3>2. CASE lcount # 0
      BY <1>1, <1>2, <1>3, <1>5, <1>7, <3>2 DEF IsList
    <3> QED
      BY <3>1, <3>2
  <2> QED
    BY <1>1, <1>2, <1>3, <1>5, <2>1, <2>2, <2>3, <2>4, <2>5, <2>6 DEF IsList
<1>12. lcount' \in 0 .. Cardinality(Nodes)
  <2>1. lcount + 1 \in Nat /\ \A i, j \in 1 .. lcount + 1 : v[i] = v[j] => i = j
    BY <1>2, <1>3, <1>11 DEF IsList
  <2>2. lcount + 1 <= Cardinality(Nodes)
    BY <1>5, <2>1, CountFits
  <2> QED
    BY <1>2, <1>3, <2>2, ListAssumption, FS_CardinalityType
<1>13. \A m \in Nodes : data'[m] = Unused => prev'[m] = Null /\ next'[m] = Null
  <2>1. lcount # 0 => data[tail] # Unused
    BY <1>3, <1>7 DEF IsList
  <2> QED
    BY <1>9, <1>10, <2>1 DEF ListInv
<1>14. List!TypeOK'
  BY <1>2, <1>8, <1>12, SameCardinality DEF ListInv, List!TypeOK, List!Pointers
<1> QED
  BY <1>1, <1>4, <1>11, <1>13, <1>14 DEF ListInv

\* The four ways to unlink a node do the same: its neighbours, or head and tail, skip it.
LEMMA Unlinked ==
    ASSUME List!TypeOK, NEW n \in Nodes, prev[n] # n, next[n] # n,
           \/ List!UnlinkOnly(n) \/ List!UnlinkFirst(n)
           \/ List!UnlinkLast(n) \/ List!UnlinkMiddle(n),
           prev[n] # Null \/ head = n, next[n] # Null \/ tail = n
    PROVE  /\ prev' \in [Nodes -> List!Pointers] /\ next' \in [Nodes -> List!Pointers]
           /\ \A m \in Nodes : next'[m] = IF m = n THEN Null
                                          ELSE IF m = prev[n] THEN next[n] ELSE next[m]
           /\ \A m \in Nodes : prev'[m] = IF m = n THEN Null
                                          ELSE IF m = next[n] THEN prev[n] ELSE prev[m]
           /\ head' = IF prev[n] = Null THEN next[n] ELSE head
           /\ tail' = IF next[n] = Null THEN prev[n] ELSE tail
<1>1. /\ prev \in [Nodes -> List!Pointers] /\ next \in [Nodes -> List!Pointers]
      /\ Null \notin Nodes /\ Null \in List!Pointers
      /\ prev[n] \in Nodes \cup {Null} /\ next[n] \in Nodes \cup {Null}
  BY ListAssumption DEF List!TypeOK, List!Pointers
<1>2. CASE List!UnlinkOnly(n)
  BY <1>1, <1>2 DEF List!UnlinkOnly, List!Freed
<1>3. CASE List!UnlinkFirst(n)
  BY <1>1, <1>3 DEF List!UnlinkFirst, List!Freed
<1>4. CASE List!UnlinkLast(n)
  BY <1>1, <1>4 DEF List!UnlinkLast, List!Freed
<1>5. CASE List!UnlinkMiddle(n)
  BY <1>1, <1>5 DEF List!UnlinkMiddle, List!Freed
<1> QED
  BY <1>2, <1>3, <1>4, <1>5

\* A deletion takes the first node with the number out of the sequence.
LEMMA DeleteKeepsList ==
    ASSUME ListInv, NEW t \in Tels, List!Delete(t), NEW w, IsList(w)
    PROVE  /\ ListInv'
           /\ \E k \in 1 .. lcount : \E v :
                 /\ data[w[k]].tel = t
                 /\ \A j \in 1 .. k - 1 : data[w[j]].tel # t
                 /\ data' = [data EXCEPT ![w[k]] = Unused]
                 /\ v = [i \in 1 .. lcount - 1 |-> IF i < k THEN w[i] ELSE w[i + 1]]
                 /\ IsList(v)'
<1>1. PICK n \in Nodes :
          /\ List!Found(n, t)
          /\ \/ List!UnlinkOnly(n) \/ List!UnlinkFirst(n)
             \/ List!UnlinkLast(n) \/ List!UnlinkMiddle(n)
          /\ data' = [data EXCEPT ![n] = Unused]
  BY DEF List!Delete
<1>2. lopen /\ lcount # 0 /\ lcount' = lcount - 1 /\ lopen' = lopen
  BY DEF List!Delete
<1>3. /\ lcount \in Nat /\ w \in [1 .. lcount -> Nodes]
      /\ Cardinality(Nodes) \in Nat /\ lcount <= Cardinality(Nodes)
  BY ListAssumption, FS_CardinalityType, SameCardinality DEF ListInv, List!TypeOK, IsList
<1>4. PICK k \in 1 .. lcount :
         w[k] = n /\ data[n].tel = t /\ \A j \in 1 .. k - 1 : data[w[j]].tel # t
  <2>1. List!Walk = w /\ DOMAIN w = 1 .. lcount
    BY <1>2, WalksAre DEF ListInv
  <2> QED
    BY <1>1, <2>1 DEF List!Found
<1>5. PICK v : v = [i \in 1 .. lcount - 1 |-> IF i < k THEN w[i] ELSE w[i + 1]]
  OBVIOUS
<1>6. /\ v \in [1 .. lcount - 1 -> Nodes]
      /\ \A i \in 1 .. lcount - 1 : v[i] = IF i < k THEN w[i] ELSE w[i + 1]
  BY <1>3, <1>5
<1>7. /\ \A i, j \in 1 .. lcount : w[i] = w[j] => i = j
      /\ next[n] = IF k = lcount THEN Null ELSE w[k + 1]
      /\ prev[n] = IF k = 1 THEN Null ELSE w[k - 1]
      /\ head = w[1] /\ tail = w[lcount]
  BY <1>2, <1>4 DEF IsList
<1>8. /\ prev[n] # Null <=> k # 1
      /\ next[n] # Null <=> k # lcount
      /\ prev[n] # n /\ next[n] # n
  BY <1>3, <1>4, <1>7, ListAssumption
<1>9. /\ prev' \in [Nodes -> List!Pointers] /\ next' \in [Nodes -> List!Pointers]
      /\ \A m \in Nodes : next'[m] = IF m = n THEN Null
                                     ELSE IF m = prev[n] THEN next[n] ELSE next[m]
      /\ \A m \in Nodes : prev'[m] = IF m = n THEN Null
                                     ELSE IF m = next[n] THEN prev[n] ELSE prev[m]
      /\ head' = IF k = 1 THEN next[n] ELSE head
      /\ tail' = IF k = lcount THEN prev[n] ELSE tail
  BY <1>1, <1>4, <1>7, <1>8, Unlinked DEF ListInv
<1>10. /\ data' \in [Nodes -> Abonents \cup {Unused}]
       /\ data'[n] = Unused
       /\ \A m \in Nodes : m # n => data'[m] = data[m]
  BY <1>1 DEF ListInv, List!TypeOK
<1>11. IsList(v)'
  <2>1. \A i, j \in 1 .. lcount - 1 : v[i] = v[j] => i = j
    BY <1>3, <1>6, <1>7
  <2>2. ASSUME NEW i \in 1 .. lcount - 1 PROVE data'[v[i]] # Unused
    <3>1. \A j \in 1 .. lcount : j # k => data'[w[j]] # Unused
      BY <1>3, <1>4, <1>7, <1>10 DEF IsList
    <3> QED
      BY <1>3, <1>6, <3>1
  <2>3. ASSUME NEW m \in Nodes, data'[m] # Unused PROVE \E i \in 1 .. lcount - 1 : v[i] = m
    <3>1. PICK j \in 1 .. lcount : w[j] = m /\ j # k
      BY <1>4, <1>10, <2>3 DEF IsList
    <3>2. CASE j < k
      BY <1>3, <1>6, <3>1, <3>2
    <3>3. CASE j > k
      <4>1. j - 1 \in 1 .. lcount - 1 /\ v[j - 1] = w[j]
        BY <1>3, <1>6, <3>1, <3>3
      <4> QED
        BY <3>1, <4>1
    <3> QED
      BY <1>3, <3>1, <3>2, <3>3
  <2>4. ASSUME NEW j \in 1 .. lcount, j # k
        PROVE  /\ next'[w[j]] = IF j = k - 1 THEN next[n]
                                ELSE IF j = lcount THEN Null ELSE w[j + 1]
               /\ prev'[w[j]] = IF j = k + 1 THEN prev[n]
                                ELSE IF j = 1 THEN Null ELSE w[j - 1]
    <3>1. w[j] \in Nodes /\ w[j] # n
      BY <1>3, <1>4, <1>7, <2>4
    <3>2. w[j] = prev[n] <=> j = k - 1
      BY <1>3, <1>7, <3>1, ListAssumption
    <3>3. w[j] = next[n] <=> j = k + 1
      BY <1>3, <1>7, <3>1, ListAssumption
    <3> QED
      BY <1>9, <3>1, <3>2, <3>3 DEF IsList
  <2>5. ASSUME NEW i \in 1 .. lcount - 1
        PROVE  next'[v[i]] = IF i = lcount - 1 THEN Null ELSE v[i + 1]
    <3>1. CASE i < k
      <4>1. i \in 1 .. lcount /\ i # k /\ v[i] = w[i]
        BY <1>3, <1>6, <3>1
      <4>2. next'[w[i]] = IF i = k - 1 THEN next[n] ELSE IF i = lcount THEN Null ELSE w[i + 1]
        BY <2>4, <4>1
      <4>3. CASE i = k - 1
        BY <1>3, <1>6, <1>7, <4>1, <4>2, <4>3
      <4>4. CASE i # k - 1
        BY <1>3, <1>6, <3>1, <4>1, <4>2, <4>4
      <4> QED
        BY <4>3, <4>4
    <3>2. CASE ~(i < k)
      BY <1>3, <1>6, <1>7, <2>4, <3>2
    <3> QED
      BY <3>1, <3>2
  <2>6. ASSUME NEW i \in 1 .. lcount - 1
        PROVE  prev'[v[i]] = IF i = 1 THEN Null ELSE v[i - 1]
    <3>1. CASE i < k
      BY <1>3, <1>6, <1>7, <2>4, <3>1
    <3>2. CASE ~(i < k)
      BY <1>3, <1>6, <1>7, <2>4, <3>2
    <3> QED
      BY <3>1, <3>2
  <2>7. head' = IF lcount - 1 = 0 THEN Null ELSE v[1]
    BY <1>2, <1>3, <1>6, <1>7, <1>9
  <2>8. tail' = IF lcount - 1 = 0 THEN Null ELSE v[lcount - 1]
    BY <1>2, <1>3, <1>6, <1>7, <1>9
  <2> QED
    BY <1>2, <1>6, <2>1, <2>2, <2>3, <2>5, <2>6, <2>7, <2>8 DEF IsList
<1>12. \A m \in Nodes : data'[m] = Unused => prev'[m] = Null /\ next'[m] = Null
  <2>1. \A j \in 1 .. lcount : data[w[j]] # Unused
    BY DEF IsList
  <2>2. \A m \in Nodes : data[m] = Unused => m # prev[n] /\ m # next[n]
    BY <1>3, <1>7, <2>1, ListAssumption
  <2> QED
    BY <1>9, <1>10, <2>2 DEF ListInv
<1>13. List!TypeOK'
  <2>1. head' \in List!Pointers /\ tail' \in List!Pointers
    BY <1>1, <1>9 DEF ListInv, List!TypeOK
  <2>2. lcount' \in 0 .. Cardinality(Nodes)
    BY <1>2, <1>3
  <2> QED
    BY <1>2, <1>9, <1>10, <2>1, <2>2, SameCardinality DEF ListInv, List!TypeOK
<1> QED
  BY <1>1, <1>4, <1>5, <1>11, <1>12, <1>13 DEF ListInv

LEMMA ListInvStep == ListInv /\ [List!Next]_(List!vars) => ListInv'
<1> SUFFICES ASSUME ListInv, [List!Next]_(List!vars) PROVE ListInv'
  OBVIOUS
<1>1. PICK w : IsList(w)
  BY DEF ListInv
<1>2. ASSUME NEW a \in Abonents, List!Add(a) PROVE ListInv'
  BY <1>1, <1>2, AddKeepsList
<1>3. ASSUME NEW t \in Tels, List!Delete(t) PROVE ListInv'
  BY <1>1, <1>3, DeleteKeepsList
<1>4. CASE List!Exit
  <2>1. IsList(w)'
    BY <1>1, <1>4 DEF List!Exit, IsList
  <2> QED
    BY <1>4, <2>1 DEF List!Exit, ListInv, List!TypeOK, List!Pointers
<1>5. CASE UNCHANGED List!vars
  <2>1. IsList(w)'
    BY <1>1, <1>5 DEF List!vars, IsList
  <2> QED
    BY <1>5, <2>1 DEF List!vars, ListInv, List!TypeOK, List!Pointers
<1> QED
  BY <1>2, <1>3, <1>4, <1>5 DEF List!Next

\* The list reads the same from both ends, holds exactly the nodes in use, and count
\* counts them, after any additions and deletions.
THEOREM ListWellLinked == List!Spec => []WellLinked
<1>1. ListInv => List!WellLinked
  <2> SUFFICES ASSUME ListInv, lopen PROVE List!WellLinked
    BY DEF List!WellLinked
  <2>1. PICK w : IsList(w)
    BY DEF ListInv
  <2>2. /\ List!Walk = w /\ Len(w) = lcount
        /\ List!Chain(tail, prev) = [i \in 1 .. lcount |-> w[lcount + 1 - i]]
    BY <2>1, WalksAre DEF ListInv
  <2>3. {w[i] : i \in 1 .. lcount} = {n \in Nodes : data[n] # Unused}
    BY <2>1 DEF IsList
  <2> QED
    BY <2>2, <2>3 DEF List!WellLinked
<1> QED
  BY <1>1, ListInvInit, ListInvStep, PTL DEF List!Spec, WellLinked

\* What the list holds is the abonents of its nodes.
ListHolds == \A w : lopen /\ IsList(w) => List!Contents = [i \in 1 .. lcount |-> data[w[i]]]

LEMMA ContentsAre == List!TypeOK => ListHolds
<1> SUFFICES ASSUME List!TypeOK, NEW w, IsList(w), lopen
             PROVE  List!Contents = [i \in 1 .. lcount |-> data[w[i]]]
  BY DEF ListHolds
<1>1. List!Walk = w /\ DOMAIN w = 1 .. lcount
  BY WalksAre
<1> QED
  BY <1>1 DEF List!Contents

\* An addition appends to it.
LEMMA AddIsAdd ==
    ASSUME ListInv, ListHolds, ListHolds', NEW a \in Abonents, List!Add(a)
    PROVE  List!Book!Add(a)
<1>1. PICK w : IsList(w)
  BY DEF ListInv
<1>2. PICK n, v :
         /\ n \in Nodes /\ data' = [data EXCEPT ![n] = a] /\ data[n] = Unused
         /\ v = [i \in 1 .. lcount + 1 |-> IF i = lcount + 1 THEN n ELSE w[i]]
         /\ IsList(v)'
  BY <1>1, AddKeepsList
<1>3. /\ lopen /\ lopen' /\ lopen' = lopen /\ lcount' = lcount + 1 /\ lcount \in Nat
      /\ data \in [Nodes -> Abonents \cup {Unused}]
  BY ListAssumption, FS_CardinalityType, SameCardinality DEF List!Add, ListInv, List!TypeOK
<1>4. List!Contents = [i \in 1 .. lcount |-> data[w[i]]]
  BY <1>1, <1>3 DEF ListHolds
<1>5. List!Contents' = [i \in 1 .. lcount + 1 |-> data'[v[i]]]
  BY <1>2, <1>3 DEF ListHolds
<1>6. \A i \in 1 .. lcount : w[i] \in Nodes /\ w[i] # n /\ data[w[i]] \in Abonents
  BY <1>1, <1>2, <1>3 DEF IsList
<1>7. List!Contents \in Seq(Abonents) /\ Len(List!Contents) = lcount
  BY <1>3, <1>4, <1>6
<1>8. ASSUME NEW i \in 1 .. lcount + 1
      PROVE  data'[v[i]] = IF i = lcount + 1 THEN a ELSE List!Contents[i]
  BY <1>2, <1>3, <1>4, <1>6
<1>9. List!Contents' = Append(List!Contents, a)
  <2>1. /\ Append(List!Contents, a) \in Seq(Abonents)
        /\ Len(Append(List!Contents, a)) = lcount + 1
        /\ \A i \in 1 .. lcount : Append(List!Contents, a)[i] = List!Contents[i]
        /\ Append(List!Contents, a)[lcount + 1] = a
    BY <1>7, AppendProperties
  <2>2. \A i \in 1 .. lcount + 1 :
           List!Contents'[i] = data'[v[i]] /\ data'[v[i]] = Append(List!Contents, a)[i]
    BY <1>3, <1>5, <1>8, <2>1
  <2>3. \A i \in 1 .. lcount + 1 : data'[v[i]] \in Abonents
    BY <1>3, <1>7, <1>8
  <2>4. List!Contents' \in Seq(Abonents) /\ Len(List!Contents') = lcount + 1
    BY <1>3, <1>5, <2>3
  <2> QED
    BY <2>1, <2>2, <2>4, SeqEqual
<1> QED
  BY <1>3, <1>9 DEF List!Book!Add

\* A deletion takes the first abonent with the number out of it.
LEMMA DeleteIsDelete ==
    ASSUME ListInv, ListHolds, ListHolds', NEW t \in Tels, List!Delete(t)
    PROVE  List!Book!Delete(t)
<1>1. PICK w : IsList(w)
  BY DEF ListInv
<1>2. PICK k, v :
         /\ k \in 1 .. lcount
         /\ data[w[k]].tel = t
         /\ \A j \in 1 .. k - 1 : data[w[j]].tel # t
         /\ data' = [data EXCEPT ![w[k]] = Unused]
         /\ v = [i \in 1 .. lcount - 1 |-> IF i < k THEN w[i] ELSE w[i + 1]]
         /\ IsList(v)'
  BY <1>1, DeleteKeepsList
<1>3. /\ lopen /\ lopen' /\ lopen' = lopen /\ lcount' = lcount - 1 /\ lcount \in Nat
      /\ data \in [Nodes -> Abonents \cup {Unused}]
  BY ListAssumption, FS_CardinalityType, SameCardinality DEF List!Delete, ListInv, List!TypeOK
<1>4. List!Contents = [i \in 1 .. lcount |-> data[w[i]]]
  BY <1>1, <1>3 DEF ListHolds
<1>5. List!Contents' = [i \in 1 .. lcount - 1 |-> data'[v[i]]]
  BY <1>2, <1>3 DEF ListHolds
<1>6. /\ \A i \in 1 .. lcount : w[i] \in Nodes /\ data[w[i]] \in Abonents
      /\ \A i \in 1 .. lcount : i # k => w[i] # w[k]
  BY <1>1, <1>2, <1>3 DEF IsList
<1>7. /\ List!Contents \in Seq(Abonents) /\ Len(List!Contents) = lcount
      /\ DOMAIN List!Contents = 1 .. lcount
  BY <1>3, <1>4, <1>6
<1>8. k \in List!Book!Hits(t) /\ \A j \in List!Book!Hits(t) : k <= j
  BY <1>2, <1>3, <1>4, <1>7 DEF List!Book!Hits
<1>9. ASSUME NEW i \in 1 .. lcount - 1
      PROVE  data'[v[i]] = IF i < k THEN List!Contents[i] ELSE List!Contents[i + 1]
  BY <1>2, <1>3, <1>4, <1>6
<1>10. List!Contents' = [i \in 1 .. Len(List!Contents) - 1 |->
                       IF i < k THEN List!Contents[i] ELSE List!Contents[i + 1]]
  BY <1>5, <1>7, <1>9
<1> QED
  BY <1>3, <1>8, <1>10 DEF List!Book!Delete

\* Every step of the list program is a step of the phonebook or changes nothing a user
\* can see: relinking is deleting the first match.
THEOREM ListImplements == List!Spec => ListIsBook
<1>1. List!Init => List!Book!Init
  <2> SUFFICES ASSUME List!Init PROVE List!Book!Init
    OBVIOUS
  <2>1. List!Walk = <<>>
    <3>1. ListInv /\ IsList(<<>>) /\ lopen /\ List!TypeOK
      BY ListInvInit, ListAssumption DEF List!Init, IsList, ListInv
    <3> QED
      BY <3>1, WalksAre
  <2> QED
    BY <2>1 DEF List!Init, List!Contents, List!Book!Init
<1>2. ListInv /\ ListHolds /\ ListHolds' /\ [List!Next]_(List!vars)
         => [List!Book!Next]_<<List!Contents, lopen>>
  <2> SUFFICES ASSUME ListInv, ListHolds, ListHolds', [List!Next]_(List!vars)
               PROVE  [List!Book!Next]_<<List!Contents, lopen>>
    OBVIOUS
  <2>1. ASSUME NEW a \in Abonents, List!Add(a) PROVE List!Book!Next
    BY <2>1, AddIsAdd DEF List!Book!Next
  <2>2. ASSUME NEW t \in Tels, List!Delete(t) PROVE List!Book!Next
    BY <2>2, DeleteIsDelete DEF List!Book!Next
  <2>3. CASE List!Exit
    BY <2>3 DEF List!Exit, List!Contents, List!Book!Exit, List!Book!Next
  <2>4. CASE UNCHANGED List!vars
    <3>1. UNCHANGED List!Contents
      BY <2>4 DEF List!vars, List!Contents, List!Walk, List!Chain, List!Leads
    <3> QED
      BY <2>4, <3>1 DEF List!vars
  <2> QED
    BY <2>1, <2>2, <2>3, <2>4 DEF List!Next
<1>3. ListInv => ListHolds
  BY ContentsAre DEF ListInv
<1> QED
  BY <1>1, <1>2, <1>3, ListInvInit, ListInvStep, PTL
  DEF List!Spec, ListIsBook, List!ListIsBook, List!Book!Spec

-------------------------------------------------------------------------
(* The process tree: the root reports success only for all.                *)

\* Success is the status of a process that has ended.
EndsWell == \A p \in Tree!Procs : code[p] = Tree!SUCCES => trpc[p] = "ended"

\* Who has not started anybody has nobody below it, and a process between its forks has
\* not started the second child.
NotYetStarted ==
    /\ \A p \in Tree!Procs :
          trpc[p] \in {"none", "fork first"} => \A c \in Tree!Children(p) : trpc[c] = "none"
    /\ trpc[0] = "fork second" => trpc[2] = "none"
    /\ trpc[1] = "fork second" => trpc[4] = "none"

\* Whoever is past its wait with success, or is process 2 deciding for its parent, has
\* seen its children end, all but 5 with success.
SawChildren ==
    \A p \in Tree!Procs :
        trpc[p] \in {"sleep", "fall through"} \/ code[p] = Tree!SUCCES =>
            \A c \in Tree!Children(p) : trpc[c] = "ended" /\ (code[c] = Tree!SUCCES \/ c = 5)

TreeInv == Tree!TypeOK /\ EndsWell /\ NotYetStarted /\ SawChildren

\* The tree: everybody but the root is the child of one process, with a greater number.
LEMMA ChildrenOf ==
    /\ Tree!Procs = {0, 1, 2, 3, 4, 5}
    /\ Tree!Children(0) = {1, 2} /\ Tree!Children(1) = {3, 4} /\ Tree!Children(2) = {5}
    /\ Tree!Children(3) = {} /\ Tree!Children(4) = {} /\ Tree!Children(5) = {}
  BY DEF Tree!Procs, Tree!Children

\* No other way to end is success.
LEMMA StatusOther == 0 # Tree!SUCCES /\ 1 # Tree!SUCCES /\ Tree!Killed # Tree!SUCCES
  BY DEF Tree!SUCCES, Tree!Killed

LEMMA ChildOfOne ==
    /\ 0 \in Tree!Procs /\ 1 \in Tree!Procs /\ 2 \in Tree!Procs
    /\ \A p \in Tree!Procs : \A c \in Tree!Children(p) :
          /\ c \in Tree!Procs /\ c # p
          /\ \A q \in Tree!Procs : c \in Tree!Children(q) => q = p
  BY ChildrenOf

\* A step that changes one process, which was started before and is not made to look as
\* if it had not been, keeps what was said of processes not yet started.
LEMMA MoveKeepsStarted ==
    ASSUME TreeInv, NEW p \in Tree!Procs, NEW l,
           trpc' = [trpc EXCEPT ![p] = l],
           trpc[p] # "none", l \notin {"none", "fork first", "fork second"}
    PROVE  NotYetStarted'
<1>1. \A q \in Tree!Procs : trpc'[q] = IF q = p THEN l ELSE trpc[q]
  BY DEF TreeInv, Tree!TypeOK
<1>2. \A q \in Tree!Procs : trpc'[q] \in {"none", "fork first", "fork second"} =>
         q # p /\ trpc'[q] = trpc[q]
  BY <1>1
<1>3. \A q \in Tree!Procs : trpc[q] = "none" => trpc'[q] = "none"
  BY <1>1
<1>4. {0, 1, 2, 4} \subseteq Tree!Procs
  BY ChildrenOf
<1> QED
  BY <1>2, <1>3, <1>4, ChildOfOne DEF TreeInv, NotYetStarted

\* Whoever ends keeps the invariant, with success only if it may say so.
LEMMA EndKeeps ==
    ASSUME TreeInv, NEW p \in Tree!Procs, NEW status \in {0, 1, Tree!SUCCES, Tree!Killed},
           Tree!EndsWith(p, status), trpc[p] \notin {"none", "ended"},
           status = Tree!SUCCES => trpc[p] = "sleep"
    PROVE  TreeInv'
<1>1. /\ trpc' = [trpc EXCEPT ![p] = "ended"]
      /\ code' = [code EXCEPT ![p] = status]
  BY DEF Tree!EndsWith
<1>2. Tree!TypeOK'
  BY <1>1 DEF TreeInv, Tree!TypeOK
<1>3. /\ \A q \in Tree!Procs : trpc'[q] = IF q = p THEN "ended" ELSE trpc[q]
      /\ \A q \in Tree!Procs : code'[q] = IF q = p THEN status ELSE code[q]
  BY <1>1 DEF TreeInv, Tree!TypeOK
<1>4. EndsWell'
  BY <1>3 DEF TreeInv, EndsWell
<1>5. NotYetStarted'
  BY <1>1, MoveKeepsStarted
<1>6. SawChildren'
  BY <1>3, ChildOfOne DEF TreeInv, EndsWell, SawChildren
<1> QED
  BY <1>2, <1>4, <1>5, <1>6 DEF TreeInv

\* Whoever goes on after waiting keeps the invariant.
LEMMA GotoKeeps ==
    ASSUME TreeInv, NEW p \in Tree!Procs, NEW l \in {"sleep", "fall through"},
           Tree!Goto(p, l), trpc[p] \notin {"none", "ended"},
           \A c \in Tree!Children(p) : trpc[c] = "ended" /\ (code[c] = Tree!SUCCES \/ c = 5)
    PROVE  TreeInv'
<1>1. trpc' = [trpc EXCEPT ![p] = l] /\ code' = code
  BY DEF Tree!Goto
<1>2. Tree!TypeOK'
  BY <1>1 DEF TreeInv, Tree!TypeOK
<1>3. \A q \in Tree!Procs : trpc'[q] = IF q = p THEN l ELSE trpc[q]
  BY <1>1 DEF TreeInv, Tree!TypeOK
<1>4. EndsWell'
  BY <1>1, <1>3 DEF TreeInv, EndsWell
<1>5. NotYetStarted'
  BY <1>1, MoveKeepsStarted
<1>6. SawChildren'
  BY <1>1, <1>3, ChildOfOne DEF TreeInv, SawChildren
<1> QED
  BY <1>2, <1>4, <1>5, <1>6 DEF TreeInv

\* Starting a child keeps the invariant, also if the fork fails.
LEMMA ForkKeeps ==
    ASSUME TreeInv, NEW p \in Tree!Procs, NEW c \in Tree!Children(p),
           NEW l \in {"fork second", "wait"},
           trpc[c] = "none", trpc[p] \in {"fork first", "fork second"},
           l = "fork second" => trpc[p] = "fork first" /\ c \notin {2, 4},
           Tree!Fork(p, c, l)
    PROVE  TreeInv'
<1>1. CASE Tree!EndsWith(p, 1)
  BY <1>1, EndKeeps, StatusOther
<1>2. CASE /\ trpc' = [trpc EXCEPT ![p] = l,
                                   ![c] = IF Tree!Children(c) = {} THEN "sleep"
                                          ELSE "fork first"]
           /\ UNCHANGED code
  <2>1. PICK f \in {"sleep", "fork first"} :
           /\ trpc' = [trpc EXCEPT ![p] = l, ![c] = f]
           /\ f = "sleep" <=> Tree!Children(c) = {}
    BY <1>2
  <2>2. c \in Tree!Procs /\ c # p /\ \A q \in Tree!Procs : c \in Tree!Children(q) => q = p
    BY ChildOfOne
  <2>3. Tree!TypeOK' /\ code' = code
    BY <1>2, <2>1, <2>2, ZenonT(40) DEF TreeInv, Tree!TypeOK
  <2>4. \A q \in Tree!Procs : trpc'[q] = IF q = p THEN l ELSE IF q = c THEN f ELSE trpc[q]
    BY <2>1, <2>2 DEF TreeInv, Tree!TypeOK
  <2>5. EndsWell'
    BY <2>2, <2>3, <2>4 DEF TreeInv, EndsWell
  <2>6. NotYetStarted'
    <3>1. ASSUME NEW q \in Tree!Procs, trpc'[q] \in {"none", "fork first"},
                 NEW d \in Tree!Children(q)
          PROVE  trpc'[d] = "none"
      <4>1. q # p /\ trpc[q] \in {"none", "fork first"}
        BY <2>4, <3>1
      <4>2. d \in Tree!Procs /\ d # c
        <5>1. d \in Tree!Procs
          BY ChildOfOne
        <5>2. d # c
          BY <2>2, <4>1
        <5> QED
          BY <5>1, <5>2
      <4>3. trpc[d] = "none"
        BY <3>1, <4>1 DEF TreeInv, NotYetStarted
      <4>4. d # p
        BY <4>3
      <4> QED
        BY <2>4, <4>2, <4>3, <4>4
    <3>2. ASSUME NEW q \in {0, 1}, NEW d \in Tree!Children(q), trpc'[q] = "fork second",
                 trpc[q] = "fork second" => trpc[d] = "none",
                 trpc[q] = "fork first" => trpc[d] = "none",
                 d \in {2, 4}
          PROVE  trpc'[d] = "none"
      <4>1. q \in Tree!Procs /\ d \in Tree!Procs /\ d # q
        BY ChildOfOne
      <4>2. CASE q = p
        <5>1. trpc[p] = "fork first" /\ d # c
          BY <2>4, <3>2, <4>1, <4>2
        <5> QED
          BY <2>4, <3>2, <4>1, <4>2, <5>1
      <4>3. CASE q # p
        <5>1. trpc[q] = "fork second"
          BY <2>2, <2>4, <3>2, <4>1, <4>3
        <5>2. trpc[d] = "none" /\ d # c
          BY <2>2, <3>2, <4>1, <4>3, <5>1
        <5> QED
          BY <2>4, <4>1, <5>2
      <4> QED
        BY <4>2, <4>3
    <3>3. /\ trpc'[0] = "fork second" => trpc'[2] = "none"
          /\ trpc'[1] = "fork second" => trpc'[4] = "none"
      <4>1. 2 \in Tree!Children(0) /\ 4 \in Tree!Children(1)
            /\ {0, 1} \subseteq Tree!Procs
        BY ChildrenOf
      <4> QED
        BY <3>2, <4>1 DEF TreeInv, NotYetStarted
    <3> QED
      BY <3>1, <3>3 DEF NotYetStarted
  <2>7. SawChildren'
    <3> SUFFICES ASSUME NEW q \in Tree!Procs,
                        trpc'[q] \in {"sleep", "fall through"} \/ code'[q] = Tree!SUCCES,
                        NEW d \in Tree!Children(q)
                 PROVE  trpc'[d] = "ended" /\ (code'[d] = Tree!SUCCES \/ d = 5)
      BY DEF SawChildren
    <3>1. q # p
      BY <2>3, <2>4 DEF TreeInv, EndsWell
    <3>2. CASE q = c
      <4>1. f = "sleep"
        BY <2>1, <2>2, <2>3, <2>4, <3>1, <3>2 DEF TreeInv, EndsWell
      <4> QED
        BY <2>1, <3>2, <4>1
    <3>3. CASE q # c
      <4>1. trpc[d] = "ended" /\ (code[d] = Tree!SUCCES \/ d = 5) /\ d \in Tree!Procs
        BY <2>3, <2>4, <3>1, <3>3, ChildOfOne DEF TreeInv, SawChildren
      <4> QED
        BY <2>3, <2>4, <4>1
    <3> QED
      BY <3>2, <3>3
  <2> QED
    BY <2>3, <2>5, <2>6, <2>7 DEF TreeInv
<1> QED
  BY <1>1, <1>2 DEF Tree!Fork

\* Every step of a process keeps the invariant.
LEMMA TreeStep == TreeInv /\ [Tree!Next]_(Tree!vars) => TreeInv'
<1> SUFFICES ASSUME TreeInv, [Tree!Next]_(Tree!vars)
             PROVE  TreeInv'
  OBVIOUS
<1>0. {0, 1, 2} \subseteq Tree!Procs
  BY ChildrenOf
<1>1. CASE Tree!ForkFirst
  <2>1. trpc[0] = "fork first" => trpc[1] = "none" /\ 1 \in Tree!Children(0)
    BY <1>0, ChildrenOf DEF TreeInv, NotYetStarted
  <2>2. trpc[1] = "fork first" => trpc[3] = "none" /\ 3 \in Tree!Children(1)
    BY <1>0, ChildrenOf DEF TreeInv, NotYetStarted
  <2>3. trpc[2] = "fork first" => trpc[5] = "none" /\ 5 \in Tree!Children(2)
    BY <1>0, ChildrenOf DEF TreeInv, NotYetStarted
  <2>4. CASE trpc[0] = "fork first" /\ Tree!Fork(0, 1, "fork second")
    <3>1. 1 \notin {2, 4}
      OBVIOUS
    <3>2. "fork second" \in {"fork second", "wait"}
      OBVIOUS
    <3> QED
      BY <1>0, <2>1, <2>4, <3>1, <3>2, ForkKeeps, ZenonT(30)
  <2>5. CASE trpc[1] = "fork first" /\ Tree!Fork(1, 3, "fork second")
    <3>1. 3 \notin {2, 4}
      OBVIOUS
    <3>2. "fork second" \in {"fork second", "wait"}
      OBVIOUS
    <3> QED
      BY <1>0, <2>2, <2>5, <3>1, <3>2, ForkKeeps, ZenonT(30)
  <2>6. CASE trpc[2] = "fork first" /\ Tree!Fork(2, 5, "wait")
    BY <1>0, <2>3, <2>6, ForkKeeps
  <2> QED
    BY <1>1, <2>4, <2>5, <2>6 DEF Tree!ForkFirst
<1>2. CASE Tree!ForkSecond
  <2>1. trpc[0] = "fork second" => trpc[2] = "none" /\ 2 \in Tree!Children(0)
    BY ChildrenOf DEF TreeInv, NotYetStarted
  <2>2. trpc[1] = "fork second" => trpc[4] = "none" /\ 4 \in Tree!Children(1)
    BY ChildrenOf DEF TreeInv, NotYetStarted
  <2> QED
    BY <1>0, <1>2, <2>1, <2>2, ForkKeeps DEF Tree!ForkSecond
<1>3. CASE Tree!Wait0
  BY <1>0, <1>3, GotoKeeps, EndKeeps, StatusOther
     DEF Tree!Wait0, Tree!AllEnded, Tree!AllSucceeded
<1>4. CASE Tree!Wait1
  BY <1>0, <1>4, GotoKeeps, EndKeeps, StatusOther
     DEF Tree!Wait1, Tree!AllEnded, Tree!AllSucceeded
<1>5. CASE Tree!Wait2
  BY <1>0, <1>5, ChildrenOf, GotoKeeps DEF Tree!Wait2, Tree!AllEnded, Tree!AllSucceeded
<1>6. CASE Tree!FallThrough
  <2>1. CASE Tree!Goto(2, "sleep")
    <3>1. \A c \in Tree!Children(2) : trpc[c] = "ended" /\ (code[c] = Tree!SUCCES \/ c = 5)
      BY <1>0, <1>6 DEF Tree!FallThrough, TreeInv, SawChildren
    <3> QED
      BY <1>0, <1>6, <2>1, <3>1, GotoKeeps DEF Tree!FallThrough
  <2>2. CASE Tree!EndsWith(2, 0)
    BY <1>0, <1>6, <2>2, EndKeeps, StatusOther DEF Tree!FallThrough
  <2> QED
    BY <1>6, <2>1, <2>2 DEF Tree!FallThrough
<1>7. ASSUME NEW p \in Tree!Procs, Tree!Exit(p) PROVE TreeInv'
  BY <1>7, EndKeeps DEF Tree!Exit
<1>8. ASSUME NEW p \in Tree!Procs, Tree!Kill(p) PROVE TreeInv'
  BY <1>8, EndKeeps, StatusOther DEF Tree!Kill
<1>9. CASE UNCHANGED Tree!vars
  BY <1>9 DEF Tree!vars, TreeInv, Tree!TypeOK, EndsWell, NotYetStarted, SawChildren
<1> QED
  BY <1>1, <1>2, <1>3, <1>4, <1>5, <1>6, <1>7, <1>8, <1>9 DEF Tree!Next

LEMMA TreeInvInit == Tree!Init => TreeInv
<1> SUFFICES ASSUME Tree!Init PROVE TreeInv
  OBVIOUS
<1>1. Tree!TypeOK
  BY DEF Tree!Init, Tree!TypeOK
<1>2. /\ \A p \in Tree!Procs : trpc[p] = IF p = 0 THEN "fork first" ELSE "none"
      /\ \A p \in Tree!Procs : code[p] = 0
  BY DEF Tree!Init
<1>3. EndsWell /\ SawChildren
  BY <1>2, StatusOther DEF EndsWell, SawChildren
<1>4. NotYetStarted
  BY <1>2, ChildrenOf, ZenonT(40) DEF NotYetStarted
<1> QED
  BY <1>1, <1>3, <1>4 DEF TreeInv

\* The root's exit status 52 means that all six processes ran and ended, and with
\* success but for the child of the process that reads statuses nobody wrote.
THEOREM SuccessIsTrue == Tree!Spec => []SuccessMeansAll
<1>1. ASSUME TreeInv PROVE SuccessMeansAll
  <2> SUFFICES ASSUME code[0] = Tree!SUCCES
               PROVE  \A p \in Tree!Procs :
                         trpc[p] = "ended" /\ (code[p] = Tree!SUCCES \/ p = 5)
    BY DEF SuccessMeansAll, Tree!SuccessMeansAll
  <2>1. \A p \in Tree!Procs : code[p] = Tree!SUCCES =>
           /\ trpc[p] = "ended"
           /\ \A c \in Tree!Children(p) : trpc[c] = "ended" /\ (code[c] = Tree!SUCCES \/ c = 5)
    BY <1>1 DEF TreeInv, EndsWell, SawChildren
  <2>2. trpc[0] = "ended" /\ code[1] = Tree!SUCCES /\ code[2] = Tree!SUCCES
    BY <2>1, ChildrenOf
  <2>3. /\ trpc[1] = "ended" /\ trpc[2] = "ended"
        /\ code[3] = Tree!SUCCES /\ code[4] = Tree!SUCCES /\ trpc[5] = "ended"
    BY <2>1, <2>2, ChildrenOf
  <2>4. trpc[3] = "ended" /\ trpc[4] = "ended"
    BY <2>1, <2>3, ChildrenOf
  <2> QED
    BY <2>2, <2>3, <2>4, ChildrenOf
<1> QED
  BY TreeInvInit, <1>1, TreeStep, PTL DEF Tree!Spec

-------------------------------------------------------------------------
(* The shell keeps the types of its variables.                           *)

LEMMA ShellTypeInit == Sh!Init => Sh!TypeOK
  BY ShellAssumption
  DEF Sh!Init, Sh!TypeOK, Sh!Lines, Sh!Children, Sh!Everyone, Sh!Me, Sh!Ends

LEMMA ShellTypeStep == Sh!TypeOK /\ [Sh!Next]_(Sh!vars) => Sh!TypeOK'
<1> SUFFICES ASSUME Sh!TypeOK, [Sh!Next]_(Sh!vars) PROVE Sh!TypeOK'
  OBVIOUS
<1> USE DEF Sh!TypeOK
<1>1. CASE Sh!ReadLine
  <2>1. line' \in Sh!Lines /\ line' \in 0 .. MaxLines
    <3>1. line \in 0 .. MaxLines /\ line < MaxLines /\ line' = line + 1
      BY <1>1 DEF Sh!ReadLine
    <3> HIDE DEF Sh!TypeOK
    <3> QED
      BY <3>1, ShellAssumption DEF Sh!Lines
  <2>2. Sh!Pipe(line') \subseteq Sh!Ends
    <3>1. <<"read", line'>> \in Sh!Ends /\ <<"write", line'>> \in Sh!Ends
      BY <2>1 DEF Sh!Ends
    <3> QED
      BY <3>1, Zenon DEF Sh!Pipe
  <2>3. holds' \in [Sh!Everyone -> SUBSET Sh!Ends]
    BY <1>1, <2>2 DEF Sh!ReadLine
  <2> QED
    BY <1>1, <2>1, <2>3 DEF Sh!ReadLine
<1>2. CASE Sh!Exit
  BY <1>2 DEF Sh!Exit
<1>3. ASSUME NEW c, NEW l \in {"fork right", "close", "wait"}, Sh!Fork(c, l) PROVE Sh!TypeOK'
  <2>1. holds[Sh!Me] \subseteq Sh!Ends
    BY DEF Sh!Everyone
  <2>2. /\ holds' \in [Sh!Everyone -> SUBSET Sh!Ends]
        /\ state' \in [Sh!Children -> {"none", "forked", "running", "zombie", "reaped"}]
    BY <1>3, <2>1 DEF Sh!Fork
  <2> QED
    BY <1>3, <2>2 DEF Sh!Fork
<1>4. CASE Sh!CloseEnds
  BY <1>4 DEF Sh!CloseEnds
<1>5. ASSUME NEW c, NEW l \in {"wait right", "prompt"}, Sh!Reap(c, l) PROVE Sh!TypeOK'
  BY <1>5 DEF Sh!Reap
<1>6. ASSUME NEW c, NEW closed, Sh!Exec(c, closed) PROVE Sh!TypeOK'
  <2>1. /\ holds' \in [Sh!Everyone -> SUBSET Sh!Ends]
        /\ state' \in [Sh!Children -> {"none", "forked", "running", "zombie", "reaped"}]
    BY <1>6 DEF Sh!Exec
  <2> QED
    BY <1>6, <2>1 DEF Sh!Exec
<1>7. ASSUME NEW c, Sh!Ended(c) PROVE Sh!TypeOK'
  BY <1>7 DEF Sh!Ended
<1>8. ASSUME NEW k \in Sh!Lines, Sh!Write(k) PROVE Sh!TypeOK'
  <2>1. CASE Sh!Ended(<<"left", k>>)
    BY <1>7, <2>1
  <2>2. ASSUME ~Sh!Ended(<<"left", k>>) PROVE Sh!TypeOK'
    <3>1. /\ filled[k] \in 0 .. PipeSize /\ filled[k] < PipeSize
          /\ written[k] \in 0 .. Output /\ written[k] < Output
          /\ filled' = [filled EXCEPT ![k] = filled[k] + 1]
          /\ written' = [written EXCEPT ![k] = written[k] + 1]
          /\ UNCHANGED <<shpc, line, holds, state>>
      BY <1>8, <2>2 DEF Sh!Write
    <3>2. filled[k] + 1 \in 0 .. PipeSize /\ written[k] + 1 \in 0 .. Output
      <4> HIDE DEF Sh!TypeOK
      <4> QED
        BY <3>1, ShellAssumption
    <3> QED
      BY <3>1, <3>2
  <2> QED
    BY <2>1, <2>2
<1>9. ASSUME NEW k \in Sh!Lines, Sh!Read(k) PROVE Sh!TypeOK'
  <2>1. filled[k] - 1 \in 0 .. PipeSize
    <3>1. filled[k] \in 0 .. PipeSize /\ filled[k] > 0
      BY <1>9 DEF Sh!Read
    <3> HIDE DEF Sh!TypeOK
    <3> QED
      BY <3>1, ShellAssumption
  <2> QED
    BY <1>9, <2>1 DEF Sh!Read
<1>10. CASE Sh!ShellStep
  BY <1>3, <1>4, <1>5, <1>10
  DEF Sh!ShellStep, Sh!ForkLeft, Sh!ForkRight, Sh!ForkAlone, Sh!WaitLeft, Sh!WaitRight,
      Sh!WaitAlone
<1>11. ASSUME NEW k \in Sh!Lines, Sh!ChildStep(k) \/ Sh!Quits(k) PROVE Sh!TypeOK'
  BY <1>6, <1>7, <1>8, <1>9, <1>11
  DEF Sh!ChildStep, Sh!Quits, Sh!LeftChild, Sh!RightChild, Sh!AloneChild, Sh!LeftEnds,
      Sh!EndOfFile, Sh!AloneEnds
<1>12. CASE UNCHANGED Sh!vars
  BY <1>12 DEF Sh!vars
<1> QED
  BY <1>1, <1>2, <1>10, <1>11, <1>12 DEF Sh!Next

-------------------------------------------------------------------------
(* The run of MCSmall, for every value of the constants: a behaviour of    *)
(* MCSpec is a behaviour of each program, in which the others do nothing.  *)

LEMMA EachStep ==
    [MCNext]_<<which, all>> =>
        /\ [Next]_vars /\ [List!Next]_(List!vars) /\ [Sh!Next]_(Sh!vars)
        /\ [Tree!Next]_(Tree!vars) /\ [Sem!Next]_(Sem!vars) /\ [Queue!Next]_(Queue!vars)
        /\ [TimeNext]_timeVars /\ [PanelNext]_panelVars
<1> SUFFICES ASSUME [MCNext]_<<which, all>>
             PROVE  /\ [Next]_vars /\ [List!Next]_(List!vars) /\ [Sh!Next]_(Sh!vars)
                    /\ [Tree!Next]_(Tree!vars) /\ [Sem!Next]_(Sem!vars)
                    /\ [Queue!Next]_(Queue!vars)
                    /\ [TimeNext]_timeVars /\ [PanelNext]_panelVars
  OBVIOUS
<1>1. /\ UNCHANGED lvars => UNCHANGED List!vars
      /\ UNCHANGED shvars => UNCHANGED Sh!vars
      /\ UNCHANGED trvars => UNCHANGED Tree!vars
      /\ UNCHANGED svars => UNCHANGED Sem!vars
      /\ UNCHANGED qvars => UNCHANGED Queue!vars
  BY DEF lvars, List!vars, shvars, Sh!vars, trvars, Tree!vars, svars, Sem!vars, Sem!system,
         qvars, Queue!vars, Queue!system
<1>2. /\ Next \/ UNCHANGED vars
      /\ List!Next \/ UNCHANGED lvars
      /\ Sh!Next \/ UNCHANGED shvars
      /\ Tree!Next \/ UNCHANGED trvars
      /\ Sem!Next \/ UNCHANGED svars
      /\ Queue!Next \/ UNCHANGED qvars
      /\ TimeNext \/ UNCHANGED timeVars
      /\ PanelNext \/ UNCHANGED panelVars
  <2>1. CASE MCNext
    BY <2>1, Zenon DEF MCNext, Runs, ShellSteps
  <2>2. CASE UNCHANGED <<which, all>>
    BY <2>2, Zenon DEF all
  <2> QED
    BY <2>1, <2>2
<1> QED
  BY <1>1, <1>2

LEMMA EachRuns ==
    MCSpec => /\ Spec /\ List!Spec /\ Sh!Spec /\ Tree!Spec
              /\ Sem!Spec /\ Queue!Spec /\ TimeSpec /\ PanelSpec
<1>1. MCInit => /\ Init /\ List!Init /\ Sh!Init /\ Tree!Init
                /\ Sem!Init /\ Queue!Init /\ TimeInit /\ PanelInit
  BY DEF MCInit
<1> QED
  BY <1>1, EachStep, PTL
  DEF MCSpec, Spec, List!Spec, Sh!Spec, Tree!Spec, Sem!Spec, Queue!Spec, TimeSpec, PanelSpec

\* Every program keeps the types of its variables: no index, count or pointer leaves its
\* range, no queue, pipe or window its bounds.
THEOREM TypesKept == MCSpec => []MCTypeOK
<1>1. ListInv => List!TypeOK
  BY DEF ListInv
<1>2. TreeInv => Tree!TypeOK
  BY DEF TreeInv
<1>3. PanelInv => PanelTypeOK
  BY DEF PanelInv
<1>4. QueueTypes => Queue!TypeOK
  BY DEF QueueTypes
<1>5. Spec => []TypeOK
  BY ArrayTypes
<1>6. List!Spec => []List!TypeOK
  BY <1>1, ListInvInit, ListInvStep, PTL DEF List!Spec
<1>7. Sh!Spec => []Sh!TypeOK
  BY ShellTypeInit, ShellTypeStep, PTL DEF Sh!Spec
<1>8. Tree!Spec => []Tree!TypeOK
  BY <1>2, TreeInvInit, TreeStep, PTL DEF Tree!Spec
<1>9. Sem!Spec => []Sem!TypeOK
  BY SemTypeInit, SemTypeStep, PTL DEF Sem!Spec
<1>10. Queue!Spec => []Queue!TypeOK
  BY <1>4, QueueTypeInit, QueueTypeStep, PTL DEF Queue!Spec
<1>11. TimeSpec => []TimeTypeOK
  BY TimeTypeInit, TimeTypeStep, PTL DEF TimeSpec
<1>12. PanelSpec => []PanelTypeOK
  BY <1>3, PanelInvInit, PanelInductive, PTL DEF PanelSpec
<1> QED
  BY <1>5, <1>6, <1>7, <1>8, <1>9, <1>10, <1>11, <1>12, EachRuns, PTL DEF MCTypeOK

\* What MCSmall's run checks of the programs but for liveness, in one specification.
THEOREM SmallPrograms ==
    MCSpec => /\ [](WellLinked /\ SuccessMeansAll /\ InStep)
              /\ [](CutOffOnlyByFailure /\ AnswerNotOlder /\ SelectionVisible)
              /\ ListIsBook /\ ArrayIsBook
  BY EachRuns, ListWellLinked, ListImplements, ArrayImplements, SuccessIsTrue,
     HandShakesInStep, CutOnlyByFailure, AnswersNotOlder, SelectionStaysVisible, PTL
=============================================================================
