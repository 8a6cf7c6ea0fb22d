---------------------------- MODULE TableProofs ----------------------------
(***************************************************************************)
(* What Table guarantees for any number of processes, keys and addresses:  *)
(* first the steps that only read the table and the death of a process,    *)
(* then those that change it, then the theorems.                           *)
(***************************************************************************)
EXTENDS Table, TLAPS, WellFoundedInduction, FiniteSetTheorems

-----------------------------------------------------------------------------
(* The lock and the operations under way.                                    *)

\* Who can take the lock finds no change under way.
LEMMA LockableFacts ==
    ASSUME TInv, Lockable
    PROVE /\ Elements = tree
          /\ ~Changing
          /\ \A at \in Changes : ~Stage(at)
          /\ \A q \in Users \ dead : op[q].at \notin Holding
<1>1. \A at \in Changes : ~Stage(at)
  BY Zenon DEF TInv, LockInv, Lockable, Stage
<1>2. \A q \in Users \ dead : op[q].at \notin Holding
  BY TableAssumption, Zenon DEF TInv, LockInv, Lockable
<1> QED
  BY <1>1, <1>2, Zenon DEF Elements, Changing, Stage, Changes

\* Who holds the lock is alone.
LEMMA HolderFacts ==
    ASSUME TInv, NEW p \in Users, NEW at \in Holding, At(p, at)
    PROVE /\ lock = p /\ lock # NULL
          /\ \A s : Stage(s) <=> s = at
          /\ Changing <=> at \in Changes
          /\ at # "clearing" => Elements = tree
          /\ \A q \in Users \ dead : q # p => op[q].at \notin Holding
  BY TableAssumption, Zenon DEF TInv, LockInv, At, Stage, Changing, Changes, Elements

\* An operation goes on; the others stay where they are.
LEMMA OpStep ==
    ASSUME TypeOK, NEW p \in Users, NEW x \in Operations, GoTo(p, x)
    PROVE /\ op' \in [Users -> Operations]
          /\ op'[p] = x
          /\ \A q \in Users : q # p => op'[q] = op[q] /\ Pending(q)' = Pending(q)
<1>1. op' \in [Users -> Operations] /\ op'[p] = x /\ \A q \in Users : q # p => op'[q] = op[q]
  BY Zenon DEF TypeOK, GoTo
<1> QED
  BY <1>1, Zenon DEF Pending

\* The elements stay allocated; p may take some out of the tree or put its own in.
LEMMA HeapMoves ==
    ASSUME HeapInv, NEW p \in Users, UNCHANGED heap,
           Elements' \subseteq tree',
           \A q \in Users : q # p => Pending(q)' = Pending(q),
           Elements' \cup Pending(p)' = Elements \cup Pending(p),
           Elements' \cap Pending(p)' = {},
           \A a, b \in Pending(p)' : a = b,
           \A a, b \in Elements' : heap[a].key = heap[b].key => a = b
    PROVE HeapInv'
<1>1. \A a : a \in Elements' \/ a \in Pending(p)' <=> a \in Elements \/ a \in Pending(p)
  BY Zenon
<1>2. ASSUME NEW a \in Addrs
      PROVE heap'[a] # NULL <=> a \in Elements' \/ \E q \in Users : a \in Pending(q)'
  <2>1. heap[a] # NULL <=> a \in Elements \/ \E q \in Users : a \in Pending(q)
    BY Zenon DEF HeapInv
  <2>2. (\E q \in Users : a \in Pending(q)) <=> a \in Pending(p) \/ \E q \in Users \ {p} : a \in Pending(q)
    BY Zenon
  <2>3. (\E q \in Users : a \in Pending(q)') <=> a \in Pending(p)' \/ \E q \in Users \ {p} : a \in Pending(q)
    OBVIOUS
  <2> QED
    BY <1>1, <2>1, <2>2, <2>3
<1>3. ASSUME NEW q \in Users, q # p
      PROVE /\ Pending(q)' \cap Pending(p)' = {} /\ Pending(q)' \cap Elements' = {}
            /\ \A a, b \in Pending(q)' : a = b
  <2>1. /\ Pending(q)' = Pending(q) /\ Pending(q) \cap Pending(p) = {} /\ Pending(q) \cap Elements = {}
        /\ \A a, b \in Pending(q) : a = b
    BY <1>3, Zenon DEF HeapInv
  <2> QED
    BY <1>1, <2>1
<1>4. ASSUME NEW q \in Users, NEW r \in Users, q # r PROVE Pending(q)' \cap Pending(r)' = {}
  <2>1. CASE q = p \/ r = p
    BY <1>3, <1>4, <2>1, Zenon
  <2>2. CASE q # p /\ r # p
    BY <1>4, <2>2 DEF HeapInv
  <2> QED
    BY <2>1, <2>2, Zenon
<1> QED
  BY <1>2, <1>3, <1>4 DEF HeapInv

\* Nothing is done to the elements.
LEMMA HeapKept ==
    ASSUME HeapInv, UNCHANGED heap, Elements' = Elements, Elements \subseteq tree',
           \A q \in Users : Pending(q)' = Pending(q)
    PROVE HeapInv'
<1>1. \A a \in Addrs : heap'[a] # NULL <=> a \in Elements' \/ \E q \in Users : a \in Pending(q)'
  BY DEF HeapInv
<1>2. /\ \A q, r \in Users : q # r => Pending(q)' \cap Pending(r)' = {}
      /\ \A q \in Users : Pending(q)' \cap Elements' = {} /\ \A a, b \in Pending(q)' : a = b
  BY DEF HeapInv
<1>3. \A a, b \in Elements' : heap'[a].key = heap'[b].key => a = b
  BY Zenon DEF HeapInv
<1> QED
  BY <1>1, <1>2, <1>3, Zenon DEF HeapInv

\* Address a is allocated or freed by the operation of p, which alone has it.
LEMMA HeapChanges ==
    ASSUME HeapInv, NEW p \in Users, NEW a \in Addrs, Elements \subseteq Addrs,
           \A b \in Addrs : b # a => heap'[b] = heap[b],
           UNCHANGED tree, Elements' = Elements, a \notin Elements,
           \A q \in Users : q # p => Pending(q)' = Pending(q) /\ a \notin Pending(q),
           Pending(p) \subseteq {a}, Pending(p)' \subseteq {a},
           heap'[a] # NULL <=> a \in Pending(p)'
    PROVE HeapInv'
<1>1. ASSUME NEW b \in Addrs
      PROVE heap'[b] # NULL <=> b \in Elements' \/ \E q \in Users : b \in Pending(q)'
  <2>1. CASE b = a
    <3>1. (\E q \in Users : a \in Pending(q)') <=> a \in Pending(p)'
      BY Zenon
    <3> QED
      BY <2>1, <3>1, Zenon
  <2>2. CASE b # a
    <3>1. heap'[b] = heap[b] /\ (heap[b] # NULL <=> b \in Elements \/ \E q \in Users : b \in Pending(q))
      BY <2>2, Zenon DEF HeapInv
    <3>2. b \notin Pending(p) /\ b \notin Pending(p)'
      BY <2>2, Zenon
    <3>3. \A q \in Users : b \in Pending(q)' <=> b \in Pending(q)
      BY <3>2, Zenon
    <3> QED
      BY <3>1, <3>3, Zenon
  <2> QED
    BY <2>1, <2>2, Zenon
<1>2. ASSUME NEW q \in Users, NEW r \in Users, q # r PROVE Pending(q)' \cap Pending(r)' = {}
  <2>1. Pending(q) \cap Pending(r) = {}
    BY <1>2, Zenon DEF HeapInv
  <2>2. CASE q # p /\ r # p
    BY <2>1, <2>2, Zenon
  <2>3. CASE q = p
    <3>1. Pending(r)' = Pending(r) /\ a \notin Pending(r)
      BY <1>2, <2>3, Zenon
    <3> QED
      BY <2>3, <3>1, Zenon
  <2>4. CASE r = p
    <3>1. Pending(q)' = Pending(q) /\ a \notin Pending(q)
      BY <1>2, <2>4, Zenon
    <3> QED
      BY <2>4, <3>1, Zenon
  <2> QED
    BY <2>2, <2>3, <2>4, Zenon
<1>3. ASSUME NEW q \in Users PROVE Pending(q)' \cap Elements' = {} /\ \A b, c \in Pending(q)' : b = c
  <2>1. CASE q = p
    BY <2>1, Zenon
  <2>2. CASE q # p
    BY <2>2 DEF HeapInv
  <2> QED
    BY <2>1, <2>2, Zenon
<1>4. ASSUME NEW b \in Elements', NEW c \in Elements', heap'[b].key = heap'[c].key PROVE b = c
  <2>1. b \in Elements /\ c \in Elements /\ heap'[b] = heap[b] /\ heap'[c] = heap[c]
    BY Zenon
  <2> QED
    BY <1>4, <2>1, Zenon DEF HeapInv
<1>5. Elements' \subseteq tree'
  BY Zenon DEF HeapInv
<1> QED
  BY <1>1, <1>2, <1>3, <1>4, <1>5, Zenon DEF HeapInv

-----------------------------------------------------------------------------
(* The steps.                                                                *)

\* A nonempty set of naturals has a least member.
LEMMA LeastNatural ==
    ASSUME NEW S \in SUBSET Nat, S # {}
    PROVE \E n \in S : \A m \in S : n <= m
<1> DEFINE R == OpToRel(<, Nat)
<1>1. IsWellFoundedOn(R, Nat)
  BY NatLessThanWellFounded, Zenon
<1> HIDE DEF R
<1>2. PICK n \in S : \A m \in S : ~(<<m, n>> \in R)
  BY <1>1, WFMin, Zenon
<1>3. ASSUME NEW m \in S PROVE n <= m
  <2>1. m \in Nat /\ n \in Nat
    BY Zenon
  <2>2. ~(m < n)
    BY <1>2, <2>1, Zenon DEF R, OpToRel
  <2> QED
    BY <2>1, <2>2
<1> QED
  BY <1>3, Zenon

\* The leftmost node of a set of nodes is in it, and has the least key.
LEMMA LeftMostIsLeast ==
    ASSUME TypeOK, NEW S \in SUBSET Linked, S # {}
    PROVE LeftMost(S) \in S /\ \A a \in S : heap[LeftMost(S)].key <= heap[a].key
<1> DEFINE K == {heap[a].key : a \in S}
<1>1. K \in SUBSET Nat /\ K # {}
  <2>1. \A a \in S : heap[a].key \in Nat
    BY TableAssumption, Zenon DEF TypeOK, Linked
  <2> QED
    BY <2>1, Zenon
<1>2. PICK n \in K : \A m \in K : n <= m
  BY <1>1, LeastNatural, Zenon
<1>3. \E a \in S : \A b \in S : heap[a].key <= heap[b].key
  BY <1>2, Zenon
<1> QED
  BY <1>3, Zenon DEF LeftMost

\* The leftmost and the rightmost node of a set of nodes are in it.
LEMMA EndsAreMembers ==
    ASSUME TypeOK, NEW S \in SUBSET Linked, S # {}
    PROVE /\ LeftMost(S) \in S
          /\ \A k \in Keys : (\A a \in S : heap[a].key < k) => RightMost(S) \in S
<1>1. \A a \in S : heap[a].key \in Nat
  BY TableAssumption, Zenon DEF TypeOK, Linked
<1>2. LeftMost(S) \in S
  BY LeftMostIsLeast, Zenon
<1>3. ASSUME NEW k \in Keys, \A a \in S : heap[a].key < k PROVE RightMost(S) \in S
  <2> DEFINE K == {k - heap[a].key : a \in S}
  <2>0. k \in Nat
    BY TableAssumption, Zenon
  <2>1. PICK n \in K : \A m \in K : n <= m
    <3>1. K \in SUBSET Nat /\ K # {}
      BY <1>1, <1>3, <2>0
    <3> QED
      BY <3>1, LeastNatural, Zenon
  <2>2. PICK a \in S : n = k - heap[a].key
    BY Zenon
  <2>3. \A b \in S : k - heap[a].key <= k - heap[b].key
    BY <2>1, <2>2, Zenon
  <2>4. \A b \in S : heap[a].key >= heap[b].key
    BY <2>3, <2>0, <1>1
  <2> QED
    BY <2>4, Zenon DEF RightMost
<1> QED
  BY <1>2, <1>3, Zenon

\* Where the process is not changing anything.
Readers == {"idle", "get", "next", "foreach"}

\* A step by which a reader takes, keeps or gives back the lock.
LEMMA ReaderStep ==
    ASSUME TInv, NEW p \in Users \ dead, NEW x \in Operations, GoTo(p, x),
           op[p].at \in Readers, x.at \in Readers,
           Lockable \/ op[p].at # "idle",
           lock' = IF x.at = "idle" THEN NULL ELSE p,
           UNCHANGED <<heap, tree, version, element_cnt, dead>>
    PROVE /\ LockInv' /\ HeapInv' /\ CountInv'
          /\ Elements = tree /\ Elements' = tree
          /\ \A s \in Changes : ~Stage(s) /\ ~Stage(s)'
<1>1. /\ op' \in [Users -> Operations]
      /\ op'[p] = x
      /\ \A q \in Users : q # p => op'[q] = op[q] /\ Pending(q)' = Pending(q)
  BY OpStep, Zenon DEF TInv
<1>2. /\ Elements = tree
      /\ \A s \in Changes : ~Stage(s)
      /\ \A q \in Users \ dead : q # p => op[q].at \notin Holding
  <2>1. CASE Lockable
    BY <2>1, LockableFacts, Zenon
  <2>2. CASE op[p].at # "idle"
    <3>1. op[p].at \in Holding \ Changes /\ At(p, op[p].at)
      BY <2>2, Zenon DEF Readers, Holding, Changes, At
    <3> QED
      BY <3>1, HolderFacts DEF Changes
  <2> QED
    BY <2>1, <2>2, Zenon
<1>3. LockInv'
  <2>1. dead \subseteq Users
    BY TableAssumption, Zenon DEF TInv, TypeOK
  <2> QED
    BY <1>1, <1>2, <2>1, TableAssumption DEF TInv, LockInv, Readers, Holding, Changes
<1>4. \A s \in Changes : ~Stage(s)'
  BY <1>1, TableAssumption, Zenon DEF Stage, Readers, Changes
<1>5. Elements' = tree
  BY <1>4, Zenon DEF Elements, Stage, Changes
<1>6. Pending(p) = {} /\ Pending(p)' = {}
  BY <1>1, Zenon DEF Pending, Readers
<1>7. HeapInv'
  <2>1. Elements \subseteq tree'
    BY <1>2, Zenon
  <2> QED
    BY <1>1, <1>2, <1>5, <1>6, <2>1, HeapKept DEF TInv
<1>8. CountInv'
  BY <1>2, <1>4, Zenon DEF TInv, CountInv, Changes
<1> QED
  BY <1>2, <1>3, <1>4, <1>5, <1>7, <1>8, Zenon

\* A step of a reader, whose own iterator stays, is closed, or is at an element
\* of the tree, keeps the iterators sound.
LEMMA IterWhileReading ==
    ASSUME IterInv, NEW p \in Users,
           UNCHANGED <<version, tree, dead>>,
           Elements = tree, Elements' = tree,
           \A s \in Changes : ~Stage(s),
           \A q \in Users : q # p => iter'[q] = iter[q] /\ op'[q] = op[q],
           iter'[p] = iter[p] \/ (iter'[p].open =>
               iter'[p].table_version <= version /\ iter'[p].element \in tree \cup {NULL}),
           op'[p].at \in {"get", "next"} => op'[p].elem \in tree
    PROVE IterInv'
<1>1. ASSUME NEW q \in Users, iter[q].open
      PROVE /\ iter[q].table_version <= version
            /\ iter[q].table_version = version => iter[q].element \in tree \cup {NULL}
  BY <1>1, Zenon DEF IterInv, Modified, Changes
<1>2. ASSUME NEW q \in Users, iter'[q].open
      PROVE /\ iter'[q].table_version <= version
            /\ iter'[q].table_version = version => iter'[q].element \in tree \cup {NULL}
  <2>1. CASE iter'[q] = iter[q]
    BY <2>1, <1>1, <1>2
  <2>2. CASE iter'[q] # iter[q]
    BY <2>2, <1>2, Zenon
  <2> QED
    BY <2>1, <2>2, Zenon
<1>3. ASSUME NEW q \in Users \ dead', op'[q].at \in {"get", "next"}
      PROVE op'[q].elem \in tree'
  <2>1. CASE q = p
    BY <2>1, <1>3, Zenon
  <2>2. CASE q # p
    BY <2>2, <1>3, Zenon DEF IterInv
  <2> QED
    BY <2>1, <2>2, Zenon
<1> QED
  BY <1>2, <1>3, Zenon DEF IterInv, Modified

\* The start of an iteration and the next element are elements of the tree.
LEMMA FoundInTree ==
    ASSUME TypeOK
    PROVE /\ \A k \in Keys, side \in ExpectedSides : Start(k, side) \in tree \cup {NULL}
          /\ \A a : NextElement(a) \in tree \cup {NULL}
<1>1. \A S \in SUBSET Linked : LeftMost(S) \in tree \cup {NULL}
  BY EndsAreMembers, Zenon DEF LeftMost, Linked
<1>2. ASSUME NEW k \in Keys
      PROVE RightMost({a \in Linked : heap[a].key < k}) \in tree \cup {NULL}
  <2> DEFINE S == {a \in Linked : heap[a].key < k}
  <2>1. S \in SUBSET Linked /\ \A a \in S : heap[a].key < k
    BY Zenon
  <2>2. CASE S = {}
    BY <2>2, Zenon DEF RightMost
  <2>3. CASE S # {}
    <3>1. RightMost(S) \in S
      <4> HIDE DEF S
      <4> QED
        BY <2>1, <2>3, EndsAreMembers
    <3> QED
      BY <3>1, <2>1, Zenon DEF Linked
  <2> QED
    BY <2>2, <2>3, Zenon
<1>3. ASSUME NEW k \in Keys, NEW side \in ExpectedSides
      PROVE Start(k, side) \in tree \cup {NULL}
  <2>1. /\ Linked \in SUBSET Linked
        /\ st_table_get_element(k) \in SUBSET Linked
        /\ {a \in Linked : heap[a].key > k} \in SUBSET Linked
    BY Zenon DEF st_table_get_element, Linked
  <2> QED
    BY <2>1, <1>1, <1>2, Zenon DEF Start
<1>4. \A a : {b \in Linked : heap[b].key > heap[a].key} \in SUBSET Linked
  BY Zenon
<1> QED
  BY <1>1, <1>3, <1>4 DEF NextElement

\* st_capi_do_get takes the lock and finds an element.
LEMMA BeginGetStep ==
    ASSUME TInv, NEW p \in Users, NEW k \in Keys, BeginGet(p, k)
    PROVE TInv'
<1>1. PICK a \in st_table_get_element(k) : GoTo(p, [at |-> "get", elem |-> a, key |-> k])
  BY Zenon DEF BeginGet
<1>2. a \in tree /\ a \in Addrs
  BY <1>1, Zenon DEF st_table_get_element, TInv, TypeOK
<1> DEFINE x == [at |-> "get", elem |-> a, key |-> k]
<1>3. x \in Operations /\ p \in Users \ dead /\ x.at = "get" /\ op[p].at = "idle"
  BY <1>2, Zenon DEF Operations, BeginGet, At
<1>4. /\ LockInv' /\ HeapInv' /\ CountInv'
      /\ Elements = tree /\ Elements' = tree
      /\ \A s \in Changes : ~Stage(s) /\ ~Stage(s)'
  BY <1>1, <1>3, ReaderStep DEF BeginGet, Readers
<1>5. TypeOK'
  BY <1>1, <1>3, OpStep, Zenon DEF TInv, TypeOK, BeginGet
<1>6. IterInv'
  <2>1. x.elem = a
    BY Zenon
  <2>2. op'[p] = x /\ \A q \in Users : q # p => op'[q] = op[q]
    BY <1>1, <1>3, OpStep, Zenon DEF TInv
  <2> HIDE DEF x
  <2>3. UNCHANGED <<version, tree, dead, iter>>
    BY Zenon DEF BeginGet
  <2> QED
    BY <1>2, <1>4, <2>1, <2>2, <2>3, IterWhileReading DEF TInv
<1> QED
  BY <1>4, <1>5, <1>6 DEF TInv

\* The value is copied and the lock given back.
LEMMA EndGetStep ==
    ASSUME TInv, NEW p \in Users, EndGet(p)
    PROVE TInv'
<1>1. Idle \in Operations /\ p \in Users \ dead /\ Idle.at = "idle" /\ op[p].at = "get"
  BY Zenon DEF Operations, Idle, EndGet, At
<1>2. /\ LockInv' /\ HeapInv' /\ CountInv'
      /\ Elements = tree /\ Elements' = tree
      /\ \A s \in Changes : ~Stage(s) /\ ~Stage(s)'
  BY <1>1, ReaderStep, Zenon DEF EndGet, Readers
<1>3. TypeOK'
  BY <1>1, OpStep, Zenon DEF TInv, TypeOK, EndGet
<1>4. IterInv'
  <2>1. op'[p] = Idle /\ \A q \in Users : q # p => op'[q] = op[q]
    BY <1>1, OpStep, Zenon DEF TInv, EndGet
  <2>2. UNCHANGED <<version, tree, dead, iter>>
    BY Zenon DEF EndGet
  <2> QED
    BY <1>1, <1>2, <2>1, <2>2, IterWhileReading DEF TInv
<1> QED
  BY <1>2, <1>3, <1>4, Zenon DEF TInv

\* An iterator is placed at an element of the tree.
LEMMA InitIteratorStep ==
    ASSUME TInv, NEW p \in Users, NEW k \in Keys, NEW side \in ExpectedSides,
           st_capi_init_iterator(p, k, side)
    PROVE TInv'
<1>0. p \in Users \ dead /\ op[p].at = "idle" /\ Lockable
  BY Zenon DEF st_capi_init_iterator, At
<1>1. Start(k, side) \in tree \cup {NULL}
  BY FoundInTree, Zenon DEF TInv
<1>2. GoTo(p, Idle) /\ Idle \in Operations /\ Idle.at = "idle"
  <2>1. op[p] = Idle
    BY <1>0, Zenon DEF TInv, TypeOK, Operations, Idle
  <2> QED
    BY <2>1, Zenon DEF GoTo, st_capi_init_iterator, TInv, TypeOK, Operations, Idle
<1>3. /\ LockInv' /\ HeapInv' /\ CountInv'
      /\ Elements = tree /\ Elements' = tree
      /\ \A s \in Changes : ~Stage(s) /\ ~Stage(s)'
  BY <1>0, <1>2, ReaderStep DEF st_capi_init_iterator, Readers
<1>4. /\ iter' \in [Users -> Iterators]
      /\ iter'[p].element = Start(k, side) /\ iter'[p].table_version = version
      /\ \A q \in Users : q # p => iter'[q] = iter[q]
  BY <1>1, Zenon DEF TInv, TypeOK, st_capi_init_iterator, st_table_iter_init, Iterators
<1>5. TypeOK'
  BY <1>4, Zenon DEF TInv, TypeOK, st_capi_init_iterator
<1>6. IterInv'
  <2>1. UNCHANGED <<version, tree, dead, op>>
    BY Zenon DEF st_capi_init_iterator
  <2>2. version \in Nat
    BY Zenon DEF TInv, TypeOK
  <2>3. version <= version
    BY <2>2
  <2> QED
    BY <1>0, <1>1, <1>3, <1>4, <2>1, <2>3, IterWhileReading DEF TInv
<1> QED
  BY <1>3, <1>5, <1>6, Zenon DEF TInv

\* The iterator moves on to an element of the tree.
LEMMA AdvancedFacts ==
    ASSUME TInv, NEW p \in Users, iter' = [iter EXCEPT ![p] = Advanced(@)]
    PROVE /\ iter' \in [Users -> Iterators]
          /\ iter'[p].element \in tree \cup {NULL}
          /\ iter'[p].table_version = iter[p].table_version
          /\ iter'[p].open = iter[p].open
          /\ \A q \in Users : q # p => iter'[q] = iter[q]
<1>1. NextElement(iter[p].element) \in tree \cup {NULL}
  BY FoundInTree, Zenon DEF TInv
<1> QED
  BY <1>1 DEF TInv, TypeOK, Iterators, Advanced

\* st_capi_next takes the lock, remembers the element and moves on.
LEMMA BeginNextStep ==
    ASSUME TInv, NEW p \in Users, BeginNext(p)
    PROVE TInv'
<1> DEFINE x == [at |-> "next", elem |-> iter[p].element]
<1>0. p \in Users \ dead /\ op[p].at = "idle" /\ Lockable
  BY Zenon DEF BeginNext, At
<1>1. iter[p].element \in tree
  BY <1>0, LockableFacts, Zenon DEF BeginNext, TInv, IterInv, Changes
<1>2. GoTo(p, x) /\ x \in Operations /\ x.at = "next" /\ x.elem \in tree
  BY <1>1, Zenon DEF BeginNext, Operations, TInv, TypeOK
<1>3. /\ LockInv' /\ HeapInv' /\ CountInv'
      /\ Elements = tree /\ Elements' = tree
      /\ \A s \in Changes : ~Stage(s) /\ ~Stage(s)'
  <2> HIDE DEF x
  <2> QED
    BY <1>0, <1>2, ReaderStep, Zenon DEF BeginNext, Readers
<1>4. /\ iter' \in [Users -> Iterators]
      /\ iter'[p].element \in tree \cup {NULL}
      /\ iter'[p].table_version = iter[p].table_version
      /\ iter'[p].open = iter[p].open
      /\ \A q \in Users : q # p => iter'[q] = iter[q]
  BY AdvancedFacts, Zenon DEF BeginNext
<1>5. op' \in [Users -> Operations] /\ op'[p] = x /\ \A q \in Users : q # p => op'[q] = op[q]
  <2> HIDE DEF x
  <2> QED
    BY <1>2, OpStep, Zenon DEF TInv
<1>6. TypeOK'
  BY <1>4, <1>5, Zenon DEF TInv, TypeOK, BeginNext
<1>7. IterInv'
  <2>1. UNCHANGED <<version, tree, dead>>
    BY Zenon DEF BeginNext
  <2>2. iter[p].open => iter[p].table_version <= version
    BY Zenon DEF TInv, IterInv
  <2> HIDE DEF x
  <2> QED
    BY <1>2, <1>3, <1>4, <1>5, <2>1, <2>2, IterWhileReading DEF TInv
<1> QED
  BY <1>3, <1>6, <1>7 DEF TInv

\* Key and value are copied, or not, and the lock is given back.
LEMMA EndNextStep ==
    ASSUME TInv, NEW p \in Users, EndNext(p)
    PROVE TInv'
<1>1. Idle \in Operations /\ p \in Users \ dead /\ Idle.at = "idle" /\ op[p].at = "next"
  BY Zenon DEF Operations, Idle, EndNext, At
<1>2. /\ LockInv' /\ HeapInv' /\ CountInv'
      /\ Elements = tree /\ Elements' = tree
      /\ \A s \in Changes : ~Stage(s) /\ ~Stage(s)'
  BY <1>1, ReaderStep, Zenon DEF EndNext, Readers
<1>3. TypeOK'
  BY <1>1, OpStep DEF TInv, TypeOK, EndNext
<1>4. IterInv'
  <2>1. op'[p] = Idle /\ \A q \in Users : q # p => op'[q] = op[q]
    BY <1>1, OpStep, Zenon DEF TInv, EndNext
  <2>2. UNCHANGED <<version, tree, dead, iter>>
    BY DEF EndNext
  <2> QED
    BY <1>1, <1>2, <2>1, <2>2, IterWhileReading DEF TInv
<1> QED
  BY <1>2, <1>3, <1>4 DEF TInv

\* st_capi_foreach takes the lock and places its iterator.
LEMMA BeginForeachStep ==
    ASSUME TInv, NEW p \in Users, NEW k \in Keys, NEW side \in ExpectedSides,
           BeginForeach(p, k, side)
    PROVE TInv'
<1> DEFINE x == [at |-> "foreach"]
<1>0. p \in Users \ dead /\ op[p].at = "idle" /\ Lockable
  BY Zenon DEF BeginForeach, At
<1>1. Start(k, side) \in tree \cup {NULL}
  BY FoundInTree, Zenon DEF TInv
<1>2. GoTo(p, x) /\ x \in Operations /\ x.at = "foreach"
  BY Zenon DEF BeginForeach, Operations
<1> HIDE DEF x
<1>3. /\ LockInv' /\ HeapInv' /\ CountInv'
      /\ Elements = tree /\ Elements' = tree
      /\ \A s \in Changes : ~Stage(s) /\ ~Stage(s)'
  BY <1>0, <1>2, ReaderStep DEF BeginForeach, Readers
<1>4. /\ iter' \in [Users -> Iterators]
      /\ iter'[p].element = Start(k, side) /\ iter'[p].table_version = version
      /\ \A q \in Users : q # p => iter'[q] = iter[q]
  BY <1>1, Zenon DEF TInv, TypeOK, BeginForeach, st_table_iter_init, Iterators
<1>5. op' \in [Users -> Operations] /\ op'[p] = x /\ \A q \in Users : q # p => op'[q] = op[q]
  BY <1>2, OpStep DEF TInv
<1>6. TypeOK'
  BY <1>4, <1>5, Zenon DEF TInv, TypeOK, BeginForeach
<1>7. IterInv'
  <2>1. UNCHANGED <<version, tree, dead>>
    BY DEF BeginForeach
  <2>2. version \in Nat
    BY DEF TInv, TypeOK
  <2>3. version <= version
    BY <2>2
  <2> QED
    BY <1>1, <1>2, <1>3, <1>4, <1>5, <2>1, <2>3, IterWhileReading DEF TInv
<1> QED
  BY <1>3, <1>6, <1>7 DEF TInv

\* st_capi_foreach_nolock moves its iterator on, under the lock.
LEMMA ForeachStep ==
    ASSUME TInv, NEW p \in Users, st_capi_foreach_nolock(p)
    PROVE TInv'
<1>0. p \in Users \ dead /\ op[p].at = "foreach"
  BY Zenon DEF st_capi_foreach_nolock, At
<1>1. GoTo(p, op[p]) /\ op[p] \in Operations
  BY Zenon DEF st_capi_foreach_nolock, GoTo, TInv, TypeOK
<1>2. lock = p
  BY <1>0, HolderFacts, Zenon DEF At, Holding
<1>3. /\ LockInv' /\ HeapInv' /\ CountInv'
      /\ Elements = tree /\ Elements' = tree
      /\ \A s \in Changes : ~Stage(s) /\ ~Stage(s)'
  BY <1>0, <1>1, <1>2, ReaderStep DEF st_capi_foreach_nolock, Readers
<1>4. /\ iter' \in [Users -> Iterators]
      /\ iter'[p].element \in tree \cup {NULL}
      /\ iter'[p].table_version = iter[p].table_version
      /\ iter'[p].open = iter[p].open
      /\ \A q \in Users : q # p => iter'[q] = iter[q]
  BY AdvancedFacts, Zenon DEF st_capi_foreach_nolock
<1>5. TypeOK'
  BY <1>4, Zenon DEF TInv, TypeOK, st_capi_foreach_nolock
<1>6. IterInv'
  <2>1. UNCHANGED <<version, tree, dead, op>>
    BY DEF st_capi_foreach_nolock
  <2>2. iter[p].open => iter[p].table_version <= version
    BY DEF TInv, IterInv
  <2> QED
    BY <1>0, <1>3, <1>4, <2>1, <2>2, IterWhileReading DEF TInv
<1> QED
  BY <1>3, <1>5, <1>6 DEF TInv

\* st_capi_foreach gives the lock back.
LEMMA EndForeachStep ==
    ASSUME TInv, NEW p \in Users, EndForeach(p)
    PROVE TInv'
<1>1. Idle \in Operations /\ p \in Users \ dead /\ Idle.at = "idle" /\ op[p].at = "foreach"
  BY Zenon DEF Operations, Idle, EndForeach, At
<1>2. /\ LockInv' /\ HeapInv' /\ CountInv'
      /\ Elements = tree /\ Elements' = tree
      /\ \A s \in Changes : ~Stage(s) /\ ~Stage(s)'
  BY <1>1, ReaderStep, Zenon DEF EndForeach, Readers
<1>3. iter' \in [Users -> Iterators] /\ ~iter'[p].open /\ \A q \in Users : q # p => iter'[q] = iter[q]
  BY Zenon DEF TInv, TypeOK, EndForeach, NoIter, Iterators
<1>4. op' \in [Users -> Operations] /\ op'[p] = Idle /\ \A q \in Users : q # p => op'[q] = op[q]
  BY <1>1, OpStep, Zenon DEF TInv, EndForeach
<1>5. TypeOK'
  BY <1>3, <1>4, Zenon DEF TInv, TypeOK, EndForeach
<1>6. IterInv'
  <2>1. UNCHANGED <<version, tree, dead>>
    BY Zenon DEF EndForeach
  <2> QED
    BY <1>1, <1>2, <1>3, <1>4, <2>1, IterWhileReading DEF TInv
<1> QED
  BY <1>2, <1>5, <1>6 DEF TInv

\* An iterator is closed.
LEMMA FreeIteratorStep ==
    ASSUME TInv, NEW p \in Users, st_capi_free_iterator(p)
    PROVE TInv'
<1>1. iter' \in [Users -> Iterators] /\ ~iter'[p].open /\ \A q \in Users : q # p => iter'[q] = iter[q]
  BY Zenon DEF TInv, TypeOK, st_capi_free_iterator, NoIter, Iterators
<1>2. UNCHANGED <<heap, tree, version, element_cnt, lock, op, dead>>
  BY Zenon DEF st_capi_free_iterator
<1>3. Elements' = Elements /\ (\A s : Stage(s)' = Stage(s)) /\ \A q \in Users : Pending(q)' = Pending(q)
  BY <1>2, Zenon DEF Elements, Stage, Pending
<1>4. TypeOK' /\ LockInv' /\ HeapInv' /\ CountInv'
  <2>1. TypeOK' /\ LockInv'
    BY <1>1, <1>2, Zenon DEF TInv, TypeOK, LockInv
  <2>2. HeapInv'
    <3>1. Elements \subseteq tree'
      BY <1>2, Zenon DEF TInv, HeapInv
    <3> QED
      BY <1>2, <1>3, <3>1, HeapKept DEF TInv
  <2>3. CountInv'
    BY <1>2, <1>3, Zenon DEF TInv, CountInv
  <2> QED
    BY <2>1, <2>2, <2>3, Zenon
<1>5. IterInv'
  BY <1>1, <1>2, <1>3 DEF TInv, IterInv, Modified
<1> QED
  BY <1>4, <1>5, Zenon DEF TInv

\* A process dies, not with a change half done.
LEMMA DieStep ==
    ASSUME TInv, DeathsBetweenChanges, NEW p \in Users, Die(p)
    PROVE TInv'
<1>1. iter' \in [Users -> Iterators] /\ ~iter'[p].open /\ \A q \in Users : q # p => iter'[q] = iter[q]
  BY Zenon DEF TInv, TypeOK, Die, NoIter, Iterators
<1>2. UNCHANGED <<heap, tree, version, element_cnt, lock, op>> /\ dead' = dead \cup {p}
  BY Zenon DEF Die
<1>3. Elements' = Elements /\ (\A s : Stage(s)' = Stage(s)) /\ \A q \in Users : Pending(q)' = Pending(q)
  BY <1>2, Zenon DEF Elements, Stage, Pending
<1>4. op[p].at \notin Changes /\ p \in Mortal
  BY Zenon DEF Die, DeathsBetweenChanges
<1>5. TypeOK' /\ HeapInv' /\ CountInv'
  <2>1. TypeOK'
    BY <1>1, <1>2, <1>4 DEF TInv, TypeOK
  <2>2. HeapInv'
    <3>1. Elements \subseteq tree'
      BY <1>2, Zenon DEF TInv, HeapInv
    <3> QED
      BY <1>2, <1>3, <3>1, HeapKept DEF TInv
  <2>3. CountInv'
    BY <1>2, <1>3, Zenon DEF TInv, CountInv
  <2> QED
    BY <2>1, <2>2, <2>3, Zenon
<1>6. LockInv'
  BY <1>2, <1>4 DEF TInv, LockInv
<1>7. IterInv'
  BY <1>1, <1>2, <1>3 DEF TInv, IterInv, Modified
<1> QED
  BY <1>5, <1>6, <1>7 DEF TInv

-----------------------------------------------------------------------------
(* The steps that change the table.                                          *)

\* The version changes: no iterator begun before can pass, and those who copy
\* an element out do so from the tree.
LEMMA IterAfterChange ==
    ASSUME TInv, version' = version + 1, UNCHANGED <<iter, dead, tree>>,
           \A q \in Users \ dead : op'[q].at \in {"get", "next"} => op'[q] = op[q]
    PROVE IterInv'
<1>1. \A q \in Users \ dead : op'[q].at \in {"get", "next"} => op'[q].elem \in tree'
  BY Zenon DEF TInv, IterInv
<1>2. ASSUME NEW q \in Users, iter[q].open
      PROVE iter[q].table_version \in Nat /\ iter[q].table_version <= version /\ version \in Nat
  BY <1>2 DEF TInv, TypeOK, Iterators, IterInv
<1>3. \A q \in Users : iter[q].open =>
        iter[q].table_version <= version' /\ iter[q].table_version # version'
  BY <1>2
<1> QED
  BY <1>1, <1>3, Zenon DEF IterInv, Modified

\* The next version is a number.
LEMMA NextVersion == TInv /\ version' = version + 1 => version' \in Nat
<1>1. TInv => version \in Nat
  BY Zenon DEF TInv, TypeOK
<1> QED
  BY <1>1

\* An element is allocated; nobody else knows it.
LEMMA NewElementStep ==
    ASSUME TInv, NEW p \in Users, NEW k \in Keys, NEW v \in Values, NEW force \in BOOLEAN,
           st_table_new_element(p, k, v, force)
    PROVE TInv'
<1>0. p \in Users \ dead /\ op[p].at = "idle"
  BY Zenon DEF st_table_new_element, At
<1>1. PICK a \in Addrs :
        /\ heap[a] = NULL
        /\ heap' = [heap EXCEPT ![a] = [key |-> k, value |-> v]]
        /\ GoTo(p, [at |-> "new", elem |-> a, force |-> force])
  BY Zenon DEF st_table_new_element
<1> DEFINE x == [at |-> "new", elem |-> a, force |-> force]
<1>2. x \in Operations /\ x.at = "new" /\ x.elem = a /\ GoTo(p, x)
  BY <1>1, Zenon DEF Operations
<1> HIDE DEF x
<1>3. /\ op' \in [Users -> Operations]
      /\ op'[p] = x
      /\ \A q \in Users : q # p => op'[q] = op[q] /\ Pending(q)' = Pending(q)
  BY <1>2, OpStep, Zenon DEF TInv
<1>4. UNCHANGED <<tree, version, element_cnt, lock, iter, dead>>
  BY Zenon DEF st_table_new_element
<1>5. lock # p
  BY <1>0, TableAssumption, Zenon DEF TInv, LockInv, Holding, Changes
<1>6. Elements' = Elements /\ \A s : Stage(s)' = Stage(s)
  BY <1>3, <1>4, <1>5 DEF Elements, Stage, TInv, TypeOK
<1>7. Pending(p) = {} /\ Pending(p)' = {a}
  BY <1>0, <1>2, <1>3 DEF Pending
<1>8. /\ heap' \in [Addrs -> [key : Keys, value : Values] \cup {NULL}]
      /\ heap'[a] # NULL
      /\ \A b \in Addrs : b # a => heap'[b] = heap[b]
  <2> DEFINE content == [key |-> k, value |-> v]
  <2>1. content \in [key : Keys, value : Values]
    BY Zenon
  <2>2. content # NULL
    BY <2>1, TableAssumption, Zenon
  <2>3. heap' = [heap EXCEPT ![a] = content]
    BY <1>1, Zenon
  <2>4. heap \in [Addrs -> [key : Keys, value : Values] \cup {NULL}]
    BY Zenon DEF TInv, TypeOK
  <2> HIDE DEF content
  <2> QED
    BY <2>1, <2>2, <2>3, <2>4, Zenon
<1>9. TypeOK'
  BY <1>3, <1>4, <1>8 DEF TInv, TypeOK
<1>10. LockInv'
  BY <1>0, <1>2, <1>3, <1>4, <1>5, TableAssumption DEF TInv, TypeOK, LockInv, Holding, Changes
<1>11. a \notin Elements /\ \A q \in Users : a \notin Pending(q)
  BY <1>1, Zenon DEF TInv, HeapInv
<1>12. HeapInv'
  <2>1. Elements \subseteq Addrs
    BY Zenon DEF TInv, TypeOK, HeapInv
  <2> QED
    BY <1>1, <1>3, <1>4, <1>6, <1>7, <1>8, <1>11, <2>1, HeapChanges DEF TInv
<1>13. CountInv'
  BY <1>4, <1>6, Zenon DEF TInv, CountInv
<1>14. IterInv'
  BY <1>2, <1>3, <1>4, <1>6 DEF TInv, IterInv, Modified
<1> QED
  BY <1>9, <1>10, <1>12, <1>13, <1>14 DEF TInv

\* An element that is no longer linked is freed.
LEMMA FreeElementStep ==
    ASSUME TInv, NEW p \in Users, st_table_free_element(p)
    PROVE TInv'
<1> DEFINE a == op[p].elem
<1>0. p \in Users \ dead /\ op[p].at = "free"
  BY Zenon DEF st_table_free_element, At
<1>1. a \in Addrs
  BY <1>0, Zenon DEF TInv, TypeOK, Operations
<1>2. heap' = [heap EXCEPT ![a] = NULL] /\ GoTo(p, Idle) /\ Idle \in Operations /\ Idle.at = "idle"
  BY Zenon DEF st_table_free_element, Idle, Operations
<1>3. /\ op' \in [Users -> Operations]
      /\ op'[p] = Idle
      /\ \A q \in Users : q # p => op'[q] = op[q] /\ Pending(q)' = Pending(q)
  BY <1>2, OpStep DEF TInv
<1>4. UNCHANGED <<tree, version, element_cnt, lock, iter, dead>>
  BY Zenon DEF st_table_free_element
<1>5. lock # p
  BY <1>0, TableAssumption DEF TInv, LockInv, Holding, Changes
<1>6. Elements' = Elements /\ \A s : Stage(s)' = Stage(s)
  BY <1>3, <1>4, <1>5 DEF Elements, Stage, TInv, TypeOK
<1>7. Pending(p) = {a} /\ Pending(p)' = {}
  BY <1>0, <1>1, <1>2, <1>3 DEF Pending
<1> HIDE DEF a
<1>8. /\ heap' \in [Addrs -> [key : Keys, value : Values] \cup {NULL}]
      /\ heap'[a] = NULL
      /\ \A b \in Addrs : b # a => heap'[b] = heap[b]
  BY <1>1, <1>2 DEF TInv, TypeOK
<1>9. TypeOK'
  BY <1>3, <1>4, <1>8 DEF TInv, TypeOK
<1>10. LockInv'
  BY <1>0, <1>2, <1>3, <1>4, <1>5, TableAssumption DEF TInv, TypeOK, LockInv, Holding, Changes
<1>11. HeapInv'
  <2>1. Elements \subseteq Addrs /\ a \notin Elements
    BY <1>7 DEF TInv, TypeOK, HeapInv
  <2>2. \A q \in Users : q # p => a \notin Pending(q)
    BY <1>7, Zenon DEF TInv, HeapInv
  <2> QED
    BY <1>1, <1>3, <1>4, <1>6, <1>7, <1>8, <2>1, <2>2, HeapChanges DEF TInv
<1>12. CountInv'
  BY <1>4, <1>6 DEF TInv, CountInv
<1>13. IterInv'
  BY <1>2, <1>3, <1>4, <1>6 DEF TInv, IterInv, Modified
<1> QED
  BY <1>9, <1>10, <1>11, <1>12, <1>13 DEF TInv

\* A new element is linked under the lock, replaces another, or is given up.
LEMMA AddToTreeStep ==
    ASSUME TInv, NEW p \in Users, AddToTree(p)
    PROVE TInv'
<1> DEFINE new == op[p].elem
           existed == st_table_get_element(heap[new].key)
<1>0. p \in Users \ dead /\ op[p].at = "new" /\ Lockable
  BY Zenon DEF AddToTree, At
<1>1. UNCHANGED <<heap, version, iter, dead>>
  BY Zenon DEF AddToTree
<1>2. new \in Addrs /\ Pending(p) = {new}
  BY <1>0, Zenon DEF TInv, TypeOK, Operations, Pending
<1>3. /\ Elements = tree
      /\ \A s \in Changes : ~Stage(s)
      /\ \A q \in Users \ dead : op[q].at \notin Holding
  BY <1>0, LockableFacts
<1>4. /\ heap[new] # NULL /\ new \notin tree
      /\ \A a \in tree : heap[a] # NULL
      /\ \A a, b \in tree : heap[a].key = heap[b].key => a = b
      /\ tree \subseteq Addrs
  BY <1>2, <1>3 DEF TInv, HeapInv, TypeOK
<1>5. /\ existed \subseteq tree
      /\ \A a \in tree : heap[a].key = heap[new].key <=> a \in existed
      /\ \A a, b \in existed : a = b
  BY <1>4, Zenon DEF st_table_get_element
<1>6. dead \subseteq Users
  BY TableAssumption, Zenon DEF TInv, TypeOK
<1>7. IsFiniteSet(tree) /\ element_cnt = Cardinality(tree)
  BY <1>3 DEF TInv, CountInv, Changes
<1>8. CASE /\ existed = {}
           /\ tree' = tree \cup {new}
           /\ element_cnt' = element_cnt + 1
           /\ lock' = p
           /\ GoTo(p, [at |-> "linked", existed_elem |-> {}])
  <2> DEFINE x == [at |-> "linked", existed_elem |-> {}]
  <2>1. x \in Operations /\ x.at = "linked" /\ x.existed_elem = {} /\ GoTo(p, x)
    BY <1>8, Zenon DEF Operations
  <2> HIDE DEF x
  <2>2. /\ op' \in [Users -> Operations]
        /\ op'[p] = x
        /\ \A q \in Users : q # p => op'[q] = op[q] /\ Pending(q)' = Pending(q)
    BY <2>1, OpStep, Zenon DEF TInv
  <2>3. Pending(p)' = {}
    BY <2>1, <2>2, Zenon DEF Pending
  <2>4. Elements' = tree' /\ Stage("linked")' /\ ~Stage("deleted")' /\ ~Stage("clearing")'
    BY <2>1, <2>2, <1>8, TableAssumption DEF Elements, Stage
  <2> HIDE DEF new, existed
  <2>5. TypeOK'
    BY <2>2, <1>1, <1>2, <1>8 DEF TInv, TypeOK
  <2>6. LockInv'
    BY <2>1, <2>2, <1>0, <1>1, <1>3, <1>6, <1>8, TableAssumption, Zenon
       DEF TInv, LockInv, Holding, Changes
  <2>7. HeapInv'
    <3>1. Elements' = tree \cup {new}
      BY <2>4, <1>8, Zenon
    <3>2. \A a, b \in Elements' : heap[a].key = heap[b].key => a = b
      BY <3>1, <1>4, <1>5, <1>8
    <3> QED
      BY <2>2, <2>3, <2>4, <1>1, <1>2, <1>3, <3>1, <3>2, HeapMoves DEF TInv
  <2>8. CountInv'
    BY <2>4, <1>4, <1>7, <1>8, FS_AddElement DEF CountInv
  <2>9. IterInv'
    BY <2>1, <2>2, <2>4, <1>1, <1>3, <1>8 DEF TInv, IterInv, Modified
  <2> QED
    BY <2>5, <2>6, <2>7, <2>8, <2>9 DEF TInv
<1>9. CASE /\ existed # {} /\ op[p].force
           /\ tree' = (tree \ existed) \cup {new}
           /\ lock' = p
           /\ GoTo(p, [at |-> "linked", existed_elem |-> existed])
           /\ UNCHANGED element_cnt
  <2> DEFINE x == [at |-> "linked", existed_elem |-> existed]
  <2>1. x \in Operations /\ x.at = "linked" /\ x.existed_elem = existed /\ GoTo(p, x)
    BY <1>4, <1>5, <1>9 DEF Operations
  <2> HIDE DEF x
  <2>2. /\ op' \in [Users -> Operations]
        /\ op'[p] = x
        /\ \A q \in Users : q # p => op'[q] = op[q] /\ Pending(q)' = Pending(q)
    BY <2>1, OpStep, Zenon DEF TInv
  <2> HIDE DEF new, existed
  <2>3. Pending(p)' = existed
    BY <2>1, <2>2, <1>4, <1>5 DEF Pending
  <2>4. Elements' = tree' /\ Stage("linked")' /\ ~Stage("deleted")' /\ ~Stage("clearing")'
    BY <2>1, <2>2, <1>9, TableAssumption DEF Elements, Stage
  <2>5. TypeOK'
    BY <2>2, <1>1, <1>2, <1>9 DEF TInv, TypeOK
  <2>6. LockInv'
    BY <2>1, <2>2, <1>0, <1>1, <1>3, <1>6, <1>9, TableAssumption
       DEF TInv, LockInv, Holding, Changes
  <2>7. HeapInv'
    <3>1. Elements' = (tree \ existed) \cup {new}
      BY <2>4, <1>9, Zenon
    <3>2. \A a, b \in Elements' : heap[a].key = heap[b].key => a = b
      BY <3>1, <1>4, <1>5
    <3>3. Elements' \cup Pending(p)' = Elements \cup Pending(p) /\ Elements' \cap Pending(p)' = {}
      BY <2>3, <1>2, <1>3, <1>4, <1>5, <3>1
    <3> QED
      BY <2>2, <2>3, <2>4, <1>1, <1>5, <3>2, <3>3, HeapMoves DEF TInv
  <2>8. CountInv'
    <3>1. PICK e \in tree : existed = {e}
      BY <1>5, <1>9
    <3>2. /\ IsFiniteSet(tree \ {e}) /\ Cardinality(tree \ {e}) = Cardinality(tree) - 1
          /\ Cardinality(tree) \in Nat
      BY <1>7, FS_RemoveElement, FS_CardinalityType, Zenon
    <3>3. /\ IsFiniteSet((tree \ {e}) \cup {new})
          /\ Cardinality((tree \ {e}) \cup {new}) = Cardinality(tree \ {e}) + 1
      BY <3>2, <1>4, FS_AddElement, Zenon
    <3> QED
      BY <2>4, <1>7, <1>9, <3>1, <3>2, <3>3 DEF CountInv
  <2>9. IterInv'
    BY <2>1, <2>2, <2>4, <1>1, <1>3, <1>9, Zenon DEF TInv, IterInv, Modified, Holding
  <2> QED
    BY <2>5, <2>6, <2>7, <2>8, <2>9 DEF TInv
<1>10. CASE /\ lock' = NULL
            /\ GiveUp(p, new)
            /\ UNCHANGED <<tree, element_cnt>>
  <2> DEFINE x == [at |-> "free", elem |-> new]
  <2>1. x \in Operations /\ x.at = "free" /\ x.elem = new /\ GoTo(p, x)
    BY <1>2, <1>10, Zenon DEF Operations, GiveUp
  <2> HIDE DEF x
  <2>2. /\ op' \in [Users -> Operations]
        /\ op'[p] = x
        /\ \A q \in Users : q # p => op'[q] = op[q] /\ Pending(q)' = Pending(q)
    BY <2>1, OpStep, Zenon DEF TInv
  <2> HIDE DEF new, existed
  <2>3. Pending(p)' = Pending(p)
    BY <2>1, <2>2, <1>2, Zenon DEF Pending
  <2>4. Elements' = tree /\ \A s \in Changes : ~Stage(s)'
    BY <1>10, Zenon DEF Elements, Stage
  <2>5. TypeOK'
    BY <2>2, <1>1, <1>10 DEF TInv, TypeOK
  <2>6. LockInv'
    BY <2>1, <2>2, <1>0, <1>1, <1>3, <1>6, <1>10 DEF TInv, LockInv, Holding, Changes
  <2>7. HeapInv'
    <3>1. Elements \subseteq tree'
      BY <1>3, <1>10, Zenon
    <3> QED
      BY <2>2, <2>3, <2>4, <1>1, <1>3, <3>1, HeapKept DEF TInv
  <2>8. CountInv'
    BY <2>4, <1>7, <1>10 DEF CountInv, Changes
  <2>9. IterInv'
    BY <2>1, <2>2, <2>4, <1>1, <1>3, <1>10 DEF TInv, IterInv, Modified, Changes
  <2> QED
    BY <2>5, <2>6, <2>7, <2>8, <2>9 DEF TInv
<1> QED
  BY <1>8, <1>9, <1>10, Zenon DEF AddToTree

\* The version changes, and what was replaced will be freed.
LEMMA AddVersionStep ==
    ASSUME TInv, NEW p \in Users, AddVersion(p)
    PROVE TInv'
<1>0. p \in Users \ dead /\ op[p].at = "linked" /\ At(p, "linked") /\ "linked" \in Holding
  BY Zenon DEF AddVersion, At, Holding, Changes
<1>1. UNCHANGED <<heap, tree, element_cnt, iter, dead>> /\ version' = version + 1 /\ lock' = NULL
  BY Zenon DEF AddVersion
<1>2. /\ lock = p /\ Elements = tree /\ (\A s : Stage(s) <=> s = "linked")
      /\ \A q \in Users \ dead : q # p => op[q].at \notin Holding
  BY <1>0, HolderFacts
<1>3. dead \subseteq Users
  BY TableAssumption DEF TInv, TypeOK
<1>4. PICK x \in Operations :
        /\ GoTo(p, x) /\ x.at \in {"idle", "free"}
        /\ x.at = "idle" => op[p].existed_elem = {}
        /\ x.at = "free" => x.elem \in op[p].existed_elem
  <2>1. CASE op[p].existed_elem = {} /\ GoTo(p, Idle)
    <3>1. Idle \in Operations /\ Idle.at = "idle"
      BY Zenon DEF Idle, Operations
    <3> QED
      BY <2>1, <3>1, Zenon
  <2>2. CASE \E e \in op[p].existed_elem : GoTo(p, [at |-> "free", elem |-> e])
    <3>1. PICK e \in op[p].existed_elem : GoTo(p, [at |-> "free", elem |-> e])
      BY <2>2, Zenon
    <3>2. e \in Addrs
      BY <1>0, Zenon DEF TInv, TypeOK, Operations
    <3>3. [at |-> "free", elem |-> e] \in Operations
      BY <3>2, Zenon DEF Operations
    <3> QED
      BY <3>1, <3>3, Zenon
  <2> QED
    BY <2>1, <2>2, Zenon DEF AddVersion
<1>5. /\ op' \in [Users -> Operations]
      /\ op'[p] = x
      /\ \A q \in Users : q # p => op'[q] = op[q] /\ Pending(q)' = Pending(q)
  BY <1>4, OpStep, Zenon DEF TInv
<1>6. Pending(p)' = Pending(p)
  <2>1. Pending(p) = op[p].existed_elem
    BY <1>0 DEF Pending, TInv, TypeOK, Operations
  <2>2. \A a, b \in Pending(p) : a = b
    BY Zenon DEF TInv, HeapInv
  <2>3. CASE x.at = "idle"
    BY <2>1, <2>3, <1>4, <1>5 DEF Pending
  <2>4. CASE x.at = "free"
    <3>1. x.elem \in Pending(p) /\ x.elem \in Addrs
      BY <2>1, <2>4, <1>4 DEF Pending
    <3>2. Pending(p)' = {x.elem}
      BY <2>4, <1>5, <3>1 DEF Pending
    <3> QED
      BY <3>1, <3>2, <2>2, Zenon
  <2> QED
    BY <1>4, <2>3, <2>4
<1>7. Elements' = tree /\ \A s : ~Stage(s)'
  BY <1>1, Zenon DEF Elements, Stage
<1>8. TypeOK'
  <2>1. version' \in Nat
    BY <1>1, NextVersion, Zenon
  <2> QED
    BY <1>1, <1>5, <2>1 DEF TInv, TypeOK
<1>9. LockInv'
  BY <1>0, <1>1, <1>2, <1>3, <1>4, <1>5 DEF TInv, LockInv, Holding, Changes
<1>10. HeapInv'
  <2>1. Elements \subseteq tree'
    BY <1>1, <1>2, Zenon
  <2> QED
    BY <1>1, <1>2, <1>5, <1>6, <1>7, <2>1, HeapKept DEF TInv
<1>11. CountInv'
  BY <1>1, <1>2, <1>7 DEF TInv, CountInv
<1>12. IterInv'
  BY <1>1, <1>4, <1>5, IterAfterChange
<1> QED
  BY <1>8, <1>9, <1>10, <1>11, <1>12 DEF TInv

\* An element leaves the tree under the lock.
LEMMA RemoveFromTreeStep ==
    ASSUME TInv, NEW p \in Users, NEW k \in Keys, RemoveFromTree(p, k)
    PROVE TInv'
<1>0. p \in Users \ dead /\ op[p].at = "idle" /\ Lockable
  BY Zenon DEF RemoveFromTree, At
<1>1. UNCHANGED <<heap, version, element_cnt, iter, dead>> /\ lock' = p
  BY Zenon DEF RemoveFromTree
<1>2. PICK removed \in st_table_get_element(k) :
        /\ tree' = tree \ {removed}
        /\ GoTo(p, [at |-> "deleted", elem |-> removed])
  BY Zenon DEF RemoveFromTree
<1>3. /\ Elements = tree
      /\ \A s \in Changes : ~Stage(s)
      /\ \A q \in Users \ dead : op[q].at \notin Holding
  BY <1>0, LockableFacts
<1>4. removed \in tree /\ removed \in Addrs
  BY <1>2, Zenon DEF st_table_get_element, TInv, TypeOK
<1>5. dead \subseteq Users
  BY TableAssumption, Zenon DEF TInv, TypeOK
<1> DEFINE x == [at |-> "deleted", elem |-> removed]
<1>6. x \in Operations /\ x.at = "deleted" /\ x.elem = removed /\ GoTo(p, x)
  BY <1>2, <1>4, Zenon DEF Operations
<1> HIDE DEF x
<1>7. /\ op' \in [Users -> Operations]
      /\ op'[p] = x
      /\ \A q \in Users : q # p => op'[q] = op[q] /\ Pending(q)' = Pending(q)
  BY <1>6, OpStep, Zenon DEF TInv
<1>8. Pending(p) = {} /\ Pending(p)' = {removed}
  BY <1>0, <1>4, <1>6, <1>7 DEF Pending
<1>9. Elements' = tree' /\ Stage("deleted")'
  BY <1>1, <1>6, <1>7, TableAssumption DEF Elements, Stage
<1>10. TypeOK'
  BY <1>1, <1>2, <1>7 DEF TInv, TypeOK
<1>11. LockInv'
  BY <1>0, <1>1, <1>3, <1>5, <1>6, <1>7, TableAssumption DEF TInv, LockInv, Holding, Changes
<1>12. HeapInv'
  <2>1. Elements' = tree \ {removed}
    BY <1>2, <1>9, Zenon
  <2>2. \A a, b \in Elements' : heap[a].key = heap[b].key => a = b
    BY <2>1, <1>3 DEF TInv, HeapInv
  <2>3. Elements' \cup Pending(p)' = Elements \cup Pending(p) /\ Elements' \cap Pending(p)' = {}
    BY <1>3, <1>4, <1>8, <2>1
  <2>4. Elements' \subseteq tree' /\ \A a, b \in Pending(p)' : a = b
    BY <1>8, <1>9, Zenon
  <2> QED
    BY <1>1, <1>7, <2>2, <2>3, <2>4, HeapMoves DEF TInv
<1>13. CountInv'
  <2>1. IsFiniteSet(tree) /\ element_cnt = Cardinality(tree)
    BY <1>3, Zenon DEF TInv, CountInv, Changes
  <2>2. /\ IsFiniteSet(tree \ {removed}) /\ Cardinality(tree \ {removed}) = Cardinality(tree) - 1
        /\ Cardinality(tree) \in Nat
    BY <2>1, <1>4, FS_RemoveElement, FS_CardinalityType
  <2> QED
    <3>1. element_cnt' = Cardinality(tree') + 1 /\ IsFiniteSet(tree')
      BY <1>1, <1>2, <2>1, <2>2
    <3> QED
      BY <1>9, <3>1, Zenon DEF CountInv
<1>14. IterInv'
  BY <1>1, <1>3, <1>6, <1>7, <1>9 DEF TInv, IterInv, Modified, Holding
<1> QED
  BY <1>10, <1>11, <1>12, <1>13, <1>14 DEF TInv

\* The version and the count change, and what was removed will be freed.
LEMMA RemoveVersionStep ==
    ASSUME TInv, NEW p \in Users, RemoveVersion(p)
    PROVE TInv'
<1>0. p \in Users \ dead /\ op[p].at = "deleted" /\ At(p, "deleted") /\ "deleted" \in Holding
  BY Zenon DEF RemoveVersion, At, Holding, Changes
<1>1. /\ UNCHANGED <<heap, tree, iter, dead>>
      /\ version' = version + 1 /\ element_cnt' = element_cnt - 1 /\ lock' = NULL
  BY Zenon DEF RemoveVersion
<1>2. /\ lock = p /\ Elements = tree /\ (\A s : Stage(s) <=> s = "deleted")
      /\ \A q \in Users \ dead : q # p => op[q].at \notin Holding
  BY <1>0, HolderFacts
<1>3. dead \subseteq Users
  BY TableAssumption DEF TInv, TypeOK
<1> DEFINE x == [at |-> "free", elem |-> op[p].elem]
<1>4. op[p].elem \in Addrs
  BY <1>0, Zenon DEF TInv, TypeOK, Operations
<1>5. x \in Operations /\ x.at = "free" /\ x.elem = op[p].elem /\ GoTo(p, x)
  BY <1>4, Zenon DEF Operations, RemoveVersion
<1> HIDE DEF x
<1>6. /\ op' \in [Users -> Operations]
      /\ op'[p] = x
      /\ \A q \in Users : q # p => op'[q] = op[q] /\ Pending(q)' = Pending(q)
  BY <1>5, OpStep DEF TInv
<1>7. Pending(p)' = Pending(p)
  BY <1>0, <1>5, <1>6 DEF Pending
<1>8. Elements' = tree /\ \A s : ~Stage(s)'
  BY <1>1, Zenon DEF Elements, Stage
<1>9. CountInv' /\ element_cnt' \in Nat
  <2>1. IsFiniteSet(tree) /\ element_cnt = Cardinality(tree) + 1 /\ Cardinality(tree) \in Nat
    BY <1>2, FS_CardinalityType DEF TInv, CountInv
  <2> QED
    BY <1>1, <1>8, <2>1 DEF CountInv
<1>10. TypeOK'
  <2>1. version' \in Nat
    BY <1>1, NextVersion, Zenon
  <2> QED
    BY <1>1, <1>6, <1>9, <2>1 DEF TInv, TypeOK
<1>11. LockInv'
  BY <1>0, <1>1, <1>2, <1>3, <1>5, <1>6 DEF TInv, LockInv, Holding, Changes
<1>12. HeapInv'
  <2>1. Elements \subseteq tree'
    BY <1>1, <1>2, Zenon
  <2> QED
    BY <1>1, <1>2, <1>6, <1>7, <1>8, <2>1, HeapKept DEF TInv
<1>13. IterInv'
  BY <1>1, <1>5, <1>6, IterAfterChange
<1> QED
  BY <1>9, <1>10, <1>11, <1>12, <1>13 DEF TInv

\* The lock is taken for the removal of all elements.
LEMMA BeginRemoveAllStep ==
    ASSUME TInv, NEW p \in Users, BeginRemoveAll(p)
    PROVE TInv'
<1>0. p \in Users \ dead /\ op[p].at = "idle" /\ Lockable
  BY Zenon DEF BeginRemoveAll, At
<1>1. UNCHANGED <<heap, tree, version, element_cnt, iter, dead>> /\ lock' = p
  BY Zenon DEF BeginRemoveAll
<1>2. /\ Elements = tree
      /\ \A s \in Changes : ~Stage(s)
      /\ \A q \in Users \ dead : op[q].at \notin Holding
  BY <1>0, LockableFacts
<1>3. dead \subseteq Users
  BY TableAssumption DEF TInv, TypeOK
<1> DEFINE x == [at |-> "clearing", rest |-> tree]
<1>4. x \in Operations /\ x.at = "clearing" /\ x.rest = tree /\ GoTo(p, x)
  BY Zenon DEF Operations, BeginRemoveAll, TInv, TypeOK
<1> HIDE DEF x
<1>5. /\ op' \in [Users -> Operations]
      /\ op'[p] = x
      /\ \A q \in Users : q # p => op'[q] = op[q] /\ Pending(q)' = Pending(q)
  BY <1>4, OpStep, Zenon DEF TInv
<1>6. Pending(p) = {} /\ Pending(p)' = {}
  BY <1>0, <1>4, <1>5 DEF Pending
<1>7. Elements' = tree /\ Stage("clearing")' /\ ~Stage("deleted")'
  BY <1>1, <1>4, <1>5, TableAssumption DEF Elements, Stage
<1>8. TypeOK'
  BY <1>1, <1>5 DEF TInv, TypeOK
<1>9. LockInv'
  BY <1>0, <1>1, <1>2, <1>3, <1>4, <1>5, TableAssumption DEF TInv, LockInv, Holding, Changes
<1>10. HeapInv'
  <2>1. Elements \subseteq tree'
    BY <1>1, <1>2, Zenon
  <2> QED
    BY <1>1, <1>2, <1>5, <1>6, <1>7, <2>1, HeapKept DEF TInv
<1>11. CountInv'
  BY <1>1, <1>7 DEF TInv, CountInv
<1>12. IterInv'
  BY <1>1, <1>2, <1>4, <1>5, <1>7 DEF TInv, IterInv, Modified, Changes
<1> QED
  BY <1>8, <1>9, <1>10, <1>11, <1>12 DEF TInv

\* One of the elements is freed, and the version changes.
LEMMA RemoveAllElementsStep ==
    ASSUME TInv, NEW p \in Users, st_table_remove_all_elements(p)
    PROVE TInv'
<1>0. p \in Users \ dead /\ op[p].at = "clearing" /\ At(p, "clearing") /\ "clearing" \in Holding
  BY Zenon DEF st_table_remove_all_elements, At, Holding, Changes
<1>1. UNCHANGED <<tree, element_cnt, lock, iter, dead>> /\ version' = version + 1
  BY Zenon DEF st_table_remove_all_elements
<1>2. PICK a \in op[p].rest :
        /\ heap' = [heap EXCEPT ![a] = NULL]
        /\ GoTo(p, [at |-> "clearing", rest |-> op[p].rest \ {a}])
  BY Zenon DEF st_table_remove_all_elements
<1>3. /\ lock = p /\ lock # NULL /\ (\A s : Stage(s) <=> s = "clearing")
      /\ \A q \in Users \ dead : q # p => op[q].at \notin Holding
  BY <1>0, HolderFacts
<1>4. Elements = op[p].rest /\ op[p].rest \subseteq Addrs
  BY <1>0, <1>3 DEF Elements, TInv, TypeOK, Operations
<1>5. dead \subseteq Users
  BY TableAssumption, Zenon DEF TInv, TypeOK
<1> DEFINE x == [at |-> "clearing", rest |-> op[p].rest \ {a}]
<1>6. x \in Operations /\ x.at = "clearing" /\ x.rest = op[p].rest \ {a} /\ GoTo(p, x)
  BY <1>2, <1>4, Zenon DEF Operations
<1> HIDE DEF x
<1>7. /\ op' \in [Users -> Operations]
      /\ op'[p] = x
      /\ \A q \in Users : q # p => op'[q] = op[q] /\ Pending(q)' = Pending(q)
  BY <1>6, OpStep, Zenon DEF TInv
<1>8. Pending(p) = {} /\ Pending(p)' = {}
  BY <1>0, <1>6, <1>7 DEF Pending
<1>9. Elements' = Elements \ {a} /\ \A s : Stage(s)' <=> s = "clearing"
  BY <1>1, <1>3, <1>4, <1>6, <1>7 DEF Elements, Stage
<1>10. /\ heap' \in [Addrs -> [key : Keys, value : Values] \cup {NULL}]
       /\ heap'[a] = NULL /\ a \in Addrs
       /\ \A b \in Addrs : b # a => heap'[b] = heap[b]
  BY <1>2, <1>4 DEF TInv, TypeOK
<1>11. TypeOK'
  <2>1. version' \in Nat
    BY <1>1, NextVersion, Zenon
  <2> QED
    BY <1>1, <1>7, <1>10, <2>1 DEF TInv, TypeOK
<1>12. LockInv'
  BY <1>0, <1>1, <1>3, <1>5, <1>6, <1>7 DEF TInv, LockInv, Holding, Changes
<1>13. HeapInv'
  <2>1. a \in Elements /\ \A q \in Users : a \notin Pending(q)
    BY <1>2, <1>4 DEF TInv, HeapInv
  <2>2. Elements \subseteq Addrs
    BY <1>4, Zenon
  <2>3. \A q \in Users : Pending(q)' = Pending(q)
    BY <1>7, <1>8
  <2>4. Elements' \subseteq tree'
    BY <1>1, <1>9 DEF TInv, HeapInv
  <2>5. ASSUME NEW b \in Addrs
        PROVE heap'[b] # NULL <=> b \in Elements' \/ \E q \in Users : b \in Pending(q)'
    <3>1. CASE b = a
      BY <3>1, <1>9, <1>10, <2>1, <2>3
    <3>2. CASE b # a
      <4>1. heap'[b] = heap[b] /\ (b \in Elements' <=> b \in Elements)
        BY <3>2, <1>9, <1>10
      <4>2. heap[b] # NULL <=> b \in Elements \/ \E q \in Users : b \in Pending(q)
        BY Zenon DEF TInv, HeapInv
      <4> QED
        BY <4>1, <4>2, <2>3, Zenon
    <3> QED
      BY <3>1, <3>2, Zenon
  <2>6. /\ \A q, r \in Users : q # r => Pending(q)' \cap Pending(r)' = {}
        /\ \A q \in Users : Pending(q)' \cap Elements' = {} /\ \A b, c \in Pending(q)' : b = c
    <3>1. \A q, r \in Users : q # r => Pending(q) \cap Pending(r) = {}
      BY Zenon DEF TInv, HeapInv
    <3>2. \A q \in Users : Pending(q) \cap Elements = {} /\ \A b, c \in Pending(q) : b = c
      BY Zenon DEF TInv, HeapInv
    <3>3. Elements' \subseteq Elements
      BY <1>9, Zenon
    <3> QED
      BY <2>3, <3>1, <3>2, <3>3
  <2>7. \A b, c \in Elements' : heap'[b].key = heap'[c].key => b = c
    <3>1. ASSUME NEW b \in Elements', NEW c \in Elements', heap'[b].key = heap'[c].key
          PROVE b = c
      <4>1. b \in Elements /\ c \in Elements /\ heap'[b] = heap[b] /\ heap'[c] = heap[c]
        BY <1>9, <1>10, <2>2, Zenon
      <4> QED
        BY <3>1, <4>1, Zenon DEF TInv, HeapInv
    <3> QED
      BY <3>1, Zenon
  <2> QED
    BY <2>4, <2>5, <2>6, <2>7 DEF HeapInv
<1>14. CountInv'
  BY <1>1, <1>9, Zenon DEF TInv, CountInv
<1>15. IterInv'
  BY <1>1, <1>6, <1>7, IterAfterChange
<1> QED
  BY <1>11, <1>12, <1>13, <1>14, <1>15 DEF TInv

\* The tree is empty, and the lock is given back.
LEMMA EndRemoveAllStep ==
    ASSUME TInv, NEW p \in Users, EndRemoveAll(p)
    PROVE TInv'
<1>0. p \in Users \ dead /\ op[p].at = "clearing" /\ At(p, "clearing") /\ "clearing" \in Holding
  BY Zenon DEF EndRemoveAll, At, Holding, Changes
<1>1. /\ UNCHANGED <<heap, version, iter, dead>>
      /\ tree' = {} /\ element_cnt' = 0 /\ lock' = NULL /\ op[p].rest = {}
  BY Zenon DEF EndRemoveAll
<1>2. /\ lock = p /\ lock # NULL /\ (\A s : Stage(s) <=> s = "clearing")
      /\ \A q \in Users \ dead : q # p => op[q].at \notin Holding
  BY <1>0, HolderFacts, Zenon
<1>3. Elements = {}
  BY <1>0, <1>1, <1>2 DEF Elements
<1>4. dead \subseteq Users
  BY TableAssumption DEF TInv, TypeOK
<1>5. Idle \in Operations /\ Idle.at = "idle" /\ GoTo(p, Idle)
  BY Zenon DEF Operations, Idle, EndRemoveAll
<1>6. /\ op' \in [Users -> Operations]
      /\ op'[p] = Idle
      /\ \A q \in Users : q # p => op'[q] = op[q] /\ Pending(q)' = Pending(q)
  BY <1>5, OpStep, Zenon DEF TInv
<1>7. Pending(p) = {} /\ Pending(p)' = {}
  BY <1>0, <1>5, <1>6, Zenon DEF Pending
<1>8. Elements' = {} /\ \A s : ~Stage(s)'
  BY <1>1, Zenon DEF Elements, Stage
<1>9. TypeOK'
  BY <1>1, <1>6 DEF TInv, TypeOK
<1>10. LockInv'
  BY <1>0, <1>1, <1>2, <1>4, <1>5, <1>6 DEF TInv, LockInv, Holding, Changes
<1>11. HeapInv'
  <2>1. Elements \subseteq tree'
    BY <1>3, Zenon
  <2> QED
    BY <1>1, <1>3, <1>6, <1>7, <1>8, <2>1, HeapKept DEF TInv
<1>12. CountInv'
  BY <1>1, <1>8, FS_EmptySet DEF CountInv
<1>13. IterInv'
  <2>1. ASSUME NEW q \in Users, iter'[q].open
        PROVE /\ iter'[q].table_version <= version'
              /\ ~Modified(iter[q])' => iter'[q].element \in Elements' \cup {NULL}
    <3>1. iter[q].open /\ iter'[q] = iter[q] /\ version' = version
      BY <2>1, <1>1, Zenon
    <3>2. ~Stage("linked") /\ ~Stage("deleted")
      BY <1>2
    <3> QED
      BY <3>1, <3>2, <1>3, <1>8 DEF TInv, IterInv, Modified
  <2>2. ASSUME NEW q \in Users \ dead', op'[q].at \in {"get", "next"} PROVE op'[q].elem \in tree'
    <3>1. q # p
      BY <2>2, <1>5, <1>6, Zenon
    <3>2. op[q].at \notin {"get", "next"}
      BY <3>1, <1>1, <1>2 DEF Holding
    <3> QED
      BY <2>2, <3>1, <3>2, <1>6
  <2> QED
    BY <2>1, <2>2 DEF IterInv
<1> QED
  BY <1>9, <1>10, <1>11, <1>12, <1>13 DEF TInv

-----------------------------------------------------------------------------
(* The invariant and what it gives.                                          *)

\* The initial state satisfies the invariant.
LEMMA InitTInv == Init => TInv
<1> SUFFICES ASSUME Init PROVE TInv
  BY Zenon
<1>1. TypeOK
  BY Zenon DEF Init, TypeOK, Operations, Iterators, Idle, NoIter
<1>2. LockInv
  BY Zenon DEF Init, LockInv, Idle, Holding, Changes
<1>3. Elements = {} /\ \A p \in Users : Pending(p) = {}
  BY Zenon DEF Init, Elements, Pending, Idle
<1>4. HeapInv
  BY <1>3, Zenon DEF HeapInv, Init
<1>5. CountInv
  BY FS_EmptySet, Zenon DEF Init, CountInv, Stage
<1>6. IterInv
  BY Zenon DEF Init, IterInv, Idle, NoIter
<1> QED
  BY <1>1, <1>2, <1>4, <1>5, <1>6 DEF TInv

\* Every step of the table keeps the invariant.
LEMMA NextTInv ==
    ASSUME TInv, DeathsBetweenChanges, [Next]_vars
    PROVE TInv'
<1>1. CASE Next
  <2>1. PICK p \in Users :
          \/ \E k \in Keys, v \in Values, force \in BOOLEAN : st_table_new_element(p, k, v, force)
          \/ AddToTree(p)
          \/ AddVersion(p)
          \/ st_table_free_element(p)
          \/ \E k \in Keys : RemoveFromTree(p, k) \/ BeginGet(p, k)
          \/ RemoveVersion(p)
          \/ BeginRemoveAll(p)
          \/ st_table_remove_all_elements(p)
          \/ EndRemoveAll(p)
          \/ EndGet(p)
          \/ \E k \in Keys, side \in ExpectedSides :
              st_capi_init_iterator(p, k, side) \/ BeginForeach(p, k, side)
          \/ BeginNext(p)
          \/ EndNext(p)
          \/ st_capi_free_iterator(p)
          \/ st_capi_foreach_nolock(p)
          \/ EndForeach(p)
          \/ Die(p)
    BY <1>1, Zenon DEF Next
  <2>2. CASE \/ \E k \in Keys, v \in Values, force \in BOOLEAN : st_table_new_element(p, k, v, force)
             \/ AddToTree(p) \/ AddVersion(p) \/ st_table_free_element(p)
    BY <2>2, NewElementStep, AddToTreeStep, AddVersionStep, FreeElementStep, Zenon
  <2>3. CASE \/ \E k \in Keys : RemoveFromTree(p, k) \/ BeginGet(p, k)
             \/ RemoveVersion(p) \/ BeginRemoveAll(p) \/ st_table_remove_all_elements(p)
             \/ EndRemoveAll(p) \/ EndGet(p)
    BY <2>3, RemoveFromTreeStep, BeginGetStep, RemoveVersionStep, BeginRemoveAllStep,
       RemoveAllElementsStep, EndRemoveAllStep, EndGetStep, Zenon
  <2>4. CASE \/ \E k \in Keys, side \in ExpectedSides :
                  st_capi_init_iterator(p, k, side) \/ BeginForeach(p, k, side)
             \/ BeginNext(p) \/ EndNext(p) \/ st_capi_free_iterator(p)
             \/ st_capi_foreach_nolock(p) \/ EndForeach(p) \/ Die(p)
    BY <2>4, InitIteratorStep, BeginForeachStep, BeginNextStep, EndNextStep, FreeIteratorStep,
       ForeachStep, EndForeachStep, DieStep, Zenon
  <2> QED
    BY <2>1, <2>2, <2>3, <2>4
<1>2. CASE UNCHANGED vars
  <2>1. UNCHANGED <<heap, tree, version, element_cnt, lock, op, iter, dead>>
    BY <1>2, Zenon DEF vars
  <2>2. Elements' = Elements /\ (\A s : Stage(s)' = Stage(s)) /\ \A q \in Users : Pending(q)' = Pending(q)
    BY <2>1, Zenon DEF Elements, Stage, Pending
  <2>3. TypeOK' /\ LockInv'
    BY <2>1, Zenon DEF TInv, TypeOK, LockInv
  <2>4. HeapInv' /\ CountInv'
    <3>1. Elements \subseteq tree'
      BY <2>1, Zenon DEF TInv, HeapInv
    <3>2. HeapInv'
      BY <2>1, <2>2, <3>1, HeapKept DEF TInv
    <3>3. CountInv'
      BY <2>1, <2>2 DEF TInv, CountInv
    <3> QED
      BY <3>2, <3>3
  <2>5. IterInv'
    BY <2>1, <2>2 DEF TInv, IterInv, Modified
  <2> QED
    BY <2>3, <2>4, <2>5, Zenon DEF TInv
<1> QED
  BY <1>1, <1>2, Zenon

\* The invariant implies that nobody can follow a pointer to a freed element.
LEMMA TInvNoStale == TInv => NoStaleElement
<1> SUFFICES ASSUME TInv, ~Changing, NEW a \in Followed PROVE a \in tree /\ heap[a] # NULL
  BY Zenon DEF NoStaleElement
<1>1. Elements = tree /\ ~Stage("linked") /\ ~Stage("deleted")
  BY Zenon DEF Changing, Elements, Stage
<1>2. a \in tree
  <2>1. CASE a \in {op[p].elem : p \in {q \in Users \ dead : op[q].at \in {"get", "next"}}}
    BY <2>1, Zenon DEF TInv, IterInv
  <2>2. CASE a \in {iter[p].element : p \in {q \in Users : iter[q].open /\ ~Modified(iter[q])}} \ {NULL}
    BY <2>2, <1>1 DEF TInv, IterInv
  <2> QED
    BY <2>1, <2>2, Zenon DEF Followed
<1> QED
  BY <1>1, <1>2 DEF TInv, TypeOK, HeapInv

\* The invariant implies that the elements are accounted for.
LEMMA TInvAccounted == TInv => ElementsAccounted
<1> SUFFICES ASSUME TInv PROVE ElementsAccounted
  BY Zenon
<1> DEFINE pending == UNION {Pending(p) : p \in Users}
<1>1. \A a : a \in pending <=> \E p \in Users : a \in Pending(p)
  OBVIOUS
<1>2. Elements \subseteq Addrs /\ \A p \in Users : Pending(p) \subseteq Addrs
  BY Zenon DEF TInv, TypeOK, HeapInv, Pending
<1>3. pending \cap Elements = {} /\ {a \in Addrs : heap[a] # NULL} = Elements \cup pending
  <2> HIDE DEF pending
  <2> QED
    BY <1>1, <1>2 DEF TInv, HeapInv
<1>4. ~Changing => element_cnt = Cardinality(tree)
  BY Zenon DEF TInv, CountInv, Changing, Stage
<1> QED
  BY <1>3, <1>4 DEF TInv, HeapInv, ElementsAccounted

\* The invariant holds throughout, whatever processes do to the table, as long
\* as none dies with a change of the tree half done.
THEOREM TableInvariant ==
    ASSUME DeathsBetweenChanges
    PROVE Spec => []TInv
<1>1. Init => TInv
  BY InitTInv, Zenon
<1>2. TInv /\ [Next]_vars => TInv'
  BY NextTInv, Zenon
<1> QED
  BY <1>1, <1>2, PTL DEF Spec

\* st_capi_do_get, st_capi_next and st_capi_foreach never follow a pointer to an
\* element that was freed, for any number of processes, keys and addresses,
\* though elements are allocated and freed without the lock of the table.
THEOREM ElementsStayValid ==
    ASSUME DeathsBetweenChanges
    PROVE Spec => []NoStaleElement
  BY TableInvariant, TInvNoStale, PTL

\* No element of a table is lost or freed twice, no key has two elements, and
\* element_cnt counts them.
THEOREM ElementsAreAccounted ==
    ASSUME DeathsBetweenChanges
    PROVE Spec => []ElementsAccounted
  BY TableInvariant, TInvAccounted, PTL

=============================================================================
