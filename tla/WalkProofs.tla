----------------------------- MODULE WalkProofs -----------------------------
(***************************************************************************)
(* An iteration of a table visits each of its elements once, in the order  *)
(* of the keys, whatever the other users do to the table meanwhile.        *)
(***************************************************************************)
EXTENDS TableProofs

\* A finite set of contents with different keys can be put in their order.
LEMMA AscendingExists ==
    ASSUME NEW R, IsFiniteSet(R), \A r \in R : r.key \in Nat,
           \A q, r \in R : q.key = r.key => q = r
    PROVE \E s \in [1..Cardinality(R) -> R] : Ascending(s, Cardinality(R))
<1> DEFINE Orders(Q, n) == {s \in [1..n -> Q] : Ascending(s, n)}
           Bad == {n \in Nat : \E Q \in SUBSET R : Cardinality(Q) = n /\ Orders(Q, n) = {}}
<1>1. CASE Bad = {}
  <2>1. Cardinality(R) \in Nat
    BY FS_CardinalityType, Zenon
  <2>2. Orders(R, Cardinality(R)) # {}
    BY <1>1, <2>1, Zenon
  <2> QED
    BY <2>2, Zenon
<1>2. CASE Bad # {}
  <2>1. Bad \in SUBSET Nat
    BY Zenon
  <2>2. PICK n \in Bad : \A m \in Bad : n <= m
    <3> HIDE DEF Bad
    <3> QED
      BY <1>2, <2>1, LeastNatural
  <2>3. PICK Q \in SUBSET R : Cardinality(Q) = n /\ Orders(Q, n) = {}
    BY Zenon
  <2>4. n \in Nat /\ IsFiniteSet(Q)
    BY <2>1, FS_Subset
  <2>5. Q # {}
    <3>1. SUFFICES ASSUME Q = {} PROVE FALSE
      BY Zenon
    <3>2. n = 0
      BY <2>3, <3>1, FS_EmptySet, Zenon
    <3>3. [i \in 1..0 |-> 0] \in [1..0 -> {}]
      OBVIOUS
    <3>4. Ascending([i \in 1..0 |-> 0], 0)
      BY DEF Ascending
    <3> QED
      BY <2>3, <3>1, <3>2, <3>3, <3>4
  <2>6. PICK m \in Q : \A q \in Q : m.key <= q.key
    <3> DEFINE K == {q.key : q \in Q}
    <3>1. K \in SUBSET Nat /\ K # {}
      BY <2>5
    <3>2. PICK k \in K : \A l \in K : k <= l
      BY <3>1, LeastNatural
    <3> QED
      BY <3>2
  <2> DEFINE Q1 == Q \ {m}
  <2>7. Cardinality(Q1) = n - 1 /\ n - 1 \in Nat
    <3>1. Cardinality(Q1) = n - 1 /\ IsFiniteSet(Q1)
      BY <2>3, <2>4, FS_RemoveElement
    <3> QED
      BY <3>1, FS_CardinalityType, Zenon
  <2>8. PICK s \in [1..(n - 1) -> Q1] : Ascending(s, n - 1)
    <3>1. n - 1 \notin Bad
      BY <2>2, <2>4, <2>7
    <3>2. Q1 \in SUBSET R
      BY Zenon
    <3>3. Orders(Q1, n - 1) # {}
      BY <3>1, <3>2, <2>7, Zenon
    <3> QED
      BY <3>3, Zenon
  <2> DEFINE t == [i \in 1..n |-> IF i = 1 THEN m ELSE s[i - 1]]
  <2>9. t \in [1..n -> Q]
    <3>1. ASSUME NEW i \in 1..n PROVE t[i] \in Q
      <4>1. CASE i = 1
        BY <4>1, Zenon
      <4>2. CASE i # 1
        <5>1. i - 1 \in 1..(n - 1)
          BY <4>2, <2>4
        <5> QED
          BY <4>2, <5>1, <2>8
      <4> QED
        BY <4>1, <4>2, Zenon
    <3> QED
      BY <3>1, Zenon
  <2>10. Ascending(t, n)
    <3>1. ASSUME NEW i \in 1..n, NEW j \in 1..n, i < j PROVE t[i].key < t[j].key
      <4>1. j # 1 /\ j - 1 \in 1..(n - 1) /\ t[j] = s[j - 1] /\ s[j - 1] \in Q1
        BY <3>1, <2>4, <2>8
      <4>2. CASE i = 1
        <5>1. t[i] = m /\ m.key \in Nat /\ s[j - 1].key \in Nat
          BY <4>1, <4>2, Zenon
        <5>2. m.key <= s[j - 1].key /\ m.key # s[j - 1].key
          BY <4>1, <2>6
        <5> QED
          BY <4>1, <5>1, <5>2
      <4>3. CASE i # 1
        <5>1. i - 1 \in 1..(n - 1) /\ i - 1 < j - 1 /\ t[i] = s[i - 1]
          BY <4>1, <4>3, <3>1, <2>4
        <5> HIDE DEF t
        <5> QED
          BY <4>1, <5>1, <2>8 DEF Ascending
      <4> QED
        BY <4>2, <4>3, Zenon
    <3> HIDE DEF t
    <3> QED
      BY <3>1, Zenon DEF Ascending
  <2> QED
    BY <2>3, <2>9, <2>10
<1> QED
  BY <1>1, <1>2, Zenon

\* Outside a removal of all, every element of the tree is allocated, one of a key.
LEMMA TreeFacts ==
    ASSUME TInv, Elements = tree
    PROVE /\ Linked = tree /\ tree \subseteq Addrs /\ IsFiniteSet(tree) /\ NULL \notin tree
          /\ \A a \in tree : heap[a] \in Contents /\ heap[a].key \in Nat
          /\ \A a, b \in tree : heap[a].key = heap[b].key => a = b
<1>2. tree \subseteq Addrs /\ IsFiniteSet(tree) /\ NULL \notin tree
  BY TableAssumption, Zenon DEF TInv, TypeOK, CountInv
<1>3. \A a \in tree : heap[a] # NULL
  BY <1>2 DEF TInv, HeapInv
<1>4. \A a \in tree : heap[a] \in Contents /\ heap[a].key \in Nat
  BY <1>2, <1>3, TableAssumption DEF TInv, TypeOK, Contents
<1>5. \A a, b \in tree : heap[a].key = heap[b].key => a = b
  BY Zenon DEF TInv, HeapInv
<1> QED
  BY <1>2, <1>3, <1>4, <1>5, Zenon DEF Linked

\* What an iteration that begins at a has to visit: the elements from a on, in
\* their order.
LEMMA RestFacts ==
    ASSUME TInv, Lockable, NEW a \in tree \cup {NULL}
    PROVE /\ Rest(a) \in Seq(Contents)
          /\ Ascending(Rest(a), Len(Rest(a)))
          /\ a = NULL <=> Len(Rest(a)) = 0
          /\ a # NULL => heap[a] = Rest(a)[1]
          /\ \A i \in 1..Len(Rest(a)) : \E b \in tree : heap[b] = Rest(a)[i]
          /\ \A b \in tree : a # NULL /\ heap[b].key >= heap[a].key =>
                \E i \in 1..Len(Rest(a)) : heap[b] = Rest(a)[i]
<1> DEFINE from == {c \in Linked : a # NULL /\ heap[c].key >= heap[a].key}
           rest == {heap[b] : b \in from}
           n == Cardinality(rest)
           v == Rest(a)
<1>1. /\ Linked = tree /\ tree \subseteq Addrs /\ IsFiniteSet(tree) /\ NULL \notin tree
      /\ \A b \in tree : heap[b] \in Contents /\ heap[b].key \in Nat
      /\ \A b, c \in tree : heap[b].key = heap[c].key => b = c
  BY LockableFacts, TreeFacts, Zenon
<1>2. from \subseteq tree /\ IsFiniteSet(from)
  BY <1>1, FS_Subset
<1>3. IsFiniteSet(rest) /\ n \in Nat
  <2> DEFINE f == [b \in from |-> heap[b]]
  <2>1. f \in Surjection(from, rest)
    BY Zenon DEF Surjection
  <2> QED
    BY <1>2, <2>1, FS_Surjection, FS_CardinalityType
<1>4. /\ rest \subseteq Contents /\ \A r \in rest : r.key \in Nat
      /\ \A q, r \in rest : q.key = r.key => q = r
  BY <1>1, <1>2
<1>5. v \in [1..n -> rest] /\ Ascending(v, n)
  <2>1. \E s \in [1..n -> rest] : Ascending(s, n)
    <3> HIDE DEF rest
    <3> QED
      BY <1>3, <1>4, AscendingExists, Zenon
  <2>2. v = CHOOSE s \in [1..n -> rest] : \A i, j \in DOMAIN s : i < j => s[i].key < s[j].key
    BY Zenon DEF Rest
  <2>3. \E s \in [1..n -> rest] : \A i, j \in DOMAIN s : i < j => s[i].key < s[j].key
    <3> HIDE DEF rest, n
    <3> QED
      BY <2>1, Zenon DEF Ascending
  <2> HIDE DEF rest, n, v
  <2>4. v \in [1..n -> rest] /\ \A i, j \in DOMAIN v : i < j => v[i].key < v[j].key
    BY <2>2, <2>3, Zenon
  <2> QED
    BY <2>4, Zenon DEF Ascending
<1>6. v \in Seq(Contents) /\ Len(v) = n
  <2> HIDE DEF rest, n, v
  <2> QED
    BY <1>3, <1>4, <1>5
<1>7. \A r \in rest : \E i \in 1..n : r = v[i]
  <2>1. v \in Injection(1..n, rest)
    <3>1. ASSUME NEW i \in 1..n, NEW j \in 1..n, v[i] = v[j] PROVE i = j
      <4>1. v[i].key \in Nat /\ ~(v[i].key < v[j].key) /\ ~(v[j].key < v[i].key)
        <5> HIDE DEF rest, n, v
        <5> QED
          BY <1>4, <1>5, <3>1
      <4> HIDE DEF rest, n, v
      <4> QED
        BY <1>3, <1>5, <4>1 DEF Ascending
    <3> HIDE DEF rest, n, v
    <3> QED
      BY <1>5, <3>1, Zenon DEF Injection, IsInjective
  <2>2. Cardinality(1..n) = n
    BY <1>3, FS_Interval
  <2>3. v \in Surjection(1..n, rest)
    BY <1>3, <2>1, <2>2, FS_Injection, Zenon
  <2> HIDE DEF rest, n, v
  <2> QED
    BY <2>3, Zenon DEF Surjection
<1>8. ASSUME a # NULL PROVE n > 0 /\ heap[a] = v[1]
  <2>1. a \in from
    BY <1>1, <1>8
  <2>2. PICK i \in 1..n : heap[a] = v[i]
    BY <1>7, <2>1, Zenon
  <2>3. 1 \in 1..n /\ v[1] \in rest
    <3> HIDE DEF rest, n, v
    <3> QED
      BY <1>3, <1>5, <2>2
  <2>4. PICK b \in from : v[1] = heap[b]
    BY <2>3, Zenon
  <2>5. ~(heap[b].key < heap[a].key)
    BY <1>1, <1>2, <2>1, <2>4
  <2>6. i = 1
    <3>1. ~(1 < i)
      <4> HIDE DEF rest, n, v
      <4> QED
        BY <1>5, <2>2, <2>3, <2>4, <2>5, Zenon DEF Ascending
    <3> HIDE DEF rest, n, v
    <3> QED
      BY <2>2, <3>1
  <2> HIDE DEF rest, n, v
  <2> QED
    BY <1>3, <2>2, <2>3, <2>6
<1>9. a = NULL => n = 0
  <2>1. a = NULL => rest = {}
    BY Zenon
  <2> QED
    BY <2>1, FS_EmptySet, Zenon
<1>10. \A i \in 1..n : \E b \in tree : heap[b] = v[i]
  <2>1. \A i \in 1..n : v[i] \in rest
    <3> HIDE DEF rest, n, v
    <3> QED
      BY <1>5, Zenon
  <2> QED
    BY <1>2, <2>1, Zenon
<1>11. \A b \in tree : a # NULL /\ heap[b].key >= heap[a].key => \E i \in 1..n : heap[b] = v[i]
  BY <1>1, <1>7
<1> HIDE DEF from, rest, n, v
<1>12. a = NULL <=> n = 0
  BY <1>3, <1>8, <1>9
<1>13. Ascending(v, Len(v)) /\ (a # NULL => heap[a] = v[1])
  BY <1>5, <1>6, <1>8
<1> QED
  BY <1>6, <1>10, <1>11, <1>12, <1>13 DEF v

\* The step is none of the iteration of q: it goes on as before, or it will be
\* told ST_TABLE_MODIFIED, now or when the change is complete.
Undisturbed(q) ==
    /\ iter'[q] = iter[q] /\ walk'[q] = walk[q]
    /\ \A at \in {"next", "foreach"} : At(q, at)' <=> At(q, at)
    /\ At(q, "next") => op'[q] = op[q] /\ heap'[op[q].elem] = heap[op[q].elem]
    /\ \/ version' = version + 1 /\ ~At(q, "foreach")
       \/ version' = version /\ (Stage("linked")' \/ Stage("deleted")')
       \/ /\ version' = version /\ Elements' = Elements
          /\ Stage("linked")' <=> Stage("linked")
          /\ Stage("deleted")' <=> Stage("deleted")
          /\ \A a \in Elements : heap'[a] = heap[a]

\* Such an iteration stays where it should be.
LEMMA WalkOfUndisturbed ==
    ASSUME TInv, WalkInv, NEW q \in Users, Undisturbed(q)
    PROVE WalkOf(q)'
<1> SUFFICES ASSUME iter'[q].open
             PROVE /\ PassedInv(q)'
                   /\ ~Modified(iter[q])' /\ ~Stage("linked")' /\ ~Stage("deleted")' => AheadInv(q)'
  BY Zenon DEF WalkOf
<1>1. iter[q].open /\ iter'[q] = iter[q] /\ walk'[q] = walk[q]
  BY Zenon DEF Undisturbed
<1>2. Passed(q)' = Passed(q)
  BY <1>1, Zenon DEF Undisturbed, Passed
<1>3. PassedInv(q) /\ (~Modified(iter[q]) /\ ~Stage("linked") /\ ~Stage("deleted") => AheadInv(q))
  BY <1>1 DEF TInv, WalkInv, WalkOf
<1>4. /\ iter[q].table_version \in Nat /\ version \in Nat /\ iter[q].table_version <= version
  BY <1>1 DEF TInv, TypeOK, Iterators, IterInv
<1>5. version' = version + 1 => Modified(iter[q])'
  BY <1>1, <1>4 DEF Modified
<1>6. At(q, "foreach")' => ~Modified(iter[q])'
  BY <1>1, <1>3 DEF PassedInv, Undisturbed, Modified
<1>7. At(q, "next")' => heap'[op'[q].elem] = walk'[q].visit[Passed(q)']
  BY <1>1, <1>2, <1>3 DEF PassedInv, Undisturbed
<1>8. PassedInv(q)'
  BY <1>1, <1>2, <1>3, <1>6, <1>7, Zenon DEF PassedInv
<1>9. ASSUME ~Modified(iter[q])', ~Stage("linked")', ~Stage("deleted")' PROVE AheadInv(q)'
  <2>1. /\ version' = version /\ Elements' = Elements
        /\ ~Stage("linked") /\ ~Stage("deleted")
        /\ \A a \in Elements : heap'[a] = heap[a]
    BY <1>5, <1>9, Zenon DEF Undisturbed
  <2>2. AheadInv(q)
    BY <1>1, <1>3, <1>9, <2>1, Zenon DEF Modified
  <2> QED
    BY <1>1, <1>2, <2>1, <2>2 DEF AheadInv
<1> QED
  BY <1>8, <1>9, Zenon

\* An operation goes on that does not iterate.
LEMMA WalkAfterOp ==
    ASSUME TInv, WalkInv, NEW p \in Users, NEW x \in Operations, GoTo(p, x),
           op[p].at \notin {"next", "foreach"}, x.at \notin {"next", "foreach"},
           UNCHANGED <<iter, walk, dead>>,
           \/ /\ version' = version + 1
              /\ \A q \in Users \ dead : q # p => op[q].at \notin Holding
           \/ version' = version /\ heap' = heap /\ (Stage("linked")' \/ Stage("deleted")')
           \/ /\ version' = version /\ Elements' = Elements
              /\ Stage("linked")' <=> Stage("linked")
              /\ Stage("deleted")' <=> Stage("deleted")
              /\ \A a \in Elements : heap'[a] = heap[a]
    PROVE WalkInv'
<1>1. op'[p] = x /\ \A q \in Users : q # p => op'[q] = op[q]
  BY OpStep, Zenon DEF TInv
<1>2. ASSUME NEW q \in Users PROVE WalkOf(q)'
  <2>1. /\ iter'[q] = iter[q] /\ walk'[q] = walk[q]
        /\ \A at \in {"next", "foreach"} : At(q, at)' <=> At(q, at)
        /\ At(q, "next") => q # p /\ op'[q] = op[q]
    BY <1>1, Zenon DEF At
  <2>2. ASSUME version' = version + 1, \A r \in Users \ dead : r # p => op[r].at \notin Holding
        PROVE ~At(q, "foreach") /\ ~At(q, "next")
    BY <2>2 DEF At, Holding
  <2>3. At(q, "next") => op[q].elem \in Elements
    <3>1. At(q, "next") => Elements = tree
      BY HolderFacts DEF Holding
    <3>2. At(q, "next") => op[q].elem \in tree
      BY Zenon DEF At, TInv, IterInv
    <3> QED
      BY <3>1, <3>2
  <2>4. Undisturbed(q)
    BY <2>1, <2>2, <2>3 DEF Undisturbed
  <2> QED
    BY <2>4, WalkOfUndisturbed, Zenon
<1> QED
  BY <1>2, Zenon DEF TInv, WalkInv

\* While p reads, the iterations of the others go on as before.
LEMMA WalkOfOthers ==
    ASSUME TInv, WalkInv, NEW p \in Users, UNCHANGED <<heap, version>>, Elements' = Elements,
           \A s \in Changes : ~Stage(s) /\ ~Stage(s)',
           \A q \in Users : q # p =>
               /\ op'[q] = op[q] /\ iter'[q] = iter[q] /\ walk'[q] = walk[q]
               /\ q \in dead' <=> q \in dead
    PROVE \A q \in Users : q # p => WalkOf(q)'
<1> SUFFICES ASSUME NEW q \in Users, q # p PROVE WalkOf(q)'
  BY Zenon
<1>1. \A at : At(q, at)' <=> At(q, at)
  BY Zenon DEF At
<1>2. Undisturbed(q)
  BY <1>1 DEF Undisturbed, Changes
<1> QED
  BY <1>2, WalkOfUndisturbed, Zenon

\* An iteration begins at element a, or has nothing to visit.
LEMMA WalkBegins ==
    ASSUME TInv, WalkInv, NEW p \in Users \ dead, NEW a \in tree \cup {NULL}, Lockable,
           UNCHANGED <<heap, version, dead>>, Elements' = tree,
           \A s \in Changes : ~Stage(s)',
           op'[p].at # "next",
           iter'[p].element = a, iter'[p].table_version = version,
           BeginWalk(p, a),
           \A q \in Users : q # p => op'[q] = op[q] /\ iter'[q] = iter[q]
    PROVE WalkInv'
<1> DEFINE v == Rest(a)
<1>1. /\ v \in Seq(Contents)
      /\ Ascending(v, Len(v))
      /\ a = NULL <=> Len(v) = 0
      /\ a # NULL => heap[a] = v[1]
      /\ \A i \in 1..Len(v) : \E b \in tree : heap[b] = v[i]
      /\ \A b \in tree : a # NULL /\ heap[b].key >= heap[a].key => \E i \in 1..Len(v) : heap[b] = v[i]
  BY RestFacts
<1> HIDE DEF v
<1>2. /\ walk' \in [Users -> [visit : Seq(Contents), visited : Seq(Contents \cup {NULL})]]
      /\ walk'[p].visit = v /\ walk'[p].visited = <<>>
      /\ \A q \in Users : q # p => walk'[q] = walk[q]
  <2>1. walk \in [Users -> [visit : Seq(Contents), visited : Seq(Contents \cup {NULL})]]
    BY Zenon DEF TInv, WalkInv
  <2>2. walk' = [walk EXCEPT ![p] = [visit |-> v, visited |-> <<>>]]
    BY Zenon DEF BeginWalk, v
  <2>3. <<>> \in Seq(Contents \cup {NULL})
    OBVIOUS
  <2> QED
    BY <1>1, <2>1, <2>2, <2>3, Zenon
<1>3. Elements = tree /\ \A s \in Changes : ~Stage(s)
  BY LockableFacts, Zenon
<1>4. \A q \in Users : q # p => WalkOf(q)'
  BY <1>2, <1>3, WalkOfOthers, Zenon
<1>5. Passed(p)' = 0
  BY <1>2 DEF Passed, At
<1>6. Len(v) \in Nat
  BY <1>1
<1>7. PassedInv(p)'
  BY <1>1, <1>2, <1>5, <1>6 DEF PassedInv, Modified, At
<1>8. AheadInv(p)'
  <2>1. (Passed(p)' + 1)..Len(v) = 1..Len(v) /\ Passed(p)' + 1 = 1
    BY <1>5
  <2>2. a = NULL <=> Passed(p)' = Len(v)
    BY <1>1, <1>5, Zenon
  <2> QED
    BY <1>1, <1>2, <2>1, <2>2 DEF AheadInv
<1> QED
  BY <1>2, <1>4, <1>7, <1>8 DEF WalkInv, WalkOf

\* How far an iteration has come is a number.
LEMMA PassedType ==
    ASSUME TInv, WalkInv, NEW p \in Users
    PROVE /\ Passed(p) = IF At(p, "next") THEN Len(walk[p].visited) + 1 ELSE Len(walk[p].visited)
          /\ Passed(p) \in Nat
<1>1. Len(walk[p].visited) \in Nat
  BY DEF TInv, WalkInv
<1>2. CASE At(p, "next")
  <2>1. Passed(p) = Len(walk[p].visited) + 1
    BY <1>2, Zenon DEF Passed
  <2> QED
    BY <1>1, <1>2, <2>1
<1>3. CASE ~At(p, "next")
  <2>1. Passed(p) = Len(walk[p].visited) + 0
    BY <1>3, Zenon DEF Passed
  <2>2. Passed(p) = Len(walk[p].visited)
    BY <1>1, <2>1
  <2> QED
    BY <1>1, <1>3, <2>2
<1> QED
  BY <1>2, <1>3, Zenon

\* The element after the one an iterator is at is the next it has to visit.
LEMMA AheadAdvances ==
    ASSUME TInv, WalkInv, NEW p \in Users, iter[p].open, iter[p].element # NULL, ~Modified(iter[p]),
           Elements = tree, \A s \in Changes : ~Stage(s)
    PROVE LET visit == walk[p].visit
              n == Passed(p) + 1
              e == NextElement(iter[p].element)
          IN  /\ n \in 1..Len(visit) /\ heap[iter[p].element] = visit[n]
              /\ e = NULL <=> n = Len(visit)
              /\ e # NULL => e \in tree /\ heap[e] = visit[n + 1]
              /\ \A i \in (n + 1)..Len(visit) : \E a \in tree : heap[a] = visit[i]
              /\ \A a \in tree : e # NULL /\ heap[a].key >= heap[e].key =>
                    \E i \in (n + 1)..Len(visit) : heap[a] = visit[i]
<1> DEFINE visit == walk[p].visit
           n == Passed(p) + 1
           cur == iter[p].element
           e == NextElement(cur)
           after == {b \in tree : heap[b].key > heap[cur].key}
<1>1. /\ Linked = tree /\ NULL \notin tree
      /\ \A a \in tree : heap[a] \in Contents /\ heap[a].key \in Nat
  BY TreeFacts, Zenon
<1>2. PassedInv(p) /\ AheadInv(p)
  BY Zenon DEF TInv, WalkInv, WalkOf, Changes
<1>3. Len(visit) \in Nat /\ Len(walk[p].visited) \in Nat
  BY DEF TInv, WalkInv
<1>4. Passed(p) \in Nat
  BY PassedType, Zenon
<1>5. /\ Ascending(visit, Len(visit)) /\ Passed(p) <= Len(visit)
      /\ Passed(p) # Len(visit) /\ cur \in tree /\ heap[cur] = visit[n]
      /\ \A i \in n..Len(visit) : \E a \in tree : heap[a] = visit[i]
      /\ \A a \in tree : heap[a].key >= heap[cur].key => \E i \in n..Len(visit) : heap[a] = visit[i]
  BY <1>2, Zenon DEF PassedInv, AheadInv
<1>6. n \in 1..Len(visit) /\ n \in Nat
  BY <1>3, <1>4, <1>5
<1>7. e = LeftMost(after)
  BY <1>1, Zenon DEF NextElement
<1> HIDE DEF visit, n, cur, e
<1>8. \A a \in tree : heap[a].key > heap[cur].key => \E i \in (n + 1)..Len(visit) : heap[a] = visit[i]
  <2> SUFFICES ASSUME NEW a \in tree, heap[a].key > heap[cur].key
               PROVE \E i \in (n + 1)..Len(visit) : heap[a] = visit[i]
    BY Zenon
  <2>1. heap[a].key \in Nat /\ heap[cur].key \in Nat
    BY <1>1, <1>5, Zenon
  <2>2. PICK i \in n..Len(visit) : heap[a] = visit[i]
    BY <1>5, <2>1
  <2>3. i # n
    BY <1>5, <2>1, <2>2
  <2>4. i \in (n + 1)..Len(visit)
    BY <1>3, <1>6, <2>2, <2>3
  <2> QED
    BY <2>2, <2>4, Zenon
<1>9. \A i \in (n + 1)..Len(visit) : \E a \in after : heap[a] = visit[i]
  <2> SUFFICES ASSUME NEW i \in (n + 1)..Len(visit) PROVE \E a \in after : heap[a] = visit[i]
    BY Zenon
  <2>1. i \in n..Len(visit) /\ i \in 1..Len(visit) /\ n < i
    BY <1>3, <1>6
  <2>2. PICK a \in tree : heap[a] = visit[i]
    BY <1>5, <2>1, Zenon
  <2>3. visit[n].key < visit[i].key
    BY <1>5, <1>6, <2>1 DEF Ascending
  <2>4. heap[a].key \in Nat /\ heap[cur].key \in Nat
    BY <1>1, <1>5
  <2> QED
    BY <1>5, <2>2, <2>3, <2>4
<1>10. CASE after = {}
  <2>1. e = NULL
    BY <1>7, <1>10, Zenon DEF LeftMost
  <2>2. ~(n + 1 \in (n + 1)..Len(visit))
    BY <1>9, <1>10
  <2>3. n = Len(visit)
    BY <1>3, <1>6, <2>2
  <2>4. (n + 1)..Len(visit) = {}
    BY <1>3, <2>3
  <2> QED
    BY <1>5, <1>6, <2>1, <2>3, <2>4 DEF visit, n, cur, e
<1>11. CASE after # {}
  <2>1. e \in after /\ \A b \in after : heap[e].key <= heap[b].key
    <3>1. after \in SUBSET Linked
      BY <1>1, Zenon
    <3> HIDE DEF after
    <3> QED
      BY <1>7, <1>11, <3>1, LeftMostIsLeast DEF TInv
  <2>2. e \in tree /\ e # NULL /\ heap[e].key > heap[cur].key
    BY <1>1, <2>1
  <2>3. PICK i \in (n + 1)..Len(visit) : heap[e] = visit[i]
    BY <1>8, <2>2
  <2>4. n + 1 \in (n + 1)..Len(visit) /\ n + 1 \in 1..Len(visit) /\ i \in 1..Len(visit)
    BY <1>3, <1>6, <2>3
  <2>5. PICK b \in after : heap[b] = visit[n + 1]
    BY <1>9, <2>4
  <2>6. ~(visit[n + 1].key < visit[i].key)
    <3>1. heap[e].key <= heap[b].key /\ heap[e].key \in Nat /\ heap[b].key \in Nat
      BY <1>1, <2>1, <2>2, <2>5
    <3> QED
      BY <2>3, <2>5, <3>1
  <2>7. i = n + 1
    <3>1. ~(n + 1 < i)
      BY <1>5, <2>4, <2>6 DEF Ascending
    <3> QED
      BY <1>3, <1>6, <2>3, <3>1
  <2>8. n # Len(visit)
    BY <1>3, <1>6, <2>4
  <2>9. \A a \in tree : heap[a].key >= heap[e].key => heap[a].key > heap[cur].key
    BY <1>1, <1>5, <2>2
  <2>10. \A a \in tree : heap[a].key >= heap[e].key => \E j \in (n + 1)..Len(visit) : heap[a] = visit[j]
    BY <1>8, <2>9, Zenon
  <2>11. \A j \in (n + 1)..Len(visit) : \E a \in tree : heap[a] = visit[j]
    BY <1>9, Zenon
  <2> QED
    BY <1>5, <1>6, <2>2, <2>3, <2>7, <2>8, <2>10, <2>11 DEF visit, n, cur, e
<1> QED
  BY <1>10, <1>11, Zenon

\* st_capi_next has moved its iterator on, and will copy the element it was at.
LEMMA WalkAtNext ==
    ASSUME TInv, WalkInv, NEW p \in Users \ dead, iter[p].open, iter[p].element # NULL, ~Modified(iter[p]),
           op[p].at = "idle", op'[p].at = "next", op'[p].elem = iter[p].element,
           UNCHANGED <<heap, tree, version, walk, dead>>, Elements = tree, Elements' = tree,
           \A s \in Changes : ~Stage(s) /\ ~Stage(s)',
           iter' = [iter EXCEPT ![p] = Advanced(@)],
           \A q \in Users : q # p => op'[q] = op[q]
    PROVE WalkInv'
<1> DEFINE visit == walk[p].visit
           n == Passed(p) + 1
           e == NextElement(iter[p].element)
<1>1. /\ n \in 1..Len(visit) /\ heap[iter[p].element] = visit[n]
      /\ e = NULL <=> n = Len(visit)
      /\ e # NULL => e \in tree /\ heap[e] = visit[n + 1]
      /\ \A i \in (n + 1)..Len(visit) : \E a \in tree : heap[a] = visit[i]
      /\ \A a \in tree : e # NULL /\ heap[a].key >= heap[e].key =>
            \E i \in (n + 1)..Len(visit) : heap[a] = visit[i]
  BY AheadAdvances
<1>2. iter'[p].element = e /\ \A q \in Users : q # p => iter'[q] = iter[q]
  BY DEF TInv, TypeOK, Iterators, Advanced
<1>3. Passed(p)' = n
  <2>1. ~At(p, "next") /\ At(p, "next")'
    BY Zenon DEF At
  <2>2. Passed(p) = Len(walk[p].visited)
    BY <2>1, PassedType, Zenon
  <2> QED
    BY <2>1, <2>2, Zenon DEF Passed
<1> HIDE DEF n, e, visit
<1>4. PassedInv(p)'
  <2>1. PassedInv(p)
    BY Zenon DEF TInv, WalkInv, WalkOf
  <2>2. n <= Len(visit)
    BY <1>1
  <2> QED
    BY <1>1, <1>3, <2>1, <2>2 DEF PassedInv, At, visit
<1>5. AheadInv(p)'
  BY <1>1, <1>2, <1>3 DEF AheadInv, visit
<1>6. \A q \in Users : q # p => WalkOf(q)'
  BY <1>2, WalkOfOthers, Zenon
<1> QED
  BY <1>4, <1>5, <1>6, Zenon DEF TInv, WalkInv, WalkOf

\* st_capi_next has copied the element, or has not been able to.
LEMMA WalkAfterNext ==
    ASSUME TInv, WalkInv, NEW p \in Users \ dead, op[p].at = "next", op'[p].at = "idle",
           \E got \in {heap[op[p].elem], NULL} : Visit(p, got),
           UNCHANGED <<heap, tree, version, iter, dead>>, Elements = tree, Elements' = tree,
           \A s \in Changes : ~Stage(s) /\ ~Stage(s)',
           \A q \in Users : q # p => op'[q] = op[q]
    PROVE WalkInv'
<1>1. PICK got \in {heap[op[p].elem], NULL} : Visit(p, got)
  BY Zenon
<1>2. got \in Contents \cup {NULL}
  <2>1. op[p].elem \in tree
    BY Zenon DEF TInv, IterInv
  <2> QED
    BY <1>1, <2>1, TreeFacts
<1> DEFINE visited == walk[p].visited
<1>3. visited \in Seq(Contents \cup {NULL}) /\ Len(visited) \in Nat
  BY DEF TInv, WalkInv
<1>4. /\ walk' \in [Users -> [visit : Seq(Contents), visited : Seq(Contents \cup {NULL})]]
      /\ walk'[p].visit = walk[p].visit /\ walk'[p].visited = Append(visited, got)
      /\ \A q \in Users : q # p => walk'[q] = walk[q]
  <2>1. Append(visited, got) \in Seq(Contents \cup {NULL})
    BY <1>2, <1>3
  <2>2. walk' = [walk EXCEPT ![p].visited = Append(visited, got)]
    BY <1>1, Zenon DEF Visit, TInv, WalkInv
  <2> QED
    BY <2>1, <2>2, Zenon DEF TInv, WalkInv
<1> HIDE DEF visited
<1>5. /\ Len(Append(visited, got)) = Len(visited) + 1
      /\ \A i \in 1..Len(visited) : Append(visited, got)[i] = visited[i]
      /\ Append(visited, got)[Len(visited) + 1] = got
  BY <1>2, <1>3
<1>6. Passed(p) = Len(visited) + 1 /\ Passed(p)' = Passed(p)
  <2>1. At(p, "next") /\ ~At(p, "next")'
    BY Zenon DEF At
  <2>2. Passed(p) = Len(visited) + 1
    BY <2>1, PassedType, Zenon DEF visited
  <2> QED
    BY <1>4, <1>5, <2>1, <2>2, <1>3 DEF Passed
<1>7. ASSUME iter[p].open PROVE PassedInv(p)'
  <2>1. PassedInv(p)
    BY <1>7, Zenon DEF TInv, WalkInv, WalkOf
  <2>2. ASSUME NEW i \in 1..(Len(visited) + 1)
        PROVE Append(visited, got)[i] \in {walk[p].visit[i], NULL}
    <3>1. CASE i = Len(visited) + 1
      BY <3>1, <1>1, <1>5, <1>6, <2>1 DEF PassedInv, At
    <3>2. CASE i # Len(visited) + 1
      <4>1. i \in 1..Len(visited)
        BY <3>2, <1>3
      <4> QED
        BY <4>1, <1>5, <2>1 DEF PassedInv, visited
    <3> QED
      BY <3>1, <3>2
  <2> QED
    BY <1>4, <1>5, <1>6, <2>1, <2>2, Zenon DEF PassedInv, At
<1>8. ASSUME iter[p].open, ~Modified(iter[p])' PROVE AheadInv(p)'
  <2>1. AheadInv(p)
    BY <1>8, Zenon DEF TInv, WalkInv, WalkOf, Modified, Changes
  <2> QED
    BY <2>1, <1>4, <1>6 DEF AheadInv
<1>9. \A q \in Users : q # p => WalkOf(q)'
  BY <1>4, WalkOfOthers
<1> QED
  BY <1>4, <1>7, <1>8, <1>9 DEF WalkInv, WalkOf

\* st_capi_foreach has called back with an element, and its iterator has moved on.
LEMMA WalkInForeach ==
    ASSUME TInv, WalkInv, NEW p \in Users \ dead, iter[p].open, iter[p].element # NULL, ~Modified(iter[p]),
           op[p].at = "foreach", Visit(p, heap[iter[p].element]),
           UNCHANGED <<heap, tree, version, op, dead>>, Elements = tree, Elements' = tree,
           \A s \in Changes : ~Stage(s) /\ ~Stage(s)',
           iter' = [iter EXCEPT ![p] = Advanced(@)]
    PROVE WalkInv'
<1> DEFINE visit == walk[p].visit
           visited == walk[p].visited
           n == Passed(p) + 1
           got == heap[iter[p].element]
           e == NextElement(iter[p].element)
<1>1. /\ n \in 1..Len(visit) /\ got = visit[n]
      /\ e = NULL <=> n = Len(visit)
      /\ e # NULL => e \in tree /\ heap[e] = visit[n + 1]
      /\ \A i \in (n + 1)..Len(visit) : \E a \in tree : heap[a] = visit[i]
      /\ \A a \in tree : e # NULL /\ heap[a].key >= heap[e].key =>
            \E i \in (n + 1)..Len(visit) : heap[a] = visit[i]
  BY AheadAdvances
<1>2. iter'[p].element = e /\ \A q \in Users : q # p => iter'[q] = iter[q]
  BY Zenon DEF TInv, TypeOK, Iterators, Advanced
<1>3. /\ visited \in Seq(Contents \cup {NULL}) /\ Len(visited) \in Nat
      /\ visit \in Seq(Contents) /\ Len(visit) \in Nat
  BY DEF TInv, WalkInv
<1>4. got \in Contents \cup {NULL}
  BY <1>1, <1>3
<1>5. /\ walk' \in [Users -> [visit : Seq(Contents), visited : Seq(Contents \cup {NULL})]]
      /\ walk'[p].visit = visit /\ walk'[p].visited = Append(visited, got)
      /\ \A q \in Users : q # p => walk'[q] = walk[q]
  <2>1. Append(visited, got) \in Seq(Contents \cup {NULL})
    BY <1>3, <1>4
  <2>2. walk' = [walk EXCEPT ![p].visited = Append(visited, got)]
    BY Zenon DEF Visit, TInv, WalkInv
  <2> HIDE DEF got
  <2> QED
    BY <2>1, <2>2 DEF TInv, WalkInv
<1>6. Passed(p) = Len(visited) /\ ~At(p, "next") /\ ~At(p, "next")'
  BY PassedType, Zenon DEF At
<1> HIDE DEF visit, visited, got, e
<1>7. /\ Len(Append(visited, got)) = Len(visited) + 1
      /\ \A i \in 1..Len(visited) : Append(visited, got)[i] = visited[i]
      /\ Append(visited, got)[Len(visited) + 1] = got
  BY <1>3, <1>4
<1>8. Passed(p)' = n /\ n = Len(visited) + 1
  <2>1. Passed(p)' = Len(walk'[p].visited) + 0
    BY <1>6, Zenon DEF Passed
  <2> QED
    BY <1>3, <1>5, <1>6, <1>7, <2>1
<1> HIDE DEF n
<1>9. PassedInv(p)'
  <2>1. PassedInv(p)
    BY Zenon DEF TInv, WalkInv, WalkOf
  <2>2. ASSUME NEW i \in 1..n PROVE Append(visited, got)[i] \in {visit[i], NULL}
    <3>1. CASE i = n
      BY <3>1, <1>1, <1>7, <1>8
    <3>2. CASE i # n
      <4>1. i \in 1..Len(visited)
        BY <3>2, <1>3, <1>8
      <4> QED
        BY <4>1, <1>7, <2>1 DEF PassedInv, visited, visit
    <3> QED
      BY <3>1, <3>2
  <2>3. n <= Len(visit) /\ Ascending(visit, Len(visit))
    BY <1>1, <2>1 DEF PassedInv, visit
  <2>4. ~Modified(iter[p])'
    BY Zenon DEF Modified, Advanced, TInv, TypeOK, Iterators
  <2> QED
    BY <1>5, <1>6, <1>7, <1>8, <2>2, <2>3, <2>4, Zenon DEF PassedInv
<1>10. AheadInv(p)'
  <2>1. /\ walk'[p].visit[Passed(p)' + 1] = visit[n + 1]
        /\ (iter'[p].element = NULL) <=> (Passed(p)' = Len(walk'[p].visit))
    BY <1>1, <1>2, <1>5, <1>8, Zenon
  <2>3. walk'[p].visit = visit /\ heap' = heap /\ Elements' = tree
    BY <1>5, Zenon
  <2>4. iter'[p].element # NULL =>
            /\ iter'[p].element \in Elements'
            /\ heap'[iter'[p].element] = walk'[p].visit[Passed(p)' + 1]
    BY <1>1, <1>2, <2>1, <2>3
  <2>5. ASSUME NEW i \in (Passed(p)' + 1)..Len(walk'[p].visit)
        PROVE \E a \in Elements' : heap'[a] = walk'[p].visit[i]
    <3>1. i \in (n + 1)..Len(visit)
      BY <1>8, <2>3, Zenon
    <3> QED
      BY <3>1, <1>1, <2>3
  <2>6. ASSUME NEW a \in Elements', iter'[p].element # NULL,
               heap'[a].key >= heap'[iter'[p].element].key
        PROVE \E i \in (Passed(p)' + 1)..Len(walk'[p].visit) : heap'[a] = walk'[p].visit[i]
    <3>1. PICK i \in (n + 1)..Len(visit) : heap[a] = visit[i]
      BY <1>1, <1>2, <2>3, <2>6
    <3>2. i \in (Passed(p)' + 1)..Len(walk'[p].visit)
      BY <3>1, <1>8, <2>3
    <3> QED
      BY <3>1, <3>2, <2>3, Zenon
  <2> QED
    BY <2>1, <2>4, <2>5, <2>6, Zenon DEF AheadInv
<1>11. \A q \in Users : q # p => WalkOf(q)'
  BY <1>2, <1>5, WalkOfOthers
<1> QED
  BY <1>5, <1>9, <1>10, <1>11 DEF WalkInv, WalkOf

\* An iterator is closed.
LEMMA WalkEnds ==
    ASSUME TInv, WalkInv, NEW p \in Users, ~iter'[p].open, walk' = [walk EXCEPT ![p] = NoWalk],
           UNCHANGED <<heap, version>>, Elements' = Elements,
           \A s \in Changes : Stage(s)' <=> Stage(s),
           \A q \in Users : q # p =>
               op'[q] = op[q] /\ iter'[q] = iter[q] /\ (q \in dead' <=> q \in dead)
    PROVE WalkInv'
<1>1. NoWalk \in [visit : Seq(Contents), visited : Seq(Contents \cup {NULL})]
  <2>1. <<>> \in Seq(Contents) /\ <<>> \in Seq(Contents \cup {NULL})
    OBVIOUS
  <2> QED
    BY <2>1, Zenon DEF NoWalk
<1>2. /\ walk' \in [Users -> [visit : Seq(Contents), visited : Seq(Contents \cup {NULL})]]
      /\ \A q \in Users : q # p => walk'[q] = walk[q]
  BY <1>1, Zenon DEF TInv, WalkInv
<1>3. ASSUME NEW q \in Users PROVE WalkOf(q)'
  <2>1. CASE q = p
    BY <2>1, Zenon DEF WalkOf
  <2>2. CASE q # p
    <3>1. \A at : At(q, at)' <=> At(q, at)
      BY <2>2, Zenon DEF At
    <3>2. Undisturbed(q)
      BY <1>2, <2>2, <3>1 DEF Undisturbed, Changes
    <3> QED
      BY <3>2, WalkOfUndisturbed
  <2> QED
    BY <2>1, <2>2
<1> QED
  BY <1>2, <1>3 DEF WalkInv

\* The invariant implies that iterations are exact.
LEMMA WalkInvExact == TInv /\ WalkInv => IterationIsExact
<1> SUFFICES ASSUME TInv, WalkInv, NEW p \in Users, iter[p].open
             PROVE LET visit == walk[p].visit
                       copying == IF At(p, "next") THEN 1 ELSE 0
                       done == Len(walk[p].visited)
                       left == done + copying + 1
                   IN /\ done + copying <= Len(visit)
                      /\ \A i \in 1..done : walk[p].visited[i] \in {visit[i], NULL}
                      /\ At(p, "foreach") => ~Modified(iter[p])
                      /\ (~Modified(iter[p]) /\ ~Changing) =>
                           IF left > Len(visit) THEN iter[p].element = NULL
                           ELSE iter[p].element # NULL /\ heap[iter[p].element] = visit[left]
  BY Zenon DEF IterationIsExact
<1> DEFINE visit == walk[p].visit
<1>1. PassedInv(p) /\ (~Modified(iter[p]) /\ ~Changing => AheadInv(p))
  BY Zenon DEF TInv, WalkInv, WalkOf, Changing, Stage
<1>2. Passed(p) \in Nat /\ Len(visit) \in Nat
  BY PassedType DEF TInv, WalkInv
<1>3. Passed(p) = Len(walk[p].visited) + (IF At(p, "next") THEN 1 ELSE 0)
  BY Zenon DEF Passed
<1>4. ASSUME ~Modified(iter[p]), ~Changing
      PROVE IF Passed(p) + 1 > Len(visit) THEN iter[p].element = NULL
            ELSE iter[p].element # NULL /\ heap[iter[p].element] = visit[Passed(p) + 1]
  <2>1. Passed(p) + 1 > Len(visit) <=> Passed(p) = Len(visit)
    BY <1>1, <1>2 DEF PassedInv
  <2> QED
    BY <1>1, <1>4, <2>1, Zenon DEF AheadInv
<1> QED
  BY <1>1, <1>3, <1>4 DEF PassedInv

\* The steps of operations that change the table.
LEMMA WalkChangeSteps ==
    ASSUME TInv, WalkInv, NEW p \in Users
    PROVE /\ \A k \in Keys, v \in Values, force \in BOOLEAN :
                st_table_new_element(p, k, v, force) => WalkInv'
          /\ AddToTree(p) => WalkInv'
          /\ AddVersion(p) => WalkInv'
          /\ st_table_free_element(p) => WalkInv'
          /\ \A k \in Keys : RemoveFromTree(p, k) => WalkInv'
          /\ RemoveVersion(p) => WalkInv'
<1>0. dead \subseteq Users /\ op \in [Users -> Operations]
  BY TableAssumption, Zenon DEF TInv, TypeOK
<1>1. ASSUME NEW k \in Keys, NEW v \in Values, NEW force \in BOOLEAN,
             st_table_new_element(p, k, v, force)
      PROVE WalkInv'
  <2>1. PICK a \in Addrs :
          /\ heap[a] = NULL
          /\ heap' = [heap EXCEPT ![a] = [key |-> k, value |-> v]]
          /\ GoTo(p, [at |-> "new", elem |-> a, force |-> force])
    BY <1>1, Zenon DEF st_table_new_element
  <2> DEFINE x == [at |-> "new", elem |-> a, force |-> force]
  <2>2. x \in Operations /\ x.at = "new" /\ GoTo(p, x) /\ p \notin dead /\ op[p].at = "idle"
    BY <1>1, <2>1 DEF Operations, st_table_new_element, At
  <2> HIDE DEF x
  <2>3. UNCHANGED <<tree, version, lock, iter, walk, dead>>
    BY <1>1, Zenon DEF st_table_new_element
  <2>4. op'[p] = x /\ \A q \in Users : q # p => op'[q] = op[q]
    BY <2>2, OpStep DEF TInv
  <2>5. lock # p
    BY <2>2, TableAssumption DEF TInv, LockInv, Holding, Changes
  <2>6. Elements' = Elements /\ \A s : Stage(s)' <=> Stage(s)
    BY <2>3, <2>4, <2>5 DEF Elements, Stage, TInv, TypeOK
  <2>7. a \notin Elements /\ Elements \subseteq Addrs
    BY <2>1 DEF TInv, TypeOK, HeapInv
  <2>8. \A b \in Elements : heap'[b] = heap[b]
    BY <2>1, <2>7 DEF TInv, TypeOK
  <2> QED
    BY <2>2, <2>3, <2>6, <2>8, WalkAfterOp
<1>2. ASSUME AddToTree(p) PROVE WalkInv'
  <2> DEFINE new == op[p].elem
             existed == st_table_get_element(heap[new].key)
  <2>1. /\ p \notin dead /\ op[p].at = "new" /\ Lockable
        /\ UNCHANGED <<heap, version, iter, walk, dead>>
    BY <1>2 DEF AddToTree, At
  <2>2. new \in Addrs /\ existed \subseteq Addrs
    BY <2>1, <1>0 DEF Operations, st_table_get_element, TInv, TypeOK
  <2>3. Elements = tree /\ \A s \in Changes : ~Stage(s)
    BY <2>1, LockableFacts
  <2>4. CASE lock' = p /\ \E s \in {{}, existed} : GoTo(p, [at |-> "linked", existed_elem |-> s])
    <3>1. PICK s \in {{}, existed} : GoTo(p, [at |-> "linked", existed_elem |-> s])
      BY <2>4, Zenon
    <3> DEFINE x == [at |-> "linked", existed_elem |-> s]
    <3>2. x \in Operations /\ x.at = "linked" /\ GoTo(p, x)
      BY <3>1, <2>2 DEF Operations
    <3> HIDE DEF x
    <3>3. Stage("linked")'
      BY <2>4, <3>2, OpStep, TableAssumption DEF TInv, Stage
    <3> QED
      BY <2>1, <3>2, <3>3, WalkAfterOp
  <2>5. CASE lock' = NULL /\ GiveUp(p, new) /\ UNCHANGED tree
    <3> DEFINE x == [at |-> "free", elem |-> new]
    <3>1. x \in Operations /\ x.at = "free" /\ GoTo(p, x)
      BY <2>2, <2>5 DEF Operations, GiveUp
    <3> HIDE DEF x
    <3>2. Elements' = Elements /\ \A s \in Changes : ~Stage(s)'
      BY <2>3, <2>5 DEF Elements, Stage
    <3> QED
      BY <2>1, <2>3, <3>1, <3>2, WalkAfterOp DEF Changes
  <2> QED
    BY <1>2, <2>4, <2>5 DEF AddToTree
<1>3. ASSUME AddVersion(p) PROVE WalkInv'
  <2>1. /\ op[p].at = "linked" /\ At(p, "linked") /\ "linked" \in Holding
        /\ version' = version + 1 /\ UNCHANGED <<iter, walk, dead>>
    BY <1>3, Zenon DEF AddVersion, At, Holding, Changes
  <2>2. \A q \in Users \ dead : q # p => op[q].at \notin Holding
    BY <2>1, HolderFacts
  <2>3. CASE GoTo(p, Idle)
    <3>1. Idle \in Operations /\ Idle.at = "idle"
      BY Zenon DEF Idle, Operations
    <3> QED
      BY <2>1, <2>2, <2>3, <3>1, WalkAfterOp
  <2>4. CASE \E e \in op[p].existed_elem : GoTo(p, [at |-> "free", elem |-> e])
    <3>1. PICK e \in op[p].existed_elem : GoTo(p, [at |-> "free", elem |-> e])
      BY <2>4, Zenon
    <3> DEFINE x == [at |-> "free", elem |-> e]
    <3>2. e \in Addrs
      BY <1>0, <2>1 DEF Operations
    <3>3. x \in Operations /\ x.at = "free" /\ GoTo(p, x)
      BY <3>1, <3>2 DEF Operations
    <3> HIDE DEF x
    <3> QED
      BY <2>1, <2>2, <3>3, WalkAfterOp
  <2> QED
    BY <1>3, <2>3, <2>4 DEF AddVersion
<1>4. ASSUME st_table_free_element(p) PROVE WalkInv'
  <2> DEFINE a == op[p].elem
  <2>1. /\ p \notin dead /\ op[p].at = "free" /\ GoTo(p, Idle) /\ heap' = [heap EXCEPT ![a] = NULL]
        /\ UNCHANGED <<tree, version, lock, iter, walk, dead>>
    BY <1>4, Zenon DEF st_table_free_element, At
  <2>2. a \in Addrs /\ Pending(p) = {a}
    BY <1>0, <2>1 DEF Operations, Pending
  <2> HIDE DEF a
  <2>3. Idle \in Operations /\ Idle.at = "idle"
    BY DEF Idle, Operations
  <2>4. op'[p] = Idle /\ \A q \in Users : q # p => op'[q] = op[q]
    BY <2>1, <2>3, OpStep DEF TInv
  <2>5. lock # p
    BY <2>1, TableAssumption DEF TInv, LockInv, Holding, Changes
  <2>6. Elements' = Elements /\ \A s : Stage(s)' <=> Stage(s)
    BY <2>1, <2>4, <2>5 DEF Elements, Stage, TInv, TypeOK
  <2>7. a \notin Elements /\ Elements \subseteq Addrs
    BY <2>2 DEF TInv, TypeOK, HeapInv
  <2>8. \A b \in Elements : heap'[b] = heap[b]
    BY <2>1, <2>7 DEF TInv, TypeOK
  <2> QED
    BY <2>1, <2>3, <2>6, <2>8, WalkAfterOp
<1>5. ASSUME NEW k \in Keys, RemoveFromTree(p, k) PROVE WalkInv'
  <2>1. /\ op[p].at = "idle" /\ lock' = p
        /\ UNCHANGED <<heap, version, iter, walk, dead>>
    BY <1>5, Zenon DEF RemoveFromTree, At
  <2>2. PICK removed \in st_table_get_element(k) : GoTo(p, [at |-> "deleted", elem |-> removed])
    BY <1>5 DEF RemoveFromTree
  <2> DEFINE x == [at |-> "deleted", elem |-> removed]
  <2>3. x \in Operations /\ x.at = "deleted" /\ GoTo(p, x)
    BY <2>2 DEF Operations, st_table_get_element, TInv, TypeOK
  <2> HIDE DEF x
  <2>4. Stage("deleted")'
    BY <2>1, <2>3, OpStep, TableAssumption DEF TInv, Stage
  <2> QED
    BY <2>1, <2>3, <2>4, WalkAfterOp
<1>6. ASSUME RemoveVersion(p) PROVE WalkInv'
  <2>1. /\ op[p].at = "deleted" /\ At(p, "deleted") /\ "deleted" \in Holding
        /\ version' = version + 1 /\ UNCHANGED <<iter, walk, dead>>
    BY <1>6, Zenon DEF RemoveVersion, At, Holding, Changes
  <2> DEFINE x == [at |-> "free", elem |-> op[p].elem]
  <2>2. op[p].elem \in Addrs
    BY <1>0, <2>1 DEF Operations
  <2>3. x \in Operations /\ x.at = "free" /\ GoTo(p, x)
    BY <1>6, <2>2 DEF Operations, RemoveVersion
  <2> HIDE DEF x
  <2>4. \A q \in Users \ dead : q # p => op[q].at \notin Holding
    BY <2>1, HolderFacts
  <2> QED
    BY <2>1, <2>3, <2>4, WalkAfterOp
<1> QED
  BY <1>1, <1>2, <1>3, <1>4, <1>5, <1>6, Zenon

\* The steps of st_table_remove_all, and of st_capi_do_get.
LEMMA WalkOtherSteps ==
    ASSUME TInv, WalkInv, NEW p \in Users
    PROVE /\ BeginRemoveAll(p) => WalkInv'
          /\ st_table_remove_all_elements(p) => WalkInv'
          /\ EndRemoveAll(p) => WalkInv'
          /\ \A k \in Keys : BeginGet(p, k) => WalkInv'
          /\ EndGet(p) => WalkInv'
<1>0. /\ op \in [Users -> Operations] /\ tree \subseteq Addrs
      /\ Idle \in Operations /\ Idle.at = "idle"
  BY Zenon DEF TInv, TypeOK, Idle, Operations
<1>1. ASSUME BeginRemoveAll(p) PROVE WalkInv'
  <2>1. /\ op[p].at = "idle" /\ Lockable /\ lock' = p
        /\ UNCHANGED <<heap, tree, version, iter, walk, dead>>
    BY <1>1 DEF BeginRemoveAll, At
  <2> DEFINE x == [at |-> "clearing", rest |-> tree]
  <2>2. x \in Operations /\ x.at = "clearing" /\ x.rest = tree /\ GoTo(p, x)
    BY <1>0, <1>1 DEF Operations, BeginRemoveAll
  <2> HIDE DEF x
  <2>3. Elements = tree /\ \A s \in Changes : ~Stage(s)
    BY <2>1, LockableFacts
  <2>4. op'[p] = x
    BY <2>2, OpStep DEF TInv
  <2>5. Elements' = tree /\ ~Stage("linked")' /\ ~Stage("deleted")'
    BY <2>1, <2>2, <2>4, TableAssumption DEF Elements, Stage
  <2> QED
    BY <2>1, <2>2, <2>3, <2>5, WalkAfterOp DEF Changes
<1>2. ASSUME st_table_remove_all_elements(p) PROVE WalkInv'
  <2>1. /\ op[p].at = "clearing" /\ At(p, "clearing") /\ "clearing" \in Holding
        /\ version' = version + 1 /\ UNCHANGED <<iter, walk, dead>>
    BY <1>2 DEF st_table_remove_all_elements, At, Holding, Changes
  <2>2. PICK a \in op[p].rest : GoTo(p, [at |-> "clearing", rest |-> op[p].rest \ {a}])
    BY <1>2, Zenon DEF st_table_remove_all_elements
  <2> DEFINE x == [at |-> "clearing", rest |-> op[p].rest \ {a}]
  <2>3. op[p].rest \subseteq Addrs
    BY <1>0, <2>1 DEF Operations
  <2>4. x \in Operations /\ x.at = "clearing" /\ GoTo(p, x)
    BY <2>2, <2>3 DEF Operations
  <2> HIDE DEF x
  <2>5. \A q \in Users \ dead : q # p => op[q].at \notin Holding
    BY <2>1, HolderFacts
  <2> QED
    BY <2>1, <2>4, <2>5, WalkAfterOp
<1>3. ASSUME EndRemoveAll(p) PROVE WalkInv'
  <2>1. /\ op[p].at = "clearing" /\ At(p, "clearing") /\ "clearing" \in Holding
        /\ UNCHANGED <<heap, version, iter, walk, dead>>
        /\ tree' = {} /\ lock' = NULL /\ op[p].rest = {} /\ GoTo(p, Idle)
    BY <1>3, Zenon DEF EndRemoveAll, At, Holding, Changes
  <2>2. lock = p /\ lock # NULL /\ \A s : Stage(s) <=> s = "clearing"
    BY <2>1, HolderFacts, Zenon
  <2>3. Elements = {} /\ Elements' = {} /\ \A s : ~Stage(s)'
    BY <2>1, <2>2 DEF Elements, Stage
  <2> QED
    BY <1>0, <2>1, <2>2, <2>3, WalkAfterOp
<1>4. ASSUME NEW k \in Keys, BeginGet(p, k) PROVE WalkInv'
  <2>1. PICK a \in st_table_get_element(k) : GoTo(p, [at |-> "get", elem |-> a, key |-> k])
    BY <1>4, Zenon DEF BeginGet
  <2> DEFINE x == [at |-> "get", elem |-> a, key |-> k]
  <2>2. x \in Operations /\ x.at = "get" /\ GoTo(p, x) /\ p \in Users \ dead /\ op[p].at = "idle"
    BY <1>0, <1>4, <2>1 DEF Operations, st_table_get_element, BeginGet, At
  <2> HIDE DEF x
  <2>3. UNCHANGED <<heap, tree, version, element_cnt, iter, walk, dead>> /\ lock' = p /\ Lockable
    BY <1>4, Zenon DEF BeginGet
  <2>4. /\ Elements = tree /\ Elements' = tree
        /\ \A s \in Changes : ~Stage(s) /\ ~Stage(s)'
    BY <2>2, <2>3, ReaderStep DEF Readers
  <2> QED
    BY <2>2, <2>3, <2>4, WalkAfterOp DEF Changes
<1>5. ASSUME EndGet(p) PROVE WalkInv'
  <2>1. /\ GoTo(p, Idle) /\ p \in Users \ dead /\ op[p].at = "get" /\ lock' = NULL
        /\ UNCHANGED <<heap, tree, version, element_cnt, iter, walk, dead>>
    BY <1>5, Zenon DEF EndGet, At
  <2>2. /\ Elements = tree /\ Elements' = tree
        /\ \A s \in Changes : ~Stage(s) /\ ~Stage(s)'
    BY <1>0, <2>1, ReaderStep DEF Readers
  <2> QED
    BY <1>0, <2>1, <2>2, WalkAfterOp DEF Changes
<1> QED
  BY <1>1, <1>2, <1>3, <1>4, <1>5

\* The steps of iterations.
LEMMA WalkIterSteps ==
    ASSUME TInv, WalkInv, NEW p \in Users
    PROVE /\ \A k \in Keys, side \in ExpectedSides :
                st_capi_init_iterator(p, k, side) \/ BeginForeach(p, k, side) => WalkInv'
          /\ BeginNext(p) => WalkInv'
          /\ EndNext(p) => WalkInv'
          /\ st_capi_foreach_nolock(p) => WalkInv'
<1>0. /\ op \in [Users -> Operations] /\ iter \in [Users -> Iterators]
      /\ Idle \in Operations /\ Idle.at = "idle"
  BY Zenon DEF TInv, TypeOK, Idle, Operations
<1>1. ASSUME NEW k \in Keys, NEW side \in ExpectedSides,
             st_capi_init_iterator(p, k, side) \/ BeginForeach(p, k, side)
      PROVE WalkInv'
  <2> DEFINE a == Start(k, side)
  <2>1. a \in tree \cup {NULL}
    BY FoundInTree, Zenon DEF TInv
  <2>2. /\ p \in Users \ dead /\ op[p].at = "idle" /\ Lockable /\ BeginWalk(p, a)
        /\ UNCHANGED <<heap, tree, version, element_cnt, dead>>
    BY <1>1, Zenon DEF st_capi_init_iterator, BeginForeach, At
  <2>3. iter' = [iter EXCEPT ![p] = st_table_iter_init(k, side)]
    BY <1>1 DEF st_capi_init_iterator, BeginForeach
  <2>4. PICK x \in Operations :
          /\ GoTo(p, x) /\ x.at \in {"idle", "foreach"}
          /\ lock' = IF x.at = "idle" THEN NULL ELSE p
    <3>1. CASE st_capi_init_iterator(p, k, side)
      <4>1. op[p] = Idle
        BY <1>0, <2>2 DEF Operations, Idle
      <4>2. GoTo(p, Idle) /\ lock' = NULL
        BY <1>0, <3>1, <4>1 DEF GoTo, st_capi_init_iterator
      <4> QED
        BY <1>0, <4>2
    <3>2. CASE BeginForeach(p, k, side)
      <4> DEFINE x == [at |-> "foreach"]
      <4>1. x \in Operations /\ x.at = "foreach" /\ GoTo(p, x) /\ lock' = p
        BY <3>2, Zenon DEF BeginForeach, Operations
      <4> HIDE DEF x
      <4> QED
        BY <4>1, Zenon
    <3> QED
      BY <1>1, <3>1, <3>2
  <2>5. /\ Elements = tree /\ Elements' = tree
        /\ \A s \in Changes : ~Stage(s) /\ ~Stage(s)'
    BY <2>2, <2>4, ReaderStep DEF Readers
  <2>6. op'[p] = x /\ \A q \in Users : q # p => op'[q] = op[q]
    BY <2>4, OpStep DEF TInv
  <2> HIDE DEF a
  <2>7. /\ iter'[p].element = a /\ iter'[p].table_version = version
        /\ \A q \in Users : q # p => iter'[q] = iter[q]
    BY <1>0, <2>3 DEF st_table_iter_init, a
  <2> QED
    BY <2>1, <2>2, <2>4, <2>5, <2>6, <2>7, WalkBegins
<1>2. ASSUME BeginNext(p) PROVE WalkInv'
  <2> DEFINE x == [at |-> "next", elem |-> iter[p].element]
  <2>1. /\ p \in Users \ dead /\ op[p].at = "idle" /\ Lockable /\ lock' = p
        /\ iter[p].open /\ iter[p].element # NULL /\ ~Modified(iter[p])
        /\ iter' = [iter EXCEPT ![p] = Advanced(@)]
        /\ UNCHANGED <<heap, tree, version, element_cnt, walk, dead>>
    BY <1>2, Zenon DEF BeginNext, At
  <2>2. x \in Operations /\ x.at = "next" /\ x.elem = iter[p].element /\ GoTo(p, x)
    BY <1>0, <1>2, <2>1 DEF BeginNext, Operations, Iterators
  <2> HIDE DEF x
  <2>3. /\ Elements = tree /\ Elements' = tree
        /\ \A s \in Changes : ~Stage(s) /\ ~Stage(s)'
    BY <2>1, <2>2, ReaderStep DEF Readers
  <2>4. op'[p] = x /\ \A q \in Users : q # p => op'[q] = op[q]
    BY <2>2, OpStep DEF TInv
  <2> QED
    BY <2>1, <2>2, <2>3, <2>4, WalkAtNext
<1>3. ASSUME EndNext(p) PROVE WalkInv'
  <2>1. /\ p \in Users \ dead /\ op[p].at = "next" /\ GoTo(p, Idle) /\ lock' = NULL
        /\ \E got \in {heap[op[p].elem], NULL} : Visit(p, got)
        /\ UNCHANGED <<heap, tree, version, element_cnt, iter, dead>>
    BY <1>3 DEF EndNext, At
  <2>2. /\ Elements = tree /\ Elements' = tree
        /\ \A s \in Changes : ~Stage(s) /\ ~Stage(s)'
    BY <1>0, <2>1, ReaderStep DEF Readers
  <2>3. op'[p] = Idle /\ \A q \in Users : q # p => op'[q] = op[q]
    BY <1>0, <2>1, OpStep DEF TInv
  <2> QED
    BY <1>0, <2>1, <2>2, <2>3, WalkAfterNext
<1>4. ASSUME st_capi_foreach_nolock(p) PROVE WalkInv'
  <2>1. /\ p \in Users \ dead /\ op[p].at = "foreach" /\ At(p, "foreach") /\ "foreach" \in Holding
        /\ ~Modified(iter[p]) /\ iter[p].element # NULL
        /\ iter' = [iter EXCEPT ![p] = Advanced(@)]
        /\ Visit(p, heap[iter[p].element])
        /\ UNCHANGED <<heap, tree, version, element_cnt, lock, op, dead>>
    BY <1>4, Zenon DEF st_capi_foreach_nolock, At, Holding
  <2>2. Elements = tree /\ \A s : Stage(s) <=> s = "foreach"
    BY <2>1, HolderFacts DEF Changes
  <2>3. Elements' = tree /\ \A s \in Changes : ~Stage(s) /\ ~Stage(s)'
    BY <2>1, <2>2 DEF Elements, Stage, Changes
  <2>4. CASE iter[p].open
    BY <2>1, <2>2, <2>3, <2>4, WalkInForeach
  <2>5. CASE ~iter[p].open
    <3> DEFINE got == heap[iter[p].element]
               visited == walk[p].visited
    <3>1. ~iter'[p].open /\ \A q \in Users : q # p => iter'[q] = iter[q]
      BY <1>0, <2>1, <2>5, AdvancedFacts
    <3>2. got \in Contents \cup {NULL}
      BY <1>0, <2>1 DEF TInv, TypeOK, Iterators, Contents
    <3>3. visited \in Seq(Contents \cup {NULL})
      BY Zenon DEF WalkInv
    <3>4. walk' = [walk EXCEPT ![p].visited = Append(visited, got)]
      BY <2>1 DEF Visit, WalkInv
    <3> HIDE DEF got, visited
    <3>5. Append(visited, got) \in Seq(Contents \cup {NULL})
      BY <3>2, <3>3
    <3>6. /\ walk' \in [Users -> [visit : Seq(Contents), visited : Seq(Contents \cup {NULL})]]
          /\ \A q \in Users : q # p => walk'[q] = walk[q]
      BY <3>4, <3>5 DEF WalkInv
    <3>7. \A q \in Users : q # p => WalkOf(q)'
      BY <2>1, <2>2, <2>3, <3>1, <3>6, WalkOfOthers
    <3> QED
      BY <3>1, <3>6, <3>7 DEF WalkInv, WalkOf
  <2> QED
    BY <2>4, <2>5
<1> QED
  BY <1>1, <1>2, <1>3, <1>4

\* The steps that close an iterator.
LEMMA WalkEndSteps ==
    ASSUME TInv, WalkInv, NEW p \in Users
    PROVE /\ st_capi_free_iterator(p) => WalkInv'
          /\ EndForeach(p) => WalkInv'
          /\ Die(p) => WalkInv'
<1>0. Idle \in Operations /\ Idle.at = "idle" /\ ~NoIter.open
  BY DEF Idle, Operations, NoIter
<1>1. ASSUME st_capi_free_iterator(p) \/ Die(p) PROVE WalkInv'
  <2>1. /\ iter' = [iter EXCEPT ![p] = NoIter] /\ walk' = [walk EXCEPT ![p] = NoWalk]
        /\ UNCHANGED <<heap, tree, version, lock, op>>
        /\ dead' \in {dead, dead \cup {p}}
    BY <1>1 DEF st_capi_free_iterator, Die
  <2>2. Elements' = Elements /\ \A s : Stage(s)' <=> Stage(s)
    BY <2>1 DEF Elements, Stage
  <2>3. ~iter'[p].open /\ \A q \in Users : q # p => iter'[q] = iter[q] /\ op'[q] = op[q]
    BY <1>0, <2>1 DEF TInv, TypeOK
  <2>4. \A q \in Users : q # p => (q \in dead' <=> q \in dead)
    BY <2>1, Zenon
  <2> QED
    BY <2>1, <2>2, <2>3, <2>4, WalkEnds
<1>2. ASSUME EndForeach(p) PROVE WalkInv'
  <2>1. /\ iter' = [iter EXCEPT ![p] = NoIter] /\ walk' = [walk EXCEPT ![p] = NoWalk]
        /\ p \in Users \ dead /\ op[p].at = "foreach" /\ GoTo(p, Idle) /\ lock' = NULL
        /\ UNCHANGED <<heap, tree, version, element_cnt, dead>>
    BY <1>2, Zenon DEF EndForeach, At
  <2>2. /\ Elements = tree /\ Elements' = tree
        /\ \A s \in Changes : ~Stage(s) /\ ~Stage(s)'
    BY <1>0, <2>1, ReaderStep DEF Readers
  <2>3. op'[p] = Idle /\ \A q \in Users : q # p => op'[q] = op[q]
    BY <1>0, <2>1, OpStep DEF TInv
  <2>4. ~iter'[p].open /\ \A q \in Users : q # p => iter'[q] = iter[q]
    BY <1>0, <2>1 DEF TInv, TypeOK
  <2> QED
    BY <2>1, <2>2, <2>3, <2>4, WalkEnds
<1> QED
  BY <1>1, <1>2

\* The initial state satisfies the invariant of iterations.
LEMMA InitWalkInv == Init => WalkInv
<1> SUFFICES ASSUME Init PROVE WalkInv
  BY Zenon
<1>1. NoWalk \in [visit : Seq(Contents), visited : Seq(Contents \cup {NULL})]
  <2>1. <<>> \in Seq(Contents) /\ <<>> \in Seq(Contents \cup {NULL})
    OBVIOUS
  <2> QED
    BY <2>1, Zenon DEF NoWalk
<1> QED
  BY <1>1 DEF Init, WalkInv, WalkOf, NoIter

\* Every step of the table keeps it.
LEMMA NextWalkInv ==
    ASSUME TInv, WalkInv, [Next]_vars
    PROVE WalkInv'
<1>1. CASE Next
  <2>1. PICK p \in Users :
          \/ \E k \in Keys, v \in Values, force \in BOOLEAN : st_table_new_element(p, k, v, force)
          \/ AddToTree(p)
          \/ AddVersion(p)
          \/ st_table_free_element(p)
          \/ \E k \in Keys : RemoveFromTree(p, k) \/ BeginGet(p, k)
          \/ RemoveVersion(p)
          \/ BeginRemoveAll(p)
          \/ st_table_remove_all_elements(p)
          \/ EndRemoveAll(p)
          \/ EndGet(p)
          \/ \E k \in Keys, side \in ExpectedSides :
              st_capi_init_iterator(p, k, side) \/ BeginForeach(p, k, side)
          \/ BeginNext(p)
          \/ EndNext(p)
          \/ st_capi_free_iterator(p)
          \/ st_capi_foreach_nolock(p)
          \/ EndForeach(p)
          \/ Die(p)
    BY <1>1, Zenon DEF Next
  <2> QED
    BY <2>1, WalkChangeSteps, WalkOtherSteps, WalkIterSteps, WalkEndSteps, Zenon
<1>2. CASE UNCHANGED vars
  <2>1. UNCHANGED <<heap, tree, version, lock, op, iter, walk, dead>>
    BY <1>2, Zenon DEF vars
  <2>2. Elements' = Elements /\ \A s : Stage(s)' <=> Stage(s)
    BY <2>1 DEF Elements, Stage
  <2>3. ASSUME NEW q \in Users PROVE WalkOf(q)'
    <3>1. Undisturbed(q)
      BY <2>1, <2>2 DEF Undisturbed, At
    <3> QED
      BY <3>1, WalkOfUndisturbed
  <2> QED
    BY <2>1, <2>3 DEF WalkInv
<1> QED
  BY <1>1, <1>2

\* The iterations of all processes are where they should be, whatever other
\* processes do between their calls.
THEOREM WalkInvariant ==
    ASSUME DeathsBetweenChanges
    PROVE Spec => [](TInv /\ WalkInv)
<1>1. Init => WalkInv
  BY InitWalkInv, Zenon
<1>2. TInv /\ WalkInv /\ [Next]_vars => WalkInv'
  BY NextWalkInv, Zenon
<1>3. Spec => []TInv
  BY TableInvariant, Zenon
<1> QED
  BY <1>1, <1>2, <1>3, PTL DEF Spec

\* An iteration with st_capi_next or st_capi_foreach that is not told
\* ST_TABLE_MODIFIED has visited, in the order of the keys, each element once
\* that the table held from its start on when it began, for any number of
\* processes that change the table between its calls.
THEOREM IterationsAreExact ==
    ASSUME DeathsBetweenChanges
    PROVE Spec => []IterationIsExact
  BY WalkInvariant, WalkInvExact, PTL

=============================================================================
