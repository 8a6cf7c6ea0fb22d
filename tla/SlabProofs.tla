----------------------------- MODULE SlabProofs -----------------------------
(***************************************************************************)
(* The counters of the slab allocator, and the properties that rest on     *)
(* them.                                                                   *)
(***************************************************************************)
EXTENDS SlabPlaces, FiniteSetTheorems, FunctionTheorems

-----------------------------------------------------------------------------
(* Counters.                                                                 *)

\* The objects of O that group g serves.
ObjsOf(O, g) == {o \in O : st_slab_size_to_index(o.size) = g}

Counted ==
    /\ IsFiniteSet(objs)
    /\ current \in [Groups -> [alloc : Int, free : Int]]
    /\ CountersAreExact

\* n objects come (1) or go (-1), and so do new slabs of the group.
LEMMA CountMoves ==
    ASSUME Counted, NEW g \in Groups, NEW n \in Int, NEW new \in Int,
           current' = Count(g, n, new), IsFiniteSet(objs'),
           Cardinality(ObjsOf(objs', g)) = Cardinality(ObjsOf(objs, g)) + n,
           Cardinality(Slabs(g)') = Cardinality(Slabs(g)) + new,
           Cardinality(Slabs(g)) \in Int,
           \A h \in Groups \ {g} : ObjsOf(objs', h) = ObjsOf(objs, h) /\ Slabs(h)' = Slabs(h)
    PROVE Counted'
<1> DEFINE c == current
           N == Cardinality(Slabs(g))
<1>1. c \in [Groups -> [alloc : Int, free : Int]] /\ ObjCnt \in Int /\ N \in Int
  BY SlabAssumption DEF Counted
<1>2. c' = [c EXCEPT ![g].alloc = @ + n, ![g].free = @ - n + new * SlotCnt(g)]
  BY Zenon DEF Count
<1>3. SlotCnt(g) \in Int /\ new * SlotCnt(g) \in Int
  BY <1>1 DEF SlotCnt
<1>4. /\ c' \in [Groups -> [alloc : Int, free : Int]]
      /\ c'[g].alloc = c[g].alloc + n /\ c'[g].free = c[g].free - n + new * SlotCnt(g)
      /\ \A h \in Groups \ {g} : c'[h] = c[h]
  <2> DEFINE x == c[g].alloc + n
             y == c[g].free - n + new * SlotCnt(g)
  <2>1. x \in Int /\ y \in Int
    <3>1. c[g].alloc \in Int /\ c[g].free \in Int
      BY <1>1
    <3> QED
      BY <3>1, <1>3
  <2>2. c' = [c EXCEPT ![g].alloc = x, ![g].free = y]
    BY <1>1, <1>2
  <2> HIDE DEF x, y
  <2>3. c'[g] = [alloc |-> x, free |-> y] /\ \A h \in Groups \ {g} : c'[h] = c[h]
    BY <2>2, <1>1
  <2>4. c' \in [Groups -> [alloc : Int, free : Int]]
    BY <2>1, <2>2, <2>3, <1>1
  <2> QED
    BY <2>3, <2>4 DEF x, y
<1>5. \A h \in Groups : /\ c[h].alloc = Cardinality(ObjsOf(objs, h))
                        /\ c[h].alloc + c[h].free = Cardinality(Slabs(h)) * SlotCnt(h)
  BY Zenon DEF Counted, CountersAreExact, ObjsOf
<1>6. ASSUME NEW h \in Groups
      PROVE /\ c'[h].alloc = Cardinality(ObjsOf(objs', h))
            /\ c'[h].alloc + c'[h].free = Cardinality(Slabs(h)') * SlotCnt(h)
  <2>1. CASE h = g
    <3>1. (N + new) * SlotCnt(g) = N * SlotCnt(g) + new * SlotCnt(g) /\ N * SlotCnt(g) \in Int
      BY <1>1, <1>3
    <3>2. c[g].alloc \in Int /\ c[g].free \in Int
      BY <1>1, Zenon
    <3>3. c[g].alloc = Cardinality(ObjsOf(objs, g)) /\ c[g].alloc + c[g].free = N * SlotCnt(g)
      BY <1>5
    <3>4. Cardinality(Slabs(g)') * SlotCnt(g) = N * SlotCnt(g) + new * SlotCnt(g)
      BY <3>1
    <3> HIDE DEF N, c
    <3> QED
      BY <2>1, <3>1, <3>2, <3>3, <3>4, <1>3, <1>4
  <2>2. CASE h # g
    BY <2>2, <1>4, <1>5
  <2> QED
    BY <2>1, <2>2
<1> QED
  BY <1>4, <1>6 DEF Counted, CountersAreExact, ObjsOf

\* The objects of a group, when one comes or goes.
LEMMA ObjsOfMoves ==
    ASSUME IsFiniteSet(objs), NEW o, NEW g, st_slab_size_to_index(o.size) = g
    PROVE /\ IsFiniteSet(objs \cup {o}) /\ IsFiniteSet(objs \ {o})
          /\ o \notin objs =>
                Cardinality(ObjsOf(objs \cup {o}, g)) = Cardinality(ObjsOf(objs, g)) + 1
          /\ o \in objs =>
                Cardinality(ObjsOf(objs \ {o}, g)) = Cardinality(ObjsOf(objs, g)) - 1
          /\ \A h : h # g => /\ ObjsOf(objs \cup {o}, h) = ObjsOf(objs, h)
                             /\ ObjsOf(objs \ {o}, h) = ObjsOf(objs, h)
<1>1. IsFiniteSet(objs \cup {o}) /\ IsFiniteSet(objs \ {o})
  BY FS_AddElement, FS_RemoveElement
<1>2. /\ ObjsOf(objs \cup {o}, g) = ObjsOf(objs, g) \cup {o}
      /\ ObjsOf(objs \ {o}, g) = ObjsOf(objs, g) \ {o}
      /\ o \in objs <=> o \in ObjsOf(objs, g)
      /\ \A h : h # g => /\ ObjsOf(objs \cup {o}, h) = ObjsOf(objs, h)
                         /\ ObjsOf(objs \ {o}, h) = ObjsOf(objs, h)
  BY Zenon DEF ObjsOf
<1>3. ObjsOf(objs, g) \in SUBSET objs
  BY DEF ObjsOf
<1>4. IsFiniteSet(ObjsOf(objs, g))
  BY <1>3, FS_Subset
<1>5. Cardinality(ObjsOf(objs, g) \cup {o})
        = IF o \in ObjsOf(objs, g) THEN Cardinality(ObjsOf(objs, g)) ELSE Cardinality(ObjsOf(objs, g)) + 1
  BY <1>4, FS_AddElement
<1>6. Cardinality(ObjsOf(objs, g) \ {o})
        = IF o \in ObjsOf(objs, g) THEN Cardinality(ObjsOf(objs, g)) - 1 ELSE Cardinality(ObjsOf(objs, g))
  BY <1>4, FS_RemoveElement
<1> QED
  BY <1>1, <1>2, <1>5, <1>6

\* There are finitely many pages, hence slabs.
LEMMA FiniteSlabs ==
    ASSUME NEW S \in SUBSET Pages PROVE IsFiniteSet(S) /\ Cardinality(S) \in Nat
<1>1. IsFiniteSet(Regs) /\ IsFiniteSet(0..(pages_per_region - 1))
  BY PerRegion, SizesAssumption, FS_Interval DEF Regs
<1>2. IsFiniteSet(Pages)
  BY <1>1, FS_Product, Zenon DEF Pages
<1>3. IsFiniteSet(S)
  BY <1>2, FS_Subset
<1> QED
  BY <1>3, FS_CardinalityType

\* Whatever moves in a group, its counters follow.
LEMMA MovedKeeps ==
    ASSUME SInv, Counted, NEW g \in Groups, NEW n, NEW new, Moved(g, n, new)
    PROVE Counted'
<1>1. PICK o : /\ st_slab_size_to_index(o.size) = g
               /\ \/ n = 1 /\ o \notin objs /\ objs' = objs \cup {o}
                  \/ n = -1 /\ o \in objs /\ objs' = objs \ {o}
  BY Zenon DEF Moved
<1>2. IsFiniteSet(objs) /\ Cardinality(ObjsOf(objs, g)) \in Int
  BY Zenon DEF Counted, CountersAreExact, ObjsOf
<1>3. /\ IsFiniteSet(objs') /\ n \in Int
      /\ Cardinality(ObjsOf(objs', g)) = Cardinality(ObjsOf(objs, g)) + n
      /\ \A h \in Groups \ {g} : ObjsOf(objs', h) = ObjsOf(objs, h)
  <2>1. CASE n = 1 /\ o \notin objs /\ objs' = objs \cup {o}
    BY <2>1, <1>1, <1>2, ObjsOfMoves
  <2>2. CASE n = -1 /\ o \in objs /\ objs' = objs \ {o}
    <3>1. /\ IsFiniteSet(objs') /\ Cardinality(ObjsOf(objs', g)) = Cardinality(ObjsOf(objs, g)) - 1
          /\ \A h \in Groups \ {g} : ObjsOf(objs', h) = ObjsOf(objs, h)
      BY <2>2, <1>1, <1>2, ObjsOfMoves
    <3>2. Cardinality(ObjsOf(objs, g)) - 1 = Cardinality(ObjsOf(objs, g)) + (-1) /\ -1 \in Int
      BY <1>2
    <3>3. n = -1
      BY <2>2
    <3> QED
      BY <3>1, <3>2, <3>3
  <2> QED
    BY <2>1, <2>2, <1>1
<1>4. IsFiniteSet(Slabs(g)) /\ Cardinality(Slabs(g)) \in Nat
  <2>1. Slabs(g) \in SUBSET Pages
    BY Zenon DEF SInv, SlabTypes, Slabs
  <2> QED
    BY <2>1, FiniteSlabs
<1>5. new \in Int /\ Cardinality(Slabs(g)') = Cardinality(Slabs(g)) + new
  <2>1. CASE new = 0 /\ Slabs(g)' = Slabs(g)
    BY <2>1, <1>4
  <2>2. CASE new = 1 /\ \E m \in Pages : m \notin Slabs(g) /\ Slabs(g)' = Slabs(g) \cup {m}
    <3>1. PICK m \in Pages : m \notin Slabs(g) /\ Slabs(g)' = Slabs(g) \cup {m}
      BY <2>2
    <3>2. Cardinality(Slabs(g) \cup {m}) = Cardinality(Slabs(g)) + 1
      BY <3>1, <1>4, FS_AddElement
    <3> QED
      BY <3>1, <3>2, <2>2
  <2>3. CASE new = -1 /\ \E m \in Slabs(g) : Slabs(g)' = Slabs(g) \ {m}
    <3>1. PICK m \in Slabs(g) : Slabs(g)' = Slabs(g) \ {m}
      BY <2>3, Zenon
    <3>2. Cardinality(Slabs(g) \ {m}) = Cardinality(Slabs(g)) - 1
      BY <1>4, FS_RemoveElement
    <3> QED
      BY <3>1, <3>2, <2>3, <1>4
  <2> QED
    BY <2>1, <2>2, <2>3 DEF Moved
<1>6. /\ current' = Count(g, n, new)
      /\ \A h \in Groups \ {g} : ObjsOf(objs', h) = ObjsOf(objs, h) /\ Slabs(h)' = Slabs(h)
  BY <1>3 DEF Moved
<1>7. Cardinality(Slabs(g)) \in Int
  BY <1>4
<1> QED
  BY <1>3, <1>5, <1>6, <1>7, CountMoves

\* The counters of every group are exact, when madvise succeeds.
THEOREM CountInvariant ==
    ASSUME MadviseMayFail = FALSE PROVE SlabSpec => []Counted
<1>1. SlabInit => Counted
  <2> SUFFICES ASSUME SlabInit PROVE Counted
    BY Zenon
  <2>1. /\ current = [g \in Groups |-> [alloc |-> 0, free |-> 0]] /\ objs = {}
        /\ slabs_partial = [g \in Groups |-> {}] /\ slabs_full = [g \in Groups |-> {}]
    BY Zenon DEF SlabInit
  <2>2. IsFiniteSet({}) /\ Cardinality({}) = 0
    BY FS_EmptySet
  <2>3. \A g \in Groups : {o \in objs : st_slab_size_to_index(o.size) = g} = {} /\ Slabs(g) = {}
    BY <2>1 DEF Slabs
  <2>4. \A g \in Groups : current[g].alloc = 0 /\ current[g].free = 0
    BY <2>1
  <2>5. \A g \in Groups : 0 * SlotCnt(g) = 0
    BY SlabAssumption DEF SlotCnt
  <2>6. current \in [Groups -> [alloc : Int, free : Int]]
    BY <2>1
  <2> QED
    BY <2>1, <2>2, <2>3, <2>4, <2>5, <2>6 DEF Counted, CountersAreExact
<1>2. ASSUME SInv, Counted, [SlabNext]_svars PROVE Counted'
  <2>1. CASE UNCHANGED <<slabs_partial, slabs_full, current, objs>>
    BY <2>1, <1>2 DEF Counted, CountersAreExact, Slabs
  <2>2. CASE \E g \in Groups, n \in {1, -1}, new \in {0, 1, -1} : Moved(g, n, new)
    BY <2>2, <1>2, MovedKeeps
  <2> QED
    BY <2>1, <2>2, <1>2, SlabStep
<1> QED
  BY <1>1, <1>2, SlabInvariant, PTL DEF SlabSpec

\* A group has no more objects in use than its slabs have.
LEMMA ObjectsFit ==
    ASSUME SInv, IsFiniteSet(objs), NEW g \in Groups
    PROVE /\ Cardinality(ObjsOf(objs, g)) \in Nat
          /\ Cardinality(ObjsOf(objs, g)) <= Cardinality(Slabs(g)) * SlotCnt(g)
<1>1. SlabTypes /\ Placed
  BY Zenon DEF SInv
<1>2. ObjsOf(objs, g) \in SUBSET objs
  BY Zenon DEF ObjsOf
<1>3. Cardinality(ObjsOf(objs, g)) \in Nat
  BY <1>1, <1>2, FS_Subset, FS_CardinalityType
<1> DEFINE S == ObjsOf(objs, g)
           T == Slabs(g) \X SlotsOf(g)
           F == [o \in S |-> CHOOSE x \in T : Lies(o, g, x[1], x[2])]
<1>4. ASSUME NEW o \in S PROVE \E x \in T : Lies(o, g, x[1], x[2])
  <2>1. o \in objs /\ st_slab_size_to_index(o.size) = g
    BY Zenon DEF ObjsOf
  <2>2. PICK h \in Groups, m \in Pages, i \in Nat : Lies(o, h, m, i)
    BY <2>1, <1>1 DEF Placed
  <2>3. h = g
    BY <2>1, <2>2 DEF Lies
  <2>4. m \in Slabs(g) /\ i \in SlotsOf(g)
    BY <2>2, <2>3, LiesFacts
  <2>5. <<m, i>> \in T /\ <<m, i>>[1] = m /\ <<m, i>>[2] = i
    BY <2>4
  <2> QED
    BY <2>2, <2>3, <2>5
<1>5. \A o \in S : F[o] \in T /\ Lies(o, g, F[o][1], F[o][2])
  BY <1>4
<1>6. F \in [S -> T]
  <2>1. \A o \in S : (CHOOSE x \in T : Lies(o, g, x[1], x[2])) \in T
    BY <1>4
  <2> QED
    BY <2>1
<1> HIDE DEF F
<1>7. ASSUME NEW o \in S, NEW q \in S, F[o] = F[q] PROVE o = q
  <2>1. o.addr = q.addr
    BY <1>5, <1>7 DEF Lies
  <2> QED
    BY <2>1, <1>1, <1>2 DEF Placed
<1>8. /\ IsFiniteSet(SlotsOf(g)) /\ Cardinality(SlotsOf(g)) = SlotCnt(g)
  <2>1. IsFiniteSet({0}) /\ Cardinality({0}) = 1
    BY FS_Singleton
  <2>2. ObjCnt \in Int /\ ObjCnt > 0
    BY SlabAssumption
  <2>3. IsFiniteSet(0..(ObjCnt - 1)) /\ Cardinality(0..(ObjCnt - 1)) = ObjCnt
    BY <2>2, FS_Interval
  <2> QED
    BY <2>1, <2>3 DEF SlotsOf, SlotCnt
<1>9. IsFiniteSet(Slabs(g))
  <2>1. Slabs(g) \in SUBSET Pages
    BY <1>1 DEF SlabTypes, Slabs
  <2> QED
    BY <2>1, FiniteSlabs, Zenon
<1>10. IsFiniteSet(T) /\ Cardinality(T) = Cardinality(Slabs(g)) * SlotCnt(g)
  BY <1>8, <1>9, FS_Product
<1>11. F \in Injection(S, T)
  BY <1>6, <1>7, Fun_IsInj
<1>12. Cardinality(S) <= Cardinality(T)
  BY <1>10, <1>11, FS_Injection
<1> QED
  BY <1>10, <1>12, <1>3

-----------------------------------------------------------------------------
(* The theorems.                                                             *)

\* No two objects in use share a byte, and each lies within the pages of one
\* slab: every object that st_slab_obj_alloc returns is a slot of a slab that
\* has room for it.
THEOREM ObjectsAlwaysDisjoint ==
    ASSUME MadviseMayFail = FALSE PROVE SlabSpec => []ObjectsDisjoint
<1>1. ASSUME SInv, Counted PROVE ObjectsDisjoint
  <2>1. PInv /\ SlabTypes /\ Listed /\ Placed
    BY <1>1 DEF SInv
  <2>2. ASSUME NEW o \in objs
        PROVE \E g \in Groups, m \in Pages, i \in Nat :
                /\ Shaped(g, m) /\ m \in Allocated /\ i \in SlotsOf(g) /\ obj_size[m] \in Nat
                /\ o.addr = st_pagepool_page_to_addr(m) + i * obj_size[m]
                /\ o.size <= obj_size[m] /\ o.size \in Nat /\ o.addr \in Nat
    <3>1. PICK g \in Groups, m \in Pages, i \in Nat : Lies(o, g, m, i)
      BY <2>1 DEF Placed
    <3>2. o.size \in Nat /\ o.addr \in Nat
      BY <2>1, SlabAssumption DEF SlabTypes, Objects
    <3> QED
      BY <3>1, <3>2, <1>1, LiesFacts DEF Lies
  <2>3. ASSUME NEW o \in objs, NEW m \in Pages, NEW i \in Nat, NEW b \in Bytes(o),
               obj_size[m] \in Nat, o.addr = st_pagepool_page_to_addr(m) + i * obj_size[m],
               o.size <= obj_size[m], o.size \in Nat, o.addr \in Nat
        PROVE /\ b - o.addr \in Nat /\ b - o.addr < obj_size[m]
              /\ b = st_pagepool_page_to_addr(m) + (i * obj_size[m] + (b - o.addr))
    <3>1. i * obj_size[m] \in Int /\ st_pagepool_page_to_addr(m) \in Int
      BY <2>3, AddrIsNat
    <3>2. b \in Int /\ o.addr <= b /\ b <= o.addr + o.size - 1
      BY <2>3 DEF Bytes
    <3> QED
      BY <3>1, <3>2, <2>3
  <2>4. ASSUME NEW o \in objs, NEW q \in objs, NEW b \in Bytes(o), b \in Bytes(q) PROVE o = q
    <3>1. PICK g \in Groups, m \in Pages, i \in Nat :
                /\ Shaped(g, m) /\ m \in Allocated /\ i \in SlotsOf(g) /\ obj_size[m] \in Nat
                /\ o.addr = st_pagepool_page_to_addr(m) + i * obj_size[m]
                /\ o.size <= obj_size[m] /\ o.size \in Nat /\ o.addr \in Nat
      BY <2>2
    <3>2. PICK h \in Groups, k \in Pages, j \in Nat :
                /\ Shaped(h, k) /\ k \in Allocated /\ j \in SlotsOf(h) /\ obj_size[k] \in Nat
                /\ q.addr = st_pagepool_page_to_addr(k) + j * obj_size[k]
                /\ q.size <= obj_size[k] /\ q.size \in Nat /\ q.addr \in Nat
      BY <2>2
    <3>3. /\ b - o.addr \in Nat /\ b - o.addr < obj_size[m]
          /\ b = st_pagepool_page_to_addr(m) + (i * obj_size[m] + (b - o.addr))
      BY <3>1, <2>3
    <3>4. /\ b - q.addr \in Nat /\ b - q.addr < obj_size[k]
          /\ b = st_pagepool_page_to_addr(k) + (j * obj_size[k] + (b - q.addr))
      BY <3>2, <2>3, <2>4
    <3>5. obj_size \in [Pages -> Nat]
      BY <2>1 DEF SlabTypes
    <3>6. m = k /\ i = j
      BY <3>1, <3>2, <3>3, <3>4, <3>5, <2>1, OnePlace
    <3>7. o.addr = q.addr
      BY <3>1, <3>2, <3>6
    <3> QED
      BY <3>7, <2>1 DEF Placed
  <2>5. ASSUME NEW o \in objs
        PROVE \E m \in Allocated :
                Bytes(o) \subseteq st_pagepool_page_to_addr(m)..(st_pagepool_page_to_addr(m)
                                       + page[m].compound_page_cnt * PageSize - 1)
    <3>1. PICK g \in Groups, m \in Pages, i \in Nat :
                /\ Shaped(g, m) /\ m \in Allocated /\ i \in SlotsOf(g) /\ obj_size[m] \in Nat
                /\ o.addr = st_pagepool_page_to_addr(m) + i * obj_size[m]
                /\ o.size <= obj_size[m] /\ o.size \in Nat /\ o.addr \in Nat
      BY <2>2
    <3> DEFINE a == st_pagepool_page_to_addr(m)
               t == page[m].compound_page_cnt * PageSize
    <3>2. page[m].compound_page_cnt \in Nat
      BY <3>1, <2>1, BlockFacts
    <3>3. a \in Int /\ t \in Int
      BY <3>2, AddrIsNat, SizesAssumption
    <3>4. ASSUME NEW b \in Bytes(o) PROVE b \in a..(a + t - 1)
      <4>1. /\ b - o.addr \in Nat /\ b - o.addr < obj_size[m]
            /\ b = a + (i * obj_size[m] + (b - o.addr))
        BY <3>1, <2>3
      <4>2. Inside(m, i * obj_size[m] + (b - o.addr))
        BY <4>1, <3>1, <3>2, ByteOfSlot
      <4> DEFINE k == i * obj_size[m] + (b - o.addr)
      <4>3. k \in Nat /\ k < t /\ b = a + k
        BY <4>1, <4>2 DEF Inside
      <4> HIDE DEF k, a, t
      <4> QED
        BY <4>3, <3>3
    <3> QED
      BY <3>1, <3>4
  <2>6. SlabTypeOK
    <3>1. ASSUME NEW g \in Groups PROVE current[g] \in [alloc : Nat, free : Nat]
      <4>1. current[g] \in [alloc : Int, free : Int]
        BY <1>1 DEF Counted
      <4>2. /\ current[g].alloc = Cardinality(ObjsOf(objs, g))
            /\ current[g].alloc + current[g].free = Cardinality(Slabs(g)) * SlotCnt(g)
        BY <1>1 DEF Counted, CountersAreExact, ObjsOf
      <4>3. /\ Cardinality(ObjsOf(objs, g)) \in Nat
            /\ Cardinality(ObjsOf(objs, g)) <= Cardinality(Slabs(g)) * SlotCnt(g)
        BY <1>1, ObjectsFit DEF Counted
      <4>4. current[g].alloc \in Nat /\ current[g].free \in Nat
        BY <4>1, <4>2, <4>3
      <4> QED
        BY <4>1, <4>4
    <3>2. current \in [Groups -> [alloc : Nat, free : Nat]]
      BY <3>1, <1>1 DEF Counted
    <3> QED
      BY <3>2, <2>1 DEF SlabTypeOK, SlabTypes, PInv
  <2> QED
    BY <2>4, <2>5, <2>6 DEF ObjectsDisjoint
<1> QED
  BY <1>1, SlabInvariant, CountInvariant, PTL

\* Every block of the pool is a slab of one group, in the list that its bitmap
\* calls for, and the counters of the group agree with the lists.
THEOREM SlabsAlwaysListed ==
    ASSUME MadviseMayFail = FALSE PROVE SlabSpec => []SlabsAreListed
<1>1. ASSUME SInv, Counted PROVE SlabsAreListed
  <2>1. SlabTypes /\ Listed /\ CountersAreExact
    BY <1>1 DEF SInv, Counted
  <2>2. ASSUME NEW g \in Groups, NEW m \in Slabs(g)
        PROVE /\ m \in Allocated /\ Filled(g, m) /\ Slots(obj_size[m]) = SlotsOf(g)
    <3>1. Shaped(g, m) /\ Filled(g, m)
      BY <2>1 DEF Listed
    <3>2. m \in Allocated /\ m \in Pages /\ obj_size[m] \in Nat /\ Fits(g, obj_size[m])
      BY <3>1, <2>1 DEF Shaped, Allocated, SlabTypes
    <3> QED
      BY <3>1, <3>2, FitsFacts
  <2>3. \A g \in Groups : slabs_partial[g] \cap slabs_full[g] = {}
    BY <2>2 DEF Slabs, Filled
  <2>4. \A g, k \in Groups : g # k => Slabs(g) \cap Slabs(k) = {}
    BY <2>1, OneGroup
  <2>5. UNION {Slabs(g) : g \in Groups} = Allocated
    BY <2>1, <2>2 DEF Listed
  <2>6. \A g \in Groups : \A m \in Slabs(g) :
            /\ bitmap[m] # {}
            /\ m \in slabs_full[g] <=> st_slab_is_full(bitmap[m], obj_size[m])
    BY <2>2 DEF Filled, st_slab_is_full
  <2> QED
    BY <2>1, <2>3, <2>4, <2>5, <2>6 DEF SlabsAreListed
<1> QED
  BY <1>1, SlabInvariant, CountInvariant, PTL

=============================================================================
