----------------------------- MODULE SlabPlaces -----------------------------
(***************************************************************************)
(* The slab allocator on top of the page pool, for any sizes of regions,   *)
(* pages and objects with which the number of pages of a region fits       *)
(* compound_page_cnt, as long as madvise does not fail: where objects and  *)
(* slabs are, and that a release finds them.                               *)
(***************************************************************************)
EXTENDS Slab, PagePoolProofs, WellFoundedInduction

-----------------------------------------------------------------------------
(* Numbers.                                                                  *)

\* A nonempty set of natural numbers has a least element.
LEMMA LeastNumber ==
    ASSUME NEW S \in SUBSET Nat, S # {}
    PROVE \E n \in S : \A m \in S : n <= m
<1> DEFINE R == OpToRel(<, Nat)
<1>1. IsWellFoundedOn(R, Nat)
  BY NatLessThanWellFounded, Zenon
<1> HIDE DEF R
<1>2. PICK n \in S : \A m \in S : ~(<<m, n>> \in R)
  BY <1>1, WFMin, Zenon
<1>3. ASSUME NEW m \in S PROVE n <= m
  <2>1. m \in Nat /\ n \in Nat
    BY Zenon
  <2>2. ~(m < n)
    BY <1>2, <2>1 DEF R, OpToRel
  <2> QED
    BY <2>1, <2>2
<1> QED
  BY <1>3, Zenon

\* The powers of two are numbers and grow.
LEMMA Powers ==
    /\ \A k \in 0..(MaxShift + 1) : Pow2(k) \in Nat /\ k < Pow2(k)
    /\ \A j, k \in 0..(MaxShift + 1) : j < k => 2 * Pow2(j) <= Pow2(k)
<1>1. MaxShift \in Nat
  BY SlabAssumption, Zenon
<1>2. Pow2(0) = 1 /\ \A k \in 0..MaxShift : Pow2(k + 1) = 2 * Pow2(k)
  BY PowersOfTwo, Zenon
<1> DEFINE S == {k \in 0..(MaxShift + 1) : ~(Pow2(k) \in Nat /\ k < Pow2(k))}
<1>3. S = {}
  <2> SUFFICES ASSUME S # {} PROVE FALSE
    BY Zenon
  <2>1. PICK n \in S : \A m \in S : n <= m
    <3>1. S \in SUBSET Nat
      BY <1>1
    <3> QED
      BY <3>1, LeastNumber, Zenon
  <2>2. n # 0 /\ n \in Nat /\ n <= MaxShift + 1
    BY <1>1, <1>2
  <2>3. n - 1 \notin S /\ n - 1 \in 0..MaxShift
    BY <2>1, <2>2, <1>1
  <2>4. Pow2(n - 1) \in Nat /\ n - 1 < Pow2(n - 1)
    BY <2>3, <1>1
  <2>5. Pow2((n - 1) + 1) = 2 * Pow2(n - 1) /\ (n - 1) + 1 = n
    BY <2>2, <2>3, <1>2
  <2>6. Pow2(n) \in Nat /\ n < Pow2(n)
    BY <2>2, <2>4, <2>5
  <2> QED
    BY <2>1, <2>6, Zenon
<1>4. \A k \in 0..(MaxShift + 1) : Pow2(k) \in Nat /\ k < Pow2(k)
  BY <1>3, Zenon
<1>5. ASSUME NEW j \in 0..(MaxShift + 1), NEW k \in 0..(MaxShift + 1), j < k
      PROVE 2 * Pow2(j) <= Pow2(k)
  <2> DEFINE T == {n \in (j + 1)..(MaxShift + 1) : ~(2 * Pow2(j) <= Pow2(n))}
  <2> SUFFICES ASSUME T # {} PROVE FALSE
    BY <1>1, <1>5
  <2>1. T \in SUBSET Nat
    BY <1>1
  <2>2. PICK n \in T : \A m \in T : n <= m
    BY <2>1, LeastNumber, Zenon
  <2>3. n \in Nat /\ j \in Nat /\ j < n /\ n <= MaxShift + 1 /\ j <= MaxShift
    BY <1>1
  <2>4. Pow2((n - 1) + 1) = 2 * Pow2(n - 1) /\ (n - 1) + 1 = n /\ Pow2(j + 1) = 2 * Pow2(j)
    BY <2>3, <1>1, <1>2
  <2>5. n # j + 1
    BY <2>3, <2>4, <1>4
  <2>6. n - 1 \in (j + 1)..(MaxShift + 1) /\ n - 1 \notin T
    BY <2>2, <2>3, <2>5, <1>1
  <2>7. 2 * Pow2(j) <= Pow2(n - 1)
    BY <2>6, Zenon
  <2>8. Pow2(j) \in Nat /\ Pow2(n - 1) \in Nat /\ Pow2(n) \in Nat
    BY <2>3, <2>6, <1>1, <1>4
  <2> QED
    BY <2>2, <2>4, <2>7, <2>8
<1> QED
  BY <1>4, <1>5, Zenon

\* st_bit_msb finds the highest bit.
LEMMA HighestBit ==
    ASSUME NEW n \in Nat, 1 <= n, n < Pow2(MaxShift)
    PROVE /\ st_bit_msb(n) \in 0..(MaxShift - 1)
          /\ Pow2(st_bit_msb(n)) <= n /\ n < Pow2(st_bit_msb(n) + 1)
<1> DEFINE S == {k \in 0..MaxShift : n < Pow2(k + 1)}
<1>1. MaxShift \in Nat
  BY SlabAssumption, Zenon
<1>2. \A k \in 0..(MaxShift + 1) : Pow2(k) \in Nat /\ k < Pow2(k)
  BY Powers
<1>3. MaxShift \in S
  BY <1>1, <1>2, PowersOfTwo
<1>4. PICK k \in S : \A j \in S : k <= j
  <2>1. S \in SUBSET Nat /\ S # {}
    BY <1>1, <1>3
  <2> QED
    BY <2>1, LeastNumber, Zenon
<1>5. Pow2(k) <= n
  <2>1. CASE k = 0
    BY <2>1, PowersOfTwo, Zenon
  <2>2. CASE k # 0
    <3>1. k - 1 \in 0..MaxShift /\ k - 1 \notin S /\ (k - 1) + 1 = k
      BY <2>2, <1>1, <1>4
    <3>2. ~(n < Pow2(k)) /\ Pow2(k) \in Nat
      BY <3>1, <1>1, <1>2
    <3> QED
      BY <3>2
  <2> QED
    BY <2>1, <2>2, Zenon
<1>6. k \in 0..MaxShift /\ Pow2(k) <= n /\ n < Pow2(k + 1)
  BY <1>1, <1>2, <1>5
<1> DEFINE b == st_bit_msb(n)
<1>7. b \in 0..MaxShift /\ Pow2(b) <= n /\ n < Pow2(b + 1)
  BY <1>6, Zenon DEF st_bit_msb
<1> HIDE DEF b
<1>8. b # MaxShift
  BY <1>1, <1>2, <1>7
<1> QED
  BY <1>1, <1>7, <1>8 DEF b

\* The group of a size: its objects are large enough, and those of the last
\* group are the ones that are larger than all others.
LEMMA IndexFacts ==
    ASSUME NEW size \in Nat \ {0}
    PROVE LET g == st_slab_size_to_index(size)
          IN /\ g \in Groups
             /\ g = Huge <=> size > Pow2(MaxShift)
             /\ g # Huge => size <= Pow2(g)
<1> DEFINE g == st_slab_size_to_index(size)
<1>1. MinShift \in Nat /\ MaxShift \in Nat /\ MinShift <= MaxShift
  BY SlabAssumption, Zenon
<1>2. /\ \A k \in 0..(MaxShift + 1) : Pow2(k) \in Nat
      /\ \A j, k \in 0..(MaxShift + 1) : j < k => 2 * Pow2(j) <= Pow2(k)
  BY Powers, Zenon
<1>3. Pow2(MinShift) \in Nat /\ Pow2(MaxShift) \in Nat /\ Pow2(MinShift) <= Pow2(MaxShift)
  <2>1. CASE MinShift < MaxShift
    BY <2>1, <1>1, <1>2
  <2>2. CASE MinShift = MaxShift
    BY <2>2, <1>1, <1>2
  <2> QED
    BY <2>1, <2>2, <1>1
<1>4. CASE size <= Pow2(MinShift)
  <2>1. g = MinShift
    BY <1>4, Zenon DEF st_slab_size_to_index
  <2> QED
    BY <2>1, <1>1, <1>3, <1>4 DEF Groups, Huge
<1>5. CASE size > Pow2(MaxShift)
  <2>1. g = Huge
    BY <1>3, <1>5 DEF st_slab_size_to_index
  <2> QED
    BY <2>1, <1>1, <1>5 DEF Groups, Huge
<1>6. CASE size > Pow2(MinShift) /\ size <= Pow2(MaxShift)
  <2> DEFINE b == st_bit_msb(size - 1)
  <2>1. g = b + 1
    BY <1>3, <1>6 DEF st_slab_size_to_index
  <2>2. size - 1 \in Nat /\ 1 <= size - 1 /\ size - 1 < Pow2(MaxShift)
    BY <1>1, <1>3, <1>6, Powers
  <2>3. b \in 0..(MaxShift - 1) /\ Pow2(b) <= size - 1 /\ size - 1 < Pow2(b + 1)
    BY <2>2, HighestBit, Zenon
  <2> HIDE DEF b
  <2>4. size <= Pow2(b + 1)
    BY <2>3, <1>1, <1>2
  <2>5. b + 1 > MinShift
    <3> SUFFICES ASSUME b + 1 <= MinShift PROVE FALSE
      BY <2>3, <1>1
    <3>1. b + 1 \in 0..(MaxShift + 1) /\ MinShift \in 0..(MaxShift + 1)
      BY <2>3, <1>1
    <3>2. b + 1 < MinShift => 2 * Pow2(b + 1) <= Pow2(MinShift)
      BY <3>1, <1>2, Zenon
    <3>3. b + 1 = MinShift => Pow2(b + 1) = Pow2(MinShift)
      BY Zenon
    <3> QED
      BY <3>1, <3>2, <3>3, <2>4, <1>1, <1>2, <1>3, <1>6
  <2>6. b + 1 \in Groups /\ b + 1 # Huge
    BY <2>3, <2>5, <1>1 DEF Groups, Huge
  <2>7. ~(size > Pow2(MaxShift))
    BY <1>3, <1>6
  <2> QED
    BY <2>1, <2>4, <2>6, <2>7
<1> QED
  BY <1>3, <1>4, <1>5, <1>6

\* The size of the objects of a group leads back to the group.
LEMMA IndexOfPower ==
    ASSUME NEW g \in MinShift..MaxShift PROVE st_slab_size_to_index(Pow2(g)) = g
<1>1. MinShift \in Nat /\ MaxShift \in Nat /\ MinShift <= MaxShift /\ g \in Nat
  BY SlabAssumption
<1>2. /\ \A k \in 0..(MaxShift + 1) : Pow2(k) \in Nat /\ k < Pow2(k)
      /\ \A j, k \in 0..(MaxShift + 1) : j < k => 2 * Pow2(j) <= Pow2(k)
  BY Powers, Zenon
<1>3. \A j, k \in 0..(MaxShift + 1) : j <= k => Pow2(j) <= Pow2(k)
  BY <1>1, <1>2
<1>4. CASE g = MinShift
  BY <1>1, <1>2, <1>4 DEF st_slab_size_to_index
<1>5. CASE g # MinShift
  <2>1. Pow2(g) > Pow2(MinShift) /\ Pow2(g) <= Pow2(MaxShift)
    BY <1>1, <1>2, <1>3, <1>5
  <2> DEFINE b == st_bit_msb(Pow2(g) - 1)
  <2>2. st_slab_size_to_index(Pow2(g)) = b + 1
    BY <2>1, <1>1, <1>2 DEF st_slab_size_to_index
  <2>3. Pow2(g) - 1 \in Nat /\ 1 <= Pow2(g) - 1 /\ Pow2(g) - 1 < Pow2(MaxShift)
    BY <2>1, <1>1, <1>2, <1>5
  <2>4. b \in 0..(MaxShift - 1) /\ Pow2(b) <= Pow2(g) - 1 /\ Pow2(g) - 1 < Pow2(b + 1)
    BY <2>3, HighestBit, Zenon
  <2> HIDE DEF b
  <2>5. b < g
    BY <2>4, <1>1, <1>2, <1>3
  <2>6. ~(b + 1 < g)
    <3> SUFFICES ASSUME b + 1 < g PROVE FALSE
      BY Zenon
    <3>1. 2 * Pow2(b + 1) <= Pow2(g)
      BY <2>4, <1>1, <1>2
    <3>2. Pow2(b + 1) \in Nat /\ b + 1 < Pow2(b + 1) /\ Pow2(g) \in Nat
      BY <2>4, <1>1, <1>2
    <3> QED
      BY <3>1, <3>2, <2>4
  <2> QED
    BY <2>2, <2>4, <2>5, <2>6, <1>1
<1> QED
  BY <1>4, <1>5, Zenon

-----------------------------------------------------------------------------
(* Addresses.                                                                *)

\* Quotient and remainder are unique.
LEMMA Quotient ==
    ASSUME NEW q \in Int, NEW b \in Int, NEW r \in Int, 0 <= r, r < b
    PROVE (q * b + r) \div b = q
<1> DEFINE a == q * b + r
           d == a \div b
           e == a % b
<1>1. b > 0 /\ a \in Int /\ q * b \in Int
  OBVIOUS
<1>2. d \in Int /\ e \in Int /\ a = d * b + e /\ 0 <= e /\ e < b
  BY <1>1, Divide, Zenon
<1>3. a = q * b + r
  BY Zenon
<1> HIDE DEF a, d, e
<1>4. d * b \in Int
  BY <1>1, <1>2
<1>5. ~(d < q)
  <2> SUFFICES ASSUME d + 1 <= q PROVE FALSE
    BY <1>2
  <2>1. (d + 1) * b <= q * b /\ (d + 1) * b = d * b + b
    BY <1>1, <1>2, Times
  <2> QED
    BY <2>1, <1>1, <1>2, <1>3, <1>4
<1>6. ~(q < d)
  <2> SUFFICES ASSUME q + 1 <= d PROVE FALSE
    BY <1>2
  <2>1. (q + 1) * b <= d * b /\ (q + 1) * b = q * b + b
    BY <1>1, <1>2, Times
  <2> QED
    BY <2>1, <1>1, <1>2, <1>3, <1>4
<1> QED
  BY <1>2, <1>5, <1>6 DEF a, d

\* The pages of a slab have room for its objects.
LEMMA PagesForFits ==
    ASSUME NEW size \in Nat \ {0}, NEW cnt \in Nat \ {0}
    PROVE PagesFor(size, cnt) \in Int /\ size * cnt <= PagesFor(size, cnt) * PageSize
<1> DEFINE n == size * cnt
           x == n + PageSize - 1
           q == x \div PageSize
<1>1. PageSize \in Int /\ PageSize > 0 /\ n \in Int
  BY SizesAssumption
<1> HIDE DEF n
<1>2. x \in Int /\ x = n + PageSize - 1
  BY <1>1
<1> HIDE DEF x
<1>3. q \in Int /\ x % PageSize \in Int /\ x = q * PageSize + (x % PageSize) /\ x % PageSize < PageSize
      /\ (q * PageSize) \div PageSize = q
  BY <1>1, <1>2, Divide
<1>4. PagesFor(size, cnt) = q
  BY <1>3, Zenon DEF PagesFor, st_align, n, x
<1> HIDE DEF q
<1>5. q * PageSize \in Int
  BY <1>1, <1>3
<1> QED
  BY <1>1, <1>2, <1>3, <1>4, <1>5 DEF n

\* Pages begin at multiples of the size of a page.
LEMMA PagesAligned ==
    ASSUME NEW m \in Pages
    PROVE \E c \in Int : st_pagepool_page_to_addr(m) = c * PageSize
<1> DEFINE K == RegSize \div PageSize
           q == (DescSize * pages_per_region + PageSize - 1) \div PageSize
<1>1. /\ RegSize \in Int /\ PageSize \in Int /\ PageSize > 0 /\ DescSize \in Int
      /\ pages_per_region \in Int /\ m[1] \in Int /\ m[2] \in Int /\ RegSize % PageSize = 0
  BY SizesAssumption, PerRegion, PageFacts DEF Regs
<1>2. K \in Int /\ RegSize = K * PageSize
  BY <1>1, Divide
<1>3. q \in Int
  <2>1. DescSize * pages_per_region + PageSize - 1 \in Int
    BY <1>1
  <2> QED
    BY <2>1, <1>1, Divide, Zenon
<1>4. space_base_offset = q * PageSize
  BY Zenon DEF space_base_offset, st_align
<1> HIDE DEF K, q
<1>5. st_pagepool_page_to_addr(m) = m[1] * (K * PageSize) + q * PageSize + m[2] * PageSize
  BY <1>2, <1>4, Zenon DEF st_pagepool_page_to_addr, st_region_base_addr_by_idx
<1>6. m[1] * (K * PageSize) + q * PageSize + m[2] * PageSize = (m[1] * K + q + m[2]) * PageSize
      /\ m[1] * K + q + m[2] \in Int
  <2> DEFINE a == m[1]
             d == m[2]
  <2>1. a \in Int /\ d \in Int /\ K \in Int /\ q \in Int /\ PageSize \in Int
    BY <1>1, <1>2, <1>3
  <2> HIDE DEF a, d
  <2>2. a * (K * PageSize) + q * PageSize + d * PageSize = (a * K + q + d) * PageSize
        /\ a * K + q + d \in Int
    BY <2>1
  <2> QED
    BY <2>2, Zenon DEF a, d
<1> QED
  BY <1>5, <1>6, Zenon

\* What the page pool says of a block in use.
LEMMA BlockFacts ==
    ASSUME PInv, NEW m \in Allocated
    PROVE /\ m \in Pages /\ m \in Heads(page, regions) /\ m \in Block(m)
          /\ page[m].compound_page_cnt \in Nat \ {0}
          /\ m[2] + page[m].compound_page_cnt <= pages_per_region
          /\ page[m].type = "master"
          /\ \A p \in Pages : p \in Block(m) <=> In(page, p, m)
          /\ \A p \in Block(m) \ {m} : page[p].type = "slave"
<1>1. /\ page \in Descriptors /\ Tiled(page, regions) /\ m \in Heads(page, regions) /\ m \in Pages
  BY FreeFacts, Zenon
<1>2. page[m].compound_page_cnt \in Int /\ m[2] \in Int /\ page[m].compound_page_cnt >= 1
  BY <1>1, HeadIn, DescriptorFacts, PageFacts
<1>3. \A p \in Pages : p \in Block(m) <=> In(page, p, m)
  BY <1>1, <1>2, WithinFacts DEF Block, In
<1>4. m[2] + page[m].compound_page_cnt <= pages_per_region
      /\ \A p \in Pages : In(page, p, m) => (p # m => page[p].type = "slave")
  BY <1>1, TiledFacts
<1>5. In(page, m, m)
  BY <1>1, HeadIn, Zenon
<1>6. \A p \in Block(m) : p \in Pages
  BY Zenon DEF Block
<1> QED
  BY <1>1, <1>2, <1>3, <1>4, <1>5, <1>6 DEF Heads

\* The pages of two blocks in use are different.
LEMMA BlocksApart ==
    ASSUME PInv, NEW m \in Allocated, NEW k \in Allocated, m # k
    PROVE Block(m) \cap Block(k) = {}
<1>1. page \in Descriptors /\ Tiled(page, regions)
  BY FreeFacts, Zenon
<1> SUFFICES ASSUME NEW p \in Block(m), p \in Block(k) PROVE FALSE
  BY Zenon
<1>2. p \in Pages
  BY Zenon DEF Block
<1> QED
  BY <1>1, <1>2, BlockFacts, OneBlock

\* The number of a byte, counted from the start of a block in use.
Inside(m, k) == k \in Nat /\ k < page[m].compound_page_cnt * PageSize

\* The address of a byte of a block in use leads to a page of the block.
LEMMA PageOfByte ==
    ASSUME PInv, NEW m \in Allocated, NEW k, Inside(m, k)
    PROVE \E p \in Block(m) :
            st_pagepool_addr_to_page(ADDR_PAGE_BASE(st_pagepool_page_to_addr(m) + k)) = {p}
<1> DEFINE n == page[m].compound_page_cnt
           j == k \div PageSize
           e == k % PageSize
           p == Plus(m, j)
<1>1. /\ m \in Pages /\ n \in Nat /\ m[2] + n <= pages_per_region /\ m[2] \in Int /\ m[2] >= 0
      /\ pages_per_region \in Int /\ PageSize \in Int /\ PageSize > 0
      /\ k \in Int /\ 0 <= k /\ k < n * PageSize
  BY BlockFacts, PageFacts, PerRegion, SizesAssumption DEF Inside
<1>2. j \in Int /\ e \in Int /\ k = j * PageSize + e /\ 0 <= e /\ e < PageSize
  BY <1>1, Divide, Zenon
<1> HIDE DEF n, j, e
<1>3. j * PageSize \in Int
  BY <1>1, <1>2
<1>4. 0 <= j
  <2> SUFFICES ASSUME j + 1 <= 0 PROVE FALSE
    BY <1>2
  <2>1. (j + 1) * PageSize <= 0 * PageSize /\ (j + 1) * PageSize = j * PageSize + PageSize /\ 0 * PageSize = 0
    BY <1>1, <1>2, Times
  <2> QED
    BY <2>1, <1>1, <1>2, <1>3
<1>5. j < n
  <2> SUFFICES ASSUME n <= j PROVE FALSE
    BY <1>1, <1>2
  <2>1. n * PageSize <= j * PageSize /\ n * PageSize \in Int
    BY <1>1, <1>2, Times
  <2> QED
    BY <2>1, <1>1, <1>2, <1>3
<1>6. p \in Pages /\ p[1] = m[1] /\ p[2] = m[2] + j
  BY <1>1, <1>2, <1>4, <1>5, PageFacts
<1>7. p \in Block(m)
  <2>1. In(page, p, m)
    BY <1>1, <1>2, <1>4, <1>5, <1>6 DEF In, n
  <2> QED
    BY <2>1, <1>6, BlockFacts, Zenon
<1>8. PICK c \in Int : st_pagepool_page_to_addr(m) = c * PageSize
  BY <1>1, PagesAligned, Zenon
<1>9. st_pagepool_page_to_addr(p) = st_pagepool_page_to_addr(m) + j * PageSize
  <2>1. (m[2] + j) * PageSize = m[2] * PageSize + j * PageSize /\ m[2] * PageSize \in Int
    BY <1>1, <1>2
  <2>2. m[1] * RegSize + space_base_offset \in Int
    BY <1>1, PageFacts, PagesFit, SizesAssumption DEF Regs
  <2> QED
    BY <2>1, <2>2, <1>3, <1>6 DEF st_pagepool_page_to_addr, st_region_base_addr_by_idx
<1>10. ADDR_PAGE_BASE(st_pagepool_page_to_addr(m) + k) = st_pagepool_page_to_addr(p)
  <2>1. c * PageSize + k = (c + j) * PageSize + e /\ (c + j) * PageSize = c * PageSize + j * PageSize /\ c + j \in Int
    BY <1>1, <1>2, <1>3
  <2>2. ((c + j) * PageSize + e) \div PageSize = c + j
    BY <2>1, <1>1, <1>2, Quotient
  <2> QED
    BY <2>1, <2>2, <1>8, <1>9, Zenon DEF ADDR_PAGE_BASE
<1>11. st_pagepool_addr_to_page(st_pagepool_page_to_addr(p)) = {p}
  BY <1>6, FreeFacts, AddrOfPage
<1> QED
  BY <1>7, <1>10, <1>11, Zenon

\* A byte belongs to one block in use.
LEMMA OneBlockOfByte ==
    ASSUME PInv, NEW m \in Allocated, NEW k \in Allocated, NEW i, Inside(m, i), NEW j, Inside(k, j),
           st_pagepool_page_to_addr(m) + i = st_pagepool_page_to_addr(k) + j
    PROVE m = k
<1>1. PICK p \in Block(m) :
        st_pagepool_addr_to_page(ADDR_PAGE_BASE(st_pagepool_page_to_addr(m) + i)) = {p}
  BY PageOfByte, Zenon
<1>2. PICK q \in Block(k) :
        st_pagepool_addr_to_page(ADDR_PAGE_BASE(st_pagepool_page_to_addr(k) + j)) = {q}
  BY PageOfByte, Zenon
<1>3. p = q
  BY <1>1, <1>2, Zenon
<1> QED
  BY <1>3, BlocksApart, Zenon

\* st_slab_get_master_page finds the slab of each of its bytes.
LEMMA SearchFinds ==
    ASSUME PInv, NEW m \in Allocated, NEW k, Inside(m, k), link[m] # Null,
           \A p \in Block(m) \ {m} : link[p] = m
    PROVE st_slab_get_master_page(st_pagepool_page_to_addr(m) + k) = {m}
<1>1. PICK p \in Block(m) :
        st_pagepool_addr_to_page(ADDR_PAGE_BASE(st_pagepool_page_to_addr(m) + k)) = {p}
  BY PageOfByte, Zenon
<1>2. p \in Pages /\ m \in Pages
  BY BlockFacts, Zenon DEF Block
<1>3. (IF page[p].type = "master" THEN p ELSE link[p]) = m
  BY <1>1, BlockFacts
<1> QED
  BY <1>1, <1>2, <1>3 DEF st_slab_get_master_page

-----------------------------------------------------------------------------
(* The inductive invariant.                                                  *)

\* The indexes of the objects in a slab of group g.
SlotsOf(g) == IF g = Huge THEN {0} ELSE 0..(ObjCnt - 1)

\* s is a size of the objects in slabs of group g.
Fits(g, s) == IF g = Huge THEN s > Pow2(MaxShift) ELSE s = Pow2(g)

\* The pages of m are linked as a slab of group g and have room for its objects.
Shaped(g, m) ==
    /\ m \in Allocated
    /\ link[m] = GroupAddr(g)
    /\ \A p \in Block(m) \ {m} : link[p] = m
    /\ Fits(g, obj_size[m])
    /\ obj_size[m] * SlotCnt(g) <= page[m].compound_page_cnt * PageSize

\* m is in the list that its bitmap calls for.
Filled(g, m) ==
    /\ bitmap[m] \subseteq SlotsOf(g) /\ bitmap[m] # {}
    /\ m \in slabs_full[g] <=> SlotsOf(g) \subseteq bitmap[m]
    /\ m \in slabs_partial[g] => m \notin slabs_full[g]

Listed ==
    /\ \A g \in Groups : \A m \in Slabs(g) : Shaped(g, m) /\ Filled(g, m)
    /\ \A m \in Allocated : \E g \in Groups : m \in Slabs(g)

\* o is the object of index i in the slab m of group g.
Lies(o, g, m, i) ==
    /\ g \in Groups /\ m \in Slabs(g) /\ i \in bitmap[m]
    /\ o.addr = st_pagepool_page_to_addr(m) + i * obj_size[m]
    /\ o.size <= obj_size[m]
    /\ st_slab_size_to_index(o.size) = g

Placed ==
    /\ \A o \in objs : \E g \in Groups, m \in Pages, i \in Nat : Lies(o, g, m, i)
    /\ \A o, q \in objs : o.addr = q.addr => o = q

Searches ==
    /\ \A f \in freeing : \E i \in Nat : Lies(f.obj, f.group, f.master, i)
    /\ \A f, h \in freeing : f.obj = h.obj => f = h

SlabTypes ==
    /\ bitmap \in [Pages -> SUBSET (0..(ObjCnt - 1))]
    /\ obj_size \in [Pages -> Nat]
    /\ link \in [Pages -> Pages \cup {GroupAddr(g) : g \in Groups} \cup {Null}]
    /\ slabs_partial \in [Groups -> SUBSET Pages]
    /\ slabs_full \in [Groups -> SUBSET Pages]
    /\ objs \subseteq Objects
    /\ freeing \subseteq [obj : objs, master : Pages, group : Groups]
    /\ refused = {}

SInv == PInv /\ SlabTypes /\ Listed /\ Placed /\ Searches

-----------------------------------------------------------------------------
(* Slabs.                                                                    *)

\* The objects of a slab, by the size recorded in it.
LEMMA FitsFacts ==
    ASSUME NEW g \in Groups, NEW s \in Nat, Fits(g, s)
    PROVE /\ s > 0 /\ st_slab_size_to_index(s) = g
          /\ Slots(s) = SlotsOf(g) /\ SlotCnt(g) \in Nat \ {0}
          /\ SlotsOf(g) \subseteq 0..(ObjCnt - 1) /\ SlotsOf(g) # {}
          /\ \A i \in SlotsOf(g) : i \in Nat /\ i < SlotCnt(g)
<1>1. /\ MinShift \in Nat /\ MaxShift \in Nat /\ MinShift <= MaxShift
      /\ ObjCnt \in Nat /\ ObjCnt > 0
  BY SlabAssumption
<1>2. Pow2(MaxShift) \in Nat /\ MaxShift < Pow2(MaxShift)
  BY <1>1, Powers
<1>3. CASE g = Huge
  <2>1. s > Pow2(MaxShift) /\ s \in Nat \ {0} /\ SlotsOf(g) = {0} /\ SlotCnt(g) = 1
    BY <1>1, <1>2, <1>3 DEF Fits, SlotsOf, SlotCnt
  <2>2. st_slab_size_to_index(s) = g
    BY <2>1, <1>3, IndexFacts
  <2> QED
    BY <2>1, <2>2, <1>1 DEF Slots
<1>4. CASE g # Huge
  <2>1. s = Pow2(g) /\ g \in MinShift..MaxShift /\ SlotsOf(g) = 0..(ObjCnt - 1) /\ SlotCnt(g) = ObjCnt
    BY <1>1, <1>4 DEF Fits, SlotsOf, SlotCnt, Groups, Huge
  <2>2. st_slab_size_to_index(s) = g
    BY <2>1, IndexOfPower, Zenon
  <2>3. s > 0 /\ s \in Nat
    BY <2>1, <1>1, Powers
  <2>4. ~(s > Pow2(MaxShift))
    BY <2>2, <2>3, <1>4, IndexFacts
  <2>5. Slots(s) = SlotsOf(g)
    BY <2>1, <2>4 DEF Slots
  <2>6. 0 \in 0..(ObjCnt - 1) /\ \A i \in 0..(ObjCnt - 1) : i \in Nat /\ i < ObjCnt
    BY <1>1
  <2>7. SlotCnt(g) \in Nat \ {0}
    BY <2>1, <1>1
  <2>8. SlotsOf(g) # {} /\ \A i \in SlotsOf(g) : i \in Nat /\ i < SlotCnt(g)
    BY <2>1, <2>6, Zenon
  <2>9. SlotsOf(g) \subseteq 0..(ObjCnt - 1)
    BY <2>1, Zenon
  <2> QED
    BY <2>2, <2>3, <2>5, <2>7, <2>8, <2>9
<1> QED
  BY <1>3, <1>4, Zenon

\* A byte of an object is a byte of its slab.
LEMMA ByteOfSlot ==
    ASSUME NEW g \in Groups, NEW m, obj_size[m] \in Nat, Shaped(g, m),
           page[m].compound_page_cnt \in Nat,
           NEW i \in SlotsOf(g), NEW b \in Nat, b < obj_size[m]
    PROVE Inside(m, i * obj_size[m] + b)
<1> DEFINE s == obj_size[m]
           n == SlotCnt(g)
           t == page[m].compound_page_cnt * PageSize
<1>1. s \in Nat /\ s > 0 /\ i \in Nat /\ i < n /\ n \in Nat
  BY FitsFacts, Zenon DEF Shaped
<1>2. s * n <= t /\ t \in Int
  BY SizesAssumption DEF Shaped
<1> HIDE DEF s, n, t
<1>3. i + 1 <= n /\ i + 1 \in Int /\ s \in Int /\ n \in Int /\ i \in Int
  BY <1>1
<1>4. (i + 1) * s <= n * s /\ (i + 1) * s = i * s + s
  BY <1>1, <1>3, Times
<1>5. n * s = s * n /\ i * s \in Nat /\ n * s \in Int
  BY <1>1
<1>6. b < s /\ b \in Int
  BY DEF s
<1>7. i * s + b < t
  BY <1>1, <1>2, <1>3, <1>4, <1>5, <1>6
<1> QED
  BY <1>5, <1>7 DEF Inside, s, t

\* A byte belongs to one object of one slab.
LEMMA OnePlace ==
    ASSUME PInv, obj_size \in [Pages -> Nat],
           NEW g \in Groups, NEW m \in Pages, Shaped(g, m), NEW i \in SlotsOf(g),
           NEW h \in Groups, NEW k \in Pages, Shaped(h, k), NEW j \in SlotsOf(h),
           NEW a \in Nat, a < obj_size[m], NEW b \in Nat, b < obj_size[k],
           st_pagepool_page_to_addr(m) + (i * obj_size[m] + a)
             = st_pagepool_page_to_addr(k) + (j * obj_size[k] + b)
    PROVE m = k /\ i = j
<1>1. m \in Allocated /\ k \in Allocated
  BY Zenon DEF Shaped
<1>2. page[m].compound_page_cnt \in Nat /\ page[k].compound_page_cnt \in Nat
  BY <1>1, BlockFacts
<1>3. Inside(m, i * obj_size[m] + a) /\ Inside(k, j * obj_size[k] + b)
  BY <1>2, ByteOfSlot
<1>4. m = k
  BY <1>1, <1>3, OneBlockOfByte
<1> DEFINE s == obj_size[m]
<1>5. i \in Int /\ j \in Int /\ s \in Int /\ a \in Int /\ 0 <= a /\ a < s /\ b \in Int /\ 0 <= b /\ b < s
  BY <1>4, FitsFacts DEF Shaped
<1>6. st_pagepool_page_to_addr(m) \in Int
  <2>1. PICK c \in Int : st_pagepool_page_to_addr(m) = c * PageSize
    BY PagesAligned, Zenon
  <2> QED
    BY <2>1, SizesAssumption
<1>7. i * s + a = j * s + b
  <2> HIDE DEF s
  <2>1. i * s + a \in Int /\ j * s + b \in Int
    BY <1>5
  <2> QED
    BY <2>1, <1>4, <1>6 DEF s
<1> HIDE DEF s
<1>8. (i * s + a) \div s = i /\ (j * s + b) \div s = j
  BY <1>5, Quotient
<1> QED
  BY <1>4, <1>7, <1>8

-----------------------------------------------------------------------------
(* A step changes one slab, m.                                               *)

\* The others stay as they are.
Others(m) ==
    /\ Allocated' \ {m} = Allocated \ {m}
    /\ \A k \in Allocated \ {m} :
        /\ page'[k].compound_page_cnt = page[k].compound_page_cnt
        /\ obj_size'[k] = obj_size[k] /\ bitmap'[k] = bitmap[k]
        /\ \A p \in Block(k) : link'[p] = link[p]
    /\ \A g \in Groups :
        /\ slabs_partial'[g] \ {m} = slabs_partial[g] \ {m}
        /\ slabs_full'[g] \ {m} = slabs_full[g] \ {m}

\* A slab is linked to one group.
LEMMA OneGroup ==
    ASSUME Listed, NEW g \in Groups, NEW m \in Slabs(g), NEW h \in Groups, m \in Slabs(h)
    PROVE g = h
<1>1. GroupAddr(g) = GroupAddr(h)
  BY DEF Listed, Shaped
<1> QED
  BY <1>1, Zenon DEF GroupAddr

\* Another slab is still a slab of its group.
LEMMA OthersKeep ==
    ASSUME PInv, Listed, NEW m, Others(m), NEW g \in Groups, NEW k \in Slabs(g), k # m
    PROVE k \in Slabs(g)' /\ Shaped(g, k)' /\ Filled(g, k)'
<1>1. Shaped(g, k) /\ Filled(g, k) /\ k \in Allocated \ {m}
  BY Zenon DEF Listed, Shaped
<1>2. /\ k \in Allocated' /\ page'[k].compound_page_cnt = page[k].compound_page_cnt
      /\ obj_size'[k] = obj_size[k] /\ bitmap'[k] = bitmap[k]
      /\ \A p \in Block(k) : link'[p] = link[p]
      /\ k \in slabs_partial'[g] <=> k \in slabs_partial[g]
      /\ k \in slabs_full'[g] <=> k \in slabs_full[g]
  BY <1>1, Zenon DEF Others
<1>3. Block(k)' = Block(k) /\ k \in Block(k)
  BY <1>1, <1>2, BlockFacts DEF Block
<1>4. k \in Slabs(g)'
  BY <1>2, Zenon DEF Slabs
<1>5. Shaped(g, k)'
  BY <1>1, <1>2, <1>3 DEF Shaped
<1>6. Filled(g, k)'
  BY <1>1, <1>2 DEF Filled
<1> QED
  BY <1>4, <1>5, <1>6, Zenon

\* What has to be shown of m.
LEMMA ListedKeeps ==
    ASSUME PInv, Listed, NEW m, Others(m),
           \A g \in Groups : m \in Slabs(g)' => Shaped(g, m)' /\ Filled(g, m)',
           m \in Allocated' => \E g \in Groups : m \in Slabs(g)'
    PROVE Listed'
<1>1. ASSUME NEW g \in Groups, NEW k \in Slabs(g)' PROVE Shaped(g, k)' /\ Filled(g, k)'
  <2>1. CASE k = m
    BY <2>1, Zenon
  <2>2. CASE k # m
    <3>1. k \in Slabs(g)
      BY <2>2, Zenon DEF Slabs, Others
    <3> QED
      BY <3>1, <2>2, OthersKeep
  <2> QED
    BY <2>1, <2>2
<1>2. ASSUME NEW k \in Allocated' PROVE \E g \in Groups : k \in Slabs(g)'
  <2>1. CASE k = m
    BY <2>1, Zenon
  <2>2. CASE k # m
    <3>1. k \in Allocated
      BY <2>2 DEF Others
    <3>2. PICK g \in Groups : k \in Slabs(g)
      BY <3>1, Zenon DEF Listed
    <3> QED
      BY <3>2, <2>2, OthersKeep
  <2> QED
    BY <2>1, <2>2
<1> QED
  BY <1>1, <1>2 DEF Listed

\* Objects of other slabs stay where they are.
LEMMA LiesKeeps ==
    ASSUME PInv, Listed, NEW m, Others(m), NEW o, NEW g, NEW k, NEW i, Lies(o, g, k, i), k # m
    PROVE Lies(o, g, k, i)'
<1>1. g \in Groups /\ k \in Slabs(g)
  BY Zenon DEF Lies
<1>2. k \in Slabs(g)'
  BY <1>1, OthersKeep
<1>3. k \in Allocated \ {m}
  BY <1>1, Zenon DEF Listed, Shaped
<1>4. obj_size'[k] = obj_size[k] /\ bitmap'[k] = bitmap[k]
  BY <1>3, Zenon DEF Others
<1> QED
  BY <1>2, <1>4 DEF Lies

\* Nothing changes for the slabs when the page pool rests.
LEMMA PoolRests ==
    ASSUME PInv, UNCHANGED pool
    PROVE PInv' /\ Allocated' = Allocated /\ page' = page
<1>1. page' = page /\ regions' = regions /\ free_pages' = free_pages /\ states' = states
  BY Zenon DEF pool, vars
<1> QED
  BY <1>1, Zenon DEF PInv, TypeOK, RegionsAccounted, Allocated, IsMaster, Sound

-----------------------------------------------------------------------------
(* Allocation.                                                               *)

\* The objects of all slabs begin at different addresses.
Apart ==
    \A g, h \in Groups, m, k \in Pages :
        Shaped(g, m) /\ Shaped(h, k) =>
            \A i \in SlotsOf(g), j \in SlotsOf(h) :
                st_pagepool_page_to_addr(m) + i * obj_size[m]
                  = st_pagepool_page_to_addr(k) + j * obj_size[k] => m = k /\ i = j

\* OnePlace, as a statement about a state.
LEMMA PlacesApart == PInv /\ obj_size \in [Pages -> Nat] => Apart
<1> SUFFICES ASSUME PInv, obj_size \in [Pages -> Nat],
                    NEW g \in Groups, NEW h \in Groups, NEW m \in Pages, NEW k \in Pages,
                    Shaped(g, m), Shaped(h, k), NEW i \in SlotsOf(g), NEW j \in SlotsOf(h),
                    st_pagepool_page_to_addr(m) + i * obj_size[m]
                      = st_pagepool_page_to_addr(k) + j * obj_size[k]
             PROVE m = k /\ i = j
  BY DEF Apart
<1>1. /\ obj_size[m] \in Nat /\ obj_size[m] > 0 /\ obj_size[k] \in Nat /\ obj_size[k] > 0
      /\ i \in Nat /\ j \in Nat
  BY FitsFacts, Zenon DEF Shaped
<1>2. i * obj_size[m] + 0 = i * obj_size[m] /\ j * obj_size[k] + 0 = j * obj_size[k]
  BY <1>1
<1> QED
  BY <1>1, <1>2, OnePlace

\* The blocks in use share no page.
Disjoint == \A m, k \in Allocated : m \in Block(m) /\ (m # k => Block(m) \cap Block(k) = {})

\* BlocksApart, as a statement about a state.
LEMMA AllBlocksApart == PInv => Disjoint
BY BlockFacts, BlocksApart DEF Disjoint

\* Addresses are natural numbers.
LEMMA AddrIsNat == \A m \in Pages : st_pagepool_page_to_addr(m) \in Nat
<1> SUFFICES ASSUME NEW m \in Pages PROVE st_pagepool_page_to_addr(m) \in Nat
  BY Zenon
<1>1. m[1] \in Nat /\ m[2] \in Nat /\ RegSize \in Nat /\ PageSize \in Nat
  BY PageFacts, SizesAssumption DEF Regs
<1>2. m[1] * RegSize \in Nat /\ m[2] * PageSize \in Nat
  BY <1>1
<1> QED
  BY <1>2, PagesFit DEF st_pagepool_page_to_addr, st_region_base_addr_by_idx

\* In group g an object comes (n = 1) or goes (n = -1), and so does a slab (new).
Moved(g, n, new) ==
    /\ current' = Count(g, n, new)
    /\ \E o : /\ st_slab_size_to_index(o.size) = g
             /\ \/ n = 1 /\ o \notin objs /\ objs' = objs \cup {o}
                \/ n = -1 /\ o \in objs /\ objs' = objs \ {o}
    /\ \/ new = 0 /\ Slabs(g)' = Slabs(g)
       \/ new = 1 /\ \E m \in Pages : m \notin Slabs(g) /\ Slabs(g)' = Slabs(g) \cup {m}
       \/ new = -1 /\ \E m \in Slabs(g) : Slabs(g)' = Slabs(g) \ {m}
    /\ \A h \in Groups \ {g} : Slabs(h)' = Slabs(h)

\* m has a free object of group g and is in slabs_partial, or it is new.
Ready(g, m, B, osize, partial) ==
    /\ Allocated' \ {m} = Allocated \ {m} /\ Shaped(g, m)'
    /\ obj_size' \in [Pages -> Nat] /\ obj_size'[m] = osize
    /\ link' \in [Pages -> Pages \cup {GroupAddr(h) : h \in Groups} \cup {Null}]
    /\ \A k \in Allocated \ {m} :
        /\ page'[k].compound_page_cnt = page[k].compound_page_cnt
        /\ obj_size'[k] = obj_size[k]
        /\ \A p \in Block(k) : link'[p] = link[p]
    /\ \/ m \in slabs_partial[g] /\ B = bitmap[m] /\ obj_size[m] = osize /\ partial = slabs_partial[g]
       \/ m \notin Allocated /\ B = {} /\ slabs_partial[g] = {} /\ partial = {m}

\* The effect of TakeObj: idx is free, and the slab stays in its group.
TakesObj(g, m, B, osize, size, idx) ==
    /\ idx \in SlotsOf(g) \ B /\ B \subseteq SlotsOf(g)
    /\ bitmap' = [bitmap EXCEPT ![m] = B \cup {idx}]
    /\ objs' = objs \cup {[addr |-> st_pagepool_page_to_addr(m) + idx * osize, size |-> size]}
    /\ \A h \in Groups \ {g} : /\ slabs_partial'[h] = slabs_partial[h]
                               /\ slabs_full'[h] = slabs_full[h] /\ m \notin Slabs(h)
    /\ slabs_partial' \in [Groups -> SUBSET Pages] /\ slabs_full' \in [Groups -> SUBSET Pages]
    /\ slabs_partial'[g] \ {m} = slabs_partial[g] \ {m}
    /\ slabs_full'[g] \ {m} = slabs_full[g] \ {m}
    /\ m \in Slabs(g)'
    /\ m \in slabs_full'[g] <=> SlotsOf(g) \subseteq B \cup {idx}
    /\ m \in slabs_partial'[g] => m \notin slabs_full'[g]

\* TakeObj takes a free slot of a slab of the group.
LEMMA TakeEffect ==
    ASSUME SInv, NEW g \in Groups, NEW m \in Pages, NEW B, NEW osize, NEW partial, NEW size,
           Ready(g, m, B, osize, partial), TakeObj(g, m, B, osize, size, partial)
    PROVE \E idx \in Nat : TakesObj(g, m, B, osize, size, idx)
<1>1. /\ SlabTypes /\ Listed
  BY Zenon DEF SInv
<1>2. osize \in Nat /\ Fits(g, osize)
  BY Zenon DEF Ready, Shaped
<1>3. /\ Slots(osize) = SlotsOf(g) /\ SlotsOf(g) # {} /\ \A i \in SlotsOf(g) : i \in Nat
  BY <1>2, FitsFacts
<1>4. \A h \in Groups : \A k \in Slabs(h) : k \in Allocated
  BY <1>1, Zenon DEF Listed, Shaped
<1>5. B \subseteq SlotsOf(g) /\ SlotsOf(g) \ B # {} /\ m \notin slabs_full[g]
  <2>1. CASE m \in slabs_partial[g] /\ B = bitmap[m]
    <3>1. Filled(g, m)
      BY <2>1, <1>1 DEF Listed, Slabs
    <3> QED
      BY <2>1, <3>1 DEF Filled
  <2>2. CASE m \notin Allocated /\ B = {}
    BY <2>2, <1>3, <1>4 DEF Slabs
  <2> QED
    BY <2>1, <2>2 DEF Ready
<1> DEFINE S == SlotsOf(g) \ B
           idx == CHOOSE i \in S : \A j \in S : i <= j
           full == SlotsOf(g) \subseteq B \cup {idx}
<1>6. idx \in S
  <2>1. S \in SUBSET Nat /\ S # {}
    BY <1>3, <1>5
  <2>2. \E i \in S : \A j \in S : i <= j
    BY <2>1, LeastNumber
  <2> QED
    BY <2>2, Zenon
<1>7. /\ bitmap' = [bitmap EXCEPT ![m] = B \cup {idx}]
      /\ slabs_partial' = [slabs_partial EXCEPT ![g] = IF full THEN partial \ {m} ELSE partial]
      /\ slabs_full' = [slabs_full EXCEPT ![g] = IF full THEN @ \cup {m} ELSE @]
      /\ objs' = objs \cup {[addr |-> st_pagepool_page_to_addr(m) + idx * osize, size |-> size]}
  BY <1>3, Zenon DEF TakeObj, st_slab_is_full
<1> HIDE DEF idx, full
<1>8. slabs_partial \in [Groups -> SUBSET Pages] /\ slabs_full \in [Groups -> SUBSET Pages]
  BY <1>1, Zenon DEF SlabTypes
<1>9. \A h \in Groups \ {g} : m \notin Slabs(h)
  <2>1. m \in slabs_partial[g] => m \in Slabs(g)
    BY Zenon DEF Slabs
  <2> QED
    BY <2>1, <1>1, <1>4, OneGroup DEF Ready
<1>10. /\ m \in partial /\ partial \in SUBSET Pages /\ partial \ {m} = slabs_partial[g] \ {m}
  BY <1>8, Zenon DEF Ready
<1>11. /\ \A h \in Groups \ {g} : slabs_partial'[h] = slabs_partial[h] /\ slabs_full'[h] = slabs_full[h]
       /\ slabs_partial' \in [Groups -> SUBSET Pages] /\ slabs_full' \in [Groups -> SUBSET Pages]
       /\ full => slabs_partial'[g] = partial \ {m} /\ slabs_full'[g] = slabs_full[g] \cup {m}
       /\ ~full => slabs_partial'[g] = partial /\ slabs_full'[g] = slabs_full[g]
  BY <1>7, <1>8, <1>10
<1>12. /\ slabs_partial'[g] \ {m} = slabs_partial[g] \ {m}
       /\ slabs_full'[g] \ {m} = slabs_full[g] \ {m}
       /\ m \in Slabs(g)'
       /\ m \in slabs_full'[g] <=> full
       /\ m \in slabs_partial'[g] => m \notin slabs_full'[g]
  BY <1>5, <1>10, <1>11 DEF Slabs
<1>13. idx \in Nat
  BY <1>3, <1>6
<1> QED
  BY <1>5, <1>6, <1>7, <1>9, <1>11, <1>12, <1>13, Zenon DEF TakesObj, full

\* An object that is taken from a slab keeps the invariant.
LEMMA TakeKeeps ==
    ASSUME SInv, PInv', NEW size \in ObjSizes, NEW g, g = st_slab_size_to_index(size),
           NEW m \in Pages, NEW B, NEW osize, NEW partial, size <= osize,
           Ready(g, m, B, osize, partial), TakeObj(g, m, B, osize, size, partial),
           current' = Count(g, 1, IF m \in Allocated THEN 0 ELSE 1),
           UNCHANGED <<freeing, refused>>
    PROVE SInv' /\ Moved(g, 1, IF m \in Allocated THEN 0 ELSE 1)
<1>1. PInv /\ SlabTypes /\ Listed /\ Placed /\ Searches
  BY Zenon DEF SInv
<1>2. size \in Nat \ {0} /\ g \in Groups
  BY SlabAssumption, IndexFacts
<1>3. osize \in Nat /\ Fits(g, osize)
  BY Zenon DEF Ready, Shaped
<1>4. SlotsOf(g) \subseteq 0..(ObjCnt - 1) /\ \A i \in SlotsOf(g) : i \in Nat
  BY <1>2, <1>3, FitsFacts
<1>5. PICK idx \in Nat : TakesObj(g, m, B, osize, size, idx)
  BY <1>2, TakeEffect
<1> DEFINE o == [addr |-> st_pagepool_page_to_addr(m) + idx * osize, size |-> size]
<1>6. bitmap \in [Pages -> SUBSET (0..(ObjCnt - 1))] /\ \A h \in Groups : Slabs(h) \subseteq Pages
  BY <1>1, Zenon DEF SlabTypes, Slabs
<1>7. /\ bitmap'[m] = B \cup {idx} /\ \A k \in Pages \ {m} : bitmap'[k] = bitmap[k]
      /\ bitmap' \in [Pages -> SUBSET (0..(ObjCnt - 1))]
  BY <1>4, <1>5, <1>6 DEF TakesObj
<1>8. Others(m)
  <2>1. \A h \in Groups : /\ slabs_partial'[h] \ {m} = slabs_partial[h] \ {m}
                          /\ slabs_full'[h] \ {m} = slabs_full[h] \ {m}
    BY <1>5 DEF TakesObj
  <2>2. \A k \in Allocated \ {m} : k \in Pages
    BY Zenon DEF Allocated
  <2> QED
    BY <2>1, <2>2, <1>7 DEF Others, Ready
<1>9. Shaped(g, m)' /\ Filled(g, m)'
  BY <1>5, <1>7 DEF TakesObj, Filled, Ready
<1>10. /\ m \in Slabs(g)' /\ Slabs(g)' = Slabs(g) \cup {m}
       /\ \A h \in Groups \ {g} : Slabs(h)' = Slabs(h) /\ m \notin Slabs(h)'
  BY <1>5 DEF TakesObj, Slabs
<1>11. Listed'
  BY <1>1, <1>2, <1>8, <1>9, <1>10, ListedKeeps, Zenon
<1>12. Lies(o, g, m, idx)'
  <2>1. o.addr = st_pagepool_page_to_addr(m) + idx * osize /\ o.size = size /\ obj_size'[m] = osize
    BY Zenon DEF Ready
  <2> HIDE DEF o
  <2> QED
    BY <2>1, <1>2, <1>7, <1>10 DEF Lies
<1>13. m \in Allocated => B = bitmap[m] /\ obj_size'[m] = obj_size[m] /\ m \in Slabs(g)
  BY Zenon DEF Ready, Slabs
<1>14. \A h \in Groups : \A k \in Slabs(h) : k \in Allocated
  BY <1>1 DEF Listed, Shaped
<1>15. ASSUME NEW q, NEW h, NEW k, NEW i, Lies(q, h, k, i)
       PROVE Lies(q, h, k, i)' /\ ~(k = m /\ i = idx)
  <2>1. CASE k # m
    BY <2>1, <1>1, <1>8, <1>15, LiesKeeps
  <2>2. CASE k = m
    <3>1. h \in Groups /\ k \in Slabs(h) /\ i \in bitmap[k]
      BY <1>15, Zenon DEF Lies
    <3>2. m \in Allocated
      BY <2>2, <3>1, <1>14
    <3>3. h = g
      BY <2>2, <3>1, <3>2, <1>1, <1>2, <1>13, OneGroup
    <3>4. i \in bitmap'[m] /\ i # idx
      BY <2>2, <3>1, <3>2, <1>5, <1>7, <1>13 DEF TakesObj
    <3> QED
      BY <2>2, <3>1, <3>2, <3>3, <3>4, <1>10, <1>13, <1>15 DEF Lies
  <2> QED
    BY <2>1, <2>2
<1>16. ASSUME NEW q \in objs PROVE q.addr # o.addr
  <2>1. PICK h \in Groups, k \in Pages, i \in Nat : Lies(q, h, k, i)
    BY <1>1, Zenon DEF Placed
  <2>2. Lies(q, h, k, i)' /\ ~(k = m /\ i = idx)
    BY <2>1, <1>15
  <2>3. Shaped(h, k)' /\ Filled(h, k)' /\ Shaped(g, m)' /\ Filled(g, m)'
    BY <2>2, <1>9, <1>11 DEF Lies, Listed
  <2>4. i \in SlotsOf(h) /\ idx \in SlotsOf(g)
    BY <2>2, <2>3, <1>12 DEF Lies, Filled
  <2>5. q.addr = st_pagepool_page_to_addr(k) + i * obj_size'[k]
        /\ o.addr = st_pagepool_page_to_addr(m) + idx * obj_size'[m]
    BY <2>2, <1>12 DEF Lies
  <2>6. (PInv /\ obj_size \in [Pages -> Nat] => Apart)'
    BY PlacesApart, PTL
  <2>7. obj_size' \in [Pages -> Nat]
    BY Zenon DEF Ready
  <2> HIDE DEF o
  <2> QED
    BY <2>1, <2>2, <2>3, <2>4, <2>5, <2>6, <2>7, <1>2 DEF Apart
<1>17. objs' = objs \cup {o} /\ o \notin objs
  BY <1>5, <1>16 DEF TakesObj
<1>18. o \in Objects
  <2>1. idx * osize \in Nat /\ st_pagepool_page_to_addr(m) \in Nat
    BY <1>3, AddrIsNat
  <2> QED
    BY <2>1 DEF Objects
<1>19. st_slab_size_to_index(o.size) = g
  BY Zenon
<1> HIDE DEF o
<1>20. Placed'
  <2>1. ASSUME NEW q \in objs' PROVE \E h \in Groups, k \in Pages, i \in Nat : Lies(q, h, k, i)'
    BY <1>1, <1>2, <1>12, <1>15, <1>17 DEF Placed
  <2>2. \A q, x \in objs' : q.addr = x.addr => q = x
    BY <1>1, <1>16, <1>17, Zenon DEF Placed
  <2> QED
    BY <2>1, <2>2 DEF Placed
<1>21. Searches'
  BY <1>1, <1>15 DEF Searches
<1>22. SlabTypes'
  <2>1. slabs_partial' \in [Groups -> SUBSET Pages] /\ slabs_full' \in [Groups -> SUBSET Pages]
    BY <1>5, Zenon DEF TakesObj
  <2>2. /\ obj_size' \in [Pages -> Nat]
        /\ link' \in [Pages -> Pages \cup {GroupAddr(h) : h \in Groups} \cup {Null}]
    BY Zenon DEF Ready
  <2>3. objs' \subseteq Objects /\ freeing' \subseteq [obj : objs', master : Pages, group : Groups] /\ refused' = {}
    BY <1>1, <1>17, <1>18 DEF SlabTypes
  <2> QED
    BY <2>1, <2>2, <2>3, <1>7 DEF SlabTypes
<1>23. Moved(g, 1, IF m \in Allocated THEN 0 ELSE 1)
  <2>1. m \in Slabs(g) <=> m \in Allocated
    BY <1>2, <1>13, <1>14
  <2>2. CASE m \in Allocated
    BY <2>1, <2>2, <1>10, <1>17, <1>19 DEF Moved
  <2>3. CASE m \notin Allocated
    BY <2>1, <2>3, <1>10, <1>17, <1>19 DEF Moved
  <2> QED
    BY <2>2, <2>3
<1> QED
  BY <1>11, <1>20, <1>21, <1>22, <1>23 DEF SInv

\* The objects of a new slab have the size of their group, or the one that is
\* asked for.
LEMMA ServedFits ==
    ASSUME NEW size \in ObjSizes, NEW g, g = st_slab_size_to_index(size)
    PROVE /\ g \in Groups /\ Served(g, size) \in Nat \ {0} /\ Fits(g, Served(g, size))
          /\ size <= Served(g, size)
<1>1. size \in Nat \ {0}
  BY SlabAssumption, Zenon
<1>2. g \in Groups /\ (g = Huge <=> size > Pow2(MaxShift)) /\ (g # Huge => size <= Pow2(g))
  BY <1>1, IndexFacts
<1>3. g # Huge => Pow2(g) \in Nat /\ Pow2(g) > 0
  BY <1>2, Powers, SlabAssumption DEF Groups, Huge
<1> QED
  BY <1>1, <1>2, <1>3 DEF Served, Fits

\* From a slab with a free object.
LEMMA PartialKeeps ==
    ASSUME SInv, NEW size \in ObjSizes, TakeFromPartial(st_slab_size_to_index(size), size),
           UNCHANGED <<freeing, refused>>
    PROVE SInv' /\ Moved(st_slab_size_to_index(size), 1, 0)
<1> DEFINE g == st_slab_size_to_index(size)
           osize == Served(g, size)
<1>1. g \in Groups /\ Fits(g, osize) /\ size <= osize /\ osize \in Nat
  BY ServedFits, Zenon
<1>2. PICK m \in slabs_partial[g] : TakeObj(g, m, bitmap[m], osize, size, slabs_partial[g])
  BY Zenon DEF TakeFromPartial
<1>3. current' = Count(g, 1, 0) /\ UNCHANGED <<pool, obj_size, link>>
  BY Zenon DEF TakeFromPartial
<1> HIDE DEF g, osize
<1>4. PInv /\ SlabTypes /\ Listed
  BY Zenon DEF SInv
<1>5. PInv' /\ Allocated' = Allocated /\ page' = page
  BY <1>3, <1>4, PoolRests
<1>6. m \in Slabs(g)
  BY Zenon DEF Slabs
<1>7. Shaped(g, m) /\ Filled(g, m) /\ m \in Pages /\ m \in Allocated
  BY <1>1, <1>4, <1>6 DEF Listed, Shaped, Allocated
<1>8. m \notin slabs_full[g]
  BY <1>7, Zenon DEF Filled
<1>9. g # Huge
  BY <1>7, <1>8 DEF Filled, SlotsOf
<1>10. obj_size[m] = osize
  BY <1>1, <1>7, <1>9 DEF Fits, Shaped
<1>11. Shaped(g, m)'
  BY <1>3, <1>5, <1>7 DEF Shaped, Block
<1>12. Ready(g, m, bitmap[m], osize, slabs_partial[g])
  BY <1>3, <1>4, <1>5, <1>10, <1>11 DEF Ready, SlabTypes
<1>13. current' = Count(g, 1, IF m \in Allocated THEN 0 ELSE 1)
  BY <1>3, <1>7
<1>14. SInv' /\ Moved(g, 1, IF m \in Allocated THEN 0 ELSE 1)
  BY <1>1, <1>2, <1>5, <1>7, <1>12, <1>13, TakeKeeps DEF g
<1> QED
  BY <1>7, <1>14 DEF g

\* From a new slab.
LEMMA NewSlabKeeps ==
    ASSUME SInv, NEW size \in ObjSizes, st_slab_alloc_pages(st_slab_size_to_index(size), size),
           UNCHANGED <<freeing, refused>>
    PROVE SInv' /\ Moved(st_slab_size_to_index(size), 1, 1)
<1> DEFINE g == st_slab_size_to_index(size)
           osize == Served(g, size)
           cnt == PagesFor(osize, SlotCnt(g))
<1>1. g \in Groups /\ Fits(g, osize) /\ size <= osize /\ osize \in Nat \ {0}
  BY ServedFits, Zenon
<1>2. /\ slabs_partial[g] = {} /\ cnt \in Sizes /\ st_pagepool_alloc_pages(cnt)
      /\ current' = Count(g, 1, 1)
  BY Zenon DEF st_slab_alloc_pages
<1>3. PICK m \in Allocated' \ Allocated :
        /\ obj_size' = [obj_size EXCEPT ![m] = osize]
        /\ link' = st_slab_set_pages_group_master(link, page', m, g)
        /\ TakeObj(g, m, {}, osize, size, {m})
  BY Zenon DEF st_slab_alloc_pages
<1>4. PInv /\ SlabTypes /\ Listed
  BY Zenon DEF SInv
<1> HIDE DEF g, osize
<1>5. osize * SlotCnt(g) <= cnt * PageSize
  <2>1. SlotCnt(g) \in Nat \ {0}
    BY <1>1, FitsFacts
  <2> QED
    BY <2>1, <1>1, PagesForFits
<1> HIDE DEF cnt
<1>6. PInv' /\ \E k \in Pages : Taken(k, cnt)
  BY <1>2, <1>4, AllocStep
<1>7. Taken(m, cnt) /\ m \in Pages
  BY <1>6 DEF Taken
<1>8. /\ Allocated' = Allocated \cup {m} /\ page'[m].compound_page_cnt = cnt
      /\ \A k \in Allocated : page'[k].compound_page_cnt = page[k].compound_page_cnt
  BY <1>7, Zenon DEF Taken
<1>9. link' = [p \in Pages |-> IF p = m THEN GroupAddr(g)
                               ELSE IF Within(p, m, page'[m].compound_page_cnt) THEN m ELSE link[p]]
  BY <1>3 DEF st_slab_set_pages_group_master
<1>10. obj_size \in [Pages -> Nat]
       /\ link \in [Pages -> Pages \cup {GroupAddr(h) : h \in Groups} \cup {Null}]
  BY <1>4 DEF SlabTypes
<1>11. obj_size' \in [Pages -> Nat] /\ obj_size'[m] = osize /\ \A k \in Pages \ {m} : obj_size'[k] = obj_size[k]
  BY <1>1, <1>3, <1>7, <1>10
<1>12. link' \in [Pages -> Pages \cup {GroupAddr(h) : h \in Groups} \cup {Null}]
  <2>1. ASSUME NEW p \in Pages PROVE link'[p] \in Pages \cup {GroupAddr(h) : h \in Groups} \cup {Null}
    BY <1>1, <1>7, <1>9, <1>10
  <2> QED
    BY <2>1, <1>9
<1>13. Shaped(g, m)'
  <2>1. m \in Allocated' /\ link'[m] = GroupAddr(g) /\ Fits(g, obj_size'[m])
    BY <1>1, <1>7, <1>8, <1>9, <1>11
  <2>2. \A p \in Block(m)' \ {m} : link'[p] = m
    BY <1>9, Zenon DEF Block
  <2>3. obj_size'[m] * SlotCnt(g) <= page'[m].compound_page_cnt * PageSize
    BY <1>5, <1>8, <1>11
  <2> QED
    BY <2>1, <2>2, <2>3 DEF Shaped
<1>14. ASSUME NEW k \in Allocated \ {m}, NEW p \in Block(k) PROVE link'[p] = link[p]
  <2>1. p \in Pages /\ p \in Block(k)' /\ k \in Allocated' /\ m \in Allocated'
    BY <1>8, Zenon DEF Block
  <2>2. (PInv => Disjoint)'
    BY AllBlocksApart, PTL
  <2>3. m \in Block(m)' /\ p \notin Block(m)'
    BY <2>1, <2>2, <1>6 DEF Disjoint
  <2>4. p # m /\ ~Within(p, m, page'[m].compound_page_cnt)
    BY <2>1, <2>3 DEF Block
  <2> QED
    BY <2>1, <2>4, <1>9
<1>15. \A k \in Allocated \ {m} : k \in Pages
  BY Zenon DEF Allocated
<1>16. Ready(g, m, {}, osize, {m})
  BY <1>2, <1>3, <1>8, <1>11, <1>12, <1>13, <1>14, <1>15 DEF Ready
<1>17. current' = Count(g, 1, IF m \in Allocated THEN 0 ELSE 1)
  BY <1>2, <1>3
<1>18. SInv' /\ Moved(g, 1, IF m \in Allocated THEN 0 ELSE 1)
  BY <1>1, <1>3, <1>6, <1>7, <1>16, <1>17, TakeKeeps DEF g
<1> QED
  BY <1>3, <1>18 DEF g

-----------------------------------------------------------------------------
(* Release.                                                                  *)

\* What is known of an object in use.
LEMMA LiesFacts ==
    ASSUME SInv, NEW o, NEW g, NEW m, NEW i, Lies(o, g, m, i)
    PROVE /\ g \in Groups /\ m \in Slabs(g) /\ m \in Pages /\ m \in Allocated
          /\ Shaped(g, m) /\ Filled(g, m) /\ i \in SlotsOf(g) /\ i \in bitmap[m] /\ i \in Nat
          /\ obj_size[m] \in Nat /\ obj_size[m] > 0
          /\ Slots(obj_size[m]) = SlotsOf(g) /\ st_slab_size_to_index(obj_size[m]) = g
<1>1. g \in Groups /\ m \in Slabs(g) /\ i \in bitmap[m] /\ SlabTypes /\ Listed
  BY Zenon DEF Lies, SInv
<1>2. Shaped(g, m) /\ Filled(g, m)
  BY <1>1, Zenon DEF Listed
<1>3. m \in Allocated /\ m \in Pages /\ i \in SlotsOf(g) /\ obj_size[m] \in Nat /\ Fits(g, obj_size[m])
  BY <1>1, <1>2 DEF Shaped, Filled, Allocated, SlabTypes
<1> QED
  BY <1>1, <1>2, <1>3, FitsFacts

\* The search of a release finds the slab of the object.
LEMMA SearchKeeps ==
    ASSUME SInv, NEW o \in objs, st_slab_obj_free(o)
    PROVE SInv' /\ UNCHANGED <<slabs_partial, slabs_full, current, objs>>
<1>1. PInv /\ SlabTypes /\ Listed /\ Placed /\ Searches
  BY Zenon DEF SInv
<1>2. PICK g \in Groups, m \in Pages, i \in Nat : Lies(o, g, m, i)
  BY <1>1, Zenon DEF Placed
<1>3. /\ m \in Allocated /\ Shaped(g, m) /\ i \in SlotsOf(g)
      /\ obj_size[m] \in Nat /\ obj_size[m] > 0 /\ st_slab_size_to_index(obj_size[m]) = g
  BY <1>2, LiesFacts
<1>4. Inside(m, i * obj_size[m] + 0) /\ i * obj_size[m] + 0 = i * obj_size[m]
  <2>1. page[m].compound_page_cnt \in Nat
    BY <1>1, <1>3, BlockFacts
  <2> QED
    BY <2>1, <1>3, ByteOfSlot
<1>5. o.addr = st_pagepool_page_to_addr(m) + i * obj_size[m]
  BY <1>2, Zenon DEF Lies
<1>6. link[m] # Null /\ \A p \in Block(m) \ {m} : link[p] = m
  BY <1>3 DEF Shaped, GroupAddr, Null
<1>7. st_slab_get_master_page(o.addr) = {m}
  BY <1>1, <1>3, <1>4, <1>5, <1>6, SearchFinds
<1> DEFINE f == [obj |-> o, master |-> m, group |-> g]
<1>8. /\ freeing' = freeing \cup {f} /\ refused' = refused
      /\ UNCHANGED <<pool, slab, objs>> /\ \A h \in freeing : h.obj # o
  BY <1>3, <1>7 DEF st_slab_obj_free
<1>9. /\ UNCHANGED <<bitmap, obj_size, link, slabs_partial, slabs_full, current, objs, refused>>
      /\ UNCHANGED pool
  BY <1>8, Zenon DEF slab
<1>10. PInv' /\ Allocated' = Allocated /\ page' = page
  BY <1>1, <1>9, PoolRests
<1>11. f \in [obj : objs, master : Pages, group : Groups] /\ f.obj = o /\ f.group = g /\ f.master = m
  BY Zenon
<1> HIDE DEF f
<1>12. SlabTypes'
  BY <1>1, <1>8, <1>9, <1>11 DEF SlabTypes
<1>13. \A h : Slabs(h)' = Slabs(h)
  BY <1>9 DEF Slabs
<1>14. Listed'
  <2>1. \A h, k : (Shaped(h, k)' <=> Shaped(h, k)) /\ (Filled(h, k)' <=> Filled(h, k))
    BY <1>9, <1>10 DEF Shaped, Filled, Block
  <2> QED
    BY <2>1, <1>1, <1>10, <1>13 DEF Listed
<1>15. \A q, h, k, j : Lies(q, h, k, j)' <=> Lies(q, h, k, j)
  BY <1>9, <1>13 DEF Lies
<1>16. Placed'
  BY <1>1, <1>9, <1>15 DEF Placed
<1>17. Searches'
  BY <1>1, <1>2, <1>8, <1>11, <1>15 DEF Searches
<1> QED
  BY <1>9, <1>10, <1>12, <1>14, <1>16, <1>17 DEF SInv

\* The address of an object leads to its bit in the bitmap.
LEMMA BitIsFound ==
    ASSUME SInv, NEW o, NEW g, NEW m, NEW i, Lies(o, g, m, i)
    PROVE st_slab_clear_bitmap_by_addr(g, m, o.addr) = {i}
<1>1. /\ g \in Groups /\ m \in Pages /\ Shaped(g, m) /\ Filled(g, m)
      /\ i \in SlotsOf(g) /\ i \in bitmap[m] /\ i \in Nat /\ obj_size[m] \in Nat /\ obj_size[m] > 0
  BY LiesFacts, Zenon
<1>2. o.addr - st_pagepool_page_to_addr(m) = i * obj_size[m]
  <2>1. o.addr = st_pagepool_page_to_addr(m) + i * obj_size[m]
    BY Zenon DEF Lies
  <2>2. st_pagepool_page_to_addr(m) \in Int /\ i * obj_size[m] \in Int
    BY <1>1, AddrIsNat
  <2> QED
    BY <2>1, <2>2
<1>3. bitmap[m] \subseteq SlotsOf(g) /\ \A j \in SlotsOf(g) : j \in Nat /\ j < ObjCnt
  <2>1. ObjCnt \in Nat /\ ObjCnt > 0
    BY SlabAssumption
  <2>2. bitmap[m] \subseteq SlotsOf(g)
    BY <1>1, Zenon DEF Filled
  <2>3. \A j \in 0..(ObjCnt - 1) : j \in Nat /\ j < ObjCnt
    BY <2>1
  <2>4. SlotsOf(g) = {0} \/ SlotsOf(g) = 0..(ObjCnt - 1)
    BY Zenon DEF SlotsOf
  <2>5. \A j \in SlotsOf(g) : j \in Nat /\ j < ObjCnt
    BY <2>1, <2>3, <2>4
  <2> QED
    BY <2>2, <2>5
<1>4. CASE g = Huge
  <2>1. \A j \in bitmap[m] : j = 0
    BY <1>3, <1>4 DEF SlotsOf
  <2>2. Pow2(g) \in Nat
    BY <1>4, SlabAssumption, Powers DEF Huge
  <2>3. i = 0 /\ i * obj_size[m] = 0 /\ i * Pow2(g) = 0
    BY <2>1, <2>2, <1>1
  <2> QED
    BY <2>1, <2>3, <1>1, <1>2, <1>3 DEF st_slab_clear_bitmap_by_addr
<1>5. CASE g # Huge
  <2>1. obj_size[m] = Pow2(g)
    BY <1>1, <1>5 DEF Shaped, Fits
  <2>2. ASSUME NEW j \in bitmap[m], i * obj_size[m] = j * Pow2(g) PROVE j = i
    <3> DEFINE s == obj_size[m]
    <3>1. i \in Int /\ j \in Int /\ s \in Int /\ s > 0
      <4>1. j \in Nat
        BY <1>3
      <4> QED
        BY <4>1, <1>1
    <3> HIDE DEF s
    <3>2. (i * s) \div s = i /\ (j * s) \div s = j
      BY <3>1, Divide
    <3>3. i * s = j * s
      BY <2>1, <2>2 DEF s
    <3> QED
      BY <3>2, <3>3
  <2> QED
    BY <2>1, <2>2, <1>1, <1>2, <1>3, <1>5 DEF st_slab_clear_bitmap_by_addr
<1> QED
  BY <1>4, <1>5

\* What the release of the object i of slab m does apart from the slab.
Releases(f, g, m, i) ==
    /\ f \in freeing /\ Lies(f.obj, g, m, i)
    /\ freeing' = freeing \ {f} /\ objs' = objs \ {f.obj} /\ refused' = refused

\* The other objects stay where they are.
LEMMA ReleaseKeeps ==
    ASSUME SInv, NEW f, NEW g, NEW m, NEW i, Releases(f, g, m, i), Others(m),
           \A j \in bitmap[m] \ {i} : /\ m \in Slabs(g)' /\ j \in bitmap'[m]
                                      /\ obj_size'[m] = obj_size[m]
    PROVE Placed' /\ Searches'
<1>1. PInv /\ SlabTypes /\ Listed /\ Placed /\ Searches
  BY Zenon DEF SInv
<1>2. /\ f \in freeing /\ Lies(f.obj, g, m, i) /\ f.obj \in objs
      /\ freeing' = freeing \ {f} /\ objs' = objs \ {f.obj}
  BY <1>1 DEF Releases, SlabTypes
<1>3. ASSUME NEW q \in objs', NEW h, NEW k, NEW j, Lies(q, h, k, j) PROVE Lies(q, h, k, j)'
  <2>1. CASE k # m
    BY <2>1, <1>1, <1>3, LiesKeeps
  <2>2. CASE k = m
    <3>1. j # i
      <4> SUFFICES ASSUME j = i PROVE FALSE
        BY Zenon
      <4>1. q.addr = f.obj.addr
        BY <2>2, <1>2, <1>3 DEF Lies
      <4> QED
        BY <4>1, <1>1, <1>2 DEF Placed
    <3>2. h = g
      BY <2>2, <1>1, <1>2, <1>3, OneGroup DEF Lies
    <3> QED
      BY <2>2, <3>1, <3>2, <1>3 DEF Lies
  <2> QED
    BY <2>1, <2>2
<1>4. Placed'
  BY <1>1, <1>2, <1>3 DEF Placed
<1>5. Searches'
  <2>1. ASSUME NEW h \in freeing' PROVE \E j \in Nat : Lies(h.obj, h.group, h.master, j)'
    <3>1. h \in freeing /\ h # f
      BY <1>2
    <3>2. h.obj \in objs'
      BY <3>1, <1>1, <1>2 DEF Searches, SlabTypes
    <3> QED
      BY <3>1, <3>2, <1>1, <1>3 DEF Searches
  <2> QED
    BY <2>1, <1>1, <1>2 DEF Searches
<1> QED
  BY <1>4, <1>5

\* What goes with the object.
LEMMA ReleaseTypes ==
    ASSUME SInv, NEW f, NEW g, NEW m, NEW i, Releases(f, g, m, i)
    PROVE /\ f.obj \in objs /\ objs' = objs \ {f.obj} /\ st_slab_size_to_index(f.obj.size) = g
          /\ objs' \subseteq Objects /\ refused' = {}
          /\ freeing' \subseteq [obj : objs', master : Pages, group : Groups]
<1>1. SlabTypes /\ Searches
  BY Zenon DEF SInv
<1>2. /\ f \in freeing /\ freeing' = freeing \ {f} /\ objs' = objs \ {f.obj} /\ refused' = refused
      /\ f.obj \in objs /\ st_slab_size_to_index(f.obj.size) = g
  BY <1>1 DEF Releases, Lies, SlabTypes
<1>3. \A h \in freeing' : h.obj # f.obj
  BY <1>1, <1>2 DEF Searches
<1> QED
  BY <1>1, <1>2, <1>3 DEF SlabTypes

\* Some objects of the slab are still in use.
LEMMA KeepSlabKeeps ==
    ASSUME SInv, NEW f, NEW g, NEW m, NEW i, Releases(f, g, m, i), KeepSlab(g, m, i)
    PROVE SInv' /\ Moved(g, -1, 0)
<1>1. PInv /\ SlabTypes /\ Listed /\ Placed /\ Searches
  BY Zenon DEF SInv
<1>2. /\ g \in Groups /\ m \in Slabs(g) /\ m \in Pages /\ m \in Allocated
      /\ Shaped(g, m) /\ Filled(g, m) /\ i \in SlotsOf(g) /\ Slots(obj_size[m]) = SlotsOf(g)
  BY LiesFacts DEF Releases
<1>3. /\ bitmap' = [bitmap EXCEPT ![m] = @ \ {i}]
      /\ slabs_full' = [slabs_full EXCEPT ![g] = @ \ {m}]
      /\ slabs_partial' = [slabs_partial EXCEPT ![g] = @ \cup {m}]
      /\ current' = Count(g, -1, 0)
      /\ UNCHANGED pool /\ obj_size' = obj_size /\ link' = link
      /\ SlotsOf(g) \cap (bitmap[m] \ {i}) # {}
  BY <1>2 DEF KeepSlab, st_slab_is_all_free
<1>4. /\ bitmap \in [Pages -> SUBSET (0..(ObjCnt - 1))]
      /\ slabs_partial \in [Groups -> SUBSET Pages] /\ slabs_full \in [Groups -> SUBSET Pages]
  BY <1>1 DEF SlabTypes
<1>5. /\ bitmap'[m] = bitmap[m] \ {i} /\ \A k \in Pages \ {m} : bitmap'[k] = bitmap[k]
      /\ bitmap' \in [Pages -> SUBSET (0..(ObjCnt - 1))]
  BY <1>2, <1>3, <1>4
<1>6. /\ slabs_full'[g] = slabs_full[g] \ {m} /\ slabs_partial'[g] = slabs_partial[g] \cup {m}
      /\ \A h \in Groups \ {g} : slabs_full'[h] = slabs_full[h] /\ slabs_partial'[h] = slabs_partial[h]
      /\ slabs_partial' \in [Groups -> SUBSET Pages] /\ slabs_full' \in [Groups -> SUBSET Pages]
  BY <1>2, <1>3, <1>4
<1>7. \A h \in Groups : Slabs(h)' = Slabs(h)
  BY <1>2, <1>6 DEF Slabs
<1>8. PInv' /\ Allocated' = Allocated /\ page' = page
  BY <1>1, <1>3, PoolRests
<1>9. Others(m)
  <2>1. \A h \in Groups : /\ slabs_partial'[h] \ {m} = slabs_partial[h] \ {m}
                          /\ slabs_full'[h] \ {m} = slabs_full[h] \ {m}
    BY <1>6
  <2>2. \A k \in Allocated \ {m} : k \in Pages
    BY Zenon DEF Allocated
  <2> QED
    BY <2>1, <2>2, <1>3, <1>5, <1>8 DEF Others
<1>10. Shaped(g, m)'
  BY <1>2, <1>3, <1>8 DEF Shaped, Block
<1>11. Filled(g, m)'
  BY <1>2, <1>3, <1>5, <1>6 DEF Filled
<1>12. Listed'
  <2>1. \A h \in Groups : m \in Slabs(h)' => h = g
    BY <1>1, <1>2, <1>7, OneGroup
  <2> QED
    BY <2>1, <1>1, <1>2, <1>7, <1>9, <1>10, <1>11, ListedKeeps
<1>13. Placed' /\ Searches'
  BY <1>2, <1>3, <1>5, <1>7, <1>9, ReleaseKeeps, Zenon
<1>14. SlabTypes'
  BY <1>1, <1>3, <1>5, <1>6, ReleaseTypes DEF SlabTypes
<1>15. Moved(g, -1, 0)
  BY <1>2, <1>3, <1>7, ReleaseTypes DEF Moved
<1> QED
  BY <1>8, <1>12, <1>13, <1>14, <1>15 DEF SInv

\* The page pool takes the pages of m back.  When it gives the region back to the
\* system, no other slab was there.
LEMMA FreeKeepsPool ==
    ASSUME PInv, NEW m \in Allocated, st_pagepool_free_pages(m, TRUE)
    PROVE /\ PInv' /\ Given(m)
          /\ \A k \in Allocated \ {m} : k[1] = m[1] => states'[m[1]] = states[m[1]]
          /\ ~(states[m[1]] = states'[m[1]] /\ m[1] \notin regions')
<1>1. m[1] \in regions /\ m[1] \in Regs /\ states \in [Regs -> {"free", "busy"}] /\ states[m[1]] = "busy"
  BY FreeFacts, PageFacts
<1>2. CASE FreeIntoPool(m)
  <2>1. PInv' /\ Given(m)
    BY <1>2, FreeIntoPoolStep
  <2> QED
    BY <2>1, <1>1, <1>2 DEF FreeIntoPool
<1>3. CASE st_region_free_reg(m, TRUE)
  <2>1. PInv' /\ Given(m)
    BY <1>3, FreeRegionStep
  <2>2. /\ states' = [states EXCEPT ![m[1]] = "free"]
        /\ page' = [p \in Pages |-> IF p[1] = m[1] THEN Zero ELSE page[p]]
    BY <1>3, Zenon DEF st_region_free_reg
  <2>3. \A k \in Allocated \ {m} : k[1] # m[1]
    <3> SUFFICES ASSUME NEW k \in Allocated \ {m}, k[1] = m[1] PROVE FALSE
      BY Zenon
    <3>1. k \in Allocated' /\ k \in Pages
      BY <2>1, Zenon DEF Given, Allocated
    <3>2. page'[k].state = "free"
      BY <2>2, <3>1 DEF Zero
    <3> QED
      BY <3>1, <3>2 DEF Allocated
  <2> QED
    BY <2>1, <2>2, <2>3, <1>1
<1> QED
  BY <1>2, <1>3 DEF st_pagepool_free_pages

\* The last object of the slab.
LEMMA ReturnSlabKeeps ==
    ASSUME SInv, MadviseMayFail = FALSE,
           NEW f, NEW g, NEW m, NEW i, Releases(f, g, m, i), ReturnSlab(g, m, i)
    PROVE SInv' /\ Moved(g, -1, -1)
<1>1. PInv /\ SlabTypes /\ Listed /\ Placed /\ Searches
  BY Zenon DEF SInv
<1>2. /\ g \in Groups /\ m \in Slabs(g) /\ m \in Pages /\ m \in Allocated
      /\ Shaped(g, m) /\ Filled(g, m) /\ i \in SlotsOf(g) /\ Slots(obj_size[m]) = SlotsOf(g)
  BY LiesFacts, Zenon DEF Releases
<1> DEFINE gone == {p \in Pages : p[1] = m[1] /\ states[m[1]] # states'[m[1]]}
           failed == states[m[1]] = states'[m[1]] /\ m[1] \notin regions'
           cleared == st_slab_clear_pages_group_master(link, page, m)
<1>3. /\ SlotsOf(g) \cap (bitmap[m] \ {i}) = {}
      /\ st_pagepool_free_pages(m, TRUE)
      /\ bitmap' = [p \in Pages |-> IF p \in gone THEN {}
                                    ELSE IF p = m THEN bitmap[m] \ {i} ELSE bitmap[p]]
      /\ obj_size' = [p \in Pages |-> IF p \in gone THEN 0 ELSE obj_size[p]]
      /\ link' = IF failed THEN st_slab_set_pages_group_master(cleared, page', m, g) ELSE cleared
      /\ slabs_full' = [slabs_full EXCEPT ![g] = @ \ {m}]
      /\ slabs_partial' = [slabs_partial EXCEPT ![g] = IF failed THEN @ \cup {m} ELSE @ \ {m}]
      /\ current' = Count(g, -1, IF failed THEN 0 ELSE -1)
  BY <1>2, Zenon DEF ReturnSlab, st_slab_is_all_free
<1>4. /\ PInv' /\ Given(m) /\ ~failed
      /\ \A k \in Allocated \ {m} : k \notin gone
  BY <1>1, <1>2, <1>3, FreeKeepsPool
<1> HIDE DEF failed, gone
<1>5. /\ link' = [p \in Pages |-> IF Within(p, m, page[m].compound_page_cnt) THEN Null ELSE link[p]]
      /\ slabs_partial' = [slabs_partial EXCEPT ![g] = @ \ {m}]
      /\ current' = Count(g, -1, -1)
  BY <1>3, <1>4 DEF st_slab_clear_pages_group_master
<1> HIDE DEF cleared
<1>6. /\ bitmap \in [Pages -> SUBSET (0..(ObjCnt - 1))] /\ obj_size \in [Pages -> Nat]
      /\ link \in [Pages -> Pages \cup {GroupAddr(h) : h \in Groups} \cup {Null}]
      /\ slabs_partial \in [Groups -> SUBSET Pages] /\ slabs_full \in [Groups -> SUBSET Pages]
  BY <1>1, Zenon DEF SlabTypes
<1>7. /\ slabs_full'[g] = slabs_full[g] \ {m} /\ slabs_partial'[g] = slabs_partial[g] \ {m}
      /\ \A h \in Groups \ {g} : slabs_full'[h] = slabs_full[h] /\ slabs_partial'[h] = slabs_partial[h]
      /\ slabs_partial' \in [Groups -> SUBSET Pages] /\ slabs_full' \in [Groups -> SUBSET Pages]
  BY <1>2, <1>3, <1>5, <1>6
<1>8. /\ Slabs(g)' = Slabs(g) \ {m}
      /\ \A h \in Groups \ {g} : Slabs(h)' = Slabs(h)
  BY <1>7, Zenon DEF Slabs
<1>9. \A h \in Groups : m \notin Slabs(h)'
  BY <1>1, <1>2, <1>8, OneGroup
<1>10. /\ m \notin Allocated' /\ Allocated' \ {m} = Allocated \ {m}
       /\ \A k \in Allocated \ {m} : page'[k].compound_page_cnt = page[k].compound_page_cnt
  BY <1>4, Zenon DEF Given
<1>11. ASSUME NEW k \in Allocated \ {m}
       PROVE /\ obj_size'[k] = obj_size[k] /\ bitmap'[k] = bitmap[k]
             /\ \A p \in Block(k) : link'[p] = link[p]
  <2>1. k \in Pages /\ k \notin gone
    BY <1>4 DEF Allocated
  <2>2. ASSUME NEW p \in Block(k) PROVE link'[p] = link[p]
    <3>1. p \in Pages /\ p \notin Block(m)
      BY <1>1, <1>2, BlocksApart DEF Block
    <3> QED
      BY <3>1, <1>5 DEF Block
  <2> QED
    BY <2>1, <2>2, <1>3, Zenon
<1>12. Others(m)
  <2>1. \A h \in Groups : /\ slabs_partial'[h] \ {m} = slabs_partial[h] \ {m}
                          /\ slabs_full'[h] \ {m} = slabs_full[h] \ {m}
    BY <1>7
  <2> QED
    BY <2>1, <1>10, <1>11 DEF Others
<1>13. Listed'
  BY <1>1, <1>9, <1>10, <1>12, ListedKeeps
<1>14. bitmap[m] \ {i} = {}
  BY <1>2, <1>3 DEF Filled
<1>15. Placed' /\ Searches'
  BY <1>12, <1>14, ReleaseKeeps
<1>16. SlabTypes'
  <2>1. /\ bitmap' \in [Pages -> SUBSET (0..(ObjCnt - 1))] /\ obj_size' \in [Pages -> Nat]
    BY <1>2, <1>3, <1>6
  <2>2. link' \in [Pages -> Pages \cup {GroupAddr(h) : h \in Groups} \cup {Null}]
    <3>1. \A p \in Pages : link'[p] \in Pages \cup {GroupAddr(h) : h \in Groups} \cup {Null}
      BY <1>5, <1>6
    <3> QED
      BY <3>1, <1>5
  <2> QED
    BY <2>1, <2>2, <1>7, ReleaseTypes DEF SlabTypes
<1>17. Moved(g, -1, -1)
  BY <1>2, <1>5, <1>8, ReleaseTypes DEF Moved
<1> QED
  BY <1>4, <1>13, <1>15, <1>16, <1>17 DEF SInv

\* The part of a release that holds the lock.
LEMMA FreeObjKeeps ==
    ASSUME SInv, MadviseMayFail = FALSE, NEW f \in freeing, st_slab_free_obj_from_group(f)
    PROVE SInv' /\ f.group \in Groups /\ \E new \in {0, -1} : Moved(f.group, -1, new)
<1>1. PICK i \in Nat : Lies(f.obj, f.group, f.master, i)
  BY Zenon DEF SInv, Searches
<1>2. st_slab_clear_bitmap_by_addr(f.group, f.master, f.obj.addr) = {i}
  BY <1>1, BitIsFound
<1>3. /\ freeing' = freeing \ {f} /\ objs' = objs \ {f.obj} /\ refused' = refused
      /\ KeepSlab(f.group, f.master, i) \/ ReturnSlab(f.group, f.master, i)
  BY <1>2, Zenon DEF st_slab_free_obj_from_group
<1>4. Releases(f, f.group, f.master, i)
  BY <1>1, <1>3 DEF Releases
<1>5. f.group \in Groups
  BY <1>1, Zenon DEF Lies
<1> QED
  BY <1>3, <1>4, <1>5, KeepSlabKeeps, ReturnSlabKeeps

\* Nothing happens.
LEMMA StutterKeeps ==
    ASSUME SInv, UNCHANGED svars
    PROVE SInv' /\ UNCHANGED <<slabs_partial, slabs_full, current, objs>>
<1>1. /\ UNCHANGED pool
      /\ UNCHANGED <<bitmap, obj_size, link, slabs_partial, slabs_full, current, objs, freeing, refused>>
  BY Zenon DEF svars, slab
<1>2. PInv /\ SlabTypes /\ Listed /\ Placed /\ Searches
  BY Zenon DEF SInv
<1>3. PInv' /\ Allocated' = Allocated /\ page' = page
  BY <1>1, <1>2, PoolRests
<1>4. SlabTypes'
  BY <1>1, <1>2 DEF SlabTypes
<1>5. \A h : Slabs(h)' = Slabs(h)
  BY <1>1 DEF Slabs
<1>6. Listed'
  <2>1. \A h, k : (Shaped(h, k)' <=> Shaped(h, k)) /\ (Filled(h, k)' <=> Filled(h, k))
    BY <1>1, <1>3 DEF Shaped, Filled, Block
  <2> QED
    BY <2>1, <1>2, <1>3, <1>5 DEF Listed
<1>7. \A q, h, k, j : Lies(q, h, k, j)' <=> Lies(q, h, k, j)
  BY <1>1, <1>5 DEF Lies
<1>8. Placed' /\ Searches'
  BY <1>1, <1>2, <1>7 DEF Placed, Searches
<1> QED
  BY <1>1, <1>3, <1>4, <1>6, <1>8 DEF SInv

\* The allocator starts without slabs and objects.
LEMMA SlabInitHolds == SlabInit => SInv
<1> SUFFICES ASSUME SlabInit PROVE SInv
  BY Zenon
<1>1. /\ Init /\ bitmap = [p \in Pages |-> {}] /\ obj_size = [p \in Pages |-> 0]
      /\ link = [p \in Pages |-> Null]
      /\ slabs_partial = [g \in Groups |-> {}] /\ slabs_full = [g \in Groups |-> {}]
      /\ objs = {} /\ freeing = {} /\ refused = {}
  BY Zenon DEF SlabInit
<1>2. PInv
  BY <1>1, PoolInit
<1>3. Allocated = {}
  BY <1>1, Zenon DEF Init, Allocated, Zero
<1>4. SlabTypes
  BY <1>1, Zenon DEF SlabTypes
<1>5. \A g \in Groups : Slabs(g) = {}
  BY <1>1, Zenon DEF Slabs
<1>6. Listed /\ Placed /\ Searches
  BY <1>1, <1>3, <1>5 DEF Listed, Placed, Searches
<1> QED
  BY <1>2, <1>4, <1>6 DEF SInv

\* Every step keeps the invariant; it moves one object of one group, or none.
LEMMA SlabStep ==
    ASSUME SInv, MadviseMayFail = FALSE, [SlabNext]_svars
    PROVE /\ SInv'
          /\ \/ UNCHANGED <<slabs_partial, slabs_full, current, objs>>
             \/ \E g \in Groups, n \in {1, -1}, new \in {0, 1, -1} : Moved(g, n, new)
<1>1. ASSUME NEW size \in ObjSizes, st_slab_obj_alloc(size)
      PROVE SInv' /\ \E g \in Groups, n \in {1, -1}, new \in {0, 1, -1} : Moved(g, n, new)
  <2>1. /\ \/ TakeFromPartial(st_slab_size_to_index(size), size)
           \/ st_slab_alloc_pages(st_slab_size_to_index(size), size)
        /\ UNCHANGED <<freeing, refused>>
    BY <1>1 DEF st_slab_obj_alloc, st_slab_get_obj_from_group
  <2>2. st_slab_size_to_index(size) \in Groups
    BY ServedFits
  <2>3. SInv' /\ \E new \in {0, 1} : Moved(st_slab_size_to_index(size), 1, new)
    BY <2>1, PartialKeeps, NewSlabKeeps
  <2> QED
    BY <2>2, <2>3
<1>2. ASSUME NEW o \in objs, st_slab_obj_free(o)
      PROVE SInv' /\ UNCHANGED <<slabs_partial, slabs_full, current, objs>>
  BY <1>2, SearchKeeps
<1>3. ASSUME NEW f \in freeing, st_slab_free_obj_from_group(f)
      PROVE SInv' /\ \E g \in Groups, n \in {1, -1}, new \in {0, 1, -1} : Moved(g, n, new)
  BY <1>3, FreeObjKeeps
<1>4. CASE UNCHANGED svars
  BY <1>4, StutterKeeps
<1> QED
  BY <1>1, <1>2, <1>3, <1>4 DEF SlabNext

-----------------------------------------------------------------------------
(* The theorems.                                                             *)

\* The invariant holds in every state of the allocator, for any sizes and any
\* interleaving of allocations, searches and releases, when madvise succeeds.
THEOREM SlabInvariant ==
    ASSUME MadviseMayFail = FALSE PROVE SlabSpec => []SInv
<1>1. SInv /\ [SlabNext]_svars => SInv'
  BY SlabStep, Zenon
<1> QED
  BY <1>1, SlabInitHolds, PTL DEF SlabSpec

\* What a release has found without the lock is still true when it has the lock.
THEOREM SearchAlwaysValid ==
    ASSUME MadviseMayFail = FALSE PROVE SlabSpec => []SearchStaysValid
<1>1. ASSUME SInv PROVE SearchStaysValid
  <2> SUFFICES ASSUME NEW f \in freeing
               PROVE /\ link[f.master] = GroupAddr(f.group)
                     /\ f.master \in Slabs(f.group)
                     /\ st_slab_clear_bitmap_by_addr(f.group, f.master, f.obj.addr) # {}
    BY Zenon DEF SearchStaysValid
  <2>1. PICK i \in Nat : Lies(f.obj, f.group, f.master, i)
    BY <1>1, Zenon DEF SInv, Searches
  <2>2. f.master \in Slabs(f.group) /\ Shaped(f.group, f.master)
    BY <2>1, <1>1, LiesFacts
  <2>3. st_slab_clear_bitmap_by_addr(f.group, f.master, f.obj.addr) = {i}
    BY <2>1, <1>1, BitIsFound
  <2> QED
    BY <2>2, <2>3 DEF Shaped
<1> QED
  BY <1>1, SlabInvariant, PTL

\* A release of an object in use is never refused.
THEOREM NeverRefused ==
    ASSUME MadviseMayFail = FALSE PROVE SlabSpec => []NoReleaseRefused
<1>1. SInv => NoReleaseRefused
  BY Zenon DEF SInv, SlabTypes, NoReleaseRefused
<1> QED
  BY <1>1, SlabInvariant, PTL

=============================================================================
