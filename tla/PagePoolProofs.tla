--------------------------- MODULE PagePoolProofs ---------------------------
(*****************************************************************************)
(* The page pool, for any number of regions and any sizes of regions, pages  *)
(* and descriptors with which the number of pages of a region fits           *)
(* compound_page_cnt (CountsFit): what its operators do to the descriptors,  *)
(* the index of free blocks and the addresses of pages, and the inductive    *)
(* invariant.                                                                *)
(*****************************************************************************)
EXTENDS PageCounts, TLAPS

-----------------------------------------------------------------------------
(* Pages.                                                                    *)

\* A region has pages.
LEMMA PerRegion == pages_per_region \in Nat /\ pages_per_region > 0
<1>1. RegSize \in Int /\ DescSize + PageSize \in Nat /\ DescSize + PageSize > 0
  BY SizesAssumption
<1>2. RegSize \div (DescSize + PageSize) \in Int
  BY <1>1
<1> QED
  BY <1>2, SizesAssumption DEF pages_per_region

\* A number of pages of a region is stored as it is.
LEMMA Int16Keeps ==
    ASSUME NEW n \in Int, 0 <= n, n <= pages_per_region
    PROVE int16(n) = n /\ n \in Counts
<1> DEFINE h == INT16_MAX + 1
<1>1. h \in Int /\ h >= 1 /\ n < h
  BY PerRegion, CountsFit, SizesAssumption
<1>2. n \in Counts
  BY <1>1, SizesAssumption DEF Counts
<1>3. int16(n) = ((n + h) % (2 * h)) - h
  <2>1. n + INT16_MAX + 1 = n + h
    BY SizesAssumption
  <2> QED
    BY <2>1, Zenon DEF int16
<1> HIDE DEF h
<1>4. (n + h) % (2 * h) = n + h
  BY <1>1
<1>5. (n + h) - h = n
  BY <1>1
<1> QED
  BY <1>2, <1>3, <1>4, <1>5, Zenon

\* A page is its region and its place in there.
LEMMA PageFacts ==
    /\ \A p \in Pages : /\ p[1] \in Regs /\ p[2] \in Int
                        /\ 0 <= p[2] /\ p[2] < pages_per_region
    /\ \A p, q \in Pages : p[1] = q[1] /\ p[2] = q[2] => p = q
    /\ \A r \in Regs : <<r, 0>> \in Pages
    /\ \A p \in Pages, n \in Int :
        /\ Plus(p, n)[1] = p[1] /\ Plus(p, n)[2] = p[2] + n
        /\ 0 <= p[2] + n /\ p[2] + n < pages_per_region => Plus(p, n) \in Pages
<1>1. \A p \in Pages : /\ p[1] \in Regs /\ p[2] \in Int /\ p = <<p[1], p[2]>>
                       /\ 0 <= p[2] /\ p[2] < pages_per_region
  BY PerRegion DEF Pages
<1>2. \A r \in Regs : <<r, 0>> \in Pages
  BY PerRegion DEF Pages
<1>3. ASSUME NEW p \in Pages, NEW n \in Int
      PROVE /\ Plus(p, n)[1] = p[1] /\ Plus(p, n)[2] = p[2] + n
            /\ 0 <= p[2] + n /\ p[2] + n < pages_per_region => Plus(p, n) \in Pages
  <2>1. Plus(p, n)[1] = p[1] /\ Plus(p, n)[2] = p[2] + n
    BY Zenon DEF Plus
  <2>2. ASSUME 0 <= p[2] + n, p[2] + n < pages_per_region PROVE Plus(p, n) \in Pages
    <3>1. p[1] \in Regs /\ p[2] + n \in 0..(pages_per_region - 1)
      BY <1>1, <2>2, PerRegion
    <3> QED
      BY <3>1, Zenon DEF Plus, Pages
  <2> QED
    BY <2>1, <2>2, Zenon
<1>4. \A p, q \in Pages : p[1] = q[1] /\ p[2] = q[2] => p = q
  BY <1>1, Zenon
<1> QED
  BY <1>1, <1>2, <1>3, <1>4, Zenon

\* Within, as a comparison of places.
LEMMA WithinFacts ==
    ASSUME NEW p \in Pages, NEW m, m[2] \in Int, NEW n \in Int
    PROVE Within(p, m, n) <=> p[1] = m[1] /\ m[2] <= p[2] /\ p[2] < m[2] + n
BY PageFacts DEF Within

\* The descriptors of pages.
Descriptors == [Pages -> Descriptor]

\* What a descriptor has.
LEMMA DescriptorFacts ==
    ASSUME NEW P \in Descriptors, NEW p \in Pages
    PROVE /\ P[p].compound_page_cnt \in Int
          /\ 0 <= P[p].compound_page_cnt /\ P[p].compound_page_cnt <= pages_per_region
          /\ P[p].state \in {"free", "allocated"}
          /\ P[p].type \in {"master", "slave"}
<1>1. P[p] \in Descriptor
  BY Zenon DEF Descriptors
<1> QED
  BY <1>1, PerRegion DEF Descriptor

-----------------------------------------------------------------------------
(* Blocks.                                                                   *)

\* m is a master in a region of R.
Heads(P, R) == {m \in Pages : m[1] \in R /\ P[m].type = "master"}

\* p lies in the block of m.
In(P, p, m) == p[1] = m[1] /\ m[2] <= p[2] /\ p[2] < m[2] + P[m].compound_page_cnt

\* Tiled in terms of these.
LEMMA TiledFacts ==
    ASSUME NEW P \in Descriptors, NEW R
    PROVE Tiled(P, R) <=>
            /\ \A p \in Pages : p[1] \in R => \E m \in Heads(P, R) : In(P, p, m)
            /\ \A m \in Heads(P, R) :
                /\ m[2] + P[m].compound_page_cnt <= pages_per_region
                /\ \A p \in Pages : In(P, p, m) =>
                    /\ P[p].state = P[m].state
                    /\ P[p].compound_page_cnt = P[m].compound_page_cnt
                    /\ p # m => P[p].type = "slave"
<1>1. \A p, m \in Pages : Within(p, m, P[m].compound_page_cnt) <=> In(P, p, m)
  BY WithinFacts, PageFacts, DescriptorFacts, Zenon DEF In
<1>2. \A p, m \in Pages : In(P, p, m) => p[1] = m[1]
  BY Zenon DEF In
<1> QED
  BY <1>1, <1>2 DEF Tiled, Heads

\* A block has a page, and its first page is its master.
LEMMA HeadIn ==
    ASSUME NEW P \in Descriptors, NEW R, Tiled(P, R), NEW m \in Heads(P, R)
    PROVE In(P, m, m) /\ P[m].compound_page_cnt >= 1
<1>1. PICK k \in Heads(P, R) : In(P, m, k)
  BY TiledFacts, Zenon DEF Heads
<1>2. k = m
  BY <1>1, TiledFacts DEF Heads
<1> QED
  BY <1>1, <1>2, PageFacts, DescriptorFacts DEF In, Heads

\* Blocks do not overlap.
LEMMA OneBlock ==
    ASSUME NEW P \in Descriptors, NEW R, Tiled(P, R),
           NEW m \in Heads(P, R), NEW k \in Heads(P, R),
           NEW p \in Pages, In(P, p, m), In(P, p, k)
    PROVE m = k
<1>1. m \in Pages /\ k \in Pages /\ m[1] = k[1]
  BY Zenon DEF Heads, In
<1>2. P[m].compound_page_cnt = P[k].compound_page_cnt
  BY TiledFacts
<1>0. p[2] \in Int /\ m[2] \in Int /\ k[2] \in Int /\ P[m].compound_page_cnt \in Int
  BY <1>1, PageFacts, DescriptorFacts, Zenon
<1>3. CASE m[2] <= k[2]
  <2>1. In(P, k, m)
    BY <1>0, <1>1, <1>2, <1>3 DEF In
  <2> QED
    BY <2>1, <1>1, TiledFacts DEF Heads
<1>4. CASE k[2] <= m[2]
  <2>1. In(P, m, k)
    BY <1>0, <1>1, <1>2, <1>4 DEF In
  <2> QED
    BY <2>1, <1>1, TiledFacts DEF Heads
<1> QED
  BY <1>1, <1>3, <1>4, PageFacts

\* A block ends where the region ends or the next one begins.
LEMMA NextHead ==
    ASSUME NEW P \in Descriptors, NEW R, Tiled(P, R), NEW m \in Heads(P, R),
           m[2] + P[m].compound_page_cnt # pages_per_region
    PROVE Plus(m, P[m].compound_page_cnt) \in Heads(P, R)
<1> DEFINE c == P[m].compound_page_cnt
           q == Plus(m, c)
<1>1. /\ m \in Pages /\ m[1] \in R /\ m[2] \in Int /\ c \in Int /\ c >= 1
      /\ m[2] >= 0 /\ m[2] + c < pages_per_region /\ pages_per_region \in Int
  <2>1. m \in Pages /\ m[1] \in R
    BY Zenon DEF Heads
  <2>2. m[2] \in Int /\ m[2] >= 0 /\ c \in Int /\ pages_per_region \in Int
    BY <2>1, PageFacts, DescriptorFacts, PerRegion
  <2>3. c >= 1 /\ m[2] + c <= pages_per_region
    BY HeadIn, TiledFacts, Zenon
  <2> QED
    BY <2>1, <2>2, <2>3
<1> HIDE DEF c
<1>2. q \in Pages /\ q[1] = m[1] /\ q[2] = m[2] + c
  BY <1>1, PageFacts
<1> HIDE DEF q
<1>3. PICK k \in Heads(P, R) : In(P, q, k)
  BY <1>1, <1>2, TiledFacts, Zenon
<1>4. k \in Pages /\ k[1] = m[1] /\ k[2] \in Int /\ P[k].compound_page_cnt \in Int
  BY <1>2, <1>3, PageFacts, DescriptorFacts, Zenon DEF Heads, In
<1>5. ~(k[2] <= m[2])
  <2> SUFFICES ASSUME k[2] <= m[2] PROVE FALSE
    BY Zenon
  <2>1. In(P, m, k)
    BY <1>1, <1>2, <1>3, <1>4 DEF In
  <2>2. m = k
    BY <2>1, <1>1, HeadIn, OneBlock, Zenon
  <2> QED
    BY <2>2, <1>1, <1>2, <1>3 DEF In, c
<1>6. ~(m[2] < k[2] /\ k[2] < q[2])
  <2> SUFFICES ASSUME m[2] < k[2], k[2] < q[2] PROVE FALSE
    BY Zenon
  <2>1. In(P, k, m)
    BY <1>1, <1>2, <1>4 DEF In, c
  <2>2. k = m
    BY <2>1, <1>4, HeadIn, OneBlock, Zenon
  <2> QED
    BY <2>2, <1>1
<1>7. k[2] = q[2]
  BY <1>1, <1>2, <1>3, <1>4, <1>5, <1>6 DEF In
<1>8. k = q
  BY <1>2, <1>4, <1>7, PageFacts
<1> QED
  BY <1>3, <1>8, Zenon DEF q, c

\* The last descriptor of the previous block leads to its master.
LEMMA PrevHead ==
    ASSUME NEW P \in Descriptors, NEW R, Tiled(P, R), NEW m \in Heads(P, R), m[2] # 0
    PROVE LET k == Plus(m, -P[Plus(m, -1)].compound_page_cnt)
          IN /\ k \in Heads(P, R)
             /\ k[1] = m[1] /\ k[2] + P[k].compound_page_cnt = m[2]
<1> DEFINE q == Plus(m, -1)
<1>1. m \in Pages /\ m[1] \in R /\ m[2] \in Int /\ m[2] > 0 /\ m[2] < pages_per_region
  BY PageFacts DEF Heads
<1>2. q \in Pages /\ q[1] = m[1] /\ q[2] = m[2] - 1
  <2>1. -1 \in Int /\ m[2] + (-1) = m[2] - 1
    BY <1>1
  <2>2. 0 <= m[2] + (-1) /\ m[2] + (-1) < pages_per_region
    BY <1>1, PerRegion
  <2> QED
    BY <2>1, <2>2, <1>1, PageFacts, Zenon
<1> HIDE DEF q
<1>3. PICK k \in Heads(P, R) : In(P, q, k)
  BY <1>1, <1>2, TiledFacts, Zenon
<1>4. /\ k \in Pages /\ k[1] = m[1] /\ k[2] \in Int /\ k[2] <= q[2]
      /\ P[k].compound_page_cnt \in Int /\ P[q].compound_page_cnt = P[k].compound_page_cnt
  <2>1. k \in Pages /\ k[1] = m[1] /\ k[2] <= q[2]
    BY <1>2, <1>3, Zenon DEF Heads, In
  <2>2. k[2] \in Int /\ P[k].compound_page_cnt \in Int
    BY <2>1, PageFacts, DescriptorFacts, Zenon
  <2>3. P[q].compound_page_cnt = P[k].compound_page_cnt
    BY <1>2, <1>3, TiledFacts, Zenon
  <2> QED
    BY <2>1, <2>2, <2>3, Zenon
<1>5. ~In(P, m, k)
  <2> SUFFICES ASSUME In(P, m, k) PROVE FALSE
    BY Zenon
  <2>1. m = k
    BY <1>1, HeadIn, OneBlock, Zenon
  <2> QED
    BY <2>1, <1>1, <1>2, <1>4
<1>6. k[2] + P[k].compound_page_cnt = m[2]
  BY <1>1, <1>2, <1>3, <1>4, <1>5 DEF In
<1> DEFINE c == P[k].compound_page_cnt
<1>7. Plus(m, -c) \in Pages /\ Plus(m, -c)[1] = m[1] /\ Plus(m, -c)[2] = k[2]
  <2>1. -c \in Int /\ m[2] + (-c) = k[2]
    BY <1>1, <1>4, <1>6
  <2> HIDE DEF c
  <2> QED
    BY <2>1, <1>1, <1>4, PageFacts
<1>8. Plus(m, -c) = k
  BY <1>4, <1>7, PageFacts
<1> QED
  BY <1>3, <1>4, <1>6, <1>8, Zenon DEF q

-----------------------------------------------------------------------------
(* Allocation.                                                               *)

\* What splitting the block of m does to each descriptor.
LEMMA SplitDescriptors ==
    ASSUME NEW P \in Descriptors, NEW m \in Pages,
           m[2] + P[m].compound_page_cnt <= pages_per_region,
           NEW use \in Int, 1 <= use, use <= P[m].compound_page_cnt,
           NEW Q, Q = st_pagepool_split_pages(P, m, use)
    PROVE /\ Q \in Descriptors
          /\ \A p \in Pages : ~In(P, p, m) => Q[p] = P[p]
          /\ \A p \in Pages : In(P, p, m) =>
                IF p[2] < m[2] + use
                THEN /\ Q[p].state = "allocated" /\ Q[p].compound_page_cnt = use
                     /\ Q[p].type = P[p].type
                ELSE /\ Q[p].state = P[p].state
                     /\ Q[p].compound_page_cnt = P[m].compound_page_cnt - use
                     /\ Q[p].type = IF p[2] = m[2] + use THEN "master" ELSE P[p].type
<1> DEFINE total == P[m].compound_page_cnt
           rest == Plus(m, use)
<1>1. /\ m[2] \in Int /\ 0 <= m[2] /\ total \in Int /\ total <= pages_per_region
      /\ pages_per_region \in Int
  BY PageFacts, DescriptorFacts, PerRegion
<1>2. rest[1] = m[1] /\ rest[2] = m[2] + use /\ rest[2] \in Int
  BY <1>1, PageFacts
<1>3. Q = [p \in Pages |->
            IF Within(p, m, use)
            THEN [P[p] EXCEPT !.state = "allocated", !.compound_page_cnt = use]
            ELSE [P[p] EXCEPT
                    !.compound_page_cnt = IF Within(p, rest, total - use) THEN total - use ELSE @,
                    !.type = IF p = rest /\ total # use THEN "master" ELSE @]]
  <2>1. int16(use) = use /\ int16(total - use) = total - use
    BY <1>1, Int16Keeps
  <2> QED
    BY <2>1, Zenon DEF st_pagepool_split_pages
<1> HIDE DEF total, rest
<1>4. ASSUME NEW p \in Pages
      PROVE /\ Within(p, m, use) <=> In(P, p, m) /\ p[2] < m[2] + use
            /\ Within(p, rest, total - use) <=> In(P, p, m) /\ p[2] >= m[2] + use
  <2>1. p[2] \in Int
    BY PageFacts, Zenon
  <2>2. Within(p, m, use) <=> p[1] = m[1] /\ m[2] <= p[2] /\ p[2] < m[2] + use
    BY <1>1, WithinFacts, Zenon
  <2>3. Within(p, rest, total - use) <=>
            p[1] = rest[1] /\ rest[2] <= p[2] /\ p[2] < rest[2] + (total - use)
    BY <1>1, <1>2, WithinFacts
  <2> QED
    BY <2>1, <2>2, <2>3, <1>1, <1>2 DEF In, total
<1>5. ASSUME NEW p \in Pages, In(P, p, m) PROVE p = rest <=> p[2] = m[2] + use
  <2>1. p = rest => p[2] = m[2] + use
    BY <1>2, Zenon
  <2>2. ASSUME p[2] = m[2] + use PROVE p = rest
    <3>1. rest \in Pages
      BY <2>2, <1>1, PageFacts DEF rest
    <3> QED
      BY <3>1, <2>2, <1>2, <1>5, PageFacts DEF In
  <2> QED
    BY <2>1, <2>2, Zenon
<1>6. use \in 0..pages_per_region /\ total - use \in 0..pages_per_region
  BY <1>1 DEF total
<1>7. ASSUME NEW p \in Pages
      PROVE /\ Q[p] \in Descriptor
            /\ ~In(P, p, m) => Q[p] = P[p]
            /\ In(P, p, m) =>
                IF p[2] < m[2] + use
                THEN /\ Q[p].state = "allocated" /\ Q[p].compound_page_cnt = use
                     /\ Q[p].type = P[p].type
                ELSE /\ Q[p].state = P[p].state
                     /\ Q[p].compound_page_cnt = total - use
                     /\ Q[p].type = IF p[2] = m[2] + use THEN "master" ELSE P[p].type
  <2>1. P[p] \in Descriptor
    BY Zenon DEF Descriptors
  <2>2. CASE ~In(P, p, m)
    <3>0. ~(p = rest /\ total # use)
      <4>1. p[2] \in Int /\ use <= total
        BY PageFacts DEF total
      <4>2. p = rest => p[1] = m[1] /\ p[2] = m[2] + use
        BY <1>2, Zenon
      <4> QED
        BY <4>1, <4>2, <2>2, <1>1 DEF In, total
    <3>a. ~Within(p, m, use) /\ ~Within(p, rest, total - use)
      BY <2>2, <1>4, Zenon
    <3>b. Q[p] = [P[p] EXCEPT !.compound_page_cnt = @, !.type = @]
      BY <3>0, <3>a, <1>3, Zenon
    <3>1. Q[p] = P[p]
      BY <3>b, <2>1 DEF Descriptor
    <3> QED
      BY <3>1, <2>1, <2>2, Zenon
  <2>3. CASE In(P, p, m) /\ p[2] < m[2] + use
    <3>1. Q[p] = [P[p] EXCEPT !.state = "allocated", !.compound_page_cnt = use]
      BY <2>3, <1>3, <1>4, Zenon
    <3>2. Q[p] \in Descriptor
      BY <3>1, <2>1, <1>6, Zenon DEF Descriptor
    <3> QED
      BY <3>1, <3>2, <2>1, <2>3, Zenon DEF Descriptor
  <2>4. CASE In(P, p, m) /\ ~(p[2] < m[2] + use)
    <3>1. ~Within(p, m, use) /\ Within(p, rest, total - use)
      BY <2>4, <1>1, <1>4, PageFacts
    <3>0. total # use
      BY <2>4, <1>1, PageFacts DEF In, total
    <3>2. Q[p] = [P[p] EXCEPT !.compound_page_cnt = total - use,
                              !.type = IF p = rest THEN "master" ELSE @]
      BY <3>0, <3>1, <1>3, Zenon
    <3>3. Q[p] \in Descriptor
      BY <3>2, <2>1, <1>6, Zenon DEF Descriptor
    <3> QED
      BY <3>2, <3>3, <2>1, <2>4, <1>5, Zenon DEF Descriptor
  <2> QED
    BY <2>2, <2>3, <2>4, Zenon
<1>8. Q \in Descriptors
  BY <1>3, <1>7, Zenon DEF Descriptors
<1> QED
  BY <1>7, <1>8, Zenon DEF total

\* After that the block of m is the first part, the rest is a block of its own,
\* and all other blocks are as they were.
LEMMA SplitTiles ==
    ASSUME NEW P \in Descriptors, NEW R, Tiled(P, R), NEW m \in Heads(P, R),
           NEW use \in Int, 1 <= use, use <= P[m].compound_page_cnt,
           NEW Q, Q = st_pagepool_split_pages(P, m, use)
    PROVE /\ Q \in Descriptors /\ Tiled(Q, R)
          /\ Q[m].state = "allocated" /\ Q[m].compound_page_cnt = use
          /\ \A k \in Heads(P, R) : k # m => Q[k] = P[k]
          /\ use = P[m].compound_page_cnt => Heads(Q, R) = Heads(P, R)
          /\ use # P[m].compound_page_cnt =>
                /\ Plus(m, use) \in Pages \ Heads(P, R)
                /\ Heads(Q, R) = Heads(P, R) \cup {Plus(m, use)}
                /\ Q[Plus(m, use)].state = P[m].state
                /\ Q[Plus(m, use)].compound_page_cnt = P[m].compound_page_cnt - use
<1> DEFINE total == P[m].compound_page_cnt
           rest == Plus(m, use)
<1>1. /\ m \in Pages /\ m[1] \in R /\ m[2] \in Int /\ 0 <= m[2] /\ total \in Int
      /\ pages_per_region \in Int /\ In(P, m, m)
  BY PageFacts, DescriptorFacts, PerRegion, HeadIn DEF Heads
<1>2. m[2] + total <= pages_per_region
  BY TiledFacts, Zenon
<1>3. /\ Q \in Descriptors
      /\ \A p \in Pages : ~In(P, p, m) => Q[p] = P[p]
      /\ \A p \in Pages : In(P, p, m) =>
            IF p[2] < m[2] + use
            THEN /\ Q[p].state = "allocated" /\ Q[p].compound_page_cnt = use
                 /\ Q[p].type = P[p].type
            ELSE /\ Q[p].state = P[p].state
                 /\ Q[p].compound_page_cnt = total - use
                 /\ Q[p].type = IF p[2] = m[2] + use THEN "master" ELSE P[p].type
  BY <1>1, <1>2, SplitDescriptors
<1>4. Q[m].state = "allocated" /\ Q[m].compound_page_cnt = use /\ Q[m].type = "master"
  BY <1>1, <1>3 DEF Heads
<1>5. ASSUME NEW k \in Heads(P, R), k # m PROVE ~In(P, k, m) /\ Q[k] = P[k]
  BY <1>5, <1>3, TiledFacts DEF Heads
<1>6. ASSUME use # total
      PROVE /\ rest \in Pages \ Heads(P, R) /\ rest[1] = m[1] /\ rest[2] = m[2] + use
            /\ In(P, rest, m) /\ Q[rest].type = "master"
            /\ Q[rest].state = P[m].state /\ Q[rest].compound_page_cnt = total - use
  <2>1. use < total /\ 0 <= m[2] + use /\ m[2] + use < pages_per_region
    BY <1>6, <1>1, <1>2
  <2>2. rest \in Pages /\ rest[1] = m[1] /\ rest[2] = m[2] + use
    BY <2>1, <1>1, PageFacts, Zenon
  <2> HIDE DEF rest
  <2>3. In(P, rest, m) /\ rest # m
    BY <2>1, <2>2, <1>1 DEF In
  <2>4. P[rest].type = "slave" /\ P[rest].state = P[m].state
    BY <2>2, <2>3, TiledFacts, Zenon
  <2>5. Q[rest].state = P[rest].state /\ Q[rest].compound_page_cnt = total - use /\ Q[rest].type = "master"
    BY <2>2, <2>3, <1>1, <1>3
  <2> QED
    BY <2>2, <2>3, <2>4, <2>5, Zenon DEF Heads
<1> HIDE DEF total, rest
<1>7. ASSUME NEW p \in Pages, Q[p].type = "master", P[p].type # "master"
      PROVE use # total /\ p = rest
  <2>1. In(P, p, m) /\ p[2] = m[2] + use
    BY <1>7, <1>3, Zenon
  <2>2. use # total
    BY <2>1, <1>1, PageFacts DEF In, total
  <2> QED
    BY <2>1, <2>2, <1>6, PageFacts DEF In
<1>8. /\ use = total => Heads(Q, R) = Heads(P, R)
      /\ use # total => Heads(Q, R) = Heads(P, R) \cup {rest}
  <2>1. Heads(P, R) \subseteq Heads(Q, R)
    BY <1>4, <1>5, Zenon DEF Heads
  <2>2. use # total => rest \in Heads(Q, R)
    BY <1>1, <1>6, Zenon DEF Heads
  <2>3. ASSUME NEW p \in Heads(Q, R), p \notin Heads(P, R)
        PROVE use # total /\ p = rest
    BY <2>3, <1>7, Zenon DEF Heads
  <2> QED
    BY <2>1, <2>2, <2>3, Zenon
<1>9. ASSUME NEW p \in Pages
      PROVE /\ In(Q, p, m) <=> In(P, p, m) /\ p[2] < m[2] + use
            /\ use # total => (In(Q, p, rest) <=> In(P, p, m) /\ p[2] >= m[2] + use)
            /\ \A k \in Heads(P, R) : k # m => (In(Q, p, k) <=> In(P, p, k))
  <2>1. p[2] \in Int
    BY PageFacts, Zenon
  <2>2. In(Q, p, m) <=> In(P, p, m) /\ p[2] < m[2] + use
    BY <2>1, <1>1, <1>4 DEF In, total
  <2>3. use # total => (In(Q, p, rest) <=> In(P, p, m) /\ p[2] >= m[2] + use)
    BY <2>1, <1>1, <1>6 DEF In, total
  <2>4. \A k \in Heads(P, R) : k # m => (In(Q, p, k) <=> In(P, p, k))
    BY <1>5, Zenon DEF In
  <2> QED
    BY <2>2, <2>3, <2>4, Zenon
<1>10. ASSUME NEW p \in Pages, p[1] \in R PROVE \E k \in Heads(Q, R) : In(Q, p, k)
  <2>1. PICK k \in Heads(P, R) : In(P, p, k)
    BY <1>10, TiledFacts, Zenon
  <2>2. CASE k # m
    BY <2>1, <2>2, <1>8, <1>9, Zenon
  <2>3. CASE k = m /\ p[2] < m[2] + use
    BY <2>1, <2>3, <1>8, <1>9, Zenon
  <2>4. CASE k = m /\ p[2] >= m[2] + use
    <3>1. use # total
      BY <2>1, <2>4, <1>1, PageFacts DEF In, total
    <3> QED
      BY <3>1, <2>1, <2>4, <1>8, <1>9, Zenon
  <2> QED
    BY <2>2, <2>3, <2>4, <1>1, PageFacts
<1>11. ASSUME NEW k \in Heads(Q, R)
       PROVE /\ k[2] + Q[k].compound_page_cnt <= pages_per_region
             /\ \A p \in Pages : In(Q, p, k) =>
                    /\ Q[p].state = Q[k].state
                    /\ Q[p].compound_page_cnt = Q[k].compound_page_cnt
                    /\ p # k => Q[p].type = "slave"
  <2>1. CASE k = m
    <3>1. m[2] + use <= pages_per_region
      BY <1>1, <1>2 DEF total
    <3>2. ASSUME NEW p \in Pages, In(Q, p, m)
          PROVE /\ Q[p].state = "allocated" /\ Q[p].compound_page_cnt = use
                /\ p # m => Q[p].type = "slave"
      <4>1. In(P, p, m) /\ p[2] < m[2] + use
        BY <3>2, <1>9, Zenon
      <4>2. p # m => P[p].type = "slave"
        BY <4>1, TiledFacts, Zenon
      <4> QED
        BY <4>1, <4>2, <1>3, Zenon
    <3> QED
      BY <3>1, <3>2, <2>1, <1>4, Zenon
  <2>2. CASE k \in Heads(P, R) /\ k # m
    <3>1. Q[k] = P[k]
      BY <2>2, <1>5, Zenon
    <3>2. ASSUME NEW p \in Pages, In(Q, p, k) PROVE Q[p] = P[p] /\ In(P, p, k)
      <4>1. In(P, p, k)
        BY <3>2, <2>2, <1>9, Zenon
      <4>2. ~In(P, p, m)
        BY <4>1, <2>2, OneBlock, Zenon
      <4> QED
        BY <4>1, <4>2, <1>3, Zenon
    <3> QED
      BY <3>1, <3>2, <2>2, TiledFacts
  <2>3. CASE k \notin Heads(P, R)
    <3>1. use # total /\ k = rest
      BY <2>3, <1>8, Zenon
    <3>2. rest[2] + Q[rest].compound_page_cnt <= pages_per_region
      BY <3>1, <1>1, <1>2, <1>6
    <3>3. ASSUME NEW p \in Pages, In(Q, p, rest)
          PROVE /\ Q[p].state = P[m].state /\ Q[p].compound_page_cnt = total - use
                /\ p # rest => Q[p].type = "slave"
      <4>1. In(P, p, m) /\ p[2] >= m[2] + use /\ p[2] \in Int
        BY <3>1, <3>3, <1>9, PageFacts, Zenon
      <4>2. P[p].state = P[m].state /\ (p # m => P[p].type = "slave")
        BY <4>1, TiledFacts, Zenon
      <4>3. p # m /\ ~(p[2] < m[2] + use)
        BY <4>1, <1>1
      <4>4. p # rest => p[2] # m[2] + use
        BY <4>1, <3>1, <1>6, PageFacts DEF In
      <4> QED
        BY <4>1, <4>2, <4>3, <4>4, <1>3, Zenon
    <3> QED
      BY <3>1, <3>2, <3>3, <1>6, Zenon
  <2> QED
    BY <2>1, <2>2, <2>3, Zenon
<1>12. Tiled(Q, R)
  BY <1>3, <1>10, <1>11, TiledFacts, Zenon
<1> QED
  BY <1>3, <1>4, <1>5, <1>6, <1>8, <1>12, Zenon DEF total, rest

-----------------------------------------------------------------------------
(* The invariant, for descriptors P, regions R and index F.                  *)

FreeHeads(P, R) == {m \in Heads(P, R) : P[m].state = "free"}

UsedHeads(P, R) == {m \in Heads(P, R) : P[m].state = "allocated"}

\* F lists the blocks M of P, each under its size.
Lists(P, F, M) == \A n \in Counts : F[n] = {m \in M : P[m].compound_page_cnt = n}

\* A free block follows the block of m.
FreeAfter(P, m) ==
    /\ m[2] + P[m].compound_page_cnt # pages_per_region
    /\ P[Plus(m, P[m].compound_page_cnt)].state = "free"

\* None of the free blocks is the whole region or has a free block after it.
Merged(P, R) ==
    \A m \in FreeHeads(P, R) :
        P[m].compound_page_cnt < pages_per_region /\ ~FreeAfter(P, m)

Indexes == [Counts -> SUBSET Pages]

\* The pool is sound: its blocks tile the regions, the index lists the free
\* ones, and these are merged.
Sound(P, R, F) ==
    /\ P \in Descriptors /\ Tiled(P, R)
    /\ F \in Indexes /\ Lists(P, F, FreeHeads(P, R))
    /\ Merged(P, R)

\* The pool is sound but for the free block of m, which the index does not list
\* and which may be a whole region.
Spare(P, R, F, m) ==
    /\ P \in Descriptors /\ Tiled(P, R) /\ m \in FreeHeads(P, R)
    /\ F \in Indexes /\ Lists(P, F, FreeHeads(P, R) \ {m})
    /\ \A k \in FreeHeads(P, R) :
        (k # m => P[k].compound_page_cnt < pages_per_region) /\ ~FreeAfter(P, k)

\* TakePages, from descriptors P and index F to Q and G.
Takes(P, F, m, use, Q, G) ==
    /\ Q = st_pagepool_split_pages(P, m, use)
    /\ IF P[m].compound_page_cnt = use THEN G = F
       ELSE \E n \in Counts :
                /\ Plus(m, use) \in Pages => n = Q[Plus(m, use)].compound_page_cnt
                /\ G = st_pagepool_add_pages(F, n, Plus(m, use))

\* Taking pages from such a block leaves the pool sound.
LEMMA TakeSound ==
    ASSUME NEW P, NEW R, NEW F, NEW m, Spare(P, R, F, m),
           NEW use \in Int, 1 <= use, use <= P[m].compound_page_cnt,
           NEW Q, NEW G, Takes(P, F, m, use, Q, G)
    PROVE /\ Sound(Q, R, G)
          /\ UsedHeads(Q, R) = UsedHeads(P, R) \cup {m} /\ Q[m].compound_page_cnt = use
          /\ \A k \in UsedHeads(P, R) : Q[k] = P[k]
          /\ \A p \in Pages : p[1] \notin R => Q[p] = P[p]
<1> DEFINE total == P[m].compound_page_cnt
           rest == Plus(m, use)
<1>a. /\ P \in Descriptors /\ Tiled(P, R) /\ m \in FreeHeads(P, R) /\ F \in Indexes
      /\ Lists(P, F, FreeHeads(P, R) \ {m})
      /\ \A k \in FreeHeads(P, R) :
            (k # m => P[k].compound_page_cnt < pages_per_region) /\ ~FreeAfter(P, k)
      /\ Q = st_pagepool_split_pages(P, m, use)
      /\ IF P[m].compound_page_cnt = use THEN G = F
         ELSE \E n \in Counts :
                /\ Plus(m, use) \in Pages => n = Q[Plus(m, use)].compound_page_cnt
                /\ G = st_pagepool_add_pages(F, n, Plus(m, use))
  BY Zenon DEF Spare, Takes
<1> USE <1>a
<1>0. m \in Heads(P, R) /\ P[m].state = "free"
  BY Zenon DEF FreeHeads
<1>1. /\ Q \in Descriptors /\ Tiled(Q, R)
      /\ Q[m].state = "allocated" /\ Q[m].compound_page_cnt = use
      /\ \A k \in Heads(P, R) : k # m => Q[k] = P[k]
      /\ use = total => Heads(Q, R) = Heads(P, R)
      /\ use # total =>
            /\ rest \in Pages \ Heads(P, R)
            /\ Heads(Q, R) = Heads(P, R) \cup {rest}
            /\ Q[rest].state = "free" /\ Q[rest].compound_page_cnt = total - use
  BY <1>0, SplitTiles
<1>2. /\ m \in Pages /\ m[2] \in Int /\ total \in Int /\ m[2] + total <= pages_per_region
      /\ pages_per_region \in Int /\ 0 <= m[2]
  BY <1>0, PageFacts, DescriptorFacts, TiledFacts, PerRegion DEF Heads
<1>3. FreeHeads(Q, R) = IF use = total THEN FreeHeads(P, R) \ {m}
                        ELSE (FreeHeads(P, R) \ {m}) \cup {rest}
  <2> HIDE DEF rest, total
  <2>1. \A k \in Heads(P, R) : k \in FreeHeads(Q, R) <=> k \in FreeHeads(P, R) \ {m}
    BY <1>1, Zenon DEF FreeHeads
  <2>2. use # total => rest \in FreeHeads(Q, R)
    BY <1>1, Zenon DEF FreeHeads
  <2>3. FreeHeads(Q, R) \subseteq Heads(Q, R) /\ FreeHeads(P, R) \subseteq Heads(P, R)
    BY Zenon DEF FreeHeads
  <2> QED
    BY <2>1, <2>2, <2>3, <1>1
<1>4. UsedHeads(Q, R) = UsedHeads(P, R) \cup {m}
  <2> HIDE DEF rest, total
  <2>1. \A k \in Heads(P, R) : k \in UsedHeads(Q, R) <=> k \in UsedHeads(P, R) \cup {m}
    BY <1>1, <1>0, Zenon DEF UsedHeads
  <2>2. use # total => rest \notin UsedHeads(Q, R)
    BY <1>1, Zenon DEF UsedHeads
  <2>3. UsedHeads(Q, R) \subseteq Heads(Q, R) /\ UsedHeads(P, R) \cup {m} \subseteq Heads(P, R)
    BY <1>0, Zenon DEF UsedHeads
  <2> QED
    BY <2>1, <2>2, <2>3, <1>1
<1>5. G \in Indexes /\ Lists(Q, G, FreeHeads(Q, R))
  <2> HIDE DEF rest, total
  <2>0. \A k \in FreeHeads(P, R) \ {m} : Q[k].compound_page_cnt = P[k].compound_page_cnt
    BY <1>1, Zenon DEF FreeHeads
  <2>1. CASE use = total
    <3>1. G = F
      BY <2>1, Zenon DEF total
    <3>2. FreeHeads(Q, R) = FreeHeads(P, R) \ {m}
      BY <2>1, <1>3, Zenon
    <3> QED
      BY <3>1, <3>2, <2>0 DEF Lists
  <2>2. CASE use # total
    <3>1. G = [F EXCEPT ![total - use] = @ \cup {rest}]
      <4>1. rest \in Pages /\ Q[rest].compound_page_cnt = total - use
        BY <2>2, <1>1, Zenon
      <4> QED
        BY <4>1, <2>2, Zenon DEF total, rest, st_pagepool_add_pages
    <3>2. FreeHeads(Q, R) = (FreeHeads(P, R) \ {m}) \cup {rest}
      BY <2>2, <1>3, Zenon
    <3>3. rest \in Pages /\ rest \notin FreeHeads(P, R) /\ Q[rest].compound_page_cnt = total - use
      BY <2>2, <1>1, Zenon DEF FreeHeads
    <3>4. G \in Indexes
      BY <3>1, <3>3 DEF Indexes
    <3>5. ASSUME NEW n \in Counts
          PROVE G[n] = {k \in FreeHeads(Q, R) : Q[k].compound_page_cnt = n}
      <4>1. F[n] = {k \in FreeHeads(P, R) \ {m} : P[k].compound_page_cnt = n}
        BY Zenon DEF Lists
      <4>2. G[n] = IF n = total - use THEN F[n] \cup {rest} ELSE F[n]
        BY <3>1, Zenon DEF Indexes
      <4> QED
        BY <4>1, <4>2, <3>2, <3>3, <2>0
    <3> QED
      BY <3>4, <3>5, Zenon DEF Lists
  <2> QED
    BY <2>1, <2>2, Zenon
<1>6. ASSUME NEW h \in Heads(P, R), ~FreeAfter(P, h),
             h[2] + P[h].compound_page_cnt # pages_per_region
      PROVE Q[Plus(h, P[h].compound_page_cnt)].state # "free"
  <2> DEFINE q == Plus(h, P[h].compound_page_cnt)
  <2>1. q \in Heads(P, R) /\ P[q].state # "free"
    BY <1>6, NextHead, Zenon DEF FreeAfter
  <2> QED
    BY <2>1, <1>0, <1>1, Zenon
<1>7. ASSUME NEW k \in FreeHeads(Q, R)
      PROVE Q[k].compound_page_cnt < pages_per_region /\ ~FreeAfter(Q, k)
  <2>1. CASE k \in FreeHeads(P, R) \ {m}
    <3>1. k \in Heads(P, R) /\ Q[k] = P[k]
      BY <2>1, <1>1, Zenon DEF FreeHeads
    <3>2. P[k].compound_page_cnt < pages_per_region /\ ~FreeAfter(P, k)
      BY <2>1, Zenon
    <3> QED
      BY <3>1, <3>2, <1>6, Zenon DEF FreeAfter
  <2>2. CASE use # total /\ k = rest
    <3>1. Q[rest].compound_page_cnt = total - use /\ rest[2] = m[2] + use /\ rest[1] = m[1]
      BY <2>2, <1>1, <1>2, PageFacts, Zenon
    <3>2. total - use < pages_per_region
      BY <1>2
    <3>3. rest[2] + (total - use) = m[2] + total
      BY <3>1, <1>2
    <3>4. Plus(rest, total - use) = Plus(m, total)
      BY <3>1, <3>3, Zenon DEF Plus
    <3>5. ~FreeAfter(P, m)
      BY Zenon
    <3> HIDE DEF rest, total
    <3>6. m[2] + total # pages_per_region => Q[Plus(m, total)].state # "free"
      BY <3>5, <1>0, <1>6, Zenon DEF total
    <3> QED
      BY <2>2, <3>1, <3>2, <3>3, <3>4, <3>6, Zenon DEF FreeAfter
  <2> QED
    BY <2>1, <2>2, <1>3, Zenon
<1>8. \A k \in UsedHeads(P, R) : Q[k] = P[k]
  BY <1>0, <1>1, Zenon DEF UsedHeads
<1>9. ASSUME NEW p \in Pages, p[1] \notin R PROVE Q[p] = P[p]
  <2>1. ~In(P, p, m)
    BY <1>9, <1>0, Zenon DEF In, Heads
  <2> QED
    BY <2>1, <1>2, SplitDescriptors
<1> QED
  BY <1>1, <1>4, <1>5, <1>7, <1>8, <1>9, Zenon DEF Sound, Merged

\* A region that joins the pool is one free block.
LEMMA InitRegion ==
    ASSUME NEW P, NEW R, NEW F, Sound(P, R, F), NEW r \in Regs, r \notin R,
           NEW S, S = R \cup {r}, NEW Q, Q = st_pagepool_init_region(P, r)
    PROVE /\ Spare(Q, S, F, <<r, 0>>) /\ Q[<<r, 0>>].compound_page_cnt = pages_per_region
          /\ UsedHeads(Q, S) = UsedHeads(P, R)
          /\ \A p \in Pages : p[1] # r => Q[p] = P[p]
<1> DEFINE m == <<r, 0>>
<1>1. /\ P \in Descriptors /\ Tiled(P, R) /\ F \in Indexes
      /\ Lists(P, F, FreeHeads(P, R)) /\ Merged(P, R)
  BY Zenon DEF Sound
<1>2. m \in Pages /\ m[1] = r /\ m[2] = 0 /\ pages_per_region \in Int /\ pages_per_region > 0
  BY PageFacts, PerRegion
<1>3. \A p \in Pages : p[1] # r => Q[p] = P[p]
  BY Zenon DEF st_pagepool_init_region
<1>4. ASSUME NEW p \in Pages, p[1] = r
      PROVE /\ Q[p].state = "free" /\ Q[p].compound_page_cnt = pages_per_region
            /\ Q[p].type = (IF p = m THEN "master" ELSE "slave")
            /\ Q[p] \in Descriptor
  <2>1. p = m <=> p[2] = 0
    BY <1>2, <1>4, PageFacts, Zenon
  <2>2. Q[p] = [state |-> "free", type |-> IF p[2] = 0 THEN "master" ELSE "slave",
                compound_page_cnt |-> pages_per_region]
    <3>1. int16(pages_per_region) = pages_per_region
      BY <1>2, Int16Keeps
    <3> QED
      BY <3>1, <1>4, Zenon DEF st_pagepool_init_region
  <2>3. pages_per_region \in 0..pages_per_region
    BY <1>2
  <2> HIDE DEF m
  <2> QED
    BY <2>1, <2>2, <2>3 DEF Descriptor
<1>5. Q \in Descriptors
  <2>1. Q = [p \in Pages |-> Q[p]]
    BY Zenon DEF st_pagepool_init_region
  <2>2. \A p \in Pages : Q[p] \in Descriptor
    BY <1>1, <1>3, <1>4, Zenon DEF Descriptors
  <2> QED
    BY <2>1, <2>2, Zenon DEF Descriptors
<1> HIDE DEF m
<1>6. \A k \in Heads(P, R) : k \in Pages /\ k[1] # r /\ Q[k] = P[k]
  BY <1>3, Zenon DEF Heads
<1>7. Heads(Q, S) = Heads(P, R) \cup {m}
  <2>1. Heads(P, R) \cup {m} \subseteq Heads(Q, S)
    BY <1>2, <1>4, <1>6, Zenon DEF Heads
  <2>2. Heads(Q, S) \subseteq Heads(P, R) \cup {m}
    BY <1>3, <1>4, Zenon DEF Heads
  <2> QED
    BY <2>1, <2>2, Zenon
<1>8. \A p \in Pages : p[1] = r => In(Q, p, m)
  BY <1>2, <1>4, PageFacts DEF In
<1>9. \A p \in Pages, k \in Heads(P, R) :
        In(Q, p, k) <=> In(P, p, k) /\ Q[p] = P[p]
  BY <1>3, <1>6, Zenon DEF In
<1>10. Tiled(Q, S)
  <2>1. \A p \in Pages : p[1] \in S => \E k \in Heads(Q, S) : In(Q, p, k)
    <3> SUFFICES ASSUME NEW p \in Pages, p[1] \in S PROVE \E k \in Heads(Q, S) : In(Q, p, k)
      BY Zenon
    <3>1. CASE p[1] = r
      BY <3>1, <1>7, <1>8, Zenon
    <3>2. CASE p[1] # r
      <4>1. PICK k \in Heads(P, R) : In(P, p, k)
        BY <3>2, <1>1, TiledFacts, Zenon
      <4> QED
        BY <4>1, <3>2, <1>3, <1>7, <1>9, Zenon
    <3> QED
      BY <3>1, <3>2, Zenon
  <2>2. ASSUME NEW k \in Heads(Q, S)
        PROVE /\ k[2] + Q[k].compound_page_cnt <= pages_per_region
              /\ \A p \in Pages : In(Q, p, k) =>
                    /\ Q[p].state = Q[k].state
                    /\ Q[p].compound_page_cnt = Q[k].compound_page_cnt
                    /\ p # k => Q[p].type = "slave"
    <3>1. CASE k = m
      <4>1. 0 + pages_per_region <= pages_per_region
        BY <1>2
      <4>2. \A p \in Pages : In(Q, p, m) => p[1] = r
        BY <1>2, Zenon DEF In
      <4> QED
        BY <4>1, <4>2, <3>1, <1>2, <1>4
    <3>2. CASE k \in Heads(P, R)
      BY <3>2, <1>1, <1>6, <1>9, TiledFacts
    <3> QED
      BY <3>1, <3>2, <1>7, Zenon
  <2> QED
    BY <2>1, <2>2, <1>5, TiledFacts, Zenon
<1>11. m \notin Heads(P, R) /\ Q[m].state = "free" /\ Q[m].compound_page_cnt = pages_per_region
  BY <1>2, <1>4, <1>6, Zenon
<1>12. FreeHeads(Q, S) = FreeHeads(P, R) \cup {m} /\ m \notin FreeHeads(P, R)
  BY <1>6, <1>7, <1>11 DEF FreeHeads
<1>13. UsedHeads(Q, S) = UsedHeads(P, R)
  BY <1>6, <1>7, <1>11, Zenon DEF UsedHeads
<1>14. Lists(Q, F, FreeHeads(Q, S) \ {m})
  <2>1. FreeHeads(Q, S) \ {m} = FreeHeads(P, R)
    BY <1>12, Zenon
  <2>2. \A k \in FreeHeads(P, R) : Q[k] = P[k]
    BY <1>6, Zenon DEF FreeHeads
  <2>3. ASSUME NEW n \in Counts
        PROVE F[n] = {k \in FreeHeads(P, R) : Q[k].compound_page_cnt = n}
    <3>1. F[n] = {k \in FreeHeads(P, R) : P[k].compound_page_cnt = n}
      BY <1>1, Zenon DEF Lists
    <3> QED
      BY <3>1, <2>2, Zenon
  <2> QED
    BY <2>1, <2>3, Zenon DEF Lists
<1>15. ASSUME NEW k \in FreeHeads(Q, S)
       PROVE /\ k # m => Q[k].compound_page_cnt < pages_per_region
             /\ ~FreeAfter(Q, k)
  <2>1. CASE k = m
    <3>1. m[2] + Q[m].compound_page_cnt = pages_per_region
      BY <1>2, <1>11
    <3> QED
      BY <3>1, <2>1, Zenon DEF FreeAfter
  <2>2. CASE k \in FreeHeads(P, R)
    <3>1. k \in Heads(P, R) /\ Q[k] = P[k]
      BY <2>2, <1>6, Zenon DEF FreeHeads
    <3>2. P[k].compound_page_cnt < pages_per_region /\ ~FreeAfter(P, k)
      BY <2>2, <1>1, Zenon DEF Merged
    <3>3. k[2] + P[k].compound_page_cnt # pages_per_region
            => Q[Plus(k, P[k].compound_page_cnt)] = P[Plus(k, P[k].compound_page_cnt)]
      BY <3>1, <1>1, <1>6, NextHead, Zenon
    <3> QED
      BY <3>1, <3>2, <3>3, Zenon DEF FreeAfter
  <2> QED
    BY <2>1, <2>2, <1>12, Zenon
<1> QED
  BY <1>1, <1>3, <1>5, <1>10, <1>11, <1>12, <1>13, <1>14, <1>15, Zenon DEF m, Spare

-----------------------------------------------------------------------------
(* Release.                                                                  *)

\* The n pages from the head s on are whole blocks.
Blocks(P, R, s, n) ==
    /\ P \in Descriptors /\ Tiled(P, R) /\ s \in Heads(P, R)
    /\ n \in Int /\ 1 <= n /\ s[2] + n <= pages_per_region
    /\ s[2] + n # pages_per_region => Plus(s, n) \in Heads(P, R)

\* Such a range and a block that starts outside of it do not overlap, and a
\* block that starts in it ends in it.
LEMMA BlocksWhole ==
    ASSUME NEW P, NEW R, NEW s, NEW n, Blocks(P, R, s, n),
           NEW k \in Heads(P, R), NEW p \in Pages, In(P, p, k)
    PROVE Within(p, s, n) <=> Within(k, s, n)
<1>1. /\ s \in Pages /\ s[2] \in Int /\ n \in Int /\ k \in Pages /\ k[2] \in Int
      /\ p[2] \in Int /\ p[2] < pages_per_region /\ pages_per_region \in Int /\ 0 <= s[2]
      /\ P[k].compound_page_cnt \in Int
      /\ p[1] = k[1] /\ k[2] <= p[2] /\ p[2] < k[2] + P[k].compound_page_cnt
      /\ 1 <= n /\ s[2] + n <= pages_per_region
  BY PageFacts, DescriptorFacts, PerRegion DEF Blocks, Heads, In
<1>2. /\ Within(p, s, n) <=> p[1] = s[1] /\ s[2] <= p[2] /\ p[2] < s[2] + n
      /\ Within(k, s, n) <=> k[1] = s[1] /\ s[2] <= k[2] /\ k[2] < s[2] + n
  BY <1>1, WithinFacts, Zenon
<1>3. ~(k[1] = s[1] /\ k[2] < s[2] /\ s[2] <= p[2])
  <2> SUFFICES ASSUME k[1] = s[1], k[2] < s[2], s[2] <= p[2] PROVE FALSE
    BY Zenon
  <2>1. In(P, s, k)
    BY <1>1 DEF In
  <2>2. In(P, s, s)
    BY HeadIn, Zenon DEF Blocks
  <2>3. s = k
    BY <2>1, <2>2, <1>1, OneBlock, Zenon DEF Blocks
  <2> QED
    BY <2>3, <1>1
<1>4. ~(k[1] = s[1] /\ k[2] < s[2] + n /\ s[2] + n <= p[2])
  <2> SUFFICES ASSUME k[1] = s[1], k[2] < s[2] + n, s[2] + n <= p[2] PROVE FALSE
    BY Zenon
  <2> DEFINE e == Plus(s, n)
  <2>0. s[2] + n # pages_per_region
    BY <1>1
  <2>1. e \in Heads(P, R) /\ e \in Pages /\ e[1] = s[1] /\ e[2] = s[2] + n
    BY <2>0, <1>1, PageFacts, Zenon DEF Blocks, Heads
  <2> HIDE DEF e
  <2>2. In(P, e, k)
    BY <2>1, <1>1 DEF In
  <2>3. In(P, e, e)
    BY <2>1, HeadIn, Zenon DEF Blocks
  <2>4. e = k
    BY <2>1, <2>2, <2>3, OneBlock, Zenon DEF Blocks
  <2> QED
    BY <2>1, <2>4, <1>1
<1> QED
  BY <1>1, <1>2, <1>3, <1>4

\* The n pages from s on become one free block of Q.
MakesFree(P, s, n, Q) ==
    Q = [p \in Pages |->
            IF Within(p, s, n)
            THEN [state |-> "free", type |-> IF p = s THEN "master" ELSE "slave",
                  compound_page_cnt |-> n]
            ELSE P[p]]

\* That leaves a tiling, without the blocks that the new one swallowed.
LEMMA MergeTiles ==
    ASSUME NEW P, NEW R, NEW s, NEW n, Blocks(P, R, s, n),
           NEW Q, MakesFree(P, s, n, Q)
    PROVE /\ Q \in Descriptors /\ Tiled(Q, R)
          /\ Heads(Q, R) = {k \in Heads(P, R) : ~Within(k, s, n)} \cup {s}
          /\ \A p \in Pages : ~Within(p, s, n) => Q[p] = P[p]
          /\ \A p \in Pages : Within(p, s, n) => Q[p].state = "free"
          /\ Q[s].compound_page_cnt = n
<1>1. /\ P \in Descriptors /\ Tiled(P, R) /\ s \in Heads(P, R) /\ s \in Pages /\ s[1] \in R
      /\ n \in Int /\ 1 <= n /\ s[2] + n <= pages_per_region
      /\ s[2] \in Int /\ 0 <= s[2] /\ pages_per_region \in Int
  BY PageFacts, PerRegion DEF Blocks, Heads
<1>2. \A p \in Pages : Within(p, s, n) <=> p[1] = s[1] /\ s[2] <= p[2] /\ p[2] < s[2] + n
  BY <1>1, WithinFacts, Zenon
<1>3. Within(s, s, n)
  BY <1>1, <1>2
<1>4. \A p \in Pages : ~Within(p, s, n) => Q[p] = P[p]
  BY Zenon DEF MakesFree
<1>5. \A p \in Pages : Within(p, s, n) =>
        /\ Q[p] \in Descriptor /\ Q[p].state = "free" /\ Q[p].compound_page_cnt = n
        /\ Q[p].type = IF p = s THEN "master" ELSE "slave"
  <2>1. n \in 0..pages_per_region
    BY <1>1
  <2> QED
    BY <2>1, Zenon DEF MakesFree, Descriptor
<1>6. Q \in Descriptors
  <2>1. Q = [p \in Pages |-> Q[p]]
    BY Zenon DEF MakesFree
  <2>2. \A p \in Pages : Q[p] \in Descriptor
    BY <1>1, <1>4, <1>5, Zenon DEF Descriptors
  <2> QED
    BY <2>1, <2>2, Zenon DEF Descriptors
<1>7. Heads(Q, R) = {k \in Heads(P, R) : ~Within(k, s, n)} \cup {s}
  <2>1. \A p \in Pages : ~Within(p, s, n) => (p \in Heads(Q, R) <=> p \in Heads(P, R))
    BY <1>4, Zenon DEF Heads
  <2>2. \A p \in Pages : Within(p, s, n) => (p \in Heads(Q, R) <=> p = s)
    BY <1>1, <1>5, Zenon DEF Heads
  <2>3. Heads(Q, R) \subseteq Pages /\ Heads(P, R) \subseteq Pages
    BY Zenon DEF Heads
  <2> QED
    BY <2>1, <2>2, <2>3, <1>1, <1>3, Zenon
<1>8. \A p \in Pages : In(Q, p, s) <=> Within(p, s, n)
  BY <1>1, <1>2, <1>3, <1>5, Zenon DEF In
<1>9. \A p \in Pages, k \in Heads(P, R) : ~Within(k, s, n) =>
        (In(Q, p, k) <=> In(P, p, k)) /\ (In(P, p, k) => Q[p] = P[p])
  <2> SUFFICES ASSUME NEW p \in Pages, NEW k \in Heads(P, R), ~Within(k, s, n)
               PROVE (In(Q, p, k) <=> In(P, p, k)) /\ (In(P, p, k) => Q[p] = P[p])
    BY Zenon
  <2>1. k \in Pages /\ Q[k] = P[k]
    BY <1>4, Zenon DEF Heads
  <2>2. In(P, p, k) => ~Within(p, s, n)
    BY BlocksWhole, Zenon
  <2> QED
    BY <2>1, <2>2, <1>4, Zenon DEF In
<1>10. ASSUME NEW p \in Pages, p[1] \in R PROVE \E k \in Heads(Q, R) : In(Q, p, k)
  <2>1. CASE Within(p, s, n)
    BY <2>1, <1>7, <1>8, Zenon
  <2>2. CASE ~Within(p, s, n)
    <3>1. PICK k \in Heads(P, R) : In(P, p, k)
      BY <1>1, <1>10, TiledFacts, Zenon
    <3>2. ~Within(k, s, n)
      BY <3>1, <2>2, BlocksWhole, Zenon
    <3> QED
      BY <3>1, <3>2, <1>7, <1>9, Zenon
  <2> QED
    BY <2>1, <2>2, Zenon
<1>11. ASSUME NEW k \in Heads(Q, R)
       PROVE /\ k[2] + Q[k].compound_page_cnt <= pages_per_region
             /\ \A p \in Pages : In(Q, p, k) =>
                    /\ Q[p].state = Q[k].state
                    /\ Q[p].compound_page_cnt = Q[k].compound_page_cnt
                    /\ p # k => Q[p].type = "slave"
  <2>1. CASE k = s
    BY <2>1, <1>1, <1>3, <1>5, <1>8, Zenon
  <2>2. CASE k \in Heads(P, R) /\ ~Within(k, s, n)
    <3>1. Q[k] = P[k]
      BY <2>2, <1>4, Zenon DEF Heads
    <3> QED
      BY <3>1, <2>2, <1>1, <1>9, TiledFacts, SMTT(30)
  <2> QED
    BY <2>1, <2>2, <1>7, Zenon
<1>12. Tiled(Q, R)
  BY <1>6, <1>10, <1>11, TiledFacts, Zenon
<1> QED
  BY <1>1, <1>3, <1>4, <1>5, <1>6, <1>7, <1>12, Zenon

\* P and Q differ at most in region r.
SameBut(P, Q, r) == \A p \in Pages : p[1] # r => Q[p] = P[p]

\* A region leaves the pool; the descriptors of the others stay.
LEMMA TiledWithout ==
    ASSUME NEW P \in Descriptors, NEW R, Tiled(P, R), NEW r,
           NEW Q \in Descriptors, SameBut(P, Q, r)
    PROVE /\ Tiled(Q, R \ {r})
          /\ Heads(Q, R \ {r}) = {k \in Heads(P, R) : k[1] # r}
<1>1. Heads(Q, R \ {r}) = {k \in Heads(P, R) : k[1] # r}
  BY Zenon DEF Heads, SameBut
<1>2. \A p \in Pages, k \in Heads(P, R) : k[1] # r =>
        Q[k] = P[k] /\ (In(Q, p, k) <=> In(P, p, k)) /\ (In(P, p, k) => Q[p] = P[p])
  BY DEF In, Heads, SameBut
<1>3. ASSUME NEW p \in Pages, p[1] \in R \ {r} PROVE \E k \in Heads(Q, R \ {r}) : In(Q, p, k)
  <2>1. PICK k \in Heads(P, R) : In(P, p, k)
    BY <1>3, TiledFacts, Zenon
  <2>2. k[1] # r
    BY <2>1, <1>3, Zenon DEF In
  <2> QED
    BY <2>1, <2>2, <1>1, <1>2, Zenon
<1>4. ASSUME NEW k \in Heads(Q, R \ {r})
      PROVE /\ k[2] + Q[k].compound_page_cnt <= pages_per_region
            /\ \A p \in Pages : In(Q, p, k) =>
                    /\ Q[p].state = Q[k].state
                    /\ Q[p].compound_page_cnt = Q[k].compound_page_cnt
                    /\ p # k => Q[p].type = "slave"
  <2>1. k \in Heads(P, R) /\ k[1] # r /\ Q[k] = P[k]
    BY <1>1, <1>2, Zenon DEF Heads
  <2> QED
    BY <2>1, <1>2, TiledFacts
<1> QED
  BY <1>1, <1>3, <1>4, TiledFacts, Zenon

\* The blocks of two masters in use have no page in common.
LEMMA UsedDisjoint ==
    ASSUME NEW P \in Descriptors, NEW R, Tiled(P, R),
           NEW m \in UsedHeads(P, R), NEW k \in UsedHeads(P, R), m # k
    PROVE Heap!Cover(<<m, P[m].compound_page_cnt>>) \cap Heap!Cover(<<k, P[k].compound_page_cnt>>) = {}
<1>1. /\ m \in Heads(P, R) /\ k \in Heads(P, R) /\ m \in Pages /\ k \in Pages
      /\ P[m].compound_page_cnt \in Int /\ P[k].compound_page_cnt \in Int
      /\ m[2] \in Int /\ k[2] \in Int /\ 0 <= m[2] /\ pages_per_region \in Int
      /\ m[2] + P[m].compound_page_cnt <= pages_per_region
  <2>1. m \in Heads(P, R) /\ k \in Heads(P, R)
    BY Zenon DEF UsedHeads
  <2>2. m \in Pages /\ k \in Pages
    BY <2>1, Zenon DEF Heads
  <2>3. m[2] + P[m].compound_page_cnt <= pages_per_region
    BY <2>1, TiledFacts, Zenon
  <2> QED
    BY <2>1, <2>2, <2>3, PageFacts, DescriptorFacts, PerRegion
<1> SUFFICES ASSUME NEW x \in Heap!Cover(<<m, P[m].compound_page_cnt>>),
                    x \in Heap!Cover(<<k, P[k].compound_page_cnt>>)
             PROVE FALSE
  BY Zenon
<1>2. PICK i \in m[2]..(m[2] + P[m].compound_page_cnt - 1) : x = <<m[1], i>>
  BY Zenon DEF Heap!Cover
<1>3. PICK j \in k[2]..(k[2] + P[k].compound_page_cnt - 1) : x = <<k[1], j>>
  BY Zenon DEF Heap!Cover
<1>4. i = j /\ m[1] = k[1]
  BY <1>2, <1>3
<1>5. i \in Int /\ m[2] <= i /\ i < m[2] + P[m].compound_page_cnt
      /\ k[2] <= i /\ i < k[2] + P[k].compound_page_cnt
  BY <1>1, <1>4
<1> DEFINE p == <<m[1], i>>
<1>6. p \in Pages /\ p[1] = m[1] /\ p[2] = i
  <2>1. m[1] \in Regs /\ i \in 0..(pages_per_region - 1)
    BY <1>1, <1>5, PageFacts, SMTT(30)
  <2> QED
    BY <2>1, Zenon DEF Pages
<1> HIDE DEF p
<1>7. In(P, p, m) /\ In(P, p, k)
  BY <1>4, <1>5, <1>6, Zenon DEF In
<1> QED
  BY <1>1, <1>6, <1>7, OneBlock, Zenon

-----------------------------------------------------------------------------
(* Addresses.                                                                *)

\* Multiplication by a positive number is monotonic.
LEMMA Times ==
    /\ \A a, b, c \in Int : a <= b /\ c > 0 => a * c <= b * c
    /\ \A a, b, c \in Int : a < b /\ c > 0 => a * c < b * c
    /\ \A a, c \in Int : (a + 1) * c = a * c + c
OBVIOUS

\* Division by a positive number.
LEMMA Divide ==
    \A a, b \in Int : b > 0 =>
        /\ a \div b \in Int /\ a % b \in Int
        /\ a = (a \div b) * b + (a % b) /\ 0 <= a % b /\ a % b < b
        /\ (a * b) % b = 0 /\ (a * b) \div b = a
OBVIOUS

\* The descriptors and the pages of a region fit into it.
LEMMA PagesFit ==
    /\ space_base_offset \in Int /\ space_base_offset >= 0
    /\ space_base_offset + pages_per_region * PageSize <= RegSize
<1> DEFINE n == pages_per_region
           x == DescSize * n + PageSize - 1
           q == x \div PageSize
           K == RegSize \div PageSize
<1>1. /\ RegSize \in Int /\ RegSize >= 0 /\ PageSize \in Int /\ PageSize > 0
      /\ DescSize \in Int /\ DescSize > 0 /\ n \in Int /\ n > 0
      /\ RegSize % PageSize = 0
  BY SizesAssumption, PerRegion
<1>2. n * (DescSize + PageSize) <= RegSize
  <2>1. n = RegSize \div (DescSize + PageSize)
    BY Zenon DEF pages_per_region
  <2>2. DescSize + PageSize \in Int /\ DescSize + PageSize > 0
    BY <1>1
  <2>3. RegSize = n * (DescSize + PageSize) + (RegSize % (DescSize + PageSize))
        /\ 0 <= RegSize % (DescSize + PageSize)
        /\ RegSize % (DescSize + PageSize) \in Int
    BY <2>1, <2>2, <1>1, Divide
  <2> HIDE DEF n
  <2>4. n * (DescSize + PageSize) \in Int
    BY <1>1
  <2> QED
    BY <2>3, <2>4, <1>1
<1>3. space_base_offset = q * PageSize
  BY Zenon DEF space_base_offset, st_align
<1>4. K \in Int /\ RegSize = K * PageSize
  BY <1>1, Divide
<1> HIDE DEF n
<1>5. /\ DescSize * n \in Int /\ n * PageSize \in Int /\ DescSize * n >= 0
      /\ n * (DescSize + PageSize) = DescSize * n + n * PageSize
  BY <1>1
<1>6. x \in Int /\ x >= 0 /\ x = DescSize * n + PageSize - 1
  BY <1>1, <1>5
<1> HIDE DEF x, K
<1>7. q \in Int /\ x = q * PageSize + (x % PageSize) /\ 0 <= x % PageSize /\ x % PageSize < PageSize
      /\ x % PageSize \in Int
  BY <1>1, <1>6, Divide
<1> HIDE DEF q
<1>8. q * PageSize \in Int /\ K * PageSize \in Int /\ (K - n) * PageSize = K * PageSize - n * PageSize
      /\ (K - n + 1) * PageSize = K * PageSize - n * PageSize + PageSize
      /\ K - n \in Int /\ (-1) * PageSize = -PageSize
  BY <1>1, <1>4, <1>7
<1>9. q * PageSize < (K - n + 1) * PageSize
  BY <1>1, <1>2, <1>4, <1>5, <1>6, <1>7, <1>8
<1>10. q <= K - n
  <2> SUFFICES ASSUME q > K - n PROVE FALSE
    BY <1>7, <1>8
  <2>1. K - n + 1 <= q /\ K - n + 1 \in Int
    BY <1>7, <1>8
  <2>2. (K - n + 1) * PageSize <= q * PageSize
    BY <2>1, <1>1, <1>7, Times, Zenon
  <2>3. (K - n + 1) * PageSize \in Int
    BY <1>1, <2>1
  <2> QED
    BY <2>2, <2>3, <1>8, <1>9
<1>11. q * PageSize <= (K - n) * PageSize
  BY <1>1, <1>7, <1>8, <1>10, Times, Zenon
<1>12. q >= 0
  <2> SUFFICES ASSUME q <= -1 PROVE FALSE
    BY <1>7
  <2>1. q * PageSize <= (-1) * PageSize
    BY <1>1, <1>7, Times
  <2> QED
    BY <2>1, <1>1, <1>6, <1>7, <1>8
<1>13. 0 * PageSize <= q * PageSize /\ 0 * PageSize = 0
  BY <1>1, <1>7, <1>12, Times
<1> QED
  BY <1>1, <1>3, <1>4, <1>5, <1>8, <1>11, <1>13 DEF n

\* The address of a page of the pool leads back to that page.
LEMMA AddrOfPage ==
    ASSUME regions \subseteq Regs, NEW p \in Pages, p[1] \in regions
    PROVE st_pagepool_addr_to_page(st_pagepool_page_to_addr(p)) = {p}
<1> DEFINE r == p[1]
           i == p[2]
           addr == st_pagepool_page_to_addr(p)
           base(k) == st_region_base_addr_by_idx(k)
<1>1. /\ r \in Int /\ i \in Int /\ 0 <= i /\ i < pages_per_region /\ pages_per_region \in Int
      /\ RegSize \in Int /\ PageSize \in Int /\ PageSize > 0 /\ space_base_offset \in Int
      /\ space_base_offset >= 0 /\ regions \subseteq Int /\ p = <<r, i>>
  <2>1. r \in Regs /\ i \in 0..(pages_per_region - 1) /\ p = <<r, i>>
    BY DEF Pages
  <2> QED
    BY <2>1, PerRegion, PagesFit, SizesAssumption DEF Regs
<1>2. addr = r * RegSize + space_base_offset + i * PageSize
  BY Zenon DEF st_pagepool_page_to_addr, st_region_base_addr_by_idx
<1> HIDE DEF addr
<1>3. /\ r * RegSize \in Int /\ i * PageSize \in Int /\ 0 <= i * PageSize
      /\ pages_per_region * PageSize \in Int
  BY <1>1
<1>4. space_base_offset + i * PageSize < RegSize
  <2>1. i * PageSize < pages_per_region * PageSize
    BY <1>1, Times, Zenon
  <2> QED
    BY <2>1, <1>1, <1>3, PagesFit
<1>5. addr \in Int /\ base(r) <= addr /\ addr < base(r) + RegSize /\ RegSize > 0
  BY <1>1, <1>2, <1>3, <1>4 DEF st_region_base_addr_by_idx
<1>6. ASSUME NEW k \in regions, base(k) <= addr PROVE k <= r
  <2> SUFFICES ASSUME r + 1 <= k PROVE FALSE
    BY <1>1
  <2> HIDE DEF r
  <2>0. r \in Int /\ r + 1 \in Int /\ k \in Int /\ RegSize \in Int /\ RegSize > 0
    BY <1>1, <1>5
  <2>1. (r + 1) * RegSize <= k * RegSize /\ (r + 1) * RegSize = r * RegSize + RegSize
    BY <2>0, Times, Zenon
  <2>2. k * RegSize \in Int
    BY <1>1
  <2> QED
    BY <2>1, <2>2, <1>1, <1>3, <1>5, <1>6 DEF st_region_base_addr_by_idx
<1>7. st_pagepool_get_region(addr) = {r}
  <2>1. r \in st_pagepool_get_region(addr)
    BY <1>5, <1>6, Zenon DEF st_pagepool_get_region
  <2>2. ASSUME NEW k \in st_pagepool_get_region(addr) PROVE k = r
    <3>1. k \in regions /\ base(k) <= addr /\ r <= k
      BY <1>5, Zenon DEF st_pagepool_get_region
    <3> QED
      BY <3>1, <1>1, <1>6
  <2> QED
    BY <2>1, <2>2, Zenon
<1>8. addr - base(r) - space_base_offset = i * PageSize
  BY <1>1, <1>2, <1>3 DEF st_region_base_addr_by_idx
<1>9. (i * PageSize) % PageSize = 0 /\ (i * PageSize) \div PageSize = i
  BY <1>1, Divide, Zenon
<1> DEFINE hit == {k \in {r} : LET offset == addr - st_region_base_addr_by_idx(k) - space_base_offset
                               IN offset >= 0 /\ offset % PageSize = 0}
<1>10. hit = {r}
  BY <1>3, <1>8, <1>9, Zenon
<1>11. st_pagepool_addr_to_page(addr)
        = {<<k, (addr - st_region_base_addr_by_idx(k) - space_base_offset) \div PageSize>> : k \in hit}
  BY <1>7, Zenon DEF st_pagepool_addr_to_page
<1> HIDE DEF hit
<1>12. st_pagepool_addr_to_page(addr)
        = {<<r, (addr - st_region_base_addr_by_idx(r) - space_base_offset) \div PageSize>>}
  BY <1>10, <1>11, Zenon
<1> QED
  BY <1>1, <1>8, <1>9, <1>12, Zenon DEF addr

-----------------------------------------------------------------------------
(* The inductive invariant.                                                  *)

PInv == TypeOK /\ RegionsAccounted /\ Sound(page, regions, free_pages)

\* The allocated blocks are those of the pool's regions.
LEMMA AllocatedIsUsed == PInv => Allocated = UsedHeads(page, regions)
<1> SUFFICES ASSUME PInv PROVE Allocated = UsedHeads(page, regions)
  BY Zenon
<1>1. /\ page \in Descriptors /\ Tiled(page, regions) /\ RegionsAccounted
      /\ \A p \in Pages : p[1] \in Regs
  BY PageFacts, Zenon DEF PInv, Sound
<1>2. Allocated \subseteq UsedHeads(page, regions)
  BY <1>1, Zenon DEF Allocated, IsMaster, UsedHeads, Heads, RegionsAccounted
<1>3. ASSUME NEW m \in UsedHeads(page, regions) PROVE m \in Allocated
  <2>1. m \in Heads(page, regions) /\ m \in Pages /\ page[m].state = "allocated"
    BY Zenon DEF UsedHeads, Heads
  <2>2. page[m].compound_page_cnt >= 1 /\ page[m].compound_page_cnt \in Int
    BY <2>1, <1>1, HeadIn, DescriptorFacts, Zenon
  <2>3. page[m].compound_page_cnt > 0
    BY <2>2
  <2> QED
    BY <2>1, <2>3, Zenon DEF Allocated, IsMaster, Heads
<1> QED
  BY <1>2, <1>3, Zenon

\* A step that leaves the pool sound keeps the invariant when regions in the pool
\* are busy and nothing is allocated in the others.
LEMMA Accounted ==
    ASSUME PInv, Sound(page', regions', free_pages'),
           states' \in [Regs -> {"free", "busy"}], regions' \subseteq Regs,
           \A r \in regions' : states'[r] = "busy",
           \A p \in Pages : p[1] \notin regions' =>
                page'[p].state = "free" \/ (p[1] \notin regions /\ page'[p] = page[p])
    PROVE PInv'
<1>1. TypeOK'
  BY Zenon DEF TypeOK, Sound, Descriptors, Indexes
<1>2. RegionsAccounted'
  <2> SUFFICES ASSUME NEW r \in Regs, r \notin regions', NEW m \in Allocated', m[1] = r
               PROVE FALSE
    BY Zenon DEF RegionsAccounted
  <2>1. m \in Pages /\ page'[m].state = "allocated"
    BY Zenon DEF Allocated
  <2>2. r \notin regions /\ page'[m] = page[m]
    BY <2>1, Zenon
  <2>3. m \in Allocated
    BY <2>1, <2>2, Zenon DEF Allocated, IsMaster
  <2> QED
    BY <2>2, <2>3, Zenon DEF PInv, RegionsAccounted
<1> QED
  BY <1>1, <1>2, Zenon DEF PInv

\* One more block is in use, of cnt pages; the others are as before.
Taken(m, cnt) ==
    /\ m \in Pages \ Allocated /\ cnt \in Sizes
    /\ Allocated' = Allocated \cup {m}
    /\ page'[m].compound_page_cnt = cnt
    /\ \A k \in Allocated : page'[k].compound_page_cnt = page[k].compound_page_cnt

\* st_pagepool_alloc_pages keeps the invariant and hands out one block.
LEMMA AllocStep ==
    ASSUME PInv, NEW cnt \in Sizes, st_pagepool_alloc_pages(cnt)
    PROVE PInv' /\ \E m \in Pages : Taken(m, cnt)
<1>1. /\ page \in Descriptors /\ Tiled(page, regions) /\ free_pages \in Indexes
      /\ Lists(page, free_pages, FreeHeads(page, regions)) /\ Merged(page, regions)
      /\ Sound(page, regions, free_pages)
      /\ states \in [Regs -> {"free", "busy"}] /\ regions \subseteq Regs
      /\ \A r \in regions : states[r] = "busy"
  BY Zenon DEF PInv, Sound, TypeOK, RegionsAccounted
<1>2. cnt \in Int /\ 1 <= cnt /\ cnt <= pages_per_region /\ pages_per_region \in Int
  BY PerRegion DEF Sizes
<1>3. ASSUME PInv', NEW m \in Pages, m \in FreeHeads(page, regions) \/ m[1] \notin regions,
             UsedHeads(page', regions') = UsedHeads(page, regions) \cup {m},
             page'[m].compound_page_cnt = cnt,
             \A k \in UsedHeads(page, regions) : page'[k] = page[k]
      PROVE Taken(m, cnt)
  <2>1. Allocated = UsedHeads(page, regions)
    BY AllocatedIsUsed, Zenon
  <2>2. (PInv => Allocated = UsedHeads(page, regions))'
    BY AllocatedIsUsed, PTL
  <2>3. m \notin UsedHeads(page, regions)
    BY <1>3, Zenon DEF UsedHeads, FreeHeads, Heads
  <2> QED
    BY <2>1, <2>2, <2>3, <1>3, Zenon DEF Taken
<1>4. CASE st_pagepool_get_free_pages(cnt)
  <2>0. int16(cnt) = cnt /\ INT16_MAX \in Int
    BY <1>2, Int16Keeps, SizesAssumption
  <2>1. PICK n \in cnt..INT16_MAX : \E m \in free_pages[n] :
            /\ TakePages(page, st_pagepool_remove_pages(free_pages, {m}), m, cnt)
            /\ UNCHANGED <<states, regions>>
    BY <1>4, <2>0, Zenon DEF st_pagepool_get_free_pages
  <2>2. PICK m \in free_pages[n] :
            /\ TakePages(page, st_pagepool_remove_pages(free_pages, {m}), m, cnt)
            /\ UNCHANGED <<states, regions>>
    BY <2>1, Zenon
  <2>3. n \in Counts /\ n \in Int /\ cnt <= n
    BY <1>2, <2>0, <2>1 DEF Counts
  <2>4. m \in FreeHeads(page, regions) /\ page[m].compound_page_cnt = n
    BY <2>3, <1>1, Zenon DEF Lists
  <2> DEFINE F == st_pagepool_remove_pages(free_pages, {m})
  <2>5. F \in Indexes /\ Lists(page, F, FreeHeads(page, regions) \ {m})
    BY <1>1, Zenon DEF st_pagepool_remove_pages, Indexes, Lists
  <2>6. Takes(page, F, m, cnt, page', free_pages') /\ states' = states /\ regions' = regions
    BY <2>2, Zenon DEF TakePages, Takes
  <2>7. Spare(page, regions, F, m) /\ cnt <= page[m].compound_page_cnt
    BY <1>1, <2>3, <2>4, <2>5, Zenon DEF Merged, Spare
  <2> HIDE DEF F
  <2>8. /\ Sound(page', regions, free_pages')
        /\ UsedHeads(page', regions) = UsedHeads(page, regions) \cup {m}
        /\ page'[m].compound_page_cnt = cnt
        /\ \A k \in UsedHeads(page, regions) : page'[k] = page[k]
        /\ \A p \in Pages : p[1] \notin regions => page'[p] = page[p]
    BY <1>2, <2>6, <2>7, TakeSound
  <2>9. PInv'
    BY <2>6, <2>8, <1>1, Accounted, Zenon
  <2>10. m \in Pages
    BY <2>4, Zenon DEF FreeHeads, Heads
  <2> QED
    BY <2>4, <2>6, <2>8, <2>9, <2>10, <1>3, Zenon
<1>5. CASE st_region_alloc_reg(cnt)
  <2>1. PICK r \in Regs :
            /\ states[r] = "free"
            /\ states' = [states EXCEPT ![r] = "busy"]
            /\ regions' = regions \cup {r}
            /\ TakePages(st_pagepool_init_region(page, r), free_pages, <<r, 0>>, cnt)
    BY <1>5, Zenon DEF st_region_alloc_reg
  <2> DEFINE m == <<r, 0>>
             P == st_pagepool_init_region(page, r)
  <2>2. r \notin regions
    BY <2>1, <1>1, Zenon
  <2>3. /\ Spare(P, regions', free_pages, m) /\ P[m].compound_page_cnt = pages_per_region
        /\ UsedHeads(P, regions') = UsedHeads(page, regions)
        /\ \A p \in Pages : p[1] # r => P[p] = page[p]
    BY <2>1, <2>2, <1>1, InitRegion, SMTT(30)
  <2>4. Takes(P, free_pages, m, cnt, page', free_pages')
    BY <2>1, Zenon DEF TakePages, Takes
  <2>5. m \in Pages /\ m[1] = r
    BY PageFacts, Zenon
  <2> HIDE DEF P, m
  <2>6. /\ Sound(page', regions', free_pages')
        /\ UsedHeads(page', regions') = UsedHeads(P, regions') \cup {m}
        /\ page'[m].compound_page_cnt = cnt
        /\ \A k \in UsedHeads(P, regions') : page'[k] = P[k]
        /\ \A p \in Pages : p[1] \notin regions' => page'[p] = P[p]
    BY <1>2, <2>3, <2>4, TakeSound
  <2>7. states' \in [Regs -> {"free", "busy"}] /\ regions' \subseteq Regs
    BY <1>1, <2>1, Zenon
  <2>8. \A q \in regions' : states'[q] = "busy"
    BY <1>1, <2>1, Zenon
  <2>9. \A p \in Pages : p[1] \notin regions' => p[1] \notin regions /\ page'[p] = page[p]
    BY <2>1, <2>3, <2>6, Zenon
  <2>10. PInv'
    BY <2>6, <2>7, <2>8, <2>9, Accounted, Zenon
  <2>11. \A k \in UsedHeads(page, regions) : page'[k] = page[k]
    BY <2>2, <2>3, <2>6 DEF UsedHeads, Heads
  <2> QED
    BY <2>2, <2>3, <2>5, <2>6, <2>10, <2>11, <1>3, Zenon
<1> QED
  BY <1>4, <1>5, Zenon DEF st_pagepool_alloc_pages

-----------------------------------------------------------------------------
(* Release.                                                                  *)

\* The blocks around the block of m that are free.
LEMMA Neighbours ==
    ASSUME page \in Descriptors, NEW R, Tiled(page, R), NEW m \in Heads(page, R)
    PROVE /\ PrevIsFree(m) =>
                LET a == st_pagepool_prev_pages(m)
                IN /\ a \in FreeHeads(page, R) /\ a[1] = m[1]
                   /\ a[2] + page[a].compound_page_cnt = m[2]
          /\ NextIsFree(m) =>
                LET b == st_pagepool_next_pages(m)
                IN /\ b \in FreeHeads(page, R) /\ b[1] = m[1]
                   /\ b[2] = m[2] + page[m].compound_page_cnt
<1>1. m \in Pages /\ page[m].compound_page_cnt \in Int
  BY DescriptorFacts, Zenon DEF Heads
<1>2. ASSUME PrevIsFree(m)
      PROVE LET a == st_pagepool_prev_pages(m)
            IN /\ a \in FreeHeads(page, R) /\ a[1] = m[1]
               /\ a[2] + page[a].compound_page_cnt = m[2]
  BY <1>2, PrevHead, Zenon DEF PrevIsFree, st_pagepool_prev_pages, FreeHeads
<1>3. ASSUME NextIsFree(m)
      PROVE LET b == st_pagepool_next_pages(m)
            IN /\ b \in FreeHeads(page, R) /\ b[1] = m[1]
               /\ b[2] = m[2] + page[m].compound_page_cnt
  <2>1. Plus(m, page[m].compound_page_cnt) \in Heads(page, R)
    BY <1>3, NextHead, Zenon DEF NextIsFree
  <2> QED
    BY <2>1, <1>1, <1>3, PageFacts, Zenon DEF NextIsFree, st_pagepool_next_pages, FreeHeads
<1> QED
  BY <1>2, <1>3, Zenon

\* What merges with the block of m is whole blocks: that of m and its free
\* neighbours.
LEMMA MergeRange ==
    ASSUME page \in Descriptors, NEW R, Tiled(page, R), NEW m \in Heads(page, R)
    PROVE /\ Blocks(page, R, MergeStart(m), MergeCnt(m)) /\ MergeStart(m)[1] = m[1]
          /\ FreeNeighbours(m) \subseteq FreeHeads(page, R)
          /\ MergeStart(m) \in FreeNeighbours(m) \cup {m}
          /\ \A k \in Heads(page, R) :
                Within(k, MergeStart(m), MergeCnt(m)) <=> k \in FreeNeighbours(m) \cup {m}
          /\ LET e == IF NextIsFree(m) THEN st_pagepool_next_pages(m) ELSE m
             IN /\ e \in FreeNeighbours(m) \cup {m}
                /\ MergeStart(m)[2] + MergeCnt(m) = e[2] + page[e].compound_page_cnt
                /\ Plus(MergeStart(m), MergeCnt(m)) = Plus(e, page[e].compound_page_cnt)
<1> DEFINE a == st_pagepool_prev_pages(m)
           b == st_pagepool_next_pages(m)
           s == MergeStart(m)
           c == MergeCnt(m)
           e == IF NextIsFree(m) THEN b ELSE m
           ca == page[a].compound_page_cnt
           cm == page[m].compound_page_cnt
           cb == page[b].compound_page_cnt
<1>1. \A k \in Heads(page, R) :
        /\ k \in Pages /\ k[2] \in Int /\ 0 <= k[2] /\ page[k].compound_page_cnt \in Int
        /\ page[k].compound_page_cnt >= 1
        /\ k[2] + page[k].compound_page_cnt <= pages_per_region
  BY PageFacts, DescriptorFacts, HeadIn, TiledFacts DEF Heads
<1>2. PrevIsFree(m) => a \in Heads(page, R) /\ a \in FreeHeads(page, R) /\ a[1] = m[1] /\ a[2] + ca = m[2]
  BY Neighbours, Zenon DEF FreeHeads
<1>3. NextIsFree(m) => b \in Heads(page, R) /\ b \in FreeHeads(page, R) /\ b[1] = m[1] /\ b[2] = m[2] + cm
  BY Neighbours, Zenon DEF FreeHeads
<1>4. s = (IF PrevIsFree(m) THEN a ELSE m)
      /\ c = cm + (IF PrevIsFree(m) THEN ca ELSE 0) + (IF NextIsFree(m) THEN cb ELSE 0)
  BY Zenon DEF MergeStart, MergeCnt
<1>5. \A k \in Pages : k \in FreeNeighbours(m) <=> (PrevIsFree(m) /\ k = a) \/ (NextIsFree(m) /\ k = b)
  BY Zenon DEF FreeNeighbours
<1>6. FreeNeighbours(m) \subseteq Pages
  BY Zenon DEF FreeNeighbours
<1> HIDE DEF a, b, s, c, ca, cm, cb
<1>7. /\ m[2] \in Int /\ 0 <= m[2] /\ cm \in Int /\ cm >= 1 /\ m[2] + cm <= pages_per_region
      /\ PrevIsFree(m) => a[2] \in Int /\ 0 <= a[2] /\ ca \in Int /\ ca >= 1
      /\ NextIsFree(m) => b[2] \in Int /\ 0 <= b[2] /\ cb \in Int /\ cb >= 1 /\ b[2] + cb <= pages_per_region
      /\ pages_per_region \in Int
  BY <1>1, <1>2, <1>3, PerRegion DEF ca, cb, cm
<1>8. s \in Heads(page, R) /\ s[1] = m[1] /\ s \in FreeNeighbours(m) \cup {m}
  BY <1>1, <1>2, <1>4, <1>5, Zenon
<1>9. e \in Heads(page, R) /\ e[1] = m[1] /\ e \in FreeNeighbours(m) \cup {m}
  BY <1>1, <1>3, <1>5, Zenon
<1>10. /\ c \in Int /\ c >= 1 /\ s[2] \in Int /\ s[2] <= m[2]
       /\ s[2] + c = e[2] + page[e].compound_page_cnt
       /\ NextIsFree(m) => s[2] + c = b[2] + cb
       /\ ~NextIsFree(m) => s[2] + c = m[2] + cm
       /\ PrevIsFree(m) => s[2] = a[2]
       /\ ~PrevIsFree(m) => s[2] = m[2]
  <2>1. CASE PrevIsFree(m) /\ NextIsFree(m)
    BY <2>1, <1>2, <1>3, <1>4, <1>7 DEF cb
  <2>2. CASE PrevIsFree(m) /\ ~NextIsFree(m)
    BY <2>2, <1>2, <1>4, <1>7 DEF cm
  <2>3. CASE ~PrevIsFree(m) /\ NextIsFree(m)
    BY <2>3, <1>3, <1>4, <1>7 DEF cb
  <2>4. CASE ~PrevIsFree(m) /\ ~NextIsFree(m)
    BY <2>4, <1>4, <1>7 DEF cm
  <2> QED
    BY <2>1, <2>2, <2>3, <2>4, Zenon
<1>11. Plus(s, c) = Plus(e, page[e].compound_page_cnt)
  BY <1>8, <1>9, <1>10, Zenon DEF Plus
<1>12. s[2] + c <= pages_per_region /\ (s[2] + c # pages_per_region => Plus(s, c) \in Heads(page, R))
  BY <1>1, <1>9, <1>10, <1>11, NextHead, Zenon
<1>13. Blocks(page, R, s, c)
  BY <1>8, <1>10, <1>12, Zenon DEF Blocks
<1>14. FreeNeighbours(m) \subseteq FreeHeads(page, R)
  BY <1>2, <1>3, <1>5, <1>6, Zenon
<1>15. ASSUME NEW k \in Heads(page, R)
       PROVE Within(k, s, c) <=> k \in FreeNeighbours(m) \cup {m}
  <2>1. /\ k \in Pages /\ k[2] \in Int
        /\ Within(k, s, c) <=> k[1] = m[1] /\ s[2] <= k[2] /\ k[2] < s[2] + c
        /\ In(page, k, k)
    BY <1>1, <1>8, <1>10, WithinFacts, HeadIn
  <2>2. k = m => Within(k, s, c)
    BY <2>1, <1>3, <1>7, <1>10
  <2>3. PrevIsFree(m) /\ k = a => Within(k, s, c)
    BY <2>1, <1>2, <1>7, <1>10
  <2>4. NextIsFree(m) /\ k = b => Within(k, s, c)
    BY <2>1, <1>3, <1>7, <1>10
  <2>5. ASSUME Within(k, s, c) PROVE k \in FreeNeighbours(m) \cup {m}
    <3>1. CASE k[2] < m[2]
      <4>1. PrevIsFree(m)
        BY <3>1, <2>1, <2>5, <1>7, <1>10
      <4>2. In(page, k, a)
        BY <4>1, <3>1, <2>1, <2>5, <1>2, <1>10, Zenon DEF In, ca
      <4> QED
        BY <4>1, <4>2, <2>1, <1>2, <1>5, OneBlock, Zenon
    <3>2. CASE m[2] <= k[2] /\ k[2] < m[2] + cm
      <4>1. In(page, k, m)
        BY <3>2, <2>1, <2>5, Zenon DEF In, cm
      <4> QED
        BY <4>1, <2>1, OneBlock, Zenon
    <3>3. CASE m[2] + cm <= k[2]
      <4>1. NextIsFree(m)
        BY <3>3, <2>1, <2>5, <1>7, <1>10
      <4>2. In(page, k, b)
        BY <4>1, <3>3, <2>1, <2>5, <1>3, <1>10, Zenon DEF In, cb
      <4> QED
        BY <4>1, <4>2, <2>1, <1>3, <1>5, OneBlock, Zenon
    <3> QED
      BY <3>1, <3>2, <3>3, <2>1, <1>7
  <2> QED
    BY <2>1, <2>2, <2>3, <2>4, <2>5, <1>5, Zenon
<1> QED
  BY <1>8, <1>9, <1>10, <1>11, <1>13, <1>14, <1>15, Zenon DEF a, b, s, c

\* The merged pages become one free block, whose descriptor has their number.
LEMMA MergeMakesFree ==
    ASSUME page \in Descriptors, NEW R, Tiled(page, R), NEW m \in Heads(page, R)
    PROVE /\ MakesFree(page, MergeStart(m), MergeCnt(m), st_pagepool_merge_pages(m))
          /\ MergedCnt(m) = MergeCnt(m) /\ MergeCnt(m) <= pages_per_region
<1> DEFINE s == MergeStart(m)
           c == MergeCnt(m)
<1>1. /\ s \in Pages /\ s[2] \in Int /\ 0 <= s[2] /\ c \in Int /\ 1 <= c
      /\ s[2] + c <= pages_per_region /\ pages_per_region \in Int
  BY MergeRange, PageFacts, PerRegion DEF Blocks, Heads
<1>2. c <= pages_per_region /\ int16(c) = c
  BY <1>1, Int16Keeps
<1>3. Within(s, s, c)
  BY <1>1, WithinFacts
<1>4. st_pagepool_merge_pages(m) =
        [p \in Pages |->
            IF Within(p, s, c)
            THEN [state |-> "free", type |-> IF p = s THEN "master" ELSE "slave",
                  compound_page_cnt |-> c]
            ELSE [page[p] EXCEPT !.type = IF p = s THEN "master" ELSE @]]
  BY <1>2, Zenon DEF st_pagepool_merge_pages
<1> HIDE DEF s, c
<1>5. ASSUME NEW p \in Pages, ~Within(p, s, c)
      PROVE [page[p] EXCEPT !.type = IF p = s THEN "master" ELSE @] = page[p]
  <2>1. page[p] \in Descriptor /\ p # s
    BY <1>3, <1>5, Zenon DEF Descriptors
  <2> QED
    BY <2>1 DEF Descriptor
<1>6. MakesFree(page, s, c, st_pagepool_merge_pages(m))
  BY <1>4, <1>5, Zenon DEF MakesFree
<1>7. st_pagepool_merge_pages(m)[s].compound_page_cnt = c
  BY <1>1, <1>3, <1>4
<1> QED
  BY <1>2, <1>6, <1>7, Zenon DEF MergedCnt, s, c

\* A free block that ends where the block of m starts is one of its free neighbours.
LEMMA FreeBefore ==
    ASSUME page \in Descriptors, NEW R, Tiled(page, R), NEW m \in Heads(page, R),
           NEW k \in FreeHeads(page, R), Plus(k, page[k].compound_page_cnt) = m
    PROVE k \in FreeNeighbours(m)
<1> DEFINE c == page[k].compound_page_cnt
           q == Plus(m, -1)
<1>1. /\ k \in Heads(page, R) /\ k \in Pages /\ k[2] \in Int /\ 0 <= k[2] /\ page[k].state = "free"
      /\ c \in Int /\ c >= 1 /\ m \in Pages /\ m[2] \in Int /\ m[2] < pages_per_region
  BY PageFacts, DescriptorFacts, HeadIn, Zenon DEF FreeHeads, Heads
<1>2. m[1] = k[1] /\ m[2] = k[2] + c
  BY <1>1, PageFacts, Zenon
<1> HIDE DEF c
<1>3. q \in Pages /\ q[1] = k[1] /\ q[2] = m[2] - 1
  <2>1. -1 \in Int /\ m[2] + (-1) = m[2] - 1 /\ 0 <= m[2] - 1 /\ m[2] - 1 < pages_per_region
    BY <1>1, <1>2, PerRegion
  <2> QED
    BY <2>1, <1>1, <1>2, PageFacts
<1> HIDE DEF q
<1>4. In(page, q, k)
  BY <1>1, <1>2, <1>3 DEF In, c
<1>5. page[q].compound_page_cnt = c
  BY <1>1, <1>3, <1>4, TiledFacts DEF c
<1>6. Plus(m, -c) = k
  <2>1. -c \in Int /\ m[2] + (-c) = k[2]
    BY <1>1, <1>2
  <2>2. 0 <= m[2] + (-c) /\ m[2] + (-c) < pages_per_region
    BY <2>1, <1>1, PageFacts
  <2>3. Plus(m, -c) \in Pages /\ Plus(m, -c)[1] = k[1] /\ Plus(m, -c)[2] = k[2]
    BY <2>1, <2>2, <1>1, <1>2, PageFacts
  <2> QED
    BY <2>3, <1>1, PageFacts, Zenon
<1>7. st_pagepool_prev_pages(m) = k
  BY <1>5, <1>6, Zenon DEF q, st_pagepool_prev_pages
<1>8. m[2] # 0
  BY <1>1, <1>2
<1> QED
  BY <1>1, <1>7, <1>8, Zenon DEF FreeNeighbours, PrevIsFree

\* The block m is no longer in use; the others are as before.
Given(m) ==
    /\ m \in Allocated /\ Allocated' = Allocated \ {m}
    /\ \A k \in Allocated \ {m} : page'[k].compound_page_cnt = page[k].compound_page_cnt

\* What the invariant says about an allocated block and its surroundings.
LEMMA FreeFacts ==
    ASSUME PInv, NEW m \in Allocated
    PROVE /\ page \in Descriptors /\ Tiled(page, regions) /\ free_pages \in Indexes
          /\ Lists(page, free_pages, FreeHeads(page, regions)) /\ Merged(page, regions)
          /\ states \in [Regs -> {"free", "busy"}] /\ regions \subseteq Regs
          /\ \A r \in regions : states[r] = "busy"
          /\ Allocated = UsedHeads(page, regions)
          /\ m \in Heads(page, regions) /\ m \in Pages /\ m[1] \in regions
          /\ m \notin FreeHeads(page, regions)
<1>1. /\ page \in Descriptors /\ Tiled(page, regions) /\ free_pages \in Indexes
      /\ Lists(page, free_pages, FreeHeads(page, regions)) /\ Merged(page, regions)
      /\ states \in [Regs -> {"free", "busy"}] /\ regions \subseteq Regs
      /\ \A r \in regions : states[r] = "busy"
  BY Zenon DEF PInv, Sound, TypeOK, RegionsAccounted
<1>2. Allocated = UsedHeads(page, regions)
  BY AllocatedIsUsed, Zenon
<1> QED
  BY <1>1, <1>2, Zenon DEF UsedHeads, FreeHeads, Heads

\* FreeIntoPool keeps the invariant and ends the use of one block.
LEMMA FreeIntoPoolStep ==
    ASSUME PInv, NEW m \in Allocated, FreeIntoPool(m)
    PROVE PInv' /\ Given(m)
<1> DEFINE s == MergeStart(m)
           c == MergeCnt(m)
           N == FreeNeighbours(m)
<1>1. /\ page \in Descriptors /\ Tiled(page, regions) /\ free_pages \in Indexes
      /\ Lists(page, free_pages, FreeHeads(page, regions)) /\ Merged(page, regions)
      /\ states \in [Regs -> {"free", "busy"}] /\ regions \subseteq Regs
      /\ \A r \in regions : states[r] = "busy"
      /\ Allocated = UsedHeads(page, regions)
      /\ m \in Heads(page, regions) /\ m \in Pages /\ m[1] \in regions
      /\ m \notin FreeHeads(page, regions)
  BY FreeFacts, Zenon
<1>2. /\ c < pages_per_region /\ MakesFree(page, s, c, page')
      /\ free_pages' = st_pagepool_add_pages(st_pagepool_remove_pages(free_pages, N), c, s)
      /\ states' = states /\ regions' = regions
  BY <1>1, MergeMakesFree, Zenon DEF FreeIntoPool
<1>3. /\ Blocks(page, regions, s, c) /\ s[1] = m[1]
      /\ N \subseteq FreeHeads(page, regions)
      /\ s \in N \cup {m}
      /\ \A k \in Heads(page, regions) : Within(k, s, c) <=> k \in N \cup {m}
  BY <1>1, MergeRange, Zenon
<1>4. PICK e \in N \cup {m} :
        /\ e = IF NextIsFree(m) THEN st_pagepool_next_pages(m) ELSE m
        /\ s[2] + c = e[2] + page[e].compound_page_cnt
        /\ Plus(s, c) = Plus(e, page[e].compound_page_cnt)
  BY <1>1, MergeRange
<1> HIDE DEF s, c, N
<1>5. /\ page' \in Descriptors /\ Tiled(page', regions)
      /\ Heads(page', regions) = {k \in Heads(page, regions) : ~Within(k, s, c)} \cup {s}
      /\ \A p \in Pages : ~Within(p, s, c) => page'[p] = page[p]
      /\ \A p \in Pages : Within(p, s, c) => page'[p].state = "free"
      /\ page'[s].compound_page_cnt = c
  BY <1>2, <1>3, MergeTiles, SMTT(30)
<1>6. s \in Heads(page, regions) /\ s \in Pages /\ c \in Int /\ 1 <= c /\ s[2] \in Int /\ Within(s, s, c)
  BY <1>3, PageFacts, Zenon DEF Blocks, Heads
<1>7. \A k \in Heads(page, regions) : k \notin N \cup {m} => page'[k] = page[k]
  BY <1>3, <1>5, Zenon DEF Heads
<1>8. FreeHeads(page', regions) = (FreeHeads(page, regions) \ N) \cup {s}
  <2>1. ASSUME NEW k \in FreeHeads(page', regions), k # s PROVE k \in FreeHeads(page, regions) \ N
    BY <2>1, <1>3, <1>5, <1>7, Zenon DEF FreeHeads
  <2>2. ASSUME NEW k \in FreeHeads(page, regions) \ N PROVE k \in FreeHeads(page', regions)
    BY <2>2, <1>1, <1>3, <1>5, <1>7, Zenon DEF FreeHeads
  <2>3. s \in FreeHeads(page', regions)
    BY <1>5, <1>6, Zenon DEF FreeHeads
  <2> QED
    BY <2>1, <2>2, <2>3, Zenon
<1>9. UsedHeads(page', regions) = UsedHeads(page, regions) \ {m}
  <2>1. ASSUME NEW k \in UsedHeads(page', regions) PROVE k \in UsedHeads(page, regions) \ {m}
    <3>1. k \in Heads(page', regions) /\ k # s
      BY <1>5, <1>6, Zenon DEF UsedHeads
    <3> QED
      BY <3>1, <1>3, <1>5, <1>7, Zenon DEF UsedHeads
  <2>2. ASSUME NEW k \in UsedHeads(page, regions) \ {m} PROVE k \in UsedHeads(page', regions)
    <3>1. k \in Heads(page, regions) /\ k \notin N \cup {m}
      BY <1>3, Zenon DEF UsedHeads, FreeHeads
    <3> QED
      BY <3>1, <1>3, <1>5, <1>7, Zenon DEF UsedHeads
  <2> QED
    BY <2>1, <2>2, Zenon
<1>10. free_pages' \in Indexes /\ Lists(page', free_pages', FreeHeads(page', regions))
  <2> DEFINE F == st_pagepool_remove_pages(free_pages, N)
  <2>1. F \in Indexes /\ \A n \in Counts : F[n] = free_pages[n] \ N
    BY <1>1, Zenon DEF st_pagepool_remove_pages, Indexes
  <2>2. free_pages' = [F EXCEPT ![c] = @ \cup {s}]
    BY <1>2, Zenon DEF st_pagepool_add_pages
  <2> HIDE DEF F
  <2>3. free_pages' \in Indexes
    BY <2>1, <2>2, <1>6, Zenon DEF Indexes
  <2>4. ASSUME NEW n \in Counts
        PROVE free_pages'[n] = {k \in FreeHeads(page', regions) : page'[k].compound_page_cnt = n}
    <3>1. free_pages'[n] = IF n = c THEN F[n] \cup {s} ELSE F[n]
      BY <2>1, <2>2, Zenon DEF Indexes
    <3>2. F[n] = {k \in FreeHeads(page, regions) : page[k].compound_page_cnt = n} \ N
      BY <2>1, <1>1, Zenon DEF Lists
    <3>3. \A k \in FreeHeads(page, regions) \ N : page'[k] = page[k]
      BY <1>1, <1>7, Zenon DEF FreeHeads
    <3>4. s \notin FreeHeads(page, regions) \ N
      BY <1>1, <1>3, Zenon
    <3> QED
      BY <3>1, <3>2, <3>3, <3>4, <1>5, <1>8
  <2> QED
    BY <2>3, <2>4, Zenon DEF Lists
<1>11. ASSUME NEW k \in FreeHeads(page', regions)
       PROVE page'[k].compound_page_cnt < pages_per_region /\ ~FreeAfter(page', k)
  <2>1. CASE k = s
    <3> SUFFICES ASSUME s[2] + c # pages_per_region, page'[Plus(s, c)].state = "free" PROVE FALSE
      BY <2>1, <1>2, <1>5, Zenon DEF FreeAfter
    <3>1. Plus(s, c) \in Heads(page, regions) /\ Plus(s, c) \in Pages
      BY <1>3, Zenon DEF Blocks, Heads
    <3>2. ~Within(Plus(s, c), s, c)
      <4>1. Plus(s, c)[2] = s[2] + c
        BY <1>6, PageFacts, Zenon
      <4> QED
        BY <4>1, <3>1, <1>6, WithinFacts
    <3>3. page[Plus(s, c)].state = "free"
      BY <3>1, <3>2, <1>5, Zenon
    <3>4. FreeAfter(page, e)
      BY <3>3, <1>4, Zenon DEF FreeAfter
    <3>5. CASE NextIsFree(m)
      <4>1. e \in FreeHeads(page, regions)
        BY <3>5, <1>1, <1>4, Neighbours, Zenon
      <4> QED
        BY <4>1, <3>4, <1>1, Zenon DEF Merged
    <3>6. CASE ~NextIsFree(m)
      BY <3>4, <3>6, <1>4, Zenon DEF FreeAfter, NextIsFree, st_pagepool_next_pages
    <3> QED
      BY <3>5, <3>6, Zenon
  <2>2. CASE k \in FreeHeads(page, regions) \ N
    <3>1. k \in Heads(page, regions) /\ k \in Pages /\ page'[k] = page[k]
      BY <2>2, <1>1, <1>7, Zenon DEF FreeHeads, Heads
    <3>2. page[k].compound_page_cnt < pages_per_region /\ ~FreeAfter(page, k)
      BY <2>2, <1>1, Zenon DEF Merged
    <3> DEFINE q == Plus(k, page[k].compound_page_cnt)
    <3> SUFFICES ASSUME k[2] + page[k].compound_page_cnt # pages_per_region, page'[q].state = "free"
                 PROVE FALSE
      BY <3>1, <3>2, Zenon DEF FreeAfter
    <3>3. q \in Heads(page, regions) /\ page[q].state # "free"
      BY <3>1, <3>2, <1>1, NextHead, Zenon DEF FreeAfter
    <3>4. q # m
      BY <2>2, <1>1, FreeBefore, Zenon DEF N
    <3>5. q \notin N
      BY <3>3, <1>3, Zenon DEF FreeHeads
    <3> QED
      BY <3>3, <3>4, <3>5, <1>7, Zenon
  <2> QED
    BY <2>1, <2>2, <1>8, Zenon
<1>12. Sound(page', regions', free_pages')
  BY <1>2, <1>5, <1>10, <1>11, Zenon DEF Sound, Merged
<1>13. \A p \in Pages : p[1] \notin regions' => page'[p].state = "free" \/ (p[1] \notin regions /\ page'[p] = page[p])
  BY <1>2, <1>5, Zenon
<1>14. PInv'
  BY <1>1, <1>2, <1>12, <1>13, Accounted, Zenon
<1>15. (PInv => Allocated = UsedHeads(page, regions))'
  BY AllocatedIsUsed, PTL
<1>16. \A k \in Allocated \ {m} : page'[k] = page[k]
  BY <1>1, <1>3, <1>7, Zenon DEF UsedHeads, FreeHeads
<1> QED
  BY <1>1, <1>2, <1>9, <1>14, <1>15, <1>16, Zenon DEF Given

\* st_region_free_reg keeps the invariant and ends the use of one block, whether
\* madvise succeeds or not.
LEMMA FreeRegionStep ==
    ASSUME PInv, NEW m \in Allocated, NEW madvise_ok \in BOOLEAN,
           st_region_free_reg(m, madvise_ok)
    PROVE PInv' /\ Given(m)
<1> DEFINE s == MergeStart(m)
           c == MergeCnt(m)
           N == FreeNeighbours(m)
           r == m[1]
<1>1. /\ page \in Descriptors /\ Tiled(page, regions) /\ free_pages \in Indexes
      /\ Lists(page, free_pages, FreeHeads(page, regions)) /\ Merged(page, regions)
      /\ states \in [Regs -> {"free", "busy"}] /\ regions \subseteq Regs
      /\ \A q \in regions : states[q] = "busy"
      /\ Allocated = UsedHeads(page, regions)
      /\ m \in Heads(page, regions) /\ m \in Pages /\ r \in regions
      /\ m \notin FreeHeads(page, regions)
  BY FreeFacts, Zenon
<1>2. /\ c = pages_per_region
      /\ free_pages' = st_pagepool_remove_pages(free_pages, N)
      /\ regions' = regions \ {r}
      /\ states' = IF madvise_ok THEN [states EXCEPT ![r] = "free"] ELSE states
  <2>1. c >= pages_per_region /\ c <= pages_per_region
    BY <1>1, MergeMakesFree, Zenon DEF st_region_free_reg
  <2>2. c \in Int /\ pages_per_region \in Int
    BY <1>1, MergeRange, PerRegion DEF Blocks
  <2>3. c = pages_per_region
    BY <2>1, <2>2
  <2> QED
    BY <2>3, Zenon DEF st_region_free_reg
<1>3. IF madvise_ok THEN page' = [p \in Pages |-> IF p[1] = r THEN Zero ELSE page[p]]
      ELSE MakesFree(page, s, c, page')
  BY <1>1, MergeMakesFree, Zenon DEF st_region_free_reg
<1>4. /\ Blocks(page, regions, s, c) /\ s[1] = r
      /\ N \subseteq FreeHeads(page, regions)
      /\ \A k \in Heads(page, regions) : Within(k, s, c) <=> k \in N \cup {m}
  BY <1>1, MergeRange, Zenon
<1> HIDE DEF s, c, N, r
<1>5. \A p \in Pages : Within(p, s, c) <=> p[1] = r
  <2>1. /\ s \in Pages /\ s[2] \in Int /\ 0 <= s[2] /\ c \in Int /\ s[2] + c <= pages_per_region
        /\ pages_per_region \in Int
    BY <1>4, PageFacts, PerRegion DEF Blocks, Heads
  <2>2. s[2] = 0
    BY <2>1, <1>2
  <2>3. \A p \in Pages : Within(p, s, c) <=> p[1] = s[1] /\ s[2] <= p[2] /\ p[2] < s[2] + c
    BY <2>1, WithinFacts, Zenon
  <2>4. \A p \in Pages : s[2] <= p[2] /\ p[2] < s[2] + c
    BY <2>1, <2>2, <1>2, PageFacts
  <2> QED
    BY <2>3, <2>4, <1>4, Zenon
<1>6. /\ page' \in Descriptors
      /\ \A p \in Pages : p[1] # r => page'[p] = page[p]
      /\ \A p \in Pages : p[1] = r => page'[p].state = "free"
  <2>1. CASE madvise_ok
    <3>1. Zero \in Descriptor /\ Zero.state = "free"
      BY PerRegion DEF Zero, Descriptor
    <3> QED
      BY <3>1, <2>1, <1>1, <1>3, Zenon DEF Descriptors
  <2>2. CASE ~madvise_ok
    BY <2>2, <1>3, <1>4, <1>5, MergeTiles, SMTT(30)
  <2> QED
    BY <2>1, <2>2, Zenon
<1>7. Tiled(page', regions') /\ Heads(page', regions') = {k \in Heads(page, regions) : k[1] # r}
  <2>1. SameBut(page, page', r)
    BY <1>6, Zenon DEF SameBut
  <2> QED
    BY <2>1, <1>1, <1>2, <1>6, TiledWithout, SMTT(30)
<1>8. \A k \in Heads(page, regions) :
        /\ k \in Pages /\ (k[1] # r => page'[k] = page[k])
        /\ k[1] = r <=> k \in N \cup {m}
  BY <1>4, <1>5, <1>6, Zenon DEF Heads
<1>9. FreeHeads(page', regions') = FreeHeads(page, regions) \ N
  BY <1>1, <1>7, <1>8, Zenon DEF FreeHeads
<1>10. UsedHeads(page', regions') = UsedHeads(page, regions) \ {m}
  <2>1. \A k \in UsedHeads(page, regions) : k \in Heads(page, regions) /\ k \notin N
    BY <1>4, Zenon DEF UsedHeads, FreeHeads
  <2>2. \A k \in UsedHeads(page', regions') : k \in UsedHeads(page, regions) /\ k # m
    BY <1>7, <1>8, Zenon DEF UsedHeads
  <2>3. \A k \in UsedHeads(page, regions) : k # m => k \in UsedHeads(page', regions')
    BY <2>1, <1>7, <1>8, Zenon DEF UsedHeads
  <2> QED
    BY <2>2, <2>3, Zenon
<1>11. free_pages' \in Indexes /\ Lists(page', free_pages', FreeHeads(page', regions'))
  <2>1. free_pages' \in Indexes /\ \A n \in Counts : free_pages'[n] = free_pages[n] \ N
    BY <1>1, <1>2, Zenon DEF st_pagepool_remove_pages, Indexes
  <2>2. \A k \in FreeHeads(page, regions) \ N : page'[k] = page[k]
    BY <1>1, <1>8, Zenon DEF FreeHeads
  <2> QED
    BY <2>1, <2>2, <1>1, <1>9 DEF Lists
<1>12. ASSUME NEW k \in FreeHeads(page', regions')
       PROVE page'[k].compound_page_cnt < pages_per_region /\ ~FreeAfter(page', k)
  <2>1. k \in FreeHeads(page, regions) /\ k \in Heads(page, regions) /\ k[1] # r /\ page'[k] = page[k]
    BY <1>1, <1>8, <1>9, Zenon DEF FreeHeads
  <2>2. page[k].compound_page_cnt < pages_per_region /\ ~FreeAfter(page, k)
    BY <2>1, <1>1, Zenon DEF Merged
  <2> DEFINE q == Plus(k, page[k].compound_page_cnt)
  <2>3. k[2] + page[k].compound_page_cnt # pages_per_region => page'[q] = page[q]
    <3>1. q[1] = k[1]
      BY Zenon DEF Plus
    <3>2. k[2] + page[k].compound_page_cnt # pages_per_region => q \in Pages
      BY <2>1, <1>1, NextHead, Zenon DEF Heads
    <3> QED
      BY <3>1, <3>2, <2>1, <1>6, Zenon
  <2> QED
    BY <2>1, <2>2, <2>3, Zenon DEF FreeAfter
<1>13. Sound(page', regions', free_pages')
  BY <1>6, <1>7, <1>11, <1>12, Zenon DEF Sound, Merged
<1>14. \A p \in Pages : p[1] \notin regions' => page'[p].state = "free" \/ (p[1] \notin regions /\ page'[p] = page[p])
  BY <1>2, <1>6, Zenon
<1>15. states' \in [Regs -> {"free", "busy"}] /\ regions' \subseteq Regs /\ \A q \in regions' : states'[q] = "busy"
  BY <1>1, <1>2, Zenon
<1>16. PInv'
  BY <1>13, <1>14, <1>15, Accounted, Zenon
<1>17. (PInv => Allocated = UsedHeads(page, regions))'
  BY AllocatedIsUsed, PTL
<1>18. \A k \in Allocated \ {m} : page'[k] = page[k]
  BY <1>1, <1>4, <1>8, Zenon DEF UsedHeads, FreeHeads
<1> QED
  BY <1>1, <1>10, <1>16, <1>17, <1>18, Zenon DEF Given

-----------------------------------------------------------------------------
(* The invariant holds.                                                      *)

\* The pool starts without regions.
LEMMA PoolInit == Init => PInv
<1> SUFFICES ASSUME Init PROVE PInv
  BY Zenon
<1>1. /\ states = [r \in Regs |-> "free"] /\ regions = {}
      /\ page = [p \in Pages |-> Zero] /\ free_pages = [n \in Counts |-> {}]
  BY Zenon DEF Init
<1>2. Zero \in Descriptor /\ Zero.state = "free"
  BY PerRegion DEF Zero, Descriptor
<1>3. page \in Descriptors /\ free_pages \in Indexes
  BY <1>1, <1>2, Zenon DEF Descriptors, Indexes
<1>4. Heads(page, regions) = {} /\ FreeHeads(page, regions) = {}
  BY <1>1, Zenon DEF Heads, FreeHeads
<1>5. Tiled(page, regions)
  BY <1>1, <1>3, <1>4, TiledFacts, Zenon
<1>6. Sound(page, regions, free_pages)
  BY <1>1, <1>3, <1>4, <1>5, Zenon DEF Sound, Lists, Merged
<1>7. Allocated = {}
  BY <1>1, <1>2, Zenon DEF Allocated
<1>8. TypeOK /\ RegionsAccounted
  BY <1>1, <1>3, <1>7, Zenon DEF TypeOK, RegionsAccounted, Descriptors, Indexes
<1> QED
  BY <1>6, <1>8, Zenon DEF PInv

\* PInv holds initially and every step keeps it.
THEOREM InductiveInvariant == Spec => []PInv
<1>1. PInv /\ [Next]_vars => PInv'
  <2> SUFFICES ASSUME PInv, [Next]_vars PROVE PInv'
    BY Zenon
  <2>1. CASE \E cnt \in Sizes : st_pagepool_alloc_pages(cnt)
    BY <2>1, AllocStep, Zenon
  <2>2. CASE \E m \in Pages, madvise_ok \in BOOLEAN : st_pagepool_free_pages(m, madvise_ok)
    BY <2>2, FreeIntoPoolStep, FreeRegionStep, Zenon DEF st_pagepool_free_pages
  <2>3. CASE UNCHANGED vars
    <3>1. page' = page /\ regions' = regions /\ free_pages' = free_pages /\ states' = states
      BY <2>3, Zenon DEF vars
    <3> QED
      BY <3>1, Zenon DEF PInv, TypeOK, RegionsAccounted, Allocated, IsMaster, Sound
  <2> QED
    BY <2>1, <2>2, <2>3, Zenon DEF Next
<1> QED
  BY <1>1, PoolInit, PTL DEF Spec

\* The regions of the pool are always cut into disjoint blocks whose descriptors
\* agree.
THEOREM TilesAlways == Spec => []BlocksTile
<1>1. PInv => BlocksTile
  BY Zenon DEF PInv, Sound, BlocksTile
<1> QED
  BY <1>1, InductiveInvariant, PTL

\* The free masters of the pool's regions are its free heads.
LEMMA FreeMastersAreHeads ==
    ASSUME PInv PROVE {m \in FreeMasters : m[1] \in regions} = FreeHeads(page, regions)
<1>1. page \in Descriptors /\ Tiled(page, regions)
  BY Zenon DEF PInv, Sound
<1>2. \A m \in Heads(page, regions) : page[m].compound_page_cnt > 0
  BY <1>1, HeadIn, DescriptorFacts DEF Heads
<1> QED
  BY <1>2, Zenon DEF FreeMasters, IsMaster, FreeHeads, Heads

\* The index always lists exactly the free blocks, and regions are accounted for.
THEOREM IndexAlwaysExact == Spec => []IndexIsExact
<1>1. PInv => IndexIsExact
  BY FreeMastersAreHeads, Zenon DEF PInv, Sound, Lists, IndexIsExact
<1> QED
  BY <1>1, InductiveInvariant, PTL

\* No two free blocks are ever neighbours, and no region is kept without a block
\* in use.
THEOREM NeverFragments == Spec => []NoFragments
<1>1. PInv => NoFragments
  BY FreeMastersAreHeads, Zenon
     DEF PInv, Sound, Merged, NoFragments, FreeAfter, NextIsFree, st_pagepool_next_pages
<1> QED
  BY <1>1, InductiveInvariant, PTL

-----------------------------------------------------------------------------
(* To its users the pool is a heap of disjoint blocks.                       *)

\* Every step takes one block that overlaps none in use, gives one back, or
\* leaves the blocks in use alone.
THEOREM Refinement == Spec => ImplementsBlockHeap
<1> DEFINE old == {<<m, page[m].compound_page_cnt>> : m \in Allocated}
           new == {<<k, page'[k].compound_page_cnt>> : k \in Allocated'}
<1>1. Init => Heap!Init
  <2> SUFFICES ASSUME Init PROVE Allocated = {}
    BY Zenon DEF Heap!Init
  <2> QED
    BY Zenon DEF Init, Allocated, Zero
<1>2. ASSUME PInv, PInv', NEW m \in Pages, NEW cnt \in Sizes, Taken(m, cnt)
      PROVE Heap!Taken(old, new)
  <2> DEFINE b == <<m, cnt>>
  <2>1. /\ m \notin Allocated /\ Allocated' = Allocated \cup {m}
        /\ page'[m].compound_page_cnt = cnt
        /\ \A k \in Allocated : page'[k].compound_page_cnt = page[k].compound_page_cnt
    BY <1>2, Zenon DEF Taken
  <2>2. new = old \cup {b} /\ b \notin old
    BY <2>1, Zenon
  <2>3. page' \in Descriptors /\ Tiled(page', regions')
    BY <1>2, Zenon DEF PInv, Sound
  <2>4. (PInv => Allocated = UsedHeads(page, regions))'
    BY AllocatedIsUsed, PTL
  <2>5. \A k \in Allocated' : k \in UsedHeads(page', regions') /\ k \in Heads(page', regions')
    BY <2>4, <1>2, Zenon DEF UsedHeads
  <2>6. b \in Heap!AllBlocks
    <3>1. m[2] + cnt <= pages_per_region
      BY <2>1, <2>3, <2>5, TiledFacts, Zenon
    <3>2. m \in Regs \X (0..(pages_per_region - 1)) /\ cnt \in 1..pages_per_region
      BY Zenon DEF Pages, Sizes
    <3> QED
      BY <3>1, <3>2, Zenon DEF Heap!AllBlocks
  <2>7. ASSUME NEW c \in old PROVE Heap!Cover(b) \cap Heap!Cover(c) = {}
    <3>1. PICK k \in Allocated : c = <<k, page[k].compound_page_cnt>>
      BY Zenon
    <3>2. k # m /\ c = <<k, page'[k].compound_page_cnt>> /\ b = <<m, page'[m].compound_page_cnt>>
          /\ k \in UsedHeads(page', regions') /\ m \in UsedHeads(page', regions')
      BY <3>1, <2>1, <2>5, Zenon
    <3> QED
      BY <3>2, <2>3, UsedDisjoint
  <2> HIDE DEF old, new, b
  <2> QED
    BY <2>2, <2>6, <2>7, Zenon DEF Heap!Taken
<1>3. ASSUME NEW m \in Allocated, Given(m) PROVE Heap!Given(old, new)
  <2> DEFINE b == <<m, page[m].compound_page_cnt>>
  <2>1. new = old \ {b} /\ b \in old
    BY <1>3 DEF Given
  <2> HIDE DEF old, new, b
  <2> QED
    BY <2>1, Zenon DEF Heap!Given
<1>4. PInv /\ PInv' /\ [Next]_vars => [Heap!Next]_old
  <2> SUFFICES ASSUME PInv, PInv', [Next]_vars PROVE [Heap!Next]_old
    BY Zenon
  <2>1. CASE \E cnt \in Sizes : st_pagepool_alloc_pages(cnt)
    <3>1. Heap!Taken(old, new)
      BY <2>1, <1>2, AllocStep, Zenon
    <3> QED
      BY <3>1, Zenon DEF Heap!Next
  <2>2. CASE \E m \in Pages, madvise_ok \in BOOLEAN : st_pagepool_free_pages(m, madvise_ok)
    <3>1. Heap!Given(old, new)
      BY <2>2, <1>3, FreeIntoPoolStep, FreeRegionStep, Zenon DEF st_pagepool_free_pages
    <3> QED
      BY <3>1, Zenon DEF Heap!Next
  <2>3. CASE UNCHANGED vars
    BY <2>3, Zenon DEF vars, Allocated, IsMaster
  <2> QED
    BY <2>1, <2>2, <2>3, Zenon DEF Next
<1>5. Spec => Heap!Init /\ [][Heap!Next]_old
  BY <1>1, <1>4, InductiveInvariant, PTL DEF Spec
<1> QED
  BY <1>5, PTL DEF ImplementsBlockHeap, Heap!Spec

-----------------------------------------------------------------------------
(* Addresses.                                                                *)

\* While a page is allocated, its address finds it.
THEOREM AddrAlwaysFindsPage == Spec => []AddrFindsPage
<1>1. PInv => AddrFindsPage
  <2> SUFFICES ASSUME PInv, NEW m \in Allocated, NEW p \in Block(m)
               PROVE st_pagepool_addr_to_page(st_pagepool_page_to_addr(p)) = {p}
    BY Zenon DEF AddrFindsPage
  <2>1. m[1] \in regions /\ regions \subseteq Regs
    BY FreeFacts, Zenon
  <2>2. p \in Pages /\ p[1] = m[1]
    BY Zenon DEF Block, Within
  <2> QED
    BY <2>1, <2>2, AddrOfPage, Zenon
<1> QED
  BY <1>1, InductiveInvariant, PTL

=============================================================================
