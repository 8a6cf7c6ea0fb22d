------------------------------ MODULE PagePool ------------------------------
(***************************************************************************)
(* The page pool of src/src/pagepool/pagepool.c on top of the region       *)
(* control block of src/src/region/region.c.                               *)
(*                                                                         *)
(* A page is a pair <<r, i>>: the page of index i in region r.  A region   *)
(* starts with the descriptors of its pages; the pages follow.  A run of   *)
(* pages handed out or free as a whole is a block; its first page is the   *)
(* master, the others are slaves.                                          *)
(*                                                                         *)
(* Allocation and release run under pages_lock from end to end (the locks  *)
(* of the region array and of the region control block are only taken      *)
(* inside it), so each is one action.                                      *)
(*                                                                         *)
(* The index of free blocks, in the code a red-black tree of one block per *)
(* size with a list of the others of that size, is a set per size: which   *)
(* of the blocks of one size is taken is left open.                        *)
(*                                                                         *)
(* The operators named Wrong... are the definition that follows them with  *)
(* a mistake in it.                                                        *)
(***************************************************************************)
EXTENDS Integers, FiniteSets

CONSTANTS
    RegCnt,     \* rcb->reg_cnt
    RegSize,    \* rcb->reg_size
    PageSize,   \* pool->page_size
    DescSize,   \* sizeof(st_pagepool_page_t)
    INT16_MAX   \* the largest compound_page_cnt: 32767 in the code

st_align(n, size) == ((n + size - 1) \div size) * size

pages_per_region == RegSize \div (DescSize + PageSize)

space_base_offset == st_align(DescSize * pages_per_region, PageSize)

ASSUME SizesAssumption ==
    /\ RegCnt \in Nat \ {0}
    /\ RegSize \in Nat /\ PageSize \in Nat \ {0} /\ DescSize \in Nat \ {0}
    /\ RegSize % PageSize = 0
    /\ pages_per_region > 0
    /\ INT16_MAX \in Nat

\* The values of an int16_t, and the conversion of an int to one.
Counts == (-INT16_MAX - 1)..INT16_MAX

int16(n) == ((n + INT16_MAX + 1) % (2 * (INT16_MAX + 1))) - (INT16_MAX + 1)

Regs == 0..(RegCnt - 1)

Sizes == 1..pages_per_region

Pages == Regs \X (0..(pages_per_region - 1))

VARIABLES
    states,         \* rcb->states
    regions,        \* pool->regions, as a set; it has room for every region
    page,           \* the descriptors
    free_pages      \* pool->free_pages: the masters filed under each size

vars == <<states, regions, page, free_pages>>

Descriptor ==
    [state : {"free", "allocated"}, type : {"master", "slave"},
     compound_page_cnt : 0..pages_per_region]

\* What MADV_REMOVE leaves of a descriptor: all bits are zero.
Zero == [state |-> "free", type |-> "master", compound_page_cnt |-> 0]

-----------------------------------------------------------------------------
(* Blocks.                                                                   *)

\* The page n places after p.
Plus(p, n) == <<p[1], p[2] + n>>

\* p is one of the n pages from m on.
Within(p, m, n) == p[1] = m[1] /\ p[2] \in m[2]..(m[2] + n - 1)

Block(m) == {p \in Pages : Within(p, m, page[m].compound_page_cnt)}

IsMaster(p) == page[p].type = "master" /\ page[p].compound_page_cnt > 0

FreeMasters == {p \in Pages : IsMaster(p) /\ page[p].state = "free"}

Allocated == {p \in Pages : IsMaster(p) /\ page[p].state = "allocated"}

-----------------------------------------------------------------------------
(* Operations on the descriptors P and on the index F of free blocks.        *)

st_pagepool_init_region(P, r) ==
    [p \in Pages |->
        IF p[1] = r
        THEN [state |-> "free", type |-> IF p[2] = 0 THEN "master" ELSE "slave",
              compound_page_cnt |-> int16(pages_per_region)]
        ELSE P[p]]

st_pagepool_add_pages(F, n, m) == [F EXCEPT ![n] = @ \cup {m}]

st_pagepool_remove_pages(F, M) == [n \in Counts |-> F[n] \ M]

\* The masters of the blocks before and after the block of m.
st_pagepool_prev_pages(m) == Plus(m, -page[Plus(m, -1)].compound_page_cnt)

st_pagepool_next_pages(m) == Plus(m, page[m].compound_page_cnt)

\* Wrong: blocks are not merged with the previous one.
WrongPrevIsFree(m) == FALSE

PrevIsFree(m) == m[2] # 0 /\ page[st_pagepool_prev_pages(m)].state = "free"

NextIsFree(m) ==
    /\ m[2] + page[m].compound_page_cnt # pages_per_region
    /\ page[st_pagepool_next_pages(m)].state = "free"

\* Wrong: the next block stays in the index.
WrongFreeNeighbours(m) ==
    {p \in Pages : PrevIsFree(m) /\ p = st_pagepool_prev_pages(m)}

\* The free blocks that the block of m merges with.
FreeNeighbours(m) ==
    {p \in Pages : \/ PrevIsFree(m) /\ p = st_pagepool_prev_pages(m)
                   \/ NextIsFree(m) /\ p = st_pagepool_next_pages(m)}

\* Wrong: the rest gets no master.
WrongSplitType(P, m, use_cnt) ==
    LET total == P[m].compound_page_cnt
    IN [p \in Pages |->
            IF Within(p, m, use_cnt)
            THEN [P[p] EXCEPT !.state = "allocated", !.compound_page_cnt = int16(use_cnt)]
            ELSE IF Within(p, Plus(m, use_cnt), total - use_cnt)
            THEN [P[p] EXCEPT !.compound_page_cnt = int16(total - use_cnt)]
            ELSE P[p]]

\* The first use_cnt pages of the block of m are allocated, the rest becomes
\* a block of its own.
st_pagepool_split_pages(P, m, use_cnt) ==
    LET total == P[m].compound_page_cnt
        remain == Plus(m, use_cnt)
    IN [p \in Pages |->
            IF Within(p, m, use_cnt)
            THEN [P[p] EXCEPT !.state = "allocated", !.compound_page_cnt = int16(use_cnt)]
            ELSE [P[p] EXCEPT
                    !.compound_page_cnt =
                        IF Within(p, remain, total - use_cnt) THEN int16(total - use_cnt) ELSE @,
                    !.type = IF p = remain /\ total # use_cnt THEN "master" ELSE @]]

\* Where the block merged from m and its free neighbours starts, how many pages
\* it has, and the descriptors after the merge.
MergeStart(m) == IF PrevIsFree(m) THEN st_pagepool_prev_pages(m) ELSE m

MergeCnt(m) ==
    page[m].compound_page_cnt
      + (IF PrevIsFree(m) THEN page[st_pagepool_prev_pages(m)].compound_page_cnt ELSE 0)
      + (IF NextIsFree(m) THEN page[st_pagepool_next_pages(m)].compound_page_cnt ELSE 0)

st_pagepool_merge_pages(m) ==
    [p \in Pages |->
        IF Within(p, MergeStart(m), MergeCnt(m))
        THEN [state |-> "free", type |-> IF p = MergeStart(m) THEN "master" ELSE "slave",
              compound_page_cnt |-> int16(MergeCnt(m))]
        ELSE [page[p] EXCEPT !.type = IF p = MergeStart(m) THEN "master" ELSE @]]

\* The size that the merged block has according to its descriptor.
MergedCnt(m) == st_pagepool_merge_pages(m)[MergeStart(m)].compound_page_cnt

-----------------------------------------------------------------------------
Init ==
    /\ states = [r \in Regs |-> "free"]
    /\ regions = {}
    /\ page = [p \in Pages |-> Zero]
    /\ free_pages = [n \in Counts |-> {}]

\* cnt pages from the block of m, a free block of P that F does not list.  The
\* rest is filed under the size that its descriptor has, which is anything when
\* it is no descriptor of the region.
TakePages(P, F, m, cnt) ==
    LET remain == Plus(m, cnt)
    IN /\ page' = st_pagepool_split_pages(P, m, cnt)
       /\ IF P[m].compound_page_cnt = cnt THEN free_pages' = F
          ELSE \E n \in Counts :
                /\ remain \in Pages => n = page'[remain].compound_page_cnt
                /\ free_pages' = st_pagepool_add_pages(F, n, remain)

\* Wrong: the block found stays in the index.
WrongGetFreePages(cnt) ==
    \E n \in int16(cnt)..INT16_MAX : \E m \in free_pages[n] :
        /\ \A k \in int16(cnt)..(n - 1) : free_pages[k] = {}
        /\ TakePages(page, free_pages, m, cnt)
        /\ UNCHANGED <<states, regions>>

\* From a free block of the least sufficient size.
st_pagepool_get_free_pages(cnt) ==
    \E n \in int16(cnt)..INT16_MAX : \E m \in free_pages[n] :
        /\ \A k \in int16(cnt)..(n - 1) : free_pages[k] = {}
        /\ TakePages(page, st_pagepool_remove_pages(free_pages, {m}), m, cnt)
        /\ UNCHANGED <<states, regions>>

\* No block is large enough: from the first region that is free.  Without
\* one, ST_OUT_OF_MEMORY and nothing changes.
st_region_alloc_reg(cnt) ==
    /\ \A n \in int16(cnt)..INT16_MAX : free_pages[n] = {}
    /\ \E r \in Regs :
        /\ states[r] = "free"
        /\ \A q \in 0..(r - 1) : states[q] # "free"
        /\ states' = [states EXCEPT ![r] = "busy"]
        /\ regions' = regions \cup {r}
        /\ TakePages(st_pagepool_init_region(page, r), free_pages, <<r, 0>>, cnt)

st_pagepool_alloc_pages(cnt) ==
    \/ st_pagepool_get_free_pages(cnt)
    \/ st_region_alloc_reg(cnt)

\* The block merges with its free neighbours and is filed under its new size.
FreeIntoPool(m) ==
    /\ MergedCnt(m) < pages_per_region
    /\ page' = st_pagepool_merge_pages(m)
    /\ free_pages' = st_pagepool_add_pages(
                        st_pagepool_remove_pages(free_pages, FreeNeighbours(m)),
                        MergedCnt(m), MergeStart(m))
    /\ UNCHANGED <<states, regions>>

\* The whole region is free: it leaves the pool and its memory goes back to
\* the system.  When madvise fails, the region stays busy.
st_region_free_reg(m, madvise_ok) ==
    LET r == m[1] IN
    /\ MergedCnt(m) >= pages_per_region
    /\ free_pages' = st_pagepool_remove_pages(free_pages, FreeNeighbours(m))
    /\ regions' = regions \ {r}
    /\ states' = IF madvise_ok THEN [states EXCEPT ![r] = "free"] ELSE states
    /\ page' = IF madvise_ok THEN [p \in Pages |-> IF p[1] = r THEN Zero ELSE page[p]]
               ELSE st_pagepool_merge_pages(m)

\* Only the master of an allocated block is accepted.
st_pagepool_free_pages(m, madvise_ok) ==
    /\ m \in Allocated
    /\ FreeIntoPool(m) \/ st_region_free_reg(m, madvise_ok)

Next ==
    \/ \E cnt \in Sizes : st_pagepool_alloc_pages(cnt)
    \/ \E m \in Pages, madvise_ok \in BOOLEAN : st_pagepool_free_pages(m, madvise_ok)

Spec == Init /\ [][Next]_vars

-----------------------------------------------------------------------------
(* Addresses.  Region r starts at r * RegSize.                               *)

st_region_base_addr_by_idx(r) == r * RegSize

st_pagepool_page_to_addr(p) ==
    st_region_base_addr_by_idx(p[1]) + space_base_offset + p[2] * PageSize

\* Wrong: the region after the address instead of the one before.
WrongGetRegion(addr) ==
    {r \in regions :
        /\ st_region_base_addr_by_idx(r) >= addr
        /\ \A q \in regions : st_region_base_addr_by_idx(q) >= addr => q >= r}

\* The regions of the pool whose range addr lies in: the search for the last
\* region that starts at or before addr.
st_pagepool_get_region(addr) ==
    {r \in regions :
        /\ st_region_base_addr_by_idx(r) <= addr
        /\ addr < st_region_base_addr_by_idx(r) + RegSize
        /\ \A q \in regions : st_region_base_addr_by_idx(q) <= addr => q <= r}

st_pagepool_addr_to_page(addr) ==
    {<<r, (addr - st_region_base_addr_by_idx(r) - space_base_offset) \div PageSize>> :
        r \in {r \in st_pagepool_get_region(addr) :
                 LET offset == addr - st_region_base_addr_by_idx(r) - space_base_offset
                 IN offset >= 0 /\ offset % PageSize = 0}}

-----------------------------------------------------------------------------
(* Properties.                                                               *)

TypeOK ==
    /\ states \in [Regs -> {"free", "busy"}]
    /\ regions \subseteq Regs
    /\ page \in [Pages -> Descriptor]
    /\ free_pages \in [Counts -> SUBSET Pages]

\* The descriptors P cut the regions R into blocks: every page lies in the block
\* of a master, and all descriptors of a block agree on its size and state and
\* but the first are slaves, so that no two blocks overlap.
Tiled(P, R) ==
    /\ \A p \in Pages : p[1] \in R =>
        \E m \in Pages : P[m].type = "master" /\ Within(p, m, P[m].compound_page_cnt)
    /\ \A m \in Pages : m[1] \in R /\ P[m].type = "master" =>
        /\ m[2] + P[m].compound_page_cnt <= pages_per_region
        /\ \A p \in Pages : Within(p, m, P[m].compound_page_cnt) =>
            /\ P[p].state = P[m].state
            /\ P[p].compound_page_cnt = P[m].compound_page_cnt
            /\ p # m => P[p].type = "slave"

\* The regions of the pool are cut into blocks.  st_pagepool_prev_pages depends
\* on it: it finds the previous block through the last descriptor of that block.
BlocksTile == TypeOK /\ Tiled(page, regions)

\* Regions in use by the pool are busy; a busy region the pool does not know
\* is one that madvise could not release, and holds no allocated block.
RegionsAccounted ==
    \A r \in Regs :
        /\ r \in regions => states[r] = "busy"
        /\ r \notin regions => \A m \in Allocated : m[1] # r

\* The index lists every free block of the pool under its size, and nothing
\* else: no page of an allocated block or of a region given back to the system
\* is ever found by a search for free pages, and the regions are accounted for.
IndexIsExact ==
    /\ RegionsAccounted
    /\ \A n \in Counts :
        free_pages[n] = {m \in FreeMasters :
                            m[1] \in regions /\ page[m].compound_page_cnt = n}

\* Free neighbours are always merged, and a region without an allocated block
\* is not kept: st_pagepool_free_pages leaves no two free blocks side by side.
NoFragments ==
    \A m \in FreeMasters : m[1] \in regions =>
        /\ page[m].compound_page_cnt < pages_per_region
        /\ ~NextIsFree(m)

\* Address and page determine each other while a page is allocated, whatever
\* other regions come and go: st_pagepool_addr_to_page is called by st_slab_obj_free
\* without pages_lock.
AddrFindsPage ==
    \A m \in Allocated : \A p \in Block(m) :
        st_pagepool_addr_to_page(st_pagepool_page_to_addr(p)) = {p}

\* To its users the pool is a heap of disjoint blocks.
Heap == INSTANCE BlockHeap WITH
            PerRegion <- pages_per_region,
            blocks <- {<<m, page[m].compound_page_cnt>> : m \in Allocated}

ImplementsBlockHeap == Heap!Spec

=============================================================================
