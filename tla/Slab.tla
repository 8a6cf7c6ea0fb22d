-------------------------------- MODULE Slab --------------------------------
(***************************************************************************)
(* The object allocator of src/src/slab/slab.c on top of the page pool.    *)
(*                                                                         *)
(* A group serves the objects of one power of two, the last group those    *)
(* that are larger than all of these; a slab is a block of pages cut into  *)
(* ObjCnt objects, or one huge object.                                     *)
(*                                                                         *)
(* An allocation runs under the lock of its group.  A release first finds  *)
(* page, slab and group from the address, with no lock of the group, and   *)
(* then takes that lock: two actions.                                      *)
(*                                                                         *)
(* The order within slabs_partial and slabs_full is left open.  The        *)
(* operators named Wrong... are the definition that follows them with a    *)
(* mistake in it.                                                          *)
(***************************************************************************)
EXTENDS PagePool

CONSTANTS
    MinShift,           \* ST_SLAB_OBJ_SIZE_MIN_SHIFT
    MaxShift,           \* ST_SLAB_OBJ_SIZE_MAX_SHIFT
    ObjCnt,             \* ST_SLAB_OBJ_CNT_EACH_ALLOC
    ObjSizes,           \* the sizes that are asked for
    MadviseMayFail      \* whether the system may refuse to take a region back

VARIABLES
    bitmap,             \* slab.bitmap of each descriptor, as a set of indexes
    obj_size,           \* slab.obj_size of each descriptor
    link,               \* the union of slab.group and slab.master
    slabs_partial,
    slabs_full,
    current,            \* stat.current of each group
    objs,               \* the objects in use: address and size asked for
    freeing,            \* releases between the search and the lock
    refused             \* objects in use that st_slab_obj_free did not find

pool == vars

slab == <<bitmap, obj_size, link, slabs_partial, slabs_full, current>>

svars == <<pool, slab, objs, freeing, refused>>

ASSUME SlabAssumption ==
    /\ MinShift \in Nat /\ MaxShift \in Nat /\ MinShift <= MaxShift
    /\ ObjCnt \in Nat \ {0}
    /\ ObjSizes \subseteq Nat \ {0}

\* 1 << k.  The provers know no exponentiation; that is what they need of it.
Pow2(k) == 2 ^ k

ASSUME PowersOfTwo ==
    /\ Pow2(0) = 1
    /\ \A k \in 0..MaxShift : Pow2(k + 1) = 2 * Pow2(k)

Groups == MinShift..(MaxShift + 1)

Huge == MaxShift + 1

\* Pointers: to a page descriptor the page itself, to a group and NULL these.
GroupAddr(g) == <<g>>

Null == <<>>

Objects == [addr : Nat, size : ObjSizes]

-----------------------------------------------------------------------------
\* The position of the highest bit set, in a number less than Pow2(MaxShift + 1).
st_bit_msb(n) == CHOOSE k \in 0..MaxShift : Pow2(k) <= n /\ n < Pow2(k + 1)

st_slab_size_to_index(size) ==
    IF size <= Pow2(MinShift) THEN MinShift
    ELSE IF size > Pow2(MaxShift) THEN Huge
    ELSE st_bit_msb(size - 1) + 1

\* obj_cnt, the number of objects in a slab of group g.
SlotCnt(g) == IF g = Huge THEN 1 ELSE ObjCnt

\* The objects of a slab, given the size recorded in it.
Slots(size) == IF size > Pow2(MaxShift) THEN {0} ELSE 0..(ObjCnt - 1)

st_slab_is_full(B, size) == Slots(size) \subseteq B

WrongAllFree(B, size) == 0 \notin B

st_slab_is_all_free(B, size) == Slots(size) \cap B = {}

WrongPagesFor(size, cnt) == (size * cnt) \div PageSize

PagesFor(size, cnt) == st_align(size * cnt, PageSize) \div PageSize

WrongSetLinks(L, P, m, g) == [L EXCEPT ![m] = GroupAddr(g)]

\* The links of the pages of a block to its group and master.
st_slab_set_pages_group_master(L, P, m, g) ==
    [p \in Pages |->
        IF p = m THEN GroupAddr(g)
        ELSE IF Within(p, m, P[m].compound_page_cnt) THEN m ELSE L[p]]

st_slab_clear_pages_group_master(L, P, m) ==
    [p \in Pages |-> IF Within(p, m, P[m].compound_page_cnt) THEN Null ELSE L[p]]

\* stat.current after objects and slabs have come (1) or gone (-1).
Count(g, objects, slabs) ==
    [current EXCEPT ![g].alloc = @ + objects,
                    ![g].free = @ - objects + slabs * SlotCnt(g)]

-----------------------------------------------------------------------------
SlabInit ==
    /\ Init
    /\ bitmap = [p \in Pages |-> {}]
    /\ obj_size = [p \in Pages |-> 0]
    /\ link = [p \in Pages |-> Null]
    /\ slabs_partial = [g \in Groups |-> {}]
    /\ slabs_full = [g \in Groups |-> {}]
    /\ current = [g \in Groups |-> [alloc |-> 0, free |-> 0]]
    /\ objs = {}
    /\ freeing = {}
    /\ refused = {}

\* The first free object of slab m, whose bitmap is B, goes to the caller.
TakeObj(g, m, B, osize, size, partial) ==
    LET idx == CHOOSE i \in Slots(osize) \ B : \A j \in Slots(osize) \ B : i <= j
        full == st_slab_is_full(B \cup {idx}, osize)
    IN /\ bitmap' = [bitmap EXCEPT ![m] = B \cup {idx}]
       /\ slabs_partial' = [slabs_partial EXCEPT ![g] = IF full THEN partial \ {m} ELSE partial]
       /\ slabs_full' = [slabs_full EXCEPT ![g] = IF full THEN @ \cup {m} ELSE @]
       /\ objs' = objs \cup
            {[addr |-> st_pagepool_page_to_addr(m) + idx * osize, size |-> size]}

\* The size of the objects that serve a request of group g.
Served(g, size) == IF g = Huge THEN size ELSE Pow2(g)

\* From a slab with a free object.
TakeFromPartial(g, size) ==
    /\ \E m \in slabs_partial[g] :
        TakeObj(g, m, bitmap[m], Served(g, size), size, slabs_partial[g])
    /\ current' = Count(g, 1, 0)
    /\ UNCHANGED <<pool, obj_size, link>>

\* From a new slab; when the pool has no pages left nothing changes.
st_slab_alloc_pages(g, size) ==
    LET osize == Served(g, size)
        cnt == PagesFor(osize, SlotCnt(g))
    IN /\ slabs_partial[g] = {}
       /\ cnt \in Sizes
       /\ st_pagepool_alloc_pages(cnt)
       /\ \E m \in Allocated' \ Allocated :
            /\ obj_size' = [obj_size EXCEPT ![m] = osize]
            /\ link' = st_slab_set_pages_group_master(link, page', m, g)
            /\ TakeObj(g, m, {}, osize, size, {m})
       /\ current' = Count(g, 1, 1)

st_slab_get_obj_from_group(g, size) ==
    \/ TakeFromPartial(g, size)
    \/ st_slab_alloc_pages(g, size)

st_slab_obj_alloc(size) ==
    /\ st_slab_get_obj_from_group(st_slab_size_to_index(size), size)
    /\ UNCHANGED <<freeing, refused>>

-----------------------------------------------------------------------------
\* The start of the page that addr lies in.
ADDR_PAGE_BASE(addr) == (addr \div PageSize) * PageSize

\* The master pages that a release of the object at addr finds: none, or one.
st_slab_get_master_page(addr) ==
    {m \in Pages :
        \E p \in st_pagepool_addr_to_page(ADDR_PAGE_BASE(addr)) :
            /\ p \in Pages
            /\ m = (IF page[p].type = "master" THEN p ELSE link[p])
            /\ link[m] # Null}

\* The search of st_slab_obj_free.
st_slab_obj_free(o) ==
    /\ o \in objs
    /\ \A f \in freeing : f.obj # o
    /\ LET M == st_slab_get_master_page(o.addr)
       IN IF M = {}
          THEN refused' = refused \cup {o} /\ UNCHANGED freeing
          ELSE \E m \in M :
                /\ freeing' = freeing \cup
                     {[obj |-> o, master |-> m, group |-> st_slab_size_to_index(obj_size[m])]}
                /\ UNCHANGED refused
    /\ UNCHANGED <<pool, slab, objs>>

\* The index of the object at addr in slab m, when addr is the address of one.
st_slab_clear_bitmap_by_addr(g, m, addr) ==
    LET offset == addr - st_pagepool_page_to_addr(m)
    IN {i \in bitmap[m] : /\ offset = i * Pow2(g)
                          /\ i < ObjCnt
                          /\ g = Huge => i = 0}

WrongKeepSlab(g, m, idx) ==
    /\ ~st_slab_is_all_free(bitmap[m] \ {idx}, obj_size[m])
    /\ bitmap' = [bitmap EXCEPT ![m] = @ \ {idx}]
    /\ current' = Count(g, -1, 0)
    /\ UNCHANGED <<pool, obj_size, link, slabs_full, slabs_partial>>

\* Some objects of the slab are still in use.
KeepSlab(g, m, idx) ==
    /\ ~st_slab_is_all_free(bitmap[m] \ {idx}, obj_size[m])
    /\ bitmap' = [bitmap EXCEPT ![m] = @ \ {idx}]
    /\ slabs_full' = [slabs_full EXCEPT ![g] = @ \ {m}]
    /\ slabs_partial' = [slabs_partial EXCEPT ![g] = @ \cup {m}]
    /\ current' = Count(g, -1, 0)
    /\ UNCHANGED <<pool, obj_size, link>>

\* The last object of the slab: its pages go back to the pool.  When the pool
\* reports an error, the slab is put back into slabs_partial.
ReturnSlab(g, m, idx) ==
    /\ st_slab_is_all_free(bitmap[m] \ {idx}, obj_size[m])
    /\ \E madvise_ok \in (IF MadviseMayFail THEN BOOLEAN ELSE {TRUE}) :
        /\ st_pagepool_free_pages(m, madvise_ok)
        /\ LET gone == {p \in Pages : p[1] = m[1] /\ states[m[1]] # states'[m[1]]}
               failed == states[m[1]] = states'[m[1]] /\ m[1] \notin regions'
               cleared == st_slab_clear_pages_group_master(link, page, m)
           IN /\ bitmap' = [p \in Pages |-> IF p \in gone THEN {}
                                        ELSE IF p = m THEN bitmap[m] \ {idx} ELSE bitmap[p]]
              /\ obj_size' = [p \in Pages |-> IF p \in gone THEN 0 ELSE obj_size[p]]
              /\ link' = IF failed
                         THEN st_slab_set_pages_group_master(cleared, page', m, g)
                         ELSE cleared
              /\ slabs_full' = [slabs_full EXCEPT ![g] = @ \ {m}]
              /\ slabs_partial' = [slabs_partial EXCEPT
                                    ![g] = IF failed THEN @ \cup {m} ELSE @ \ {m}]
              /\ current' = Count(g, -1, IF failed THEN 0 ELSE -1)

\* The part of st_slab_obj_free that holds the lock of the group.
st_slab_free_obj_from_group(f) ==
    /\ f \in freeing
    /\ freeing' = freeing \ {f}
    /\ LET I == st_slab_clear_bitmap_by_addr(f.group, f.master, f.obj.addr)
       IN IF I = {}
          THEN /\ refused' = refused \cup {f.obj}
               /\ UNCHANGED <<pool, slab, objs>>
          ELSE /\ \E i \in I : KeepSlab(f.group, f.master, i) \/ ReturnSlab(f.group, f.master, i)
               /\ objs' = objs \ {f.obj}
               /\ UNCHANGED refused

SlabNext ==
    \/ \E size \in ObjSizes : st_slab_obj_alloc(size)
    \/ \E o \in objs : st_slab_obj_free(o)
    \/ \E f \in freeing : st_slab_free_obj_from_group(f)

SlabSpec == SlabInit /\ [][SlabNext]_svars

-----------------------------------------------------------------------------
(* Properties.                                                               *)

Slabs(g) == slabs_partial[g] \cup slabs_full[g]

SlabTypeOK ==
    /\ TypeOK
    /\ bitmap \in [Pages -> SUBSET (0..(ObjCnt - 1))]
    /\ obj_size \in [Pages -> Nat]
    /\ link \in [Pages -> Pages \cup {GroupAddr(g) : g \in Groups} \cup {Null}]
    /\ slabs_partial \in [Groups -> SUBSET Pages]
    /\ slabs_full \in [Groups -> SUBSET Pages]
    /\ current \in [Groups -> [alloc : Nat, free : Nat]]
    /\ objs \subseteq Objects
    /\ freeing \subseteq [obj : objs, master : Pages, group : Groups]
    /\ refused \subseteq Objects

Bytes(o) == o.addr..(o.addr + o.size - 1)

\* No two objects in use share a byte, and each lies within the pages of one
\* slab that the page pool has handed out: st_slab_obj_alloc rounds sizes up to
\* the slots of a group and slots into pages.
ObjectsDisjoint ==
    /\ SlabTypeOK
    /\ \A o, q \in objs : o # q => Bytes(o) \cap Bytes(q) = {}
    /\ \A o \in objs : \E m \in Allocated :
        LET first == st_pagepool_page_to_addr(m)
        IN Bytes(o) \subseteq first..(first + page[m].compound_page_cnt * PageSize - 1)

\* The counters of a group tell how many of its objects are in use and how
\* many its slabs have left.
CountersAreExact ==
    \A g \in Groups :
        /\ current[g].alloc = Cardinality({o \in objs : st_slab_size_to_index(o.size) = g})
        /\ current[g].alloc + current[g].free
             = Cardinality(Slabs(g)) * SlotCnt(g)

\* Every block of the pool is a slab of exactly one group; it is in slabs_full
\* when all its objects are in use, else in slabs_partial; a slab without an
\* object in use has been given back; and the counters agree with the lists.
SlabsAreListed ==
    /\ CountersAreExact
    /\ \A g \in Groups : slabs_partial[g] \cap slabs_full[g] = {}
    /\ \A g, k \in Groups : g # k => Slabs(g) \cap Slabs(k) = {}
    /\ UNION {Slabs(g) : g \in Groups} = Allocated
    /\ \A g \in Groups : \A m \in Slabs(g) :
        /\ bitmap[m] # {}
        /\ m \in slabs_full[g] <=> st_slab_is_full(bitmap[m], obj_size[m])

\* A release that has found its slab and waits for the lock still finds there
\* what it found, whatever other processes allocate and release meanwhile: the
\* slab is still the group's and the bit of the object is still set.
SearchStaysValid ==
    \A f \in freeing :
        /\ link[f.master] = GroupAddr(f.group)
        /\ f.master \in Slabs(f.group)
        /\ st_slab_clear_bitmap_by_addr(f.group, f.master, f.obj.addr) # {}

\* st_slab_obj_free finds every object that st_slab_obj_alloc returned: it
\* never answers that the address is none of the pool's (ST_NOT_FOUND,
\* ST_OUT_OF_RANGE), none of an object (ST_ARG_INVALID) or already free
\* (ST_AGAIN).
NoReleaseRefused == refused = {}

=============================================================================
