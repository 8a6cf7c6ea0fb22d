----------------------------- MODULE FreeIndex -----------------------------
(***************************************************************************)
(* The index of free blocks of src/src/pagepool/pagepool.c: a red-black    *)
(* tree that holds one block of every size, and on the list node of that   *)
(* block the others of its size.  Module PagePool has a set per size in    *)
(* its place, free_pages; here both are kept, side by side, to see that    *)
(* they are the same.                                                      *)
(*                                                                         *)
(* The tree is the set that module NodeSet says it is; its nodes are the   *)
(* masters whose rbnode is initialised.                                    *)
(*                                                                         *)
(* The operators named Wrong... are the definition that follows them with  *)
(* a mistake in it.                                                        *)
(***************************************************************************)
EXTENDS Integers, FiniteSets, Sequences

CONSTANTS
    Masters,        \* the descriptors of pages that can start a block
    BlockSizes,     \* what compound_page_cnt can be
    NULL

VARIABLES
    tree,           \* pool->free_pages: the masters in it
    lnode,          \* the list nodes of the masters
    cnt,            \* compound_page_cnt of the masters
    free_pages      \* the masters filed under each size

ivars == <<tree, lnode, cnt, free_pages>>

LOCAL Lists == INSTANCE List WITH Heads <- {}, LNodes <- Masters, links <- lnode

FreeIndexInit ==
    /\ tree = {}
    /\ lnode = [prev |-> [m \in Masters |-> NULL], next |-> [m \in Masters |-> NULL]]
    /\ cnt = [m \in Masters |-> CHOOSE n \in BlockSizes : TRUE]
    /\ free_pages = [n \in BlockSizes |-> {}]

Filed == UNION {free_pages[n] : n \in BlockSizes}

\* A block of n pages becomes free.  The first of its size goes into the tree,
\* and any other to the end of the list of that one.
st_pagepool_add_pages(m, n) ==
    LET found == {e \in tree : cnt[e] = n}
    IN  /\ m \notin Filed
        /\ cnt' = [cnt EXCEPT ![m] = n]
        /\ free_pages' = [free_pages EXCEPT ![n] = @ \cup {m}]
        /\ IF found = {}
           THEN tree' = tree \cup {m} /\ lnode' = Lists!st_list_init(lnode, m)
           ELSE \E e \in found :
                    lnode' = Lists!st_list_insert_last(lnode, e, m) /\ UNCHANGED tree

\* Wrong: the next block of the list does not take over the place in the tree.
WrongRemovePages(m) ==
    /\ m \in Filed
    /\ free_pages' = [free_pages EXCEPT ![cnt[m]] = @ \ {m}]
    /\ UNCHANGED cnt
    /\ IF m \in tree
       THEN tree' = tree \ {m} /\ UNCHANGED lnode
       ELSE lnode' = Lists!st_list_remove(lnode, m) /\ UNCHANGED tree

\* A filed block is allocated or merged into another one.
st_pagepool_remove_pages(m) ==
    /\ m \in Filed
    /\ free_pages' = [free_pages EXCEPT ![cnt[m]] = @ \ {m}]
    /\ UNCHANGED cnt
    /\ IF m \notin tree
       THEN lnode' = Lists!st_list_remove(lnode, m) /\ UNCHANGED tree
       ELSE IF Lists!st_list_empty(lnode, m)
       THEN tree' = tree \ {m} /\ UNCHANGED lnode
       ELSE LET candidate == lnode.next[m]
            IN  /\ lnode' = Lists!st_list_remove(lnode, m)
                /\ tree' = (tree \ {m}) \cup {candidate}

FreeIndexNext ==
    \E m \in Masters :
        \/ \E n \in BlockSizes : st_pagepool_add_pages(m, n)
        \/ st_pagepool_remove_pages(m)

FreeIndexSpec == FreeIndexInit /\ [][FreeIndexNext]_ivars

\* In whatever order blocks of equal and different sizes come and go, and
\* whichever of them heads its list, the block in the tree and the ring of its
\* list node are exactly the blocks filed under their size.  So a search of the
\* tree misses no free block, st_rbtree_replace is given a block of the same
\* size, and no list node of an allocated block is left in a ring.
IndexIsSets ==
    \A n \in BlockSizes :
        LET heads == {e \in tree : cnt[e] = n}
            ring(follow, e) == Lists!Walk(follow, e)
        IN  /\ Cardinality(heads) = IF free_pages[n] = {} THEN 0 ELSE 1
            /\ \A e \in heads :
                LET s == ring(lnode.next, e)
                IN  /\ ring(lnode.prev, e) = [i \in DOMAIN s |-> s[Len(s) + 1 - i]]
                    /\ {s[i] : i \in DOMAIN s} = free_pages[n] \ {e}
                    /\ Len(s) = Cardinality(free_pages[n]) - 1
=============================================================================
