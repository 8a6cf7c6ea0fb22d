-------------------------------- MODULE List --------------------------------
(***************************************************************************)
(* The doubly linked lists of src/src/list/list.h, at the level of their   *)
(* pointers: the queues of the collector, the page lists of the slab pool  *)
(* and the blocks of one size in the page pool are such lists.             *)
(*                                                                         *)
(* A list is a ring through a head that is not a member of it.  The        *)
(* callers hold the lock of the structure the list belongs to, so that an  *)
(* operation is one action.  They insert a node that is in no list.        *)
(*                                                                         *)
(* The operators named Wrong... are the definition that follows them with  *)
(* a mistake in it.                                                        *)
(***************************************************************************)
EXTENDS Integers, SequencesExt

CONSTANTS
    Heads,      \* the heads of the lists
    LNodes,     \* what is put into them
    NULL

VARIABLE links  \* prev and next of every head and node

Hooks == Heads \cup LNodes

st_list_init(L, n) == [L EXCEPT !.prev[n] = n, !.next[n] = n]

ListInit ==
    LET own == [n \in Hooks |-> IF n \in Heads THEN n ELSE NULL]
    IN links = [prev |-> own, next |-> own]

-----------------------------------------------------------------------------
(* The functions of list.h, their assignments in the order of the code.      *)

st_list_empty(L, head) == head = L.prev[head]

st_list_insert_first(L, head, node) ==
    LET L1 == [L EXCEPT !.next[node] = L.next[head]]
        L2 == [L1 EXCEPT !.prev[L1.next[node]] = node]
    IN  [L2 EXCEPT !.prev[node] = head, !.next[head] = node]

st_list_insert_last(L, head, node) ==
    LET L1 == [L EXCEPT !.prev[node] = L.prev[head]]
        L2 == [L1 EXCEPT !.next[L1.prev[node]] = node]
    IN  [L2 EXCEPT !.next[node] = head, !.prev[head] = node]

st_list_remove(L, node) ==
    LET L1 == [L EXCEPT !.prev[L.next[node]] = L.prev[node]]
        L2 == [L1 EXCEPT !.next[L1.prev[node]] = L1.next[node]]
    IN  [L2 EXCEPT !.prev[node] = NULL, !.next[node] = NULL]

st_list_move_head(L, node, head) ==
    st_list_insert_first(st_list_remove(L, node), head, node)

st_list_move_tail(L, node, head) ==
    st_list_insert_last(st_list_remove(L, node), head, node)

st_list_is_inited(L, node) == L.next[node] # NULL /\ L.prev[node] # NULL

\* Wrong: the source keeps its links.
WrongJoin(L, dest, src) ==
    LET L1 == [L EXCEPT !.next[L.prev[dest]] = L.next[src]]
        L2 == [L1 EXCEPT !.prev[L1.next[src]] = L1.prev[dest]]
        L3 == [L2 EXCEPT !.prev[dest] = L2.prev[src]]
    IN  IF st_list_empty(L, src) THEN L ELSE [L3 EXCEPT !.next[L3.prev[dest]] = dest]

\* The members of src are put behind those of dest.
st_list_join(L, dest, src) ==
    LET L1 == [L EXCEPT !.next[L.prev[dest]] = L.next[src]]
        L2 == [L1 EXCEPT !.prev[L1.next[src]] = L1.prev[dest]]
        L3 == [L2 EXCEPT !.prev[dest] = L2.prev[src]]
        L4 == [L3 EXCEPT !.next[L3.prev[dest]] = dest]
    IN  IF st_list_empty(L, src) THEN L ELSE st_list_init(L4, src)

st_list_pop_first(L, head) ==
    IF st_list_empty(L, head) THEN L ELSE st_list_remove(L, L.next[head])

-----------------------------------------------------------------------------
(* The lists.                                                                *)

\* The nodes met from a head on, in one direction; the walk of a broken list
\* is cut off.
Walk(follow, head) ==
    LET RECURSIVE From(_, _)
        From(n, fuel) ==
            IF n = head \/ n \notin LNodes \/ fuel = 0 THEN <<>>
            ELSE <<n>> \o From(follow[n], fuel - 1)
    IN  From(follow[head], Cardinality(LNodes) + 1)

\* The members of a list in the order of st_list_for_each.
Members(L, head) == Walk(L.next, head)

Listed(L) == UNION {ToSet(Members(L, h)) : h \in Heads}

ListNext ==
    \/ \E h \in Heads, n \in LNodes \ Listed(links) :
        \/ links' = st_list_insert_first(links, h, n)
        \/ links' = st_list_insert_last(links, h, n)
    \/ \E n \in Listed(links), h \in Heads :
        \/ links' = st_list_move_head(links, n, h)
        \/ links' = st_list_move_tail(links, n, h)
    \/ \E n \in Listed(links) : links' = st_list_remove(links, n)
    \/ \E dest, src \in Heads : dest # src /\ links' = st_list_join(links, dest, src)
    \/ \E h \in Heads : links' = st_list_pop_first(links, h)

ListSpec == ListInit /\ [][ListNext]_links

-----------------------------------------------------------------------------
(* The property.                                                             *)

\* Every list of L is a ring, the same read from its two ends; no node is in
\* two lists, and one that is in none is not initialised.
AreRings(L) ==
    /\ \A h \in Heads :
        /\ Walk(L.prev, h) = Reverse(Members(L, h))
        /\ IsInjective(Members(L, h))
        /\ st_list_empty(L, h) = (Members(L, h) = <<>>)
    /\ \A g, h \in Heads :
        g # h => ToSet(Members(L, g)) \cap ToSet(Members(L, h)) = {}
    /\ \A n \in LNodes : st_list_is_inited(L, n) = (n \in Listed(L))

\* In L the list of head is s, and the other lists are without n.
Becomes(L, head, s, n) ==
    \A h \in Heads :
        Members(L, h) = IF h = head THEN s ELSE Remove(Members(links, h), n)

\* Whatever sequence of insertions, moves, joins and removals came before, the
\* lists are rings, and an operation of list.h does to the members what it would
\* do to a sequence.  The order of the assignments matters in all of them.
ListsExact ==
    /\ AreRings(links)
    /\ \A h \in Heads :
        LET s == Members(links, h)
        IN  /\ Becomes(st_list_pop_first(links, h), h,
                       IF s = <<>> THEN s ELSE Tail(s), NULL)
            /\ \A n \in Listed(links) :
                /\ Becomes(st_list_move_head(links, n, h), h, <<n>> \o Remove(s, n), n)
                /\ Becomes(st_list_move_tail(links, n, h), h, Append(Remove(s, n), n), n)
                /\ Becomes(st_list_remove(links, n), h, Remove(s, n), n)
            /\ \A n \in LNodes \ Listed(links) :
                /\ Becomes(st_list_insert_first(links, h, n), h, <<n>> \o s, n)
                /\ Becomes(st_list_insert_last(links, h, n), h, Append(s, n), n)
            /\ \A src \in Heads \ {h} :
                Members(st_list_join(links, h, src), h) = s \o Members(links, src)
=============================================================================
