-------------------------------- MODULE Table --------------------------------
(***************************************************************************)
(* One shared table of src/src/table/table.c: its elements, which several  *)
(* processes set, add, remove, read and iterate over through               *)
(* src/src/capi/capi.c.                                                    *)
(*                                                                         *)
(* table->lock protects the tree of elements, but not all that is done to  *)
(* them: an element is allocated before the lock is taken, and what was    *)
(* replaced or removed is freed after it is given back.  An iterator lives *)
(* from call to call; the version of the table tells it that the table has *)
(* changed.  The tree is a set here, which is what RBTree shows of it.     *)
(* gc->lock is left out: it surrounds table->lock in st_table_set_key_value *)
(* and st_table_remove_key, and without it there are more interleavings.   *)
(*                                                                         *)
(* A process may die.  The lock it holds is then taken over.               *)
(*                                                                         *)
(* The operators named Wrong... are the definition that follows them with  *)
(* a mistake in it.                                                        *)
(***************************************************************************)
EXTENDS Integers, FiniteSets, Sequences

CONSTANTS
    Users,          \* the processes
    Mortal,         \* those that may die
    CrashPoints,    \* where in an operation they may
    Keys,           \* keys, in their order numbers
    Values,         \* values
    Addrs,          \* the addresses that the slab has for elements
    NULL,           \* no element, no value, nobody
    MaxVersion      \* the bound on table->version

ASSUME TableAssumption ==
    /\ Keys \subseteq Nat
    /\ Mortal \subseteq Users
    /\ NULL \notin Addrs \cup Users \cup [key : Keys, value : Values]

Idle == [at |-> "idle"]

NoIter == [open |-> FALSE, element |-> NULL, table_version |-> 0]

NoWalk == [visit |-> <<>>, visited |-> <<>>]

VARIABLES
    heap,       \* the element at an address, NULL when it is free
    tree,       \* the addresses of the elements in table->elements
    version,    \* table->version
    element_cnt,
    lock,       \* the owner of table->lock
    op,         \* how far the operation of each process has come
    iter,       \* the iterator of each process
    walk,       \* what it has to visit and has visited, which the code does not keep
    dead        \* the processes that have died

vars == <<heap, tree, version, element_cnt, lock, op, iter, walk, dead>>

-----------------------------------------------------------------------------
Init ==
    /\ heap = [a \in Addrs |-> NULL]
    /\ tree = {}
    /\ version = 0
    /\ element_cnt = 0
    /\ lock = NULL
    /\ op = [p \in Users |-> Idle]
    /\ iter = [p \in Users |-> NoIter]
    /\ walk = [p \in Users |-> NoWalk]
    /\ dead = {}

At(p, at) == p \notin dead /\ op[p].at = at

GoTo(p, next) == op' = [op EXCEPT ![p] = next]

\* The lock is free, or its owner has died.
Lockable == lock = NULL \/ lock \in dead

\* The elements with key k that the tree holds.
st_table_get_element(k) == {a \in tree : heap[a] # NULL /\ heap[a].key = k}

\* The bound on the version: an operation that adds n to it may begin.
MayChange(n) ==
    version + n + Cardinality({p \in Users : At(p, "new") \/ At(p, "linked") \/ At(p, "deleted")})
            + Cardinality(UNION {op[p].rest : p \in {q \in Users : At(q, "clearing")}})
        <= MaxVersion

-----------------------------------------------------------------------------
(* st_table_set_key_value and st_table_add_key_value.                        *)

\* The slab may have no room: then nothing happens.
st_table_new_element(p, k, v, force) ==
    /\ At(p, "idle")
    /\ MayChange(1)
    /\ \E a \in Addrs :
        /\ heap[a] = NULL
        /\ heap' = [heap EXCEPT ![a] = [key |-> k, value |-> v]]
        /\ GoTo(p, [at |-> "new", elem |-> a, force |-> force])
    /\ UNCHANGED <<tree, version, element_cnt, lock, iter, walk, dead>>

WrongGiveUp(p, elem) == GoTo(p, Idle)

\* An element that was not linked has to be freed.
GiveUp(p, elem) == GoTo(p, [at |-> "free", elem |-> elem])

\* The tree changes under the lock.  An element with the same key is replaced
\* by st_table_set_key_value, and makes st_table_add_key_value give up.
AddToTree(p) ==
    /\ At(p, "new")
    /\ Lockable
    /\ LET new == op[p].elem
           existed == st_table_get_element(heap[new].key)
       IN \/ /\ existed = {}
             /\ tree' = tree \cup {new}
             /\ element_cnt' = element_cnt + 1
             /\ lock' = p
             /\ GoTo(p, [at |-> "linked", existed_elem |-> {}])
          \/ /\ existed # {} /\ op[p].force
             /\ tree' = (tree \ existed) \cup {new}
             /\ lock' = p
             /\ GoTo(p, [at |-> "linked", existed_elem |-> existed])
             /\ UNCHANGED element_cnt
          \/ /\ existed # {} /\ ~op[p].force
             /\ lock' = NULL
             /\ GiveUp(p, new)
             /\ UNCHANGED <<tree, element_cnt>>
    /\ UNCHANGED <<heap, version, iter, walk, dead>>

WrongAddVersion(p) ==
    /\ At(p, "linked")
    /\ version' = IF op[p].existed_elem = {} THEN version + 1 ELSE version
    /\ lock' = NULL
    /\ \/ op[p].existed_elem = {} /\ GoTo(p, Idle)
       \/ \E e \in op[p].existed_elem : GoTo(p, [at |-> "free", elem |-> e])
    /\ UNCHANGED <<heap, tree, element_cnt, iter, walk, dead>>

\* The version changes, and the lock is given back.
AddVersion(p) ==
    /\ At(p, "linked")
    /\ version' = version + 1
    /\ lock' = NULL
    /\ \/ op[p].existed_elem = {} /\ GoTo(p, Idle)
       \/ \E e \in op[p].existed_elem : GoTo(p, [at |-> "free", elem |-> e])
    /\ UNCHANGED <<heap, tree, element_cnt, iter, walk, dead>>

\* What was replaced, removed or not wanted goes back to the slab, after the
\* lock was given back.
st_table_free_element(p) ==
    /\ At(p, "free")
    /\ heap' = [heap EXCEPT ![op[p].elem] = NULL]
    /\ GoTo(p, Idle)
    /\ UNCHANGED <<tree, version, element_cnt, lock, iter, walk, dead>>

-----------------------------------------------------------------------------
(* st_table_remove_key and st_table_remove_all.                              *)

RemoveFromTree(p, k) ==
    /\ At(p, "idle")
    /\ Lockable
    /\ MayChange(1)
    /\ \E removed \in st_table_get_element(k) :
        /\ tree' = tree \ {removed}
        /\ GoTo(p, [at |-> "deleted", elem |-> removed])
    /\ lock' = p
    /\ UNCHANGED <<heap, version, element_cnt, iter, walk, dead>>

RemoveVersion(p) ==
    /\ At(p, "deleted")
    /\ version' = version + 1
    /\ element_cnt' = element_cnt - 1
    /\ lock' = NULL
    /\ GoTo(p, [at |-> "free", elem |-> op[p].elem])
    /\ UNCHANGED <<heap, tree, iter, walk, dead>>

BeginRemoveAll(p) ==
    /\ At(p, "idle")
    /\ Lockable
    /\ MayChange(Cardinality(tree))
    /\ lock' = p
    /\ GoTo(p, [at |-> "clearing", rest |-> tree])
    /\ UNCHANGED <<heap, tree, version, element_cnt, iter, walk, dead>>

\* The elements are freed one by one, children first, while they are still
\* linked.  The order is left open.
st_table_remove_all_elements(p) ==
    /\ At(p, "clearing")
    /\ \E a \in op[p].rest :
        /\ heap' = [heap EXCEPT ![a] = NULL]
        /\ GoTo(p, [at |-> "clearing", rest |-> op[p].rest \ {a}])
    /\ version' = version + 1
    /\ UNCHANGED <<tree, element_cnt, lock, iter, walk, dead>>

EndRemoveAll(p) ==
    /\ At(p, "clearing") /\ op[p].rest = {}
    /\ tree' = {}
    /\ element_cnt' = 0
    /\ lock' = NULL
    /\ GoTo(p, Idle)
    /\ UNCHANGED <<heap, version, iter, walk, dead>>

-----------------------------------------------------------------------------
(* Reading.                                                                  *)

WrongBeginGet(p, k) ==
    /\ At(p, "idle")
    /\ Lockable
    /\ \E a \in st_table_get_element(k) : GoTo(p, [at |-> "get", elem |-> a, key |-> k])
    /\ lock' = NULL
    /\ UNCHANGED <<heap, tree, version, element_cnt, iter, walk, dead>>

\* st_capi_do_get finds the element under the lock, and keeps the lock.
BeginGet(p, k) ==
    /\ At(p, "idle")
    /\ Lockable
    /\ \E a \in st_table_get_element(k) : GoTo(p, [at |-> "get", elem |-> a, key |-> k])
    /\ lock' = p
    /\ UNCHANGED <<heap, tree, version, element_cnt, iter, walk, dead>>

\* The value is copied out of the element, or the copy fails.
EndGet(p) ==
    /\ At(p, "get")
    /\ lock' = NULL
    /\ GoTo(p, Idle)
    /\ UNCHANGED <<heap, tree, version, element_cnt, iter, walk, dead>>

Linked == {a \in tree : heap[a] # NULL}

\* The nodes at the two ends of a set of nodes of the tree.
LeftMost(S) == IF S = {} THEN NULL ELSE CHOOSE a \in S : \A b \in S : heap[a].key <= heap[b].key

RightMost(S) == IF S = {} THEN NULL ELSE CHOOSE a \in S : \A b \in S : heap[a].key >= heap[b].key

\* Where an iteration begins: at the first element, or where st_rbtree_search
\* finds init_key on the side expected.
Start(init_key, side) ==
    LET eq == st_table_get_element(init_key)
    IN IF side = "left_most" THEN LeftMost(Linked)
       ELSE IF side \in {"eq", "left_eq", "right_eq"} /\ eq # {} THEN LeftMost(eq)
       ELSE IF side \in {"left", "left_eq"} THEN RightMost({a \in Linked : heap[a].key < init_key})
       ELSE IF side \in {"right", "right_eq"} THEN LeftMost({a \in Linked : heap[a].key > init_key})
       ELSE NULL

\* The content of the elements from the one at a to the last, in their order.
Rest(a) ==
    LET rest == {heap[b] : b \in {c \in Linked : a # NULL /\ heap[c].key >= heap[a].key}}
    IN CHOOSE s \in [1..Cardinality(rest) -> rest] : \A i, j \in DOMAIN s : i < j => s[i].key < s[j].key

st_table_iter_init(init_key, side) ==
    [open |-> TRUE, element |-> Start(init_key, side), table_version |-> version]

\* What an iterator that begins at a has to visit; NULL in visited will stand
\* for an element that could not be copied.
BeginWalk(p, a) == walk' = [walk EXCEPT ![p] = [visit |-> Rest(a), visited |-> <<>>]]

Visit(p, e) == walk' = [walk EXCEPT ![p].visited = Append(@, e)]

st_capi_init_iterator(p, init_key, side) ==
    /\ At(p, "idle") /\ ~iter[p].open
    /\ Lockable
    /\ iter' = [iter EXCEPT ![p] = st_table_iter_init(init_key, side)]
    /\ BeginWalk(p, Start(init_key, side))
    /\ lock' = NULL
    /\ UNCHANGED <<heap, tree, version, element_cnt, op, dead>>

\* The element after the one at a, st_rbtree_get_next.
NextElement(a) == LeftMost({b \in Linked : heap[b].key > heap[a].key})

\* ST_TABLE_MODIFIED.
Modified(it) == it.table_version # version

\* The iterator after st_table_iter_next.
Advanced(it) == [it EXCEPT !.element = NextElement(it.element)]

\* st_capi_next: the iterator moves on, and the lock is kept while key and value
\* of the element it was at are copied.  When the table was modified, or the
\* iterator is at the end, it stays as it is.
BeginNext(p) ==
    /\ At(p, "idle") /\ iter[p].open
    /\ Lockable
    /\ ~Modified(iter[p]) /\ iter[p].element # NULL
    /\ lock' = p
    /\ GoTo(p, [at |-> "next", elem |-> iter[p].element])
    /\ iter' = [iter EXCEPT ![p] = Advanced(@)]
    /\ UNCHANGED <<heap, tree, version, element_cnt, walk, dead>>

\* st_capi_copy_out_tvalue of key and value.  When one fails, the element is
\* passed over: the iterator has moved on already.
EndNext(p) ==
    /\ At(p, "next")
    /\ \E got \in {heap[op[p].elem], NULL} : Visit(p, got)
    /\ lock' = NULL
    /\ GoTo(p, Idle)
    /\ UNCHANGED <<heap, tree, version, element_cnt, iter, dead>>

st_capi_free_iterator(p) ==
    /\ At(p, "idle") /\ iter[p].open
    /\ iter' = [iter EXCEPT ![p] = NoIter]
    /\ walk' = [walk EXCEPT ![p] = NoWalk]
    /\ UNCHANGED <<heap, tree, version, element_cnt, lock, op, dead>>

\* st_capi_foreach takes the lock once, and the callback runs with it.  The
\* iterator is its own; here it is the one of the process.
BeginForeach(p, init_key, side) ==
    /\ At(p, "idle") /\ ~iter[p].open
    /\ Lockable
    /\ iter' = [iter EXCEPT ![p] = st_table_iter_init(init_key, side)]
    /\ BeginWalk(p, Start(init_key, side))
    /\ lock' = p
    /\ GoTo(p, [at |-> "foreach"])
    /\ UNCHANGED <<heap, tree, version, element_cnt, dead>>

\* The callback sees the element itself.
st_capi_foreach_nolock(p) ==
    /\ At(p, "foreach")
    /\ ~Modified(iter[p]) /\ iter[p].element # NULL
    /\ iter' = [iter EXCEPT ![p] = Advanced(@)]
    /\ Visit(p, heap[iter[p].element])
    /\ UNCHANGED <<heap, tree, version, element_cnt, lock, op, dead>>

\* At the end, when the table was modified, or when the callback says so.
EndForeach(p) ==
    /\ At(p, "foreach")
    /\ iter' = [iter EXCEPT ![p] = NoIter]
    /\ walk' = [walk EXCEPT ![p] = NoWalk]
    /\ lock' = NULL
    /\ GoTo(p, Idle)
    /\ UNCHANGED <<heap, tree, version, element_cnt, dead>>

\* What p holds, the lock and elements, stays as it is.
Die(p) ==
    /\ p \in Mortal \ dead
    /\ op[p].at \in CrashPoints
    /\ dead' = dead \cup {p}
    /\ iter' = [iter EXCEPT ![p] = NoIter]
    /\ walk' = [walk EXCEPT ![p] = NoWalk]
    /\ UNCHANGED <<heap, tree, version, element_cnt, lock, op>>

-----------------------------------------------------------------------------
ExpectedSides == {"left_most", "eq", "left", "right", "left_eq", "right_eq"}

Next ==
    \E p \in Users :
        \/ \E k \in Keys, v \in Values, force \in BOOLEAN : st_table_new_element(p, k, v, force)
        \/ AddToTree(p)
        \/ AddVersion(p)
        \/ st_table_free_element(p)
        \/ \E k \in Keys : RemoveFromTree(p, k) \/ BeginGet(p, k)
        \/ RemoveVersion(p)
        \/ BeginRemoveAll(p)
        \/ st_table_remove_all_elements(p)
        \/ EndRemoveAll(p)
        \/ EndGet(p)
        \/ \E k \in Keys, side \in ExpectedSides :
            st_capi_init_iterator(p, k, side) \/ BeginForeach(p, k, side)
        \/ BeginNext(p)
        \/ EndNext(p)
        \/ st_capi_free_iterator(p)
        \/ st_capi_foreach_nolock(p)
        \/ EndForeach(p)
        \/ Die(p)

Spec == Init /\ [][Next]_vars

-----------------------------------------------------------------------------
(* Properties.                                                               *)

Operations ==
    [at : {"idle", "foreach"}]
    \cup [at : {"new"}, elem : Addrs, force : BOOLEAN]
    \cup [at : {"linked"}, existed_elem : SUBSET Addrs]
    \cup [at : {"deleted", "free", "next"}, elem : Addrs]
    \cup [at : {"get"}, elem : Addrs, key : Keys]
    \cup [at : {"clearing"}, rest : SUBSET Addrs]

Iterators == [open : BOOLEAN, element : Addrs \cup {NULL}, table_version : Nat]

TypeOK ==
    /\ heap \in [Addrs -> [key : Keys, value : Values] \cup {NULL}]
    /\ tree \subseteq Addrs
    /\ version \in Nat
    /\ element_cnt \in Nat
    /\ lock \in Users \cup {NULL}
    /\ op \in [Users -> Operations]
    /\ iter \in [Users -> Iterators]
    /\ dead \subseteq Mortal

\* A change of the tree is under way, by a process that holds the lock.
Changing == lock # NULL /\ op[lock].at \in {"linked", "deleted", "clearing"}

\* The addresses of elements that a process still follows: those it copies
\* from, the one its iterator is at as long as st_table_iter_next would not
\* refuse it, and, for whoever takes the lock next, those in the tree.
Followed ==
    {op[p].elem : p \in {q \in Users \ dead : op[q].at \in {"get", "next"}}}
    \cup ({iter[p].element : p \in {q \in Users : iter[q].open /\ ~Modified(iter[q])}} \ {NULL})
    \cup tree

\* No one follows a pointer to an element that was freed, or that is another
\* one by now: outside a change of the tree, what can be followed is linked and
\* allocated, though elements are freed without the lock and their addresses
\* are used again.
NoStaleElement ==
    ~Changing => \A a \in Followed : a \in tree /\ heap[a] # NULL

\* An iteration that is not told ST_TABLE_MODIFIED, whatever other processes
\* have done between its calls, visits what the table held when it began,
\* each element once and in the order of the keys; only elements whose copy
\* failed are missing.  st_capi_foreach is never told ST_TABLE_MODIFIED.
IterationIsExact ==
    \A p \in Users : iter[p].open =>
        LET visit == walk[p].visit
            copying == IF At(p, "next") THEN 1 ELSE 0
            done == Len(walk[p].visited)
            left == done + copying + 1
        IN /\ done + copying <= Len(visit)
           /\ \A i \in 1..done : walk[p].visited[i] \in {visit[i], NULL}
           /\ At(p, "foreach") => ~Modified(iter[p])
           /\ (~Modified(iter[p]) /\ ~Changing) =>
                IF left > Len(visit) THEN iter[p].element = NULL
                ELSE iter[p].element # NULL /\ heap[iter[p].element] = visit[left]

\* The elements of the table; st_table_remove_all leaves those it has freed in
\* the tree to the end.
Elements == IF lock # NULL /\ op[lock].at = "clearing" THEN op[lock].rest ELSE tree

\* The elements that the operation of process p will free, or has yet to link.
Pending(p) ==
    {a \in Addrs : \/ op[p].at \in {"new", "free", "deleted"} /\ a = op[p].elem
                   \/ op[p].at = "linked" /\ a \in op[p].existed_elem}

\* Every allocated element is in the tree or in the hands of exactly one
\* operation: none is lost, none is freed twice.  A key has one element, and
\* element_cnt is right whenever the lock can be taken.
ElementsAccounted ==
    /\ TypeOK
    /\ \A p, q \in Users : p # q => Pending(p) \cap Pending(q) = {}
    /\ \A a, b \in Elements : heap[a].key = heap[b].key => a = b
    /\ LET pending == UNION {Pending(p) : p \in Users}
       IN /\ pending \cap Elements = {}
          /\ {a \in Addrs : heap[a] # NULL} = Elements \cup pending
    /\ ~Changing => element_cnt = Cardinality(tree)

-----------------------------------------------------------------------------
(* The inductive invariant of the proofs in TableProofs and WalkProofs.      *)

\* Where the process holds the lock, and where it is changing the tree.
Changes == {"linked", "deleted", "clearing"}

Holding == Changes \cup {"get", "next", "foreach"}

\* No process dies with a change of the tree half done.
DeathsBetweenChanges == CrashPoints \cap Changes = {}

LockInv ==
    /\ \A p \in Users \ dead : op[p].at \in Holding => lock = p
    /\ lock # NULL => op[lock].at \in Holding
    /\ \A p \in dead : op[p].at \notin Changes

\* Stage of the change that the owner of the lock is making.
Stage(at) == lock # NULL /\ op[lock].at = at

HeapInv ==
    /\ Elements \subseteq tree
    /\ \A a \in Addrs : heap[a] # NULL <=> a \in Elements \/ \E p \in Users : a \in Pending(p)
    /\ \A p, q \in Users : p # q => Pending(p) \cap Pending(q) = {}
    /\ \A p \in Users : Pending(p) \cap Elements = {} /\ \A a, b \in Pending(p) : a = b
    /\ \A a, b \in Elements : heap[a].key = heap[b].key => a = b

CountInv ==
    /\ IsFiniteSet(tree)
    /\ Stage("deleted") => element_cnt = Cardinality(tree) + 1
    /\ ~Stage("deleted") /\ ~Stage("clearing") => element_cnt = Cardinality(tree)

\* The element an iterator is at, if the version lets it pass, is still there;
\* an unfinished change will change the version.
IterInv ==
    /\ \A p \in Users : iter[p].open =>
        /\ iter[p].table_version <= version
        /\ ~Modified(iter[p]) =>
            Stage("linked") \/ Stage("deleted") \/ iter[p].element \in Elements \cup {NULL}
    /\ \A p \in Users \ dead : op[p].at \in {"get", "next"} => op[p].elem \in tree

TInv == TypeOK /\ LockInv /\ HeapInv /\ CountInv /\ IterInv

\* The first n elements of s are in the order of their keys.
Ascending(s, n) == \A i, j \in 1..n : i < j => s[i].key < s[j].key

\* How far the iteration of p has come: what it has visited, and what it copies.
Passed(p) == Len(walk[p].visited) + (IF At(p, "next") THEN 1 ELSE 0)

\* What p has passed is what it had to visit.
PassedInv(p) ==
    /\ Ascending(walk[p].visit, Len(walk[p].visit))
    /\ Passed(p) <= Len(walk[p].visit)
    /\ \A i \in 1..Len(walk[p].visited) : walk[p].visited[i] \in {walk[p].visit[i], NULL}
    /\ At(p, "next") => heap[op[p].elem] = walk[p].visit[Passed(p)]
    /\ At(p, "foreach") => ~Modified(iter[p])

\* What p has yet to visit are the elements from the one its iterator is at on.
AheadInv(p) ==
    LET visit == walk[p].visit
        ahead == (Passed(p) + 1)..Len(visit)
        e == iter[p].element
    IN  /\ e = NULL <=> Passed(p) = Len(visit)
        /\ e # NULL => e \in Elements /\ heap[e] = visit[Passed(p) + 1]
        /\ \A i \in ahead : \E a \in Elements : heap[a] = visit[i]
        /\ \A a \in Elements : e # NULL /\ heap[a].key >= heap[e].key => \E i \in ahead : heap[a] = visit[i]

\* As long as the version lets an iterator pass and no change is half done, it is
\* where it should be.
WalkOf(p) ==
    iter[p].open =>
        /\ PassedInv(p)
        /\ ~Modified(iter[p]) /\ ~Stage("linked") /\ ~Stage("deleted") => AheadInv(p)

Contents == [key : Keys, value : Values]

WalkInv ==
    /\ walk \in [Users -> [visit : Seq(Contents), visited : Seq(Contents \cup {NULL})]]
    /\ \A p \in Users : WalkOf(p)

=============================================================================
