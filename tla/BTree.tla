------------------------------- MODULE BTree -------------------------------
(***************************************************************************)
(* The B-tree of src/src/btree/btree.c: an ordered bag of pairs of a key   *)
(* and a value, which one caller at a time uses.                           *)
(*                                                                         *)
(* A node is a record of its entries and its children; a leaf has no       *)
(* children, and the level of a node is its distance to the leaves.  The   *)
(* code's loops go down one level per iteration; here they are recursive   *)
(* in the child.  Positions count from 1: entry i is between child i and   *)
(* child i + 1, and "left" is 0 where the code has -1.                     *)
(*                                                                         *)
(* A deletion from a tree whose only node is an empty leaf is left out:    *)
(* the code then reads a child that the memory of a leaf has no room for.  *)
(*                                                                         *)
(* The operators named Wrong... are the definition that follows them with  *)
(* a mistake in it.                                                        *)
(***************************************************************************)
EXTENDS Integers, SequencesExt, FiniteSetsExt

CONSTANTS
    Degree,         \* ST_BT_DEGREE, at least 2
    BKeys, BVals,   \* numbers
    Copies(_),      \* how often an entry may be in the tree
    MaxEntries,     \* bound: entries in the tree
    MaxRoom         \* bound: nodes the allocator can still give

MAX_N_KEYS == 2 * Degree - 1

MIN_N_KEYS == Degree - 1

Pairs == BKeys \X BVals

\* ST_BT_VAL_INVALID, which compares equal to every value.
VAL_INVALID == -1

NOT_FOUND == <<>>

\* Which of several equal entries, and whether the value is compared.
Flags == [FIRST : BOOLEAN, CMP_VAL : BOOLEAN]

VARIABLE bt         \* the root

Node(kvs, children) == [kvs |-> kvs, children |-> children]

IsLeaf(nd) == nd.children = <<>>

n_keys(nd) == Len(nd.kvs)

st_btu64_init == bt = Node(<<>>, <<>>)

-----------------------------------------------------------------------------
(* Searching one node.                                                       *)

Less(k1, v1, k2, v2) ==
    \/ k1 < k2
    \/ k1 = k2 /\ VAL_INVALID \notin {v1, v2} /\ v1 < v2

\* The loop of the two searches: Goes(i) says that entry i is on the left.
Bisect(Goes(_), n) ==
    LET RECURSIVE Between(_, _)
        Between(l, r) ==
            LET mid == (l + r) \div 2
            IN  IF r - l <= 1 THEN l
                ELSE IF Goes(mid) THEN Between(mid, r) ELSE Between(l, mid)
    IN  Between(0, n + 1)

st_btu64_binsearch_first(nd, k, v) ==
    Bisect(LAMBDA i : Less(nd.kvs[i][1], nd.kvs[i][2], k, v), n_keys(nd))

st_btu64_binsearch_last(nd, k, v) ==
    Bisect(LAMBDA i : ~Less(k, v, nd.kvs[i][1], nd.kvs[i][2]), n_keys(nd))

Match(kv, k, v) == kv[1] = k /\ v \in {VAL_INVALID, kv[2]}

\* The position of a match, 0 if there is none, and the entry left of it.
st_btu64_binsearch(nd, k, val, flag) ==
    LET v == IF flag.CMP_VAL THEN val ELSE VAL_INVALID
        left == IF flag.FIRST THEN st_btu64_binsearch_first(nd, k, v)
                              ELSE st_btu64_binsearch_last(nd, k, v)
        i == IF flag.FIRST THEN left + 1 ELSE left
    IN  [left |-> left,
         i |-> IF i \in 1..n_keys(nd) /\ Match(nd.kvs[i], k, v) THEN i ELSE 0]

-----------------------------------------------------------------------------
(* Changing one node.                                                        *)

\* Some of the children of a node; a leaf has none.
Part(children, from, to) ==
    IF children = <<>> THEN <<>> ELSE SubSeq(children, from, to)

\* A full child becomes two, and its middle entry one of the parent.
st_btu64_split_child(nd, c) ==
    LET child == nd.children[c]
        mid == MIN_N_KEYS + 1
        l == Node(SubSeq(child.kvs, 1, mid - 1), Part(child.children, 1, mid))
        r == Node(SubSeq(child.kvs, mid + 1, MAX_N_KEYS),
                  Part(child.children, mid + 1, Len(child.children)))
    IN  Node(InsertAt(nd.kvs, c, child.kvs[mid]),
             ReplaceAt(InsertAt(nd.children, c + 1, r), c, l))

st_btu64_canmerge(nd, at) ==
    /\ at \in 1..n_keys(nd)
    /\ n_keys(nd.children[at]) = MIN_N_KEYS
    /\ n_keys(nd.children[at + 1]) = MIN_N_KEYS

st_btu64_merge(nd, at) ==
    LET l == nd.children[at]
        r == nd.children[at + 1]
        merged == Node(Append(l.kvs, nd.kvs[at]) \o r.kvs,
                       l.children \o r.children)
    IN  Node(RemoveAt(nd.kvs, at),
             RemoveAt(ReplaceAt(nd.children, at, merged), at + 1))

CanRotateLeft(nd, i) ==
    /\ i \in 1..n_keys(nd)
    /\ n_keys(nd.children[i]) < MAX_N_KEYS
    /\ n_keys(nd.children[i + 1]) > MIN_N_KEYS

\* Entry i goes down to the left, the first entry of the right child up.
st_btu64_rotateleft(nd, i) ==
    LET l == nd.children[i]
        r == nd.children[i + 1]
        l2 == Node(Append(l.kvs, nd.kvs[i]), l.children \o Part(r.children, 1, 1))
        r2 == Node(Tail(r.kvs), Part(r.children, 2, Len(r.children)))
    IN  Node(ReplaceAt(nd.kvs, i, Head(r.kvs)),
             ReplaceAt(ReplaceAt(nd.children, i, l2), i + 1, r2))

CanRotateRight(nd, i) ==
    /\ i \in 1..n_keys(nd)
    /\ n_keys(nd.children[i]) > MIN_N_KEYS
    /\ n_keys(nd.children[i + 1]) < MAX_N_KEYS

st_btu64_rotateright(nd, i) ==
    LET l == nd.children[i]
        r == nd.children[i + 1]
        n == Len(l.children)
        l2 == Node(Front(l.kvs), Part(l.children, 1, n - 1))
        r2 == Node(<<nd.kvs[i]>> \o r.kvs, Part(l.children, n, n) \o r.children)
    IN  Node(ReplaceAt(nd.kvs, i, Last(l.kvs)),
             ReplaceAt(ReplaceAt(nd.children, i, l2), i + 1, r2))

WithChild(nd, c, child) == [nd EXCEPT !.children[c] = child]

-----------------------------------------------------------------------------
(* Going down the tree.                                                      *)

WrongGoesRight(k, v, kv) == k >= kv[1]

\* The half of a split child that an entry belongs to; kv separates the two.
GoesRight(k, v, kv) == ~Less(k, v, kv[1], kv[2])

\* The loop of st_btu64_add: a full child is split before it is entered, with
\* room for that many more nodes.  Without room the splits already made stay.
RECURSIVE AddBelow(_, _, _, _)
AddBelow(nd, k, v, room) ==
    LET left == st_btu64_binsearch_last(nd, k, v)
        full == n_keys(nd.children[left + 1]) = MAX_N_KEYS
        split == st_btu64_split_child(nd, left + 1)
        to == IF full THEN split ELSE nd
        c == IF full /\ GoesRight(k, v, split.kvs[left + 1]) THEN left + 2
             ELSE left + 1
        below == AddBelow(to.children[c], k, v, IF full THEN room - 1 ELSE room)
    IN  IF IsLeaf(nd)
        THEN [nd |-> Node(InsertAt(nd.kvs, left + 1, <<k, v>>), <<>>), ok |-> TRUE]
        ELSE IF full /\ room = 0
        THEN [nd |-> nd, ok |-> FALSE]
        ELSE [nd |-> WithChild(to, c, below.nd), ok |-> below.ok]

Add(k, v, room) ==
    LET full == n_keys(bt) = MAX_N_KEYS
    IN  IF full /\ room = 0 THEN [nd |-> bt, ok |-> FALSE]
        ELSE IF full THEN AddBelow(Node(<<>>, <<bt>>), k, v, room - 1)
        ELSE AddBelow(bt, k, v, room)

\* The child after entry i can give up an entry, or can be given one.
CanFill(nd, i) ==
    IF IsLeaf(nd) THEN TRUE
    ELSE \/ n_keys(nd.children[i + 1]) > MIN_N_KEYS
         \/ st_btu64_canmerge(nd, i + 1)
         \/ CanRotateLeft(nd, i + 1)

RECURSIVE st_btu64_delmin(_, _)
st_btu64_delmin(nd, i) ==
    LET to == CASE n_keys(nd.children[i + 1]) > MIN_N_KEYS -> nd
                [] st_btu64_canmerge(nd, i + 1) -> st_btu64_merge(nd, i + 1)
                [] OTHER -> st_btu64_rotateleft(nd, i + 1)
        below == st_btu64_delmin(to.children[i + 1], 0)
    IN  IF ~IsLeaf(nd)
        THEN [nd |-> WithChild(to, i + 1, below.nd), deleted |-> below.deleted]
        ELSE IF i < n_keys(nd)
        THEN [nd |-> Node(RemoveAt(nd.kvs, i + 1), <<>>), deleted |-> nd.kvs[i + 1]]
        ELSE [nd |-> nd, deleted |-> NOT_FOUND]

\* The parent and the position of its child to go to when an entry is not in
\* nd but may be below it: that child has more than the least number of entries.
Fill(nd, left) ==
    LET c == left + 1
    IN  CASE n_keys(nd.children[c]) > MIN_N_KEYS -> <<nd, c>>
          [] st_btu64_canmerge(nd, left) -> <<st_btu64_merge(nd, left), left>>
          [] st_btu64_canmerge(nd, c) -> <<st_btu64_merge(nd, c), c>>
          [] CanRotateLeft(nd, c) -> <<st_btu64_rotateleft(nd, c), c>>
          [] OTHER -> <<st_btu64_rotateright(nd, left), c>>

WrongPushDown(nd, i) ==
    IF st_btu64_canmerge(nd, i)
    THEN <<st_btu64_merge(nd, i), i, MIN_N_KEYS + 1>>
    ELSE IF CanRotateLeft(nd, i)
    THEN <<st_btu64_rotateleft(nd, i), i, n_keys(nd.children[i])>>
    ELSE <<st_btu64_rotateright(nd, i), i + 1, 1>>

\* The same when entry i is the one to delete: it is pushed down, and the
\* third part is its position in the child.
PushDown(nd, i) ==
    IF st_btu64_canmerge(nd, i)
    THEN <<st_btu64_merge(nd, i), i, MIN_N_KEYS + 1>>
    ELSE IF CanRotateLeft(nd, i)
    THEN <<st_btu64_rotateleft(nd, i), i, n_keys(nd.children[i]) + 1>>
    ELSE <<st_btu64_rotateright(nd, i), i + 1, 1>>

\* The loop of st_btu64_del; known is where the entry is, 0 if that is open.
RECURSIVE DelBelow(_, _, _, _, _)
DelBelow(nd, k, v, flag, known) ==
    LET rst == st_btu64_binsearch(nd, k, v, flag)
        ifound == IF known = 0 THEN rst.i ELSE known
        step == IF ifound = 0 THEN Append(Fill(nd, rst.left), 0) ELSE PushDown(nd, ifound)
        below == DelBelow(step[1].children[step[2]], k, v, flag, step[3])
        min == st_btu64_delmin(nd, ifound)
        bothFull == /\ ~st_btu64_canmerge(nd, ifound)
                    /\ ~CanRotateLeft(nd, ifound)
                    /\ ~CanRotateRight(nd, ifound)
    IN  CASE IsLeaf(nd) /\ ifound = 0 -> [nd |-> nd, deleted |-> NOT_FOUND]
          [] IsLeaf(nd) /\ ifound # 0 ->
                [nd |-> Node(RemoveAt(nd.kvs, ifound), <<>>),
                 deleted |-> nd.kvs[ifound]]
          [] ~IsLeaf(nd) /\ ifound # 0 /\ bothFull ->
                [nd |-> Node(ReplaceAt(min.nd.kvs, ifound, min.deleted), min.nd.children),
                 deleted |-> nd.kvs[ifound]]
          [] OTHER -> [nd |-> WithChild(step[1], step[2], below.nd),
                       deleted |-> below.deleted]

\* A root without entries gives way to its only child first.
Del(k, v, flag) ==
    DelBelow(IF n_keys(bt) = 0 THEN bt.children[1] ELSE bt, k, v, flag, 0)

WrongChildToSearch(rst, flag) == IF rst.i = 0 THEN rst.left + 1 ELSE rst.i + 1

\* Where an earlier, or a later, match is if there is one.
ChildToSearch(rst, flag) ==
    IF rst.i = 0 THEN rst.left + 1 ELSE IF flag.FIRST THEN rst.i ELSE rst.i + 1

RECURSIVE st_btu64_search(_, _, _, _)
st_btu64_search(nd, k, v, flag) ==
    LET rst == st_btu64_binsearch(nd, k, v, flag)
        c == ChildToSearch(rst, flag)
        here == IF rst.i = 0 THEN NOT_FOUND ELSE nd.kvs[rst.i]
        below == st_btu64_search(nd.children[c], k, v, flag)
    IN  IF IsLeaf(nd) \/ below = NOT_FOUND THEN here ELSE below

\* An iterator is the path to the entry returned last: nodes and positions.
st_btiter_init == <<[nd |-> bt, i |-> 0]>>

\* The iterator and the entry it returns.
RECURSIVE st_btiter_next(_)
st_btiter_next(it) ==
    LET Forward(path) ==
            LET n == Len(path)
                fwd == [path EXCEPT ![n].i = @ + 1]
            IN  IF fwd[n].i > n_keys(fwd[n].nd) THEN st_btiter_next(fwd)
                ELSE <<fwd, fwd[n].nd.kvs[fwd[n].i]>>
        top == Last(it)
    IN  CASE top.i > n_keys(top.nd) ->
                IF Len(it) = 1 THEN <<it, NOT_FOUND>> ELSE Forward(Front(it))
          [] top.i <= n_keys(top.nd) ->
                IF IsLeaf(top.nd) THEN Forward(it)
                ELSE st_btiter_next(
                        Append(it, [nd |-> top.nd.children[top.i + 1], i |-> 0]))

-----------------------------------------------------------------------------
(* The operations.                                                           *)

RECURSIVE InOrder(_)
InOrder(nd) ==
    IF IsLeaf(nd) THEN nd.kvs
    ELSE FoldLeft(LAMBDA s, i : Append(s, nd.kvs[i]) \o InOrder(nd.children[i + 1]),
                  InOrder(nd.children[1]), [i \in 1..n_keys(nd) |-> i])

Entries == InOrder(bt)

Count(s, kv) == Cardinality({i \in DOMAIN s : s[i] = kv})

MayAdd(kv) == Len(Entries) < MaxEntries /\ Count(Entries, kv) < Copies(kv)

st_btu64_add(k, v) ==
    /\ MayAdd(<<k, v>>)
    /\ \E room \in 0..MaxRoom : bt' = Add(k, v, room).nd

MayDel == ~(IsLeaf(bt) /\ n_keys(bt) = 0)

st_btu64_del(k, v, flag) == MayDel /\ bt' = Del(k, v, flag).nd

\* The code asserts that it can fill the child it goes to.
DelMin(i) == (CanFill(bt, i) = TRUE) /\ bt' = st_btu64_delmin(bt, i).nd

BTreeNext ==
    \/ \E kv \in Pairs : st_btu64_add(kv[1], kv[2])
    \/ \E kv \in Pairs, flag \in Flags : st_btu64_del(kv[1], kv[2], flag)
    \/ \E i \in 0..n_keys(bt) : DelMin(i)

BTreeSpec == st_btu64_init /\ [][BTreeNext]_bt

-----------------------------------------------------------------------------
(* The properties.                                                           *)

RECURSIVE Height(_)
Height(nd) == IF IsLeaf(nd) THEN 0 ELSE 1 + Height(nd.children[1])

RECURSIVE Balanced(_, _)
Balanced(nd, least) ==
    /\ n_keys(nd) \in least..MAX_N_KEYS
    /\ \/ IsLeaf(nd)
       \/ /\ Len(nd.children) = n_keys(nd) + 1
          /\ \A c \in DOMAIN nd.children :
                /\ Balanced(nd.children[c], MIN_N_KEYS)
                /\ Height(nd.children[c]) = Height(nd.children[1])

\* Splits, merges, rotations and the deletion of a successor leave a B-tree,
\* also when an insertion runs out of memory between two splits: all leaves are
\* on one level, every node but the root has at least the least number of
\* entries, none has too many, and the entries are in order.  The assertions of
\* st_btu64_merge, st_btu64_node_shiftleft and st_btu64_node_shiftright need it.
BTreeSound ==
    /\ Balanced(bt, 0)
    /\ LET s == Entries
       IN \A i \in 1..(Len(s) - 1) :
            ~Less(s[i + 1][1], s[i + 1][2], s[i][1], s[i][2])

Matches(k, v, flag) ==
    SelectSeq(Entries, LAMBDA kv : Match(kv, k, IF flag.CMP_VAL THEN v ELSE VAL_INVALID))

\* Less is what More is without one entry kv; nothing less if there is no kv.
IsWithout(less, more, kv) ==
    less = IF kv = NOT_FOUND THEN more ELSE RemoveFirst(more, kv)

\* The entry after entry i of the root.
Successor(i) ==
    LET below == IF IsLeaf(bt) THEN 0
                 ELSE MapThenSumSet(LAMBDA c : Len(InOrder(bt.children[c])), 1..i)
        n == below + i + 1
    IN  IF n <= Len(Entries) THEN Entries[n] ELSE NOT_FOUND

\* An operation does to the entries what it reports, whatever it does to the
\* nodes on its way down: st_btu64_del takes out one entry that matches, or
\* none if none matches; st_btu64_delmin the successor of the entry it is given;
\* and st_btu64_add puts one in, or nothing if it has no memory.
OperationsExact ==
    LET entries == Entries
    IN  /\ \A kv \in Pairs, flag \in Flags :
            MayDel =>
                LET r == Del(kv[1], kv[2], flag)
                    m == Matches(kv[1], kv[2], flag)
                IN  /\ IF m = <<>> THEN r.deleted = NOT_FOUND
                                   ELSE r.deleted \in ToSet(m)
                    /\ IsWithout(InOrder(r.nd), entries, r.deleted)
        /\ \A i \in 0..n_keys(bt) :
            CanFill(bt, i) =>
                LET r == st_btu64_delmin(bt, i)
                IN  /\ r.deleted = Successor(i)
                    /\ IsWithout(InOrder(r.nd), entries, r.deleted)
        /\ \A kv \in Pairs, room \in 0..MaxRoom :
            LET r == Add(kv[1], kv[2], room)
            IN  IsWithout(entries, InOrder(r.nd), IF r.ok THEN kv ELSE NOT_FOUND)

RECURSIVE Walk(_)
Walk(it) ==
    LET r == st_btiter_next(it)
    IN  IF r[2] = NOT_FOUND THEN <<>> ELSE <<r[2]>> \o Walk(r[1])

\* st_btu64_search finds the first or the last of the entries that match, also
\* when they are spread over several nodes, and none only if there is none; and
\* an iterator returns every entry once and in order.
LookupsExact ==
    /\ \A kv \in Pairs, flag \in Flags :
        LET m == Matches(kv[1], kv[2], flag)
        IN  st_btu64_search(bt, kv[1], kv[2], flag) =
                IF m = <<>> THEN NOT_FOUND
                ELSE IF flag.FIRST THEN Head(m) ELSE Last(m)
    /\ Walk(st_btiter_init) = Entries
=============================================================================
