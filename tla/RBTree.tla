------------------------------- MODULE RBTree -------------------------------
(***************************************************************************)
(* The red-black tree of src/src/rbtree/rbtree.c, which holds the elements *)
(* of a table and the free blocks of the page pool.                        *)
(*                                                                         *)
(* The tree is a record of pointers.  An operation is one action, because  *)
(* its callers hold the lock of the table or of the page pool.  The code   *)
(* of the two sides is the same but for left and right, so it is written   *)
(* once, with the side as a parameter.                                     *)
(*                                                                         *)
(* The code leaves old pointers in the parent of the root and of the       *)
(* sentinel.  After an operation they are NULL here, and an operation that *)
(* followed one before it has written it would not be defined.             *)
(*                                                                         *)
(* The operators named Wrong... are the definition that follows them with  *)
(* a mistake in it.                                                        *)
(***************************************************************************)
EXTENDS Integers, SequencesExt

CONSTANTS
    Keys,       \* what nodes are compared by, numbers
    Twins       \* the keys that two nodes have

\* A node is a key and a number.
Nodes == (Keys \X {1}) \cup (Twins \X {2})

sentinel == <<"sentinel">>

NULL == <<>>

Pointers == Nodes \cup {sentinel, NULL}

Sides == {"left", "right"}

st_side_opposite(side) == IF side = "left" THEN "right" ELSE "left"

cmp(a, b) == IF a[1] < b[1] THEN -1 ELSE IF a[1] > b[1] THEN 1 ELSE 0

VARIABLE tree

st_rbtree_init ==
    [root |-> sentinel,
     branches |-> [side \in Sides |-> [n \in Nodes \cup {sentinel} |-> NULL]],
     parent |-> [n \in Nodes \cup {sentinel} |-> NULL],
     red |-> {}]

-----------------------------------------------------------------------------
(* Nodes of a tree T.                                                        *)

st_rbtree_red(T, n) == [T EXCEPT !.red = @ \cup {n}]

st_rbtree_black(T, n) == [T EXCEPT !.red = @ \ {n}]

\* The colour of n1 becomes that of n2.
st_rbtree_copy_color(T, n1, n2) ==
    IF n2 \in T.red THEN st_rbtree_red(T, n1) ELSE st_rbtree_black(T, n1)

\* The side of its parent that n is on.
SideOf(T, n) == IF n = T.branches["left"][T.parent[n]] THEN "left" ELSE "right"

st_rbtree_node_is_inited(T, n) ==
    ~(T.parent[n] = NULL /\ \A side \in Sides : T.branches[side][n] = NULL)

\* c is now where n was, below the parent of n or at the root.
InPlaceOf(T, n, c) ==
    IF n = T.root THEN [T EXCEPT !.root = c]
                  ELSE [T EXCEPT !.branches[SideOf(T, n)][T.parent[n]] = c]

\* The sentinel is not told of its parents.
Adopt(T, n, c) == IF c = sentinel THEN T ELSE [T EXCEPT !.parent[c] = n]

\* st_rbtree_delete leaves the colour as it is; it is written before it is read
\* again, so it is cleared here too.
Cleared(T, n) ==
    [T EXCEPT !.branches["left"][n] = NULL, !.branches["right"][n] = NULL,
              !.parent[n] = NULL, !.red = @ \ {n}]

\* st_rbtree_left_rotate and st_rbtree_right_rotate: node goes down on the
\* given side, its child on the other side takes its place.
Rotate(T, side, node) ==
    LET other == st_side_opposite(side)
        child == T.branches[other][node]
        inner == T.branches[side][child]
        moved == Adopt([T EXCEPT !.branches[other][node] = inner], node, inner)
        hung == InPlaceOf([moved EXCEPT !.parent[child] = T.parent[node]], node, child)
    IN [hung EXCEPT !.branches[side][child] = node, !.parent[node] = child]

RECURSIVE LastOn(_, _, _)
LastOn(T, side, n) ==
    IF T.branches[side][n] = sentinel THEN n ELSE LastOn(T, side, T.branches[side][n])

get_left_most(T, n) == LastOn(T, "left", n)

st_rbtree_left_most(T) == IF T.root = sentinel THEN NULL ELSE LastOn(T, "left", T.root)

st_rbtree_right_most(T) == IF T.root = sentinel THEN NULL ELSE LastOn(T, "right", T.root)

\* The tree after an operation.
Forget(T) == [T EXCEPT !.parent[T.root] = NULL, !.parent[sentinel] = NULL]

-----------------------------------------------------------------------------
(* Insertion.                                                                *)

\* Where the search for the place of node ends that begins at curr: at an equal
\* node, or at the side of a node where there is none.
RECURSIVE Place(_, _, _, _)
Place(T, node, curr, allow_equal) ==
    LET side == IF cmp(node, curr) < 0 THEN "left" ELSE "right"
    IN CASE cmp(node, curr) = 0 /\ ~allow_equal -> [found |-> TRUE, node |-> curr]
         [] T.branches[side][curr] = sentinel -> [found |-> FALSE, node |-> curr, side |-> side]
         [] OTHER -> Place(T, node, T.branches[side][curr], allow_equal)

\* The node becomes the black root, or a red leaf.
insert_node(T, node, place) ==
    LET leaf == [T EXCEPT !.branches["left"][node] = sentinel, !.branches["right"][node] = sentinel]
    IN IF T.root = sentinel
       THEN st_rbtree_black([leaf EXCEPT !.parent[node] = NULL, !.root = node], node)
       ELSE st_rbtree_red([leaf EXCEPT !.parent[node] = place.node,
                                       !.branches[place.side][place.node] = node], node)

WrongRedUncle(T, node, uncle) ==
    LET parent == T.parent[node]
    IN [tree |-> st_rbtree_black(st_rbtree_black(T, parent), uncle), node |-> T.parent[parent]]

\* Parent and uncle become black, and the grandparent red.
RedUncle(T, node, uncle) ==
    LET parent == T.parent[node]
        blacker == st_rbtree_black(st_rbtree_black(T, parent), uncle)
    IN [tree |-> st_rbtree_red(blacker, T.parent[parent]), node |-> T.parent[parent]]

\* An inner grandchild is first turned outwards; then the grandparent goes down.
BlackUncle(T, node, side) ==
    LET other == st_side_opposite(side)
        inner == SideOf(T, node) = other
        lower == IF inner THEN T.parent[node] ELSE node
        turned == IF inner THEN Rotate(T, side, lower) ELSE T
        parent == turned.parent[lower]
        grandparent == turned.parent[parent]
        coloured == st_rbtree_red(st_rbtree_black(turned, parent), grandparent)
    IN [tree |-> Rotate(coloured, other, grandparent), node |-> lower]

\* One iteration of the loop that makes the tree a red-black tree again.
InsertStep(T, node) ==
    LET parent == T.parent[node]
        side == SideOf(T, parent)
        uncle == T.branches[st_side_opposite(side)][T.parent[parent]]
    IN IF uncle \in T.red THEN RedUncle(T, node, uncle) ELSE BlackUncle(T, node, side)

RECURSIVE InsertFixup(_, _)
InsertFixup(T, node) ==
    IF node # T.root /\ T.parent[node] \in T.red
    THEN LET step == InsertStep(T, node) IN InsertFixup(step.tree, step.node)
    ELSE st_rbtree_black(T, T.root)

\* Callers insert nodes that are not in the tree.  A node that is equal to one
\* in the tree is left alone unless allow_equal.
st_rbtree_insert(node, allow_equal) ==
    /\ ~st_rbtree_node_is_inited(tree, node)
    /\ IF tree.root = sentinel
       THEN tree' = insert_node(tree, node, NULL)
       ELSE LET place == Place(tree, node, tree.root, allow_equal)
            IN /\ ~place.found
               /\ tree' = Forget(InsertFixup(insert_node(tree, node, place), node))

-----------------------------------------------------------------------------
(* Deletion.                                                                 *)

\* The successor of node takes its place, its colour and its children.
TakeOver(T, node, successor) ==
    LET copied == [T EXCEPT !.branches["left"][successor] = T.branches["left"][node],
                            !.branches["right"][successor] = T.branches["right"][node],
                            !.parent[successor] = T.parent[node]]
        hung == InPlaceOf(st_rbtree_copy_color(copied, successor, node), node, successor)
        left == Adopt(hung, successor, hung.branches["left"][successor])
    IN Adopt(left, successor, left.branches["right"][successor])

WrongOnlyChild(T, node, successor) == T.branches["right"][successor]

\* The one child that the successor may have; when node is its own successor,
\* it may be on either side.
OnlyChild(T, node, successor) ==
    IF successor = node /\ T.branches["left"][node] # sentinel
    THEN T.branches["left"][node]
    ELSE T.branches["right"][successor]

\* The tree without node, and the node at which a black node is missing, or
\* NULL.
delete_node(T, node) ==
    LET two == \A side \in Sides : T.branches[side][node] # sentinel
        successor == IF two THEN get_left_most(T, T.branches["right"][node]) ELSE node
        child == OnlyChild(T, node, successor)
        above == IF successor # node /\ T.parent[successor] = node THEN successor
                 ELSE T.parent[successor]
        cut == [InPlaceOf(T, successor, child) EXCEPT !.parent[child] = above]
    IN IF successor = T.root
       THEN [tree |-> Cleared(st_rbtree_black(InPlaceOf(T, successor, child), child), node),
             rebalance |-> NULL]
       ELSE [tree |-> Cleared(IF successor = node THEN cut ELSE TakeOver(cut, node, successor), node),
             rebalance |-> IF successor \in T.red THEN NULL ELSE child]

\* Both children of the brother are black.
BlackNephews(T, n, brother) ==
    [tree |-> st_rbtree_red(T, brother), node |-> T.parent[n]]

\* A child of the brother is red.  When it is the inner one, it is first turned
\* outwards.
RedNephew(T, n, side, brother) ==
    LET other == st_side_opposite(side)
        inner == T.branches[other][brother] \notin T.red
        coloured == st_rbtree_red(st_rbtree_black(T, T.branches[side][brother]), brother)
        turned == IF inner THEN Rotate(coloured, other, brother) ELSE T
        parent == turned.parent[n]
        upper == turned.branches[other][parent]
        painted == st_rbtree_black(st_rbtree_copy_color(turned, upper, parent), parent)
        done == Rotate(st_rbtree_black(painted, painted.branches[other][upper]), side, parent)
    IN [tree |-> done, node |-> done.root]

\* One iteration of the loop that makes the tree a red-black tree again.
DeleteStep(T, n) ==
    LET side == SideOf(T, n)
        other == st_side_opposite(side)
        parent == T.parent[n]
        red == T.branches[other][parent] \in T.red
        coloured == st_rbtree_red(st_rbtree_black(T, T.branches[other][parent]), parent)
        U == IF red THEN Rotate(coloured, side, parent) ELSE T
        brother == U.branches[other][U.parent[n]]
    IN IF \A s \in Sides : U.branches[s][brother] \notin U.red
       THEN BlackNephews(U, n, brother)
       ELSE RedNephew(U, n, side, brother)

RECURSIVE DeleteFixup(_, _)
DeleteFixup(T, n) ==
    IF n # T.root /\ n \notin T.red
    THEN LET step == DeleteStep(T, n) IN DeleteFixup(step.tree, step.node)
    ELSE st_rbtree_black(T, n)

\* Callers delete nodes that are in the tree.
st_rbtree_delete(node) ==
    /\ st_rbtree_node_is_inited(tree, node)
    /\ LET deleted == delete_node(tree, node)
       IN tree' = Forget(IF deleted.rebalance = NULL THEN deleted.tree
                         ELSE DeleteFixup(deleted.tree, deleted.rebalance))

\* The replacement takes over all that the original has, and the original is
\* cleared.  Callers replace nodes that are in the tree.
st_rbtree_replace(original, replacement) ==
    /\ tree.root # sentinel
    /\ st_rbtree_node_is_inited(tree, original)
    /\ ~st_rbtree_node_is_inited(tree, replacement)
    /\ cmp(original, replacement) = 0
    /\ tree' = Forget(Cleared(TakeOver(tree, original, replacement), original))

-----------------------------------------------------------------------------
Init == tree = st_rbtree_init

Next ==
    \/ \E node \in Nodes, allow_equal \in BOOLEAN : st_rbtree_insert(node, allow_equal)
    \/ \E node \in Nodes : st_rbtree_delete(node)
    \/ \E original, replacement \in Nodes : st_rbtree_replace(original, replacement)

Spec == Init /\ [][Next]_tree

-----------------------------------------------------------------------------
(* Searches.                                                                 *)

\* Whether an equal node will do, and the side to go on looking at.
st_side_has_eq(expected_side) == expected_side \in {"eq", "left_eq", "right_eq"}

st_side_strip_eq(expected_side) ==
    CASE expected_side \in {"left", "left_eq"} -> "left"
      [] expected_side \in {"right", "right_eq"} -> "right"
      [] OTHER -> "mid"

WrongSideForNext(c, expected_side) ==
    IF c <= 0 THEN "right" ELSE "left"

\* The branch to follow from a node whose comparison with the target gives c.
SideForNext(c, expected_side) ==
    IF c = 0 THEN st_side_strip_eq(expected_side) ELSE IF c < 0 THEN "right" ELSE "left"

\* ler holds the last node seen on each side of the target.
RECURSIVE SearchFrom(_, _, _, _, _)
SearchFrom(T, cur, target, expected_side, ler) ==
    LET c == cmp(cur, target)
        seen == IF c = 0 THEN ler ELSE [ler EXCEPT ![IF c < 0 THEN "left" ELSE "right"] = cur]
    IN CASE cur = sentinel -> ler[st_side_strip_eq(expected_side)]
         [] cur # sentinel /\ c = 0 /\ st_side_has_eq(expected_side) -> cur
         [] OTHER -> SearchFrom(T, T.branches[SideForNext(c, expected_side)][cur],
                                target, expected_side, seen)

st_rbtree_search(T, target, expected_side) ==
    SearchFrom(T, T.root, target, expected_side, [side \in Sides \cup {"mid"} |-> NULL])

\* The first ancestor that curr is on the left of.
RECURSIVE RightParent(_, _)
RightParent(T, curr) ==
    CASE curr = T.root -> NULL
      [] curr # T.root /\ SideOf(T, curr) = "left" -> T.parent[curr]
      [] OTHER -> RightParent(T, T.parent[curr])

st_rbtree_get_next(T, node) ==
    CASE ~st_rbtree_node_is_inited(T, node) \/ node = sentinel -> NULL
      [] st_rbtree_node_is_inited(T, node) /\ T.branches["right"][node] # sentinel ->
            get_left_most(T, T.branches["right"][node])
      [] OTHER -> RightParent(T, node)

-----------------------------------------------------------------------------
(* Properties.                                                               *)

\* The nodes below n, n included, from left to right.
RECURSIVE InOrder(_, _)
InOrder(T, n) ==
    IF n = sentinel THEN <<>>
    ELSE InOrder(T, T.branches["left"][n]) \o <<n>> \o InOrder(T, T.branches["right"][n])

Order == InOrder(tree, tree.root)

Members == Range(Order)

\* The sentinel stands for every missing child, and is always black.
TypeOK ==
    /\ tree.root \in Pointers \ {NULL}
    /\ tree.branches \in [Sides -> [Nodes \cup {sentinel} -> Pointers]]
    /\ tree.parent \in [Nodes \cup {sentinel} -> Pointers]
    /\ tree.red \subseteq Nodes

\* The number of black nodes on each way down from n, or -1 when they differ.
RECURSIVE BlackHeight(_)
BlackHeight(n) ==
    IF n = sentinel THEN 0
    ELSE LET left == BlackHeight(tree.branches["left"][n])
             right == BlackHeight(tree.branches["right"][n])
         IN IF left = -1 \/ left # right THEN -1 ELSE left + (IF n \in tree.red THEN 0 ELSE 1)

\* After every insertion, deletion and replacement the tree is balanced: the
\* root is black, a red node has black children, and all ways down pass the
\* same number of black nodes.
RedBlack ==
    /\ TypeOK
    /\ tree.root \notin tree.red
    /\ \A n \in Members \cap tree.red, side \in Sides : tree.branches[side][n] \notin tree.red
    /\ BlackHeight(tree.root) # -1

\* The nodes of the tree that st_rbtree_search may return: those nearest to the
\* target on the side asked for.
Nearest(members, target, expected_side) ==
    LET equal == {n \in members : cmp(n, target) = 0}
        side == st_side_strip_eq(expected_side)
        left == {n \in members : cmp(n, target) < 0}
        right == {n \in members : cmp(n, target) > 0}
        next == CASE side = "left" -> {n \in left : \A b \in left : cmp(b, n) <= 0}
                  [] side = "right" -> {n \in right : \A b \in right : cmp(b, n) >= 0}
                  [] OTHER -> {}
    IN IF st_side_has_eq(expected_side) /\ equal # {} THEN equal ELSE next

\* st_rbtree_search finds a node exactly when there is one, and the nearest:
\* tables find their keys, and the page pool the smallest block that will do.
SearchFindsNearest ==
    LET members == Members
    IN \A target \in Nodes, expected_side \in {"eq", "left", "right", "left_eq", "right_eq"} :
        LET found == st_rbtree_search(tree, target, expected_side)
            nearest == Nearest(members, target, expected_side)
        IN IF nearest = {} THEN found = NULL ELSE found \in nearest

\* An iteration from st_rbtree_left_most with st_rbtree_get_next, which climbs
\* along the parents, visits every node once, in the order of the keys, and
\* ends at st_rbtree_right_most.
NextInOrder ==
    LET order == Order
        last == Len(order)
        node(i) == IF i \in 1..last THEN order[i] ELSE NULL
    IN /\ st_rbtree_left_most(tree) = node(1)
       /\ st_rbtree_right_most(tree) = node(last)
       /\ \A i \in 1..last : st_rbtree_get_next(tree, node(i)) = node(i + 1)
       /\ \A i \in 1..(last - 1) : cmp(node(i), node(i + 1)) <= 0

\* A node counts as inited exactly while it is in the tree: the page pool tells
\* by it whether a block is in the tree or in a list, and the iterator of a
\* table whether its element is still there.
InitedWhileMember ==
    {n \in Nodes : st_rbtree_node_is_inited(tree, n)} = Members

\* After any insertions, deletions and replacements a search, an iteration and
\* the test of a single node see the same members: the search the nearest one,
\* the iteration all of them in order, and the test exactly those.
LookupsNearest == SearchFindsNearest /\ NextInOrder /\ InitedWhileMember

\* The tree is a set of nodes; no operation loses or repeats another node.
Set == INSTANCE NodeSet WITH members <- Members

ImplementsNodeSet == Set!Spec

=============================================================================
