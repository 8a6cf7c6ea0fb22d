------------------------------ MODULE NodeSet ------------------------------
(***************************************************************************)
(* What a red-black tree of src/src/rbtree promises: it is a set of nodes, *)
(* to which a node is added, from which a node is taken, and in which a    *)
(* node takes the place of an equal one.                                   *)
(***************************************************************************)
CONSTANTS
    Nodes,
    cmp(_, _)   \* zero for equal nodes

VARIABLE members

Init == members = {}

Inserted(old, new) == \E n \in new \ old : n \in Nodes /\ new = old \cup {n}

Deleted(old, new) == \E n \in old \ new : new = old \ {n}

Replaced(old, new) ==
    \E original \in old \ new, replacement \in new \ old :
        /\ replacement \in Nodes
        /\ cmp(original, replacement) = 0
        /\ new = (old \ {original}) \cup {replacement}

Next ==
    LET old == members
        new == members'
    IN Inserted(old, new) \/ Deleted(old, new) \/ Replaced(old, new)

Spec == Init /\ [][Next]_members

=============================================================================
