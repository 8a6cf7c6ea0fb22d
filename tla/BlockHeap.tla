----------------------------- MODULE BlockHeap -----------------------------
(***************************************************************************)
(* What the users of the page pool rely on: they are given blocks of pages *)
(* that lie within one region and overlap no block in use, a block keeps   *)
(* its place and size until it is given back, and nothing else happens to  *)
(* the blocks in use.                                                      *)
(***************************************************************************)
EXTENDS Integers

CONSTANTS
    Regs,       \* the regions
    PerRegion   \* the pages of a region

VARIABLE blocks     \* the blocks in use: a pair of the first page and the size

Cover(b) == {<<b[1][1], i>> : i \in b[1][2]..(b[1][2] + b[2] - 1)}

AllBlocks ==
    {b \in (Regs \X (0..(PerRegion - 1))) \X (1..PerRegion) : b[1][2] + b[2] <= PerRegion}

Init == blocks = {}

Taken(old, new) ==
    \E b \in new \ old :
        /\ b \in AllBlocks
        /\ \A c \in old : Cover(b) \cap Cover(c) = {}
        /\ new = old \cup {b}

Given(old, new) == \E b \in old \ new : new = old \ {b}

Next ==
    LET old == blocks
        new == blocks'
    IN Taken(old, new) \/ Given(old, new)

Spec == Init /\ [][Next]_blocks

=============================================================================
