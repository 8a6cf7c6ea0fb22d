------------------------------ MODULE MCMemory ------------------------------
(***************************************************************************)
(* The page pool and the containers of the library, for TLC: PagePool,     *)
(* FreeIndex, RBTree, BTree, Bitmap, Array and List.  The modules share no *)
(* state, so each of them is explored alone, while the others rest in      *)
(* their initial state.                                                    *)
(***************************************************************************)
EXTENDS PageCounts

CONSTANTS
    Masters, BlockSizes,
    NodeKeys, Twins,
    Degree, BKeys, BVals, MaxEntries, MaxRoom,
    WordBits, Words,
    Elements, MinSize, MaxTotal,
    Heads, LNodes,
    Nothing

VARIABLES
    part,                       \* the one explored
    sizes, lnode, cnt, filed,   \* of FreeIndex
    tree,                       \* of RBTree
    bt,                         \* of BTree
    bitmap,                     \* of Bitmap
    array,                      \* of Array
    links                       \* of List

FI == INSTANCE FreeIndex WITH tree <- sizes, free_pages <- filed, NULL <- Nothing

RB == INSTANCE RBTree WITH Keys <- NodeKeys

\* One entry can be in the B-tree twice.
CopiesOf(kv) == IF kv = <<2, 1>> THEN 2 ELSE 1

BT == INSTANCE BTree WITH Copies <- CopiesOf

BM == INSTANCE Bitmap

\* What is inserted into an array at once.
AtOnce == {<<>>, <<2, 1>>, <<1, 2, 3>>} \cup {<<e>> : e \in Elements}

AR == INSTANCE Array WITH Chunks <- AtOnce, NULL <- Nothing

LI == INSTANCE List WITH NULL <- Nothing

pvars == vars

ivars == <<sizes, lnode, cnt, filed>>

MemoryInit ==
    /\ part \in {"PagePool", "FreeIndex", "RBTree", "BTree", "Bitmap", "Array", "List"}
    /\ Init /\ FI!FreeIndexInit /\ RB!Init /\ BT!st_btu64_init /\ BM!BitmapInit
    /\ LI!ListInit
    /\ IF part = "Array" THEN AR!ArrayInit ELSE array = {}

MemoryNext ==
    /\ UNCHANGED part
    /\ \/ part = "PagePool" /\ Next
          /\ UNCHANGED <<ivars, tree, bt, bitmap, array, links>>
       \/ part = "FreeIndex" /\ FI!FreeIndexNext
          /\ UNCHANGED <<pvars, tree, bt, bitmap, array, links>>
       \/ part = "RBTree" /\ RB!Next
          /\ UNCHANGED <<pvars, ivars, bt, bitmap, array, links>>
       \/ part = "BTree" /\ BT!BTreeNext
          /\ UNCHANGED <<pvars, ivars, tree, bitmap, array, links>>
       \/ part = "Bitmap" /\ BM!BitmapNext
          /\ UNCHANGED <<pvars, ivars, tree, bt, array, links>>
       \/ part = "Array" /\ AR!ArrayNext
          /\ UNCHANGED <<pvars, ivars, tree, bt, bitmap, links>>
       \/ part = "List" /\ LI!ListNext
          /\ UNCHANGED <<pvars, ivars, tree, bt, bitmap, array>>

MemorySpec ==
    MemoryInit /\ [][MemoryNext]_<<part, pvars, ivars, tree, bt, bitmap, array, links>>

-----------------------------------------------------------------------------
(* The properties of the parts; their modules say more about them.           *)

\* The tree and the lists of free blocks are the sets PagePool has in place
\* of them.
IndexIsSets == part = "FreeIndex" => FI!IndexIsSets

\* The red-black tree is balanced after every operation.
RedBlack == part = "RBTree" => RB!RedBlack

\* Searches, iterations and single nodes agree on the members of the tree.
LookupsNearest == part = "RBTree" => RB!LookupsNearest

\* The red-black tree is a set of nodes.
ImplementsNodeSet == RB!ImplementsNodeSet

\* The B-tree is balanced and in order after every operation.
BTreeSound == part = "BTree" => BT!BTreeSound

\* Insertions and deletions of the B-tree do what they report.
OperationsExact == part = "BTree" => BT!OperationsExact

\* Searches and iterations of the B-tree see every entry.
LookupsExact == part = "BTree" => BT!LookupsExact

\* The functions on words of a bitmap agree with its bits.
BitmapExact == part = "Bitmap" => BM!BitmapExact

\* An array is the sequence its operations say it is.
ArrayExact == part = "Array" => AR!ArrayExact

\* Lists are rings, and an operation changes the sequence it names.
ListsExact == part = "List" => LI!ListsExact

=============================================================================
