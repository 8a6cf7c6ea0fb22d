---------------------------- MODULE MCGCLive ----------------------------
(***************************************************************************)
(* Liveness of GC, checked without symmetry on a smaller instance: one     *)
(* table is the root, with all the keys, the others use one key.           *)
(***************************************************************************)
EXTENDS MCGC

CONSTANTS
    RootTable,  \* the only table that becomes a root
    ChildKey    \* the only key used in the other tables

OneRoot ==
    /\ roots \subseteq {RootTable}
    /\ \A t \in Tables \ {RootTable}, k \in Keys \ {ChildKey} : elements[t][k] = NoTable

=============================================================================
