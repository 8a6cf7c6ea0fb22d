--------------------------- MODULE MCGCDirect ---------------------------
(***************************************************************************)
(* GC used the way the tests of gc and table use it: a new table is added  *)
(* straight into any table the user holds, without being an element of a   *)
(* root first.                                                             *)
(***************************************************************************)
EXTENDS MCGC

\* add_sub_table of src/src/gc/test_gc.c.
DirectAdd ==
    /\ UserTurn
    /\ \E t \in Held, k \in Keys, c \in fresh : st_table_add_key_value(t, k, c)

DirectSpec == Init /\ [][Next \/ DirectAdd]_vars

\* When st_gc_run has nothing left to do, only tables that a root leads to
\* are left: clean_root_table of src/src/gc/test_gc.c runs the collector until
\* ST_NO_GC_DATA, frees the root and asserts that no table remains.
NothingRemains ==
    phase = "unlocked" /\ NoGcData => inited \subseteq Reachable \cup fresh

=============================================================================
