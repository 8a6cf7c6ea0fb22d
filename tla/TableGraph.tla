----------------------------- MODULE TableGraph -----------------------------
(***************************************************************************)
(* The references between tables, and reachability along them.             *)
(*                                                                         *)
(* Only the elements whose value is a table matter to the collector: in a  *)
(* graph E, E[t][k] is the table stored under key k of table t, and        *)
(* NoTable when the key is absent or holds a value of another type.        *)
(***************************************************************************)

CONSTANTS
    Tables,     \* the addresses the slab can hand out for a table
    Keys,       \* the keys of a table
    NoTable     \* what a key without a table value refers to

ASSUME NoTableAssumption == NoTable \notin Tables

Graphs == [Tables -> [Keys -> Tables \cup {NoTable}]]

NoElements == [k \in Keys |-> NoTable]

\* The tables that the elements of t refer to.
Refs(E, t) == {E[t][k] : k \in Keys} \ {NoTable}

\* C contains what its members that are in via refer to.
ClosedUnder(E, C, via) == \A u \in C \cap via : Refs(E, u) \subseteq C

\* The tables that paths from X lead to, going on only from members of via:
\* the least set that contains X and is closed.
ReachFrom(E, X, via) ==
    LET closed == {C \in SUBSET Tables : X \subseteq C /\ ClosedUnder(E, C, via)}
    IN  {t \in Tables : \A C \in closed : t \in C}

=============================================================================
