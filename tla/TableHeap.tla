----------------------------- MODULE TableHeap -----------------------------
(***************************************************************************)
(* What the tables and their collector promise to the users of the         *)
(* library: tables are created, linked and unlinked, and a table that no   *)
(* path from a root leads to may disappear at any moment.  No other table  *)
(* does, and nothing else changes behind the users' back.  There are no    *)
(* marks, queues, rounds or locks here.                                    *)
(***************************************************************************)
EXTENDS TableGraph

VARIABLES
    inited,     \* the tables that exist
    fresh,      \* those only their creator knows
    elements,   \* the references between tables
    roots

vars == <<inited, fresh, elements, roots>>

Reachable == ReachFrom(elements, roots, Tables)

Init ==
    /\ inited = {}
    /\ fresh = {}
    /\ elements = [t \in Tables |-> NoElements]
    /\ roots = {}

Create(t) ==
    /\ UNCHANGED <<elements, roots>>
    /\ t \notin inited
    /\ inited' = inited \cup {t}
    /\ fresh' = fresh \cup {t}

Discard(t) ==
    /\ UNCHANGED <<elements, roots>>
    /\ t \in fresh
    /\ inited' = inited \ {t}
    /\ fresh' = fresh \ {t}

\* Storing v, or NoTable to remove the key.
Store(t, k, v) ==
    /\ UNCHANGED <<inited, roots>>
    /\ fresh' = fresh \ {v}
    /\ elements' = [elements EXCEPT ![t][k] = v]
    /\ t \in Reachable /\ v \in fresh \cup Reachable \cup {NoTable}

Clear(t) ==
    /\ UNCHANGED <<inited, fresh, roots>>
    /\ elements' = [elements EXCEPT ![t] = NoElements]
    /\ t \in Reachable

AddRoot(t) ==
    /\ UNCHANGED <<inited, elements>>
    /\ roots' = roots \cup {t}
    /\ fresh' = fresh \ {t}

RemoveRoot(t) ==
    /\ UNCHANGED <<inited, fresh, elements>>
    /\ roots' = roots \ {t}

Collect(t) ==
    /\ UNCHANGED <<fresh, roots>>
    /\ t \in inited
    /\ inited' = inited \ {t}
    /\ elements' = [elements EXCEPT ![t] = NoElements]
    /\ t \notin Reachable \cup fresh

Next ==
    \/ \E t \in fresh : AddRoot(t) \/ Discard(t)
    \/ \E t \in roots : RemoveRoot(t)
    \/ \E t \in Tables : Create(t) \/ Clear(t) \/ Collect(t)
    \/ \E t \in Tables, k \in Keys, v \in Tables \cup {NoTable} : Store(t, k, v)

Spec == Init /\ [][Next]_vars

=============================================================================
