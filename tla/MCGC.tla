------------------------------ MODULE MCGC ------------------------------
(***************************************************************************)
(* Model checking of GC on a few tables.                                   *)
(***************************************************************************)
EXTENDS GC, TLC

CONSTANT MaxReferences  \* bound on the references that exist at a time

\* The addresses and the keys are interchangeable.
Symmetry == Permutations(Tables) \cup Permutations(Keys)

FewReferences ==
    Cardinality({r \in Tables \X Keys : elements[r[1]][r[2]] # NoTable}) <= MaxReferences

=============================================================================
