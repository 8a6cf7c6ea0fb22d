-------------------------------- MODULE MCApi --------------------------------
(***************************************************************************)
(* What the users of the library meet, for TLC: the life of the library    *)
(* and of its processes (Capi), the elements of a table (Table) and the    *)
(* strings that keys and values are (Str).  The modules share no state, so *)
(* each of them is explored alone, while the others rest in their initial  *)
(* state.                                                                  *)
(***************************************************************************)
EXTENDS Capi, Table, TLC

CONSTANTS Strs, Buffers, MaxInt

VARIABLES
    part,           \* the one explored
    str, buffers    \* of Str

ST == INSTANCE Str WITH Texts <- {<<1>>, <<2>>, <<1, 2>>}, NaN <- 3, heap <- buffers

svars == <<str, buffers>>

ApiInit ==
    /\ part \in {"Capi", "Table", "Str"}
    /\ CapiInit /\ Init /\ ST!StrInit

ApiNext ==
    /\ UNCHANGED part
    /\ \/ part = "Capi" /\ CapiNext /\ UNCHANGED <<vars, svars>>
       \/ part = "Table" /\ Next /\ UNCHANGED <<allvars, svars>>
       \/ part = "Str" /\ ST!StrNext /\ UNCHANGED <<allvars, vars>>

ApiSpec == ApiInit /\ [][ApiNext]_<<part, allvars, vars, svars>>

\* The addresses of elements are interchangeable, and so are the values.
Symmetry == Permutations(Addrs) \cup Permutations(Values)

-----------------------------------------------------------------------------
(* The properties of Str; the module says more about them.                   *)

\* Every buffer has one string that will free it.
OneOwner == part = "Str" => ST!OneOwner

\* st_str_cmp is an order, but for NaNs.
CmpIsOrder == part = "Str" => ST!CmpIsOrder

=============================================================================
