-------------------------------- MODULE Locks --------------------------------
(***************************************************************************)
(* The robust locks of src/src/robustlock/robustlock.c, and the order in   *)
(* which the operations of the library take them.                          *)
(*                                                                         *)
(* An operation is a program: a sequence of the steps                      *)
(*    <<"lock", l>>, <<"unlock", l>>   st_robustlock_lock and _unlock,     *)
(*    <<"maybe", n>>                   the next n steps are done or not.   *)
(* What is done between the steps does not matter here.  A loop over       *)
(* tables, elements or dead processes is done once or not at all: every    *)
(* iteration gives back the locks it has taken.  The lock "group" stands   *)
(* for the locks of all slab groups, of which no operation holds two.      *)
(*                                                                         *)
(* A process may die anywhere.  The locks it holds stay locked until       *)
(* someone wants them.                                                     *)
(*                                                                         *)
(* The operators named Wrong... are the definition that follows them with  *)
(* a mistake in it.                                                        *)
(***************************************************************************)
EXTENDS Integers, Sequences

CONSTANTS
    Procs,          \* the processes
    Mortal,         \* those that may die
    Tables,         \* tables that all processes use
    None            \* nobody

ASSUME LocksAssumption == None \notin Procs

\* The lock of the table proot of process p.
proot(p) == <<"proot", p>>

TableLock(t) == <<"table", t>>

SharedLocks == {TableLock(t) : t \in Tables}

ProotLocks == {proot(p) : p \in Procs}

TableLocks == SharedLocks \cup ProotLocks

Lib == <<"lib_state">>

Gc == <<"gc">>

Group == <<"group">>

PagesLock == <<"pages_lock">>

RegionsLock == <<"regions_lock">>

Rcb == <<"rcb">>

LockSet == TableLocks \cup {Lib, Gc, Group, PagesLock, RegionsLock, Rcb}

VARIABLES
    todo,       \* what a process has left to do of its operation
    owner,      \* who holds a lock
    dead        \* processes that have died

vars == <<todo, owner, dead>>

-----------------------------------------------------------------------------
(* Programs.                                                                 *)

With(l, prog) == <<<<"lock", l>>>> \o prog \o <<<<"unlock", l>>>>

Maybe(prog) == <<<<"maybe", Len(prog)>>>> \o prog

Skip == <<>>

\* The region control block when no free block is large enough, the array of
\* regions when it had a region left.
st_pagepool_alloc_pages == With(PagesLock, Maybe(With(Rcb, Skip) \o Maybe(With(RegionsLock, Skip))))

st_pagepool_free_pages == With(PagesLock, Maybe(With(RegionsLock, Skip) \o With(Rcb, Skip)))

st_slab_obj_alloc == With(Group, Maybe(st_pagepool_alloc_pages))

\* st_pagepool_addr_to_page looks the region up before the group is known.
st_slab_obj_free ==
    With(RegionsLock, Skip) \o Maybe(With(Group, Maybe(st_pagepool_free_pages)))

st_table_new == st_slab_obj_alloc

st_table_set_key_value(t) ==
    st_slab_obj_alloc \o Maybe(With(Gc, With(t, Skip)) \o Maybe(st_slab_obj_free))

\* With a value that is a table, gc->lock is taken too.
st_table_add_key_value(t, is_table) ==
    LET add == With(t, Skip)
    IN st_slab_obj_alloc
        \o Maybe((IF is_table THEN With(Gc, add) ELSE add) \o Maybe(st_slab_obj_free))

WrongRemoveKey(t) == With(t, With(Gc, Skip)) \o Maybe(st_slab_obj_free)

st_table_remove_key(t) == With(Gc, With(t, Skip)) \o Maybe(st_slab_obj_free)

st_table_remove_all(t) == With(Gc, With(t, Maybe(st_slab_obj_free)))

st_gc_add_root == With(Gc, Skip)

st_gc_remove_root == With(Gc, Skip)

\* The marking loops lock each table, the freeing loop returns its elements
\* under its lock and then the table.
st_gc_run(t) ==
    With(Gc, Maybe(With(t, Skip))
             \o Maybe(With(t, Maybe(st_slab_obj_free)) \o st_slab_obj_free))

\* A value that is a table is also put into the proot of the process.
st_capi_copy_out_tvalue(p, is_table) ==
    IF is_table THEN st_table_add_key_value(proot(p), TRUE) ELSE Skip

st_capi_new(p) ==
    st_table_new \o Maybe(st_capi_copy_out_tvalue(p, TRUE) \o Maybe(st_slab_obj_free))

st_capi_free(p) == st_table_remove_key(proot(p))

st_capi_do_get(p, t, is_table) == With(t, Maybe(st_capi_copy_out_tvalue(p, is_table)))

st_capi_next(p, t, is_table) == With(t, Maybe(st_capi_copy_out_tvalue(p, is_table)))

st_capi_init_iterator(p, t) == With(t, Maybe(st_capi_copy_out_tvalue(p, TRUE)))

st_capi_init_process_state ==
    st_slab_obj_alloc \o
    Maybe(st_table_new \o Maybe(st_gc_add_root \o With(Lib, Skip)))

WrongClean(q) ==
    With(Gc, With(Lib, Maybe(With(proot(q), Skip) \o st_slab_obj_free)))

\* The proot of a dead process q is emptied, no longer a root, and the process
\* state goes back to its slab.
st_capi_do_clean_dead_proot(q) ==
    With(Lib, Maybe(st_table_remove_all(proot(q)) \o st_gc_remove_root \o st_slab_obj_free))

\* What process p may call.  That q is dead is left out: it makes no difference
\* to the order of the locks.
Operations(p) == UNION {
    {st_table_set_key_value(t) : t \in SharedLocks},
    {st_table_add_key_value(t, b) : t \in SharedLocks, b \in BOOLEAN},
    {st_table_remove_key(t) : t \in SharedLocks},
    {st_table_remove_all(t) : t \in SharedLocks},
    {st_gc_run(t) : t \in TableLocks},
    {st_capi_new(p), st_capi_free(p), st_capi_init_process_state},
    {st_capi_do_get(p, t, b) : t \in SharedLocks, b \in BOOLEAN},
    {st_capi_next(p, t, b) : t \in SharedLocks, b \in BOOLEAN},
    {st_capi_init_iterator(p, t) : t \in SharedLocks},
    {st_capi_do_clean_dead_proot(q) : q \in Procs \ {p}}}

-----------------------------------------------------------------------------
Init ==
    /\ todo = [p \in Procs |-> Skip]
    /\ owner = [l \in LockSet |-> None]
    /\ dead = {}

\* The kind of the step process p is at, and its argument.
At(p, kind) == todo[p] # Skip /\ Head(todo[p])[1] = kind

Arg(p) == Head(todo[p])[2]

Call(p) ==
    /\ p \notin dead
    /\ todo[p] = Skip
    /\ \E prog \in Operations(p) : todo' = [todo EXCEPT ![p] = prog]
    /\ UNCHANGED <<owner, dead>>

WrongLock(p) ==
    /\ At(p, "lock")
    /\ owner[Arg(p)] \in dead \cup {None}
    /\ IF owner[Arg(p)] \in dead
       THEN todo' = [todo EXCEPT ![p] = Skip] /\ UNCHANGED owner
       ELSE /\ owner' = [owner EXCEPT ![Arg(p)] = p]
            /\ todo' = [todo EXCEPT ![p] = Tail(@)]
    /\ UNCHANGED dead

\* A lock whose owner has died is taken over (EOWNERDEAD) and made consistent.
st_robustlock_lock(p) ==
    /\ At(p, "lock")
    /\ owner[Arg(p)] \in dead \cup {None}
    /\ owner' = [owner EXCEPT ![Arg(p)] = p]
    /\ todo' = [todo EXCEPT ![p] = Tail(@)]
    /\ UNCHANGED dead

st_robustlock_unlock(p) ==
    /\ At(p, "unlock")
    /\ owner[Arg(p)] = p
    /\ owner' = [owner EXCEPT ![Arg(p)] = None]
    /\ todo' = [todo EXCEPT ![p] = Tail(@)]
    /\ UNCHANGED dead

Branch(p) ==
    /\ At(p, "maybe")
    /\ \E skipped \in {0, Arg(p)} :
        todo' = [todo EXCEPT ![p] = SubSeq(@, 2 + skipped, Len(@))]
    /\ UNCHANGED <<owner, dead>>

Work(p) == st_robustlock_lock(p) \/ st_robustlock_unlock(p) \/ Branch(p)

Die(p) ==
    /\ p \in Mortal \ dead
    /\ dead' = dead \cup {p}
    /\ todo' = [todo EXCEPT ![p] = Skip]
    /\ UNCHANGED owner

Next ==
    \E p \in Procs :
        \/ Call(p)
        \/ st_robustlock_lock(p)
        \/ st_robustlock_unlock(p)
        \/ Branch(p)
        \/ Die(p)

Spec == Init /\ [][Next]_vars

\* A process that can go on with its operation is scheduled now and then.  It
\* need not ever get a lock that others keep taking.
FairSpec == Spec /\ \A p \in Procs : WF_vars(Work(p))

-----------------------------------------------------------------------------
(* Properties.                                                               *)

\* Process p waits for a lock that process q, which is alive, holds.
WaitsFor(p, q) == At(p, "lock") /\ owner[Arg(p)] = q /\ q \notin dead

\* A set of processes, each of which waits for another one of the set.
Circle(S) == \A p \in S : \E q \in S : WaitsFor(p, q)

\* No processes wait for each other in a circle, and none for itself: the
\* locks cannot leave the library stuck, "robustlock can avoid dead lock".
NoCircularWait == \A S \in (SUBSET Procs) \ {{}} : ~Circle(S)

\* What is left of prog, from its step i on, gives back the lock of a proot.
LeavesProot(prog, i) == \E j \in i..Len(prog) : prog[j] \in {"unlock"} \X ProotLocks

\* Process p holds the lock of a table that it reads or iterates, and is to put
\* a table into a proot: a table that st_capi_do_get or st_capi_next has found,
\* or the table itself in st_capi_init_iterator.
CopiesOut(p) ==
    /\ \E l \in SharedLocks : owner[l] = p
    /\ LeavesProot(todo[p], 1)

\* The copies are all that is wrong with the locks: in every circle of
\* processes, of any length, one puts a table into its proot with the lock of
\* another table held.
CirclesCopyOut == \A S \in (SUBSET Procs) \ {{}} : Circle(S) => \E p \in S : CopiesOut(p)

\* The order in which locks are taken.
Rank(l) ==
    IF l = Lib THEN 1
    ELSE IF l = Gc THEN 2
    ELSE IF l \in TableLocks THEN 3
    ELSE IF l = Group THEN 4
    ELSE IF l = PagesLock THEN 5
    ELSE 6

\* The steps that are out of order: gc->lock, and then the lock of a proot,
\* under the lock of the table that is read.
Inverts(l, m) == l \in SharedLocks /\ m \in {Gc} \cup ProotLocks

\* A process that wants a lock holds only locks of lower rank: library, gc,
\* table, slab group, page pool, then regions or region control block.  The
\* one exception in the library is a table that is copied out under the lock
\* of another one.
LocksTakenInOrder ==
    \A p \in Procs : At(p, "lock") =>
        \A l \in LockSet : owner[l] = p =>
            Rank(l) < Rank(Arg(p)) \/ (Inverts(l, Arg(p)) /\ CopiesOut(p))

\* A lock that a process has taken into its death, and that another one waits
\* for, gets an owner that is alive: "even the died process hold the lock, the
\* lock will be recovered".
LocksRecovered ==
    \A l \in LockSet :
        (owner[l] \in dead /\ \E p \in Procs : At(p, "lock") /\ Arg(p) = l)
            ~> (owner[l] \notin dead)

=============================================================================
