------------------------------- MODULE GC -------------------------------
(***************************************************************************)
(* The incremental mark and sweep collector of src/src/gc/gc.c together    *)
(* with the operations of src/src/table/table.c that create, link, unlink  *)
(* and free tables.                                                        *)
(*                                                                         *)
(* A table is an address of Tables; elements is the graph of TableGraph.   *)
(*                                                                         *)
(* Every operation that changes a reference or a queue runs under          *)
(* gc->lock, so it is one action, enabled while the lock is free           *)
(* (phase = "unlocked").  A call of st_gc_run holds the lock from its      *)
(* first action to the one that returns phase to "unlocked"; one action is *)
(* one iteration of one of its loops.  Creating a table takes no lock and  *)
(* interleaves with these iterations.                                      *)
(*                                                                         *)
(* The operators named Wrong... are the definition that follows them with  *)
(* one mistake in it; nothing uses them, they are put in its place to see  *)
(* that a property notices.                                                *)
(***************************************************************************)
EXTENDS Integers, FiniteSets, TableGraph

CONSTANT
    MaxRoots    \* ST_GC_MAX_ROOTS, the capacity of gc->roots

ASSUME MaxRootsAssumption == MaxRoots \in Nat

VARIABLES
    inited,             \* the tables that are allocated
    fresh,              \* allocated, known only to the C variable of the creator
    elements,           \* the references between tables
    roots,              \* gc->roots
    mark,               \* gc_head.mark of each table, relative to gc->round
    mark_queue,
    prev_sweep_queue,
    sweep_queue,
    remained_queue,
    garbage_queue,
    begin,              \* gc->begin: a round is under way
    phase,              \* the loop of st_gc_run that holds gc->lock
    api                 \* whether the users of the pool are still at work

heap == <<inited, fresh, elements, roots>>

sweep_lists == <<prev_sweep_queue, sweep_queue, remained_queue, garbage_queue>>

vars == <<heap, mark, mark_queue, sweep_lists, begin, phase, api>>

-----------------------------------------------------------------------------
(* Marks.  A mark is kept relative to gc->round, and every mark that is not  *)
(* above the round means "unknown", so all of those are the one value 0.     *)

st_gc_status_unknown == 0
st_gc_status_reachable == 1
st_gc_status_garbage == 2

st_gc_is_status_unknown(m) == m <= st_gc_status_unknown

\* The marks as seen after gc->round has grown by d.
Rebased(d) ==
    [t \in Tables |-> IF mark[t] > d THEN mark[t] - d ELSE st_gc_status_unknown]

\* The tables that the elements of t refer to now.
Children(t) == Refs(elements, t)

\* The tables whose gc_head.sweep_lnode is in some list.
SweepListed == prev_sweep_queue \cup sweep_queue \cup remained_queue \cup garbage_queue

-----------------------------------------------------------------------------
(* What users of the library can name.  st_capi_* hands a table out only     *)
(* after adding it to the proot of the calling process, and a proot is a     *)
(* root; so a user names a root or an element of a root.                     *)

Held == roots \cup UNION {Children(r) : r \in roots}

\* The tables that st_capi_copy_out_tvalue may put into a proot: a new one,
\* a root (st_capi_get_groot), or what a held table contains (st_capi_get).
Obtainable == fresh \cup Held \cup UNION {Children(h) : h \in Held}

\* A user stores into its proot what it obtains, and into a table it holds
\* what it holds.
MayAdd(t, c) == (t \in roots /\ c \in Obtainable) \/ (t \in Held /\ c \in Held)

UserTurn == phase = "unlocked" /\ api = "open"

-----------------------------------------------------------------------------
Init ==
    /\ inited = {}
    /\ fresh = {}
    /\ elements = [t \in Tables |-> NoElements]
    /\ roots = {}
    /\ mark = [t \in Tables |-> st_gc_status_unknown]
    /\ mark_queue = {}
    /\ prev_sweep_queue = {}
    /\ sweep_queue = {}
    /\ remained_queue = {}
    /\ garbage_queue = {}
    /\ begin = FALSE
    /\ phase = "unlocked"
    /\ api = "open"

-----------------------------------------------------------------------------
(* Queue insertions, made with gc->lock held.                                *)

WrongNoPushToMark(C) == mark_queue' = mark_queue

st_gc_push_to_mark(C) ==
    mark_queue' = mark_queue \cup {c \in C : mark[c] # st_gc_status_reachable}

\* An item already in a sweep list is taken out of it first.
st_gc_push_to_sweep(C) ==
    /\ prev_sweep_queue' = prev_sweep_queue \ C
    /\ sweep_queue' = sweep_queue \cup C
    /\ remained_queue' = remained_queue \ C
    /\ garbage_queue' = garbage_queue \ C

-----------------------------------------------------------------------------
(* Operations of the users.                                                  *)

\* st_gc_head_init reads gc->round without the lock; whatever round it sees
\* is not above the current one, and the new table is unknown.
st_table_new(t) ==
    /\ api = "open"
    /\ t \notin inited
    /\ inited' = inited \cup {t}
    /\ fresh' = fresh \cup {t}
    /\ mark' = [mark EXCEPT ![t] = st_gc_status_unknown]
    /\ UNCHANGED <<elements, roots, mark_queue, sweep_lists, begin, phase, api>>

\* The creator gives up a table it could not store anywhere.
st_table_free(t) ==
    /\ api = "open"
    /\ t \in fresh
    /\ inited' = inited \ {t}
    /\ fresh' = fresh \ {t}
    /\ UNCHANGED <<elements, roots, mark, mark_queue, sweep_lists, begin, phase, api>>

WrongSetForgetsOld(t, k, v) ==
    /\ elements' = [elements EXCEPT ![t][k] = v]
    /\ st_gc_push_to_mark({v} \ {NoTable})
    /\ fresh' = fresh \ {v}
    /\ UNCHANGED <<inited, roots, mark, sweep_lists, begin, phase, api>>

\* v is NoTable when the value stored is not a table.
st_table_set_key_value(t, k, v) ==
    /\ elements' = [elements EXCEPT ![t][k] = v]
    /\ st_gc_push_to_sweep({elements[t][k]} \ {NoTable})
    /\ st_gc_push_to_mark({v} \ {NoTable})
    /\ fresh' = fresh \ {v}
    /\ UNCHANGED <<inited, roots, mark, begin, phase, api>>

\* With a key that exists, ST_EXISTED: nothing changes.
st_table_add_key_value(t, k, c) ==
    /\ elements[t][k] = NoTable
    /\ elements' = [elements EXCEPT ![t][k] = c]
    /\ st_gc_push_to_mark({c})
    /\ fresh' = fresh \ {c}
    /\ UNCHANGED <<inited, roots, mark, sweep_lists, begin, phase, api>>

st_table_remove_key(t, k) ==
    /\ elements[t][k] # NoTable
    /\ elements' = [elements EXCEPT ![t][k] = NoTable]
    /\ st_gc_push_to_sweep({elements[t][k]})
    /\ UNCHANGED <<inited, fresh, roots, mark, mark_queue, begin, phase, api>>

st_table_remove_all(t) ==
    /\ elements' = [elements EXCEPT ![t] = NoElements]
    /\ st_gc_push_to_sweep(Children(t))
    /\ UNCHANGED <<inited, fresh, roots, mark, mark_queue, begin, phase, api>>

\* A root is added without touching the mark queue, even in mid-round.
st_gc_add_root(t) ==
    /\ Cardinality(roots) < MaxRoots
    /\ roots' = roots \cup {t}
    /\ fresh' = fresh \ {t}
    /\ UNCHANGED <<inited, elements, mark, mark_queue, sweep_lists, begin, phase, api>>

\* Called with do_free = 1, on a root that st_table_remove_all has emptied
\* (st_capi_remove_gc_root).
st_gc_remove_root(t) ==
    /\ Children(t) = {}
    /\ roots' = roots \ {t}
    /\ st_gc_push_to_sweep({t})
    /\ UNCHANGED <<inited, fresh, elements, mark, mark_queue, begin, phase, api>>

-----------------------------------------------------------------------------
(* st_gc_run.                                                                *)

WrongNoGcData == ~begin /\ sweep_queue = {}

\* Without a round under way and with nothing to sweep, ST_NO_GC_DATA.
NoGcData == ~begin /\ sweep_queue = {} /\ prev_sweep_queue = {}

\* The lock is taken; a new round starts from the roots.
st_gc_run ==
    /\ phase = "unlocked"
    /\ api \in {"open", "closed"}
    /\ ~NoGcData
    /\ mark_queue' = IF begin THEN mark_queue ELSE mark_queue \cup roots
    /\ begin' = TRUE
    /\ phase' = "mark"
    /\ UNCHANGED <<heap, mark, sweep_lists, api>>

st_gc_mark_reachable_tables(t) ==
    /\ phase = "mark"
    /\ t \in mark_queue
    /\ mark' = [mark EXCEPT ![t] = st_gc_status_reachable]
    /\ mark_queue' = (mark_queue \ {t})
                       \cup {c \in Children(t) \ {t} : st_gc_is_status_unknown(mark[c])}
    /\ UNCHANGED <<heap, sweep_lists, begin, phase, api>>

WrongNoFollowers(t) == {}

\* The children of t that follow it into the queue it was popped from.
st_gc_table_unknown_children_to_queue(t) ==
    {c \in Children(t) \ {t} : st_gc_is_status_unknown(mark[c]) /\ c \notin SweepListed}

\* What happens to the table popped from a sweep list: garbage already is
\* ST_STATE_INVALID and ends the call, unknown becomes garbage.
Judge(t) ==
    /\ mark' = IF st_gc_is_status_unknown(mark[t])
               THEN [mark EXCEPT ![t] = st_gc_status_garbage] ELSE mark
    /\ garbage_queue' = IF st_gc_is_status_unknown(mark[t])
                        THEN garbage_queue \cup {t} ELSE garbage_queue
    /\ phase' = IF mark[t] = st_gc_status_garbage THEN "unlocked" ELSE phase

Followers(t) == IF st_gc_is_status_unknown(mark[t])
                THEN st_gc_table_unknown_children_to_queue(t) ELSE {}

\* st_gc_mark_garbage_tables on prev_sweep_queue: a reachable table leaves
\* the sweep lists.
MarkGarbageInPrevSweep(t) ==
    /\ phase = "prev_sweep"
    /\ t \in prev_sweep_queue
    /\ Judge(t)
    /\ prev_sweep_queue' = (prev_sweep_queue \ {t}) \cup Followers(t)
    /\ UNCHANGED <<heap, mark_queue, sweep_queue, remained_queue, begin, api>>

\* st_gc_mark_garbage_tables on sweep_queue: a reachable table is left to the
\* next round.
MarkGarbageInSweep(t) ==
    /\ phase = "sweep"
    /\ t \in sweep_queue
    /\ Judge(t)
    /\ sweep_queue' = (sweep_queue \ {t}) \cup Followers(t)
    /\ remained_queue' = IF mark[t] = st_gc_status_reachable
                         THEN remained_queue \cup {t} ELSE remained_queue
    /\ UNCHANGED <<heap, mark_queue, prev_sweep_queue, begin, api>>

\* From one loop to the next, once the queue of the first is empty.
LoopDone(from, queue, to) ==
    /\ phase = from
    /\ queue = {}
    /\ phase' = to
    /\ UNCHANGED <<heap, mark, mark_queue, sweep_lists, begin, api>>

st_gc_mark_tables ==
    \/ LoopDone("mark", mark_queue, "prev_sweep")
    \/ LoopDone("prev_sweep", prev_sweep_queue, "sweep")
    \/ LoopDone("sweep", sweep_queue, "free")

\* st_table_remove_all_for_gc drops the references without pushing anything.
st_gc_free_tables(t) ==
    /\ phase = "free"
    /\ t \in garbage_queue
    /\ garbage_queue' = garbage_queue \ {t}
    /\ elements' = [elements EXCEPT ![t] = NoElements]
    /\ inited' = inited \ {t}
    /\ mark' = [mark EXCEPT ![t] = st_gc_status_unknown]
    /\ UNCHANGED <<fresh, roots, mark_queue, prev_sweep_queue, sweep_queue,
                   remained_queue, begin, phase, api>>

WrongRoundLosesRemained ==
    /\ phase = "free"
    /\ garbage_queue = {}
    /\ remained_queue' = {}
    /\ mark' = Rebased(4)
    /\ begin' = FALSE
    /\ phase' = "unlocked"
    /\ UNCHANGED <<heap, mark_queue, prev_sweep_queue, sweep_queue, garbage_queue, api>>

WrongRoundKeepsRemained ==
    /\ phase = "free"
    /\ garbage_queue = {}
    /\ mark' = Rebased(4)
    /\ begin' = FALSE
    /\ phase' = "unlocked"
    /\ UNCHANGED <<heap, mark_queue, sweep_lists, api>>

\* The last queue is empty: the round is over.
RoundDone ==
    /\ phase = "free"
    /\ garbage_queue = {}
    /\ prev_sweep_queue' = prev_sweep_queue \cup remained_queue
    /\ remained_queue' = {}
    /\ mark' = Rebased(4)
    /\ begin' = FALSE
    /\ phase' = "unlocked"
    /\ UNCHANGED <<heap, mark_queue, sweep_queue, garbage_queue, api>>

\* A loop has spent max_visit_cnt or max_free_cnt, which follow the measured
\* time of the previous call, or reading the clock has failed.
BudgetSpent ==
    /\ phase # "unlocked"
    /\ phase' = "unlocked"
    /\ UNCHANGED <<heap, mark, mark_queue, sweep_lists, begin, api>>

-----------------------------------------------------------------------------
(* The end of the pool.                                                      *)

\* st_capi_destroy has removed the roots and calls st_table_pool_destroy; from
\* here on only the loop of st_gc_destroy runs, calling st_gc_run until it
\* returns ST_NO_GC_DATA.
st_table_pool_destroy ==
    /\ UserTurn
    /\ roots = {} /\ fresh = {}
    /\ api' = "closed"
    /\ UNCHANGED <<heap, mark, mark_queue, sweep_lists, begin, phase>>

\* The check after that loop.
st_gc_destroy ==
    /\ phase = "unlocked"
    /\ api = "closed"
    /\ NoGcData
    /\ api' = IF mark_queue \cup SweepListed = {} THEN "destroyed" ELSE "ST_STATE_INVALID"
    /\ UNCHANGED <<heap, mark, mark_queue, sweep_lists, begin, phase>>

-----------------------------------------------------------------------------
UserStep ==
    /\ UserTurn
    /\ \/ \E t \in Held, k \in Keys, v \in Tables \cup {NoTable} :
            /\ v = NoTable \/ MayAdd(t, v)
            /\ st_table_set_key_value(t, k, v)
       \/ \E t \in Held, k \in Keys, c \in Tables :
            MayAdd(t, c) /\ st_table_add_key_value(t, k, c)
       \/ \E t \in Held, k \in Keys : st_table_remove_key(t, k)
       \/ \E t \in Held : st_table_remove_all(t)
       \/ \E t \in fresh : st_gc_add_root(t)
       \/ \E t \in roots : st_gc_remove_root(t)

GcVisit ==
    \/ \E t \in Tables : st_gc_mark_reachable_tables(t)
    \/ \E t \in Tables : MarkGarbageInPrevSweep(t)
    \/ \E t \in Tables : MarkGarbageInSweep(t)
    \/ \E t \in Tables : st_gc_free_tables(t)

Users ==
    \/ \E t \in Tables : st_table_new(t)
    \/ \E t \in Tables : st_table_free(t)
    \/ UserStep

Next ==
    \/ Users
    \/ st_gc_run
    \/ GcVisit
    \/ st_gc_mark_tables
    \/ RoundDone
    \/ BudgetSpent
    \/ st_table_pool_destroy
    \/ st_gc_destroy

Spec == Init /\ [][Next]_vars

(* A call of st_gc_run whose counters start at zero does not stop before it  *)
(* has visited a table or ended the round: max_visit_cnt and max_free_cnt    *)
(* are never below 1, and an empty queue spends nothing.  A call that finds  *)
(* the counters spent follows one that spent them.  So no loop of st_gc_run  *)
(* is cut short for ever while st_gc_run goes on being called.               *)
(*                                                                           *)
(* Who calls it again: the loop of st_gc_destroy does.  While the pool is in *)
(* use only st_table_run_gc_if_needed does, after an operation that changes  *)
(* a table, if run_gc_periodical is 0 and the address of the table lets it;  *)
(* nothing is assumed of that here.                                          *)
FairSpec ==
    /\ Spec
    /\ WF_vars(api = "closed" /\ st_gc_run)
    /\ SF_vars(GcVisit)
    /\ SF_vars(LoopDone("mark", mark_queue, "prev_sweep"))
    /\ SF_vars(LoopDone("prev_sweep", prev_sweep_queue, "sweep"))
    /\ SF_vars(LoopDone("sweep", sweep_queue, "free"))
    /\ SF_vars(RoundDone)
    /\ WF_vars(st_gc_destroy)

-----------------------------------------------------------------------------
(* Reachability.                                                             *)

Reachable == ReachFrom(elements, roots, Tables)

IsGarbage(t) == mark[t] = st_gc_status_garbage

Black == {t \in Tables : mark[t] = st_gc_status_reachable}

-----------------------------------------------------------------------------
(* Properties.                                                               *)

TypeOK ==
    /\ inited \subseteq Tables
    /\ fresh \subseteq inited
    /\ elements \in [Tables -> [Keys -> Tables \cup {NoTable}]]
    /\ roots \subseteq inited
    /\ mark \in [Tables -> {st_gc_status_unknown, st_gc_status_reachable,
                            st_gc_status_garbage}]
    /\ mark_queue \subseteq Tables
    /\ prev_sweep_queue \subseteq Tables
    /\ sweep_queue \subseteq Tables
    /\ remained_queue \subseteq Tables
    /\ garbage_queue \subseteq Tables
    /\ begin \in BOOLEAN
    /\ phase \in {"unlocked", "mark", "prev_sweep", "sweep", "free"}
    /\ api \in {"open", "closed", "destroyed", "ST_STATE_INVALID"}

\* A table some path from a root leads to is never freed and never judged
\* garbage, however the users' ADDs and DELs fall between the steps of a
\* round (the marking loops of gc.c and the pushes of table.c).
LiveTablesKept ==
    \A t \in Reachable : t \in inited /\ ~IsGarbage(t) /\ t \notin garbage_queue

\* A table that is not garbage refers only to tables that exist: whoever
\* walks its elements, st_gc_table_unknown_children_to_queue included, never
\* reads the gc_head of a freed table.
NoDanglingReference ==
    \A t \in inited : ~IsGarbage(t) => Children(t) \subseteq inited

\* The queues link only tables that exist, so no list runs through freed
\* memory, and the one sweep_lnode of a table is in at most one list.
QueueNodesValid ==
    /\ mark_queue \cup SweepListed \subseteq inited
    /\ prev_sweep_queue \cap sweep_queue = {}
    /\ (prev_sweep_queue \cup sweep_queue) \cap (remained_queue \cup garbage_queue) = {}
    /\ remained_queue \cap garbage_queue = {}

\* The tables marked garbage in this round are those of garbage_queue, so
\* st_gc_mark_garbage_tables never meets one in a sweep list and st_gc_run
\* never returns ST_STATE_INVALID.
GarbageIsQueued == \A t \in Tables : IsGarbage(t) <=> t \in garbage_queue

\* Nothing leaks: a table that is no longer reachable is found again by a
\* later sweep.  Every table that exists, is not the creator's secret and is
\* not judged yet lies on a path from a root or from a table in a sweep list.
NoLeak ==
    inited \ (fresh \cup garbage_queue)
      \subseteq ReachFrom(elements,
                          roots \cup prev_sweep_queue \cup sweep_queue \cup remained_queue,
                          Tables \ garbage_queue)

\* When the roots are gone and the collector has no more data, st_gc_destroy
\* finds every queue empty and every table freed; ST_STATE_INVALID is never
\* its answer.
DestroyIsClean ==
    /\ api # "ST_STATE_INVALID"
    /\ api = "destroyed" => inited = {}

\* Tables in prev_sweep_queue were not DEL-ed in this round: a reachable mark
\* then says that the table is on a path from a root or from a table whose
\* DEL is still to be judged, so dropping it from the queue loses nothing.
MarkedIsSupported ==
    Black \cup mark_queue
      \subseteq ReachFrom(elements, roots \cup sweep_queue \cup remained_queue,
                          roots \cup Black)

\* To the users the collector is invisible, but for tables that no path from
\* a root leads to and that cease to exist: TableHeap is implemented.
Heap == INSTANCE TableHeap

ImplementsTableHeap == Heap!Spec

\* st_gc_run goes on being called as long as it has something to do.
GcKeepsRunning == WF_vars(st_gc_run)

\* If the references between tables stop changing while operations on other
\* values go on calling st_gc_run (st_table_run_gc_if_needed), the collector
\* frees every table no root leads to and comes to rest with ST_NO_GC_DATA.
EventuallyCollected ==
    GcKeepsRunning /\ <>[][~Users]_vars
        => <>[](inited \subseteq Reachable \cup fresh /\ NoGcData)

\* st_table_pool_destroy terminates: its loop ends and finds the pool empty.
DestroyTerminates == api = "closed" ~> api = "destroyed"

-----------------------------------------------------------------------------
(* The invariant that the proofs rest on.                                    *)

PhaseOK ==
    /\ phase # "unlocked" => begin
    /\ phase \in {"prev_sweep", "sweep", "free"} => mark_queue = {}
    /\ phase \in {"sweep", "free"} => prev_sweep_queue = {}
    /\ phase = "free" => sweep_queue = {}
    /\ ~begin => remained_queue = {} /\ \A t \in Tables : mark[t] = st_gc_status_unknown

\* An address that is not in use carries nothing over to the next table.
FreedIsBlank ==
    \A t \in Tables \ inited : Children(t) = {} /\ mark[t] = st_gc_status_unknown

\* Only tables that are already garbage may still refer to the old table at
\* the address of t.
Unreferenced(t) == \A u \in Tables : t \in Children(u) => IsGarbage(u)

FreshIsPrivate ==
    \A t \in fresh :
        /\ t \notin roots \cup mark_queue \cup SweepListed
        /\ Children(t) = {}
        /\ mark[t] = st_gc_status_unknown
        /\ Unreferenced(t)

\* No path from a root, from a table marked reachable in this round or from
\* one about to be marked leads to garbage.
Kept == ReachFrom(elements, roots \cup Black \cup mark_queue, Tables)

KeptIsLive == \A t \in Kept : t \in inited /\ ~IsGarbage(t)

\* What a reachable table refers to is reachable or about to be.
TriColour == \A t \in Black : Children(t) \subseteq Black \cup mark_queue

\* A table waits for the next round because it was found reachable in this one.
RemainedIsMarked == remained_queue \subseteq Black

\* A root added in mid-round stays unknown; its children were pushed to the
\* mark queue when they were added, and no list or table leads to it.
LateRoot(r) ==
    /\ Children(r) \subseteq Black \cup mark_queue
    /\ r \notin SweepListed
    /\ Unreferenced(r)

RootsAreMarked == begin => \A r \in roots : r \in Black \cup mark_queue \/ LateRoot(r)

ClosedMeansNoRoots == api # "open" => roots = {} /\ fresh = {}

IInv ==
    /\ TypeOK
    /\ PhaseOK
    /\ FreedIsBlank
    /\ FreshIsPrivate
    /\ KeptIsLive
    /\ TriColour
    /\ RemainedIsMarked
    /\ RootsAreMarked
    /\ ClosedMeansNoRoots
    /\ GarbageIsQueued
    /\ QueueNodesValid
    /\ NoDanglingReference
    /\ MarkedIsSupported
    /\ NoLeak
    /\ DestroyIsClean

=============================================================================
