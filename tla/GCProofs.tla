----------------------------- MODULE GCProofs -----------------------------
(***************************************************************************)
(* Proofs about GC for any set of tables and keys.                         *)
(***************************************************************************)
EXTENDS GC, TLAPS

-----------------------------------------------------------------------------
(* Reachability in a graph of tables.                                        *)

\* References lead from tables to tables.
LEMMA RefsInTables ==
    ASSUME NEW E \in Graphs, NEW u \in Tables
    PROVE  Refs(E, u) \subseteq Tables
  BY Zenon DEF Refs, Graphs

\* The starting points are reached.
LEMMA ReachContains ==
    ASSUME NEW E, NEW X \in SUBSET Tables, NEW via
    PROVE  X \subseteq ReachFrom(E, X, via)
  BY Zenon DEF ReachFrom

\* What is reached lies in every closed set around the starting points.
LEMMA ReachLeast ==
    ASSUME NEW E, NEW X, NEW via, NEW C \in SUBSET Tables,
           X \subseteq C, ClosedUnder(E, C, via)
    PROVE  ReachFrom(E, X, via) \subseteq C
  BY Zenon DEF ReachFrom

\* A set that lies in every closed set around the starting points is reached.
LEMMA ReachGreatest ==
    ASSUME NEW E, NEW X, NEW via, NEW P \in SUBSET Tables,
           \A C \in SUBSET Tables : X \subseteq C /\ ClosedUnder(E, C, via) => P \subseteq C
    PROVE  P \subseteq ReachFrom(E, X, via)
  BY Zenon DEF ReachFrom

\* What is reached is closed.
LEMMA ReachClosed ==
    ASSUME NEW E \in Graphs, NEW X, NEW via
    PROVE  /\ ReachFrom(E, X, via) \in SUBSET Tables
           /\ ClosedUnder(E, ReachFrom(E, X, via), via)
<1>1. ReachFrom(E, X, via) \in SUBSET Tables
  BY Zenon DEF ReachFrom
<1>2. ASSUME NEW u \in ReachFrom(E, X, via) \cap via, NEW c \in Refs(E, u)
      PROVE  c \in ReachFrom(E, X, via)
  <2>1. u \in Tables /\ c \in Tables
    BY <1>1, RefsInTables, Zenon
  <2>2. ASSUME NEW C \in SUBSET Tables, X \subseteq C, ClosedUnder(E, C, via)
        PROVE  c \in C
    <3>1. u \in C
      BY <2>2, Zenon DEF ReachFrom
    <3> QED
      BY <3>1, <2>2, Zenon DEF ClosedUnder
  <2> QED
    BY <2>1, <2>2, Zenon DEF ReachFrom
<1> QED
  BY <1>1, <1>2, Zenon DEF ClosedUnder

-----------------------------------------------------------------------------
(* What users can name is reachable.                                         *)

\* Every set of the collector is a set of tables.
LEMMA InTables ==
    ASSUME IInv
    PROVE  /\ fresh \subseteq inited /\ roots \subseteq inited /\ inited \subseteq Tables
           /\ mark_queue \subseteq Tables /\ Black \subseteq Tables
           /\ SweepListed \subseteq Tables
  BY Zenon DEF IInv, TypeOK, Black, SweepListed

\* The elements of all tables are a graph.
LEMMA ElementsAreAGraph == TypeOK => elements \in Graphs
  BY Zenon DEF TypeOK, Graphs

\* What st_capi_* lets a user name is reachable or new.
LEMMA HeldIsReachable ==
    ASSUME TypeOK
    PROVE  /\ Reachable \in SUBSET Tables
           /\ roots \subseteq Reachable
           /\ \A u \in Reachable : Children(u) \subseteq Reachable
           /\ Held \subseteq Reachable
           /\ Obtainable \subseteq fresh \cup Reachable
<1>1. elements \in Graphs /\ roots \in SUBSET Tables
  BY ElementsAreAGraph, Zenon DEF TypeOK
<1>2. Reachable \in SUBSET Tables /\ ClosedUnder(elements, Reachable, Tables)
  BY <1>1, ReachClosed, Zenon DEF Reachable
<1>3. roots \subseteq Reachable
  BY <1>1, ReachContains, Zenon DEF Reachable
<1>4. \A u \in Reachable : Children(u) \subseteq Reachable
  BY <1>2, Zenon DEF ClosedUnder, Children
<1>5. Held \subseteq Reachable
  BY <1>3, <1>4, Zenon DEF Held
<1> QED
  BY <1>2, <1>3, <1>4, <1>5, Zenon DEF Obtainable

\* While the sweep lists are judged and freed, the reachable tables are among
\* the roots and the marked ones.
LEMMA ReachableIsMarked ==
    ASSUME TypeOK, TriColour, RootsAreMarked, begin, mark_queue = {}
    PROVE  /\ Reachable \subseteq roots \cup Black
           /\ \A r \in roots : r \in Black \/ LateRoot(r)
           /\ \A u \in roots \cup Black : Children(u) \subseteq Black
<1>1. \A r \in roots : r \in Black \/ LateRoot(r)
  BY Zenon DEF RootsAreMarked
<1>2. \A u \in roots \cup Black : Children(u) \subseteq Black
  BY <1>1, Zenon DEF TriColour, LateRoot
<1>3. roots \cup Black \in SUBSET Tables
  BY Zenon DEF Black, TypeOK
<1>4. ClosedUnder(elements, roots \cup Black, Tables)
  BY <1>2, Zenon DEF ClosedUnder, Children
<1>5. Reachable \subseteq roots \cup Black
  BY <1>3, <1>4, ReachLeast, Zenon DEF Reachable
<1> QED
  BY <1>1, <1>2, <1>5, Zenon

\* The tables that are kept alive form a closed set around the roots, the
\* reachable tables and the mark queue.
LEMMA KeptIsClosed ==
    ASSUME TypeOK
    PROVE  /\ Kept \in SUBSET Tables
           /\ roots \cup Black \cup mark_queue \subseteq Kept
           /\ \A u \in Kept : Children(u) \subseteq Kept
           /\ Reachable \subseteq Kept
<1>1. elements \in Graphs /\ roots \cup Black \cup mark_queue \in SUBSET Tables
  BY ElementsAreAGraph, Zenon DEF TypeOK, Black
<1>2. Kept \in SUBSET Tables /\ ClosedUnder(elements, Kept, Tables)
  BY <1>1, ReachClosed, Zenon DEF Kept
<1>3. roots \cup Black \cup mark_queue \subseteq Kept
  BY <1>1, ReachContains, Zenon DEF Kept
<1>4. \A u \in Kept : Children(u) \subseteq Kept
  BY <1>2, Zenon DEF ClosedUnder, Children
<1>5. Reachable \subseteq Kept
  BY <1>2, <1>3, ReachLeast, Zenon DEF Reachable
<1> QED
  BY <1>2, <1>3, <1>4, <1>5, Zenon

-----------------------------------------------------------------------------
(* The inductive invariant holds initially.                                  *)

\* A pool as st_table_pool_init leaves it satisfies the invariant.
LEMMA InitIInv == Init => IInv
<1> SUFFICES ASSUME Init PROVE IInv
  BY Zenon
<1>1. /\ TypeOK
      /\ Black = {}
      /\ SweepListed = {}
      /\ \A t \in Tables : Children(t) = {}
  <2>1. TypeOK
    BY ZenonT(30) DEF Init, TypeOK, NoElements
  <2>2. Black = {} /\ SweepListed = {}
    BY DEF Init, Black, SweepListed, st_gc_status_unknown, st_gc_status_reachable
  <2>3. ASSUME NEW t \in Tables PROVE Children(t) = {}
    <3>1. \A k \in Keys : elements[t][k] = NoTable
      BY Zenon DEF Init, NoElements
    <3> QED
      BY <3>1, Zenon DEF Children, Refs
  <2> QED
    BY <2>1, <2>2, <2>3, Zenon
<1>2. PhaseOK /\ FreedIsBlank /\ FreshIsPrivate /\ TriColour /\ RemainedIsMarked
      /\ RootsAreMarked /\ ClosedMeansNoRoots
  BY <1>1, Zenon DEF Init, PhaseOK, FreedIsBlank, FreshIsPrivate, TriColour, RemainedIsMarked,
              RootsAreMarked, ClosedMeansNoRoots
<1>3. GarbageIsQueued /\ QueueNodesValid /\ NoDanglingReference /\ DestroyIsClean
  BY <1>1 DEF Init, GarbageIsQueued, QueueNodesValid, NoDanglingReference, DestroyIsClean,
              IsGarbage, st_gc_status_unknown, st_gc_status_garbage
<1>4. Kept = {}
  <2>1. ClosedUnder(elements, {}, Tables)
    BY Zenon DEF ClosedUnder
  <2> QED
    BY <1>1, <2>1, ReachLeast, Zenon DEF Init, Kept
<1>5. KeptIsLive
  BY <1>4, Zenon DEF KeptIsLive
<1>6. MarkedIsSupported /\ NoLeak
  BY <1>1, Zenon DEF Init, MarkedIsSupported, NoLeak
<1> QED
  BY <1>1, <1>2, <1>3, <1>5, <1>6, Zenon DEF IInv

-----------------------------------------------------------------------------
(* Steps that leave the references, the roots and the marks alone.           *)

\* Everything of IInv that does not speak of phase, begin or api.
CoreInv ==
    /\ FreedIsBlank
    /\ FreshIsPrivate
    /\ KeptIsLive
    /\ TriColour
    /\ RemainedIsMarked
    /\ GarbageIsQueued
    /\ QueueNodesValid
    /\ NoDanglingReference
    /\ MarkedIsSupported
    /\ NoLeak

\* A step that changes only phase, begin or api keeps what the invariant says
\* of the tables.
LEMMA SameGraph ==
    ASSUME IInv, UNCHANGED <<heap, mark, mark_queue, sweep_lists>>
    PROVE  /\ CoreInv'
           /\ UNCHANGED <<Black, SweepListed, Reachable>>
           /\ \A r \in roots : LateRoot(r) => LateRoot(r)'
  BY ZenonT(30) DEF CoreInv, IInv, heap, sweep_lists, FreedIsBlank, FreshIsPrivate,
         KeptIsLive, Kept, TriColour, RemainedIsMarked, GarbageIsQueued,
         QueueNodesValid, NoDanglingReference, MarkedIsSupported, NoLeak,
         Unreferenced, LateRoot, Black, IsGarbage, Children, Reachable, SweepListed

\* A step that changes nothing keeps the invariant.
LEMMA StutterIInv ==
    ASSUME IInv, UNCHANGED vars
    PROVE  IInv'
<1>1. UNCHANGED <<heap, mark, mark_queue, sweep_lists>> /\ UNCHANGED <<begin, phase, api>>
  BY Zenon DEF vars
<1>2. TypeOK' /\ PhaseOK'
  <2>1. PhaseOK'
    BY <1>1, Zenon DEF IInv, PhaseOK, heap, sweep_lists
  <2>2. TypeOK'
    BY <1>1, Zenon DEF IInv, TypeOK, heap, sweep_lists
  <2> QED
    BY <2>1, <2>2, Zenon
<1>3. RootsAreMarked' /\ ClosedMeansNoRoots' /\ DestroyIsClean'
  BY <1>1, SameGraph, Zenon DEF IInv, RootsAreMarked, ClosedMeansNoRoots, DestroyIsClean, heap
<1> QED
  BY <1>1, <1>2, <1>3, SameGraph, Zenon DEF IInv, CoreInv

\* st_gc_mark_tables, going from one loop to the next, keeps the invariant.
LEMMA LoopDoneIInv ==
    ASSUME IInv, st_gc_mark_tables
    PROVE  IInv'
<1>1. UNCHANGED <<heap, mark, mark_queue, sweep_lists, begin, api>>
  BY Zenon DEF st_gc_mark_tables, LoopDone
<1>2. TypeOK'
  BY <1>1, Zenon DEF IInv, TypeOK, heap, sweep_lists, st_gc_mark_tables, LoopDone
<1>3. PhaseOK'
  BY <1>1, Zenon DEF IInv, PhaseOK, heap, sweep_lists, st_gc_mark_tables, LoopDone
<1>4. RootsAreMarked' /\ ClosedMeansNoRoots' /\ DestroyIsClean'
  BY <1>1, SameGraph, Zenon DEF IInv, RootsAreMarked, ClosedMeansNoRoots, DestroyIsClean, heap
<1> QED
  BY <1>1, <1>2, <1>3, <1>4, SameGraph, Zenon DEF IInv, CoreInv

\* st_gc_run, stopping when its visits are spent, keeps the invariant.
LEMMA BudgetSpentIInv ==
    ASSUME IInv, BudgetSpent
    PROVE  IInv'
<1>1. UNCHANGED <<heap, mark, mark_queue, sweep_lists, begin, api>>
  BY Zenon DEF BudgetSpent
<1>2. TypeOK' /\ PhaseOK'
  <2>1. PhaseOK'
    BY <1>1 DEF IInv, PhaseOK, heap, sweep_lists, BudgetSpent
  <2>2. TypeOK'
    BY <1>1, Zenon DEF IInv, TypeOK, heap, sweep_lists, BudgetSpent
  <2> QED
    BY <2>1, <2>2, Zenon
<1>3. RootsAreMarked' /\ ClosedMeansNoRoots' /\ DestroyIsClean'
  BY <1>1, SameGraph DEF IInv, RootsAreMarked, ClosedMeansNoRoots, DestroyIsClean, heap
<1> QED
  BY <1>1, <1>2, <1>3, SameGraph, Zenon DEF IInv, CoreInv

\* The start of st_table_pool_destroy keeps the invariant.
LEMMA PoolDestroyIInv ==
    ASSUME IInv, st_table_pool_destroy
    PROVE  IInv'
<1>1. UNCHANGED <<heap, mark, mark_queue, sweep_lists, begin, phase>>
  BY Zenon DEF st_table_pool_destroy
<1>2. TypeOK' /\ PhaseOK'
  <2>1. PhaseOK'
    BY <1>1 DEF IInv, PhaseOK, heap, sweep_lists, st_table_pool_destroy
  <2>2. TypeOK'
    BY <1>1, Zenon DEF IInv, TypeOK, heap, sweep_lists, st_table_pool_destroy
  <2> QED
    BY <2>1, <2>2
<1>3. RootsAreMarked' /\ ClosedMeansNoRoots' /\ DestroyIsClean'
  BY <1>1, SameGraph, Zenon
     DEF IInv, RootsAreMarked, ClosedMeansNoRoots, DestroyIsClean, heap, st_table_pool_destroy
<1> QED
  BY <1>1, <1>2, <1>3, SameGraph DEF IInv, CoreInv

\* st_gc_destroy keeps the invariant: with no root and nothing to sweep, no
\* table can exist and no queue can be occupied.
LEMMA GcDestroyIInv ==
    ASSUME IInv, st_gc_destroy
    PROVE  IInv'
<1>1. UNCHANGED <<heap, mark, mark_queue, sweep_lists, begin, phase>>
  BY Zenon DEF st_gc_destroy
<1>2. /\ roots = {} /\ fresh = {} /\ sweep_queue = {} /\ prev_sweep_queue = {}
      /\ remained_queue = {}
      /\ \A t \in Tables : mark[t] = st_gc_status_unknown
  BY Zenon DEF IInv, ClosedMeansNoRoots, PhaseOK, st_gc_destroy, NoGcData
<1>3. Black = {} /\ garbage_queue = {}
  BY <1>2 DEF IInv, TypeOK, Black, GarbageIsQueued, IsGarbage, st_gc_status_unknown,
              st_gc_status_reachable, st_gc_status_garbage
<1>4. \A via : ReachFrom(elements, {}, via) = {}
  <2>1. \A via : ClosedUnder(elements, {}, via)
    BY Zenon DEF ClosedUnder
  <2> QED
    BY <2>1, ReachLeast, Zenon
<1>5. mark_queue = {}
  BY <1>2, <1>3, <1>4 DEF IInv, MarkedIsSupported
<1>6. inited = {}
  BY <1>2, <1>3, <1>4, Zenon DEF IInv, NoLeak
<1>7. api' = "destroyed"
  BY <1>2, <1>3, <1>5, Zenon DEF st_gc_destroy, SweepListed
<1>8. TypeOK' /\ PhaseOK'
  <2>1. PhaseOK'
    BY <1>1, <1>7, Zenon DEF IInv, PhaseOK, heap, sweep_lists
  <2>2. TypeOK'
    BY <1>1, <1>7, Zenon DEF IInv, TypeOK, heap, sweep_lists
  <2> QED
    BY <2>1, <2>2
<1>9. RootsAreMarked' /\ ClosedMeansNoRoots' /\ DestroyIsClean'
  <2>1. ClosedMeansNoRoots' /\ DestroyIsClean'
    BY <1>1, <1>2, <1>6, <1>7, Zenon DEF IInv, ClosedMeansNoRoots, DestroyIsClean, heap
  <2>2. RootsAreMarked'
    BY <1>1, <1>2, <1>6, <1>7, InTables, Zenon
       DEF IInv, RootsAreMarked, LateRoot, Unreferenced, heap
  <2> QED
    BY <2>1, <2>2, Zenon
<1> QED
  BY <1>1, <1>8, <1>9, SameGraph DEF IInv, CoreInv

-----------------------------------------------------------------------------
(* The steps of st_gc_run.                                                   *)

\* The start of st_gc_run keeps the invariant.
LEMMA GcRunIInv ==
    ASSUME IInv, st_gc_run
    PROVE  IInv'
<1>1. /\ UNCHANGED <<inited, fresh, elements, roots, mark, prev_sweep_queue, sweep_queue,
                     remained_queue, garbage_queue, api>>
      /\ phase' = "mark" /\ begin' = TRUE
      /\ mark_queue \subseteq mark_queue'
      /\ mark_queue' \subseteq mark_queue \cup roots
      /\ begin => mark_queue' = mark_queue
      /\ ~begin => roots \subseteq mark_queue'
  BY Zenon DEF st_gc_run, heap, sweep_lists
<1>2. TypeOK'
  BY <1>1, Zenon DEF IInv, TypeOK
<1>3. /\ \A t \in Tables : Children(t)' = Children(t) /\ IsGarbage(t)' = IsGarbage(t)
      /\ Black' = Black /\ SweepListed' = SweepListed
  BY <1>1, Zenon DEF Children, IsGarbage, Black, SweepListed
<1>4. PhaseOK' /\ FreedIsBlank' /\ GarbageIsQueued' /\ NoDanglingReference' /\ NoLeak'
      /\ ClosedMeansNoRoots' /\ DestroyIsClean'
  <2>1. PhaseOK' /\ ClosedMeansNoRoots' /\ DestroyIsClean'
    BY <1>1, <1>3, Zenon DEF IInv, PhaseOK, ClosedMeansNoRoots, DestroyIsClean
  <2>2. FreedIsBlank'
    BY <1>1, <1>3, InTables, Zenon DEF IInv, TypeOK, FreedIsBlank
  <2>3. GarbageIsQueued'
    BY <1>1, <1>3, InTables, Zenon DEF IInv, GarbageIsQueued
  <2>4. NoDanglingReference'
    BY <1>1, <1>3, InTables, Zenon DEF IInv, NoDanglingReference
  <2>5. NoLeak'
    BY <1>1, <1>3, ZenonT(30) DEF IInv, NoLeak
  <2> QED
    BY <2>1, <2>2, <2>3, <2>4, <2>5, Zenon
<1>5. QueueNodesValid' /\ FreshIsPrivate' /\ TriColour' /\ RemainedIsMarked'
  <2>1. QueueNodesValid'
    BY <1>1, <1>3, InTables, Zenon DEF IInv, QueueNodesValid
  <2>2. FreshIsPrivate'
    BY <1>1, <1>3, InTables, Zenon DEF IInv, TypeOK, FreshIsPrivate, Unreferenced
  <2>3. TriColour'
    BY <1>1, <1>3, InTables, Zenon DEF IInv, TriColour
  <2>4. RemainedIsMarked'
    BY <1>1, <1>3, InTables, Zenon DEF IInv, RemainedIsMarked
  <2> QED
    BY <2>1, <2>2, <2>3, <2>4, Zenon
<1>6. RootsAreMarked'
  BY <1>1, <1>3, InTables DEF IInv, RootsAreMarked, LateRoot, Unreferenced
<1>7. KeptIsLive'
  <2>1. (roots \cup Black \cup mark_queue)' \subseteq Kept
    BY <1>1, <1>3, KeptIsClosed, Zenon DEF IInv
  <2>2. Kept \in SUBSET Tables /\ ClosedUnder(elements', Kept, Tables)
    BY <1>1, KeptIsClosed, Zenon DEF IInv, ClosedUnder, Children
  <2>3. Kept' \subseteq Kept
    BY <2>1, <2>2, ReachLeast, Zenon DEF Kept
  <2> QED
    BY <1>1, <1>3, <2>2, <2>3, Zenon DEF IInv, KeptIsLive
<1>8. MarkedIsSupported'
  <2>1. roots \subseteq ReachFrom(elements, roots \cup sweep_queue \cup remained_queue,
                                  roots \cup Black)
    BY ReachContains, Zenon DEF IInv, TypeOK
  <2> QED
    BY <1>1, <1>3, <2>1, Zenon DEF IInv, MarkedIsSupported
<1> QED
  BY <1>2, <1>4, <1>5, <1>6, <1>7, <1>8, Zenon DEF IInv

\* The end of a round, where gc->round outgrows all marks, keeps the invariant.
LEMMA RoundDoneIInv ==
    ASSUME IInv, RoundDone
    PROVE  IInv'
<1>1. /\ UNCHANGED <<inited, fresh, elements, roots, mark_queue, sweep_queue, garbage_queue,
                     api>>
      /\ phase' = "unlocked" /\ begin' = FALSE
      /\ garbage_queue = {} /\ mark_queue = {} /\ sweep_queue = {}
      /\ prev_sweep_queue' = prev_sweep_queue \cup remained_queue
      /\ remained_queue' = {}
  BY Zenon DEF IInv, RoundDone, heap, PhaseOK
<1>2. mark' = [t \in Tables |-> st_gc_status_unknown]
  BY DEF IInv, TypeOK, RoundDone, Rebased, st_gc_status_unknown, st_gc_status_reachable,
         st_gc_status_garbage
<1>3. TypeOK'
  BY <1>1, <1>2, ZenonT(30) DEF IInv, TypeOK
<1>4. /\ \A t \in Tables : Children(t)' = Children(t)
      /\ \A t \in Tables : ~IsGarbage(t) /\ ~IsGarbage(t)'
      /\ Black' = {} /\ SweepListed' = SweepListed
  BY <1>1, <1>2 DEF IInv, GarbageIsQueued, Children, IsGarbage, Black, SweepListed,
                    st_gc_status_unknown, st_gc_status_reachable, st_gc_status_garbage
<1>5. PhaseOK' /\ FreedIsBlank' /\ GarbageIsQueued' /\ ClosedMeansNoRoots' /\ DestroyIsClean'
      /\ TriColour' /\ RemainedIsMarked' /\ RootsAreMarked' /\ MarkedIsSupported'
  <2>1. PhaseOK' /\ ClosedMeansNoRoots' /\ DestroyIsClean'
    BY <1>1, <1>2, <1>4, Zenon DEF IInv, PhaseOK, ClosedMeansNoRoots, DestroyIsClean
  <2>2. FreedIsBlank'
    BY <1>1, <1>2, <1>4, InTables, Zenon DEF IInv, TypeOK, FreedIsBlank
  <2>3. GarbageIsQueued'
    BY <1>1, <1>2, <1>4, InTables, Zenon DEF IInv, GarbageIsQueued
  <2>4. TriColour'
    BY <1>1, <1>2, <1>4, InTables, Zenon DEF IInv, TriColour
  <2>5. RemainedIsMarked'
    BY <1>1, <1>2, <1>4, InTables, Zenon DEF IInv, RemainedIsMarked
  <2>6. RootsAreMarked'
    BY <1>1, <1>2, <1>4, InTables, Zenon DEF IInv, RootsAreMarked, LateRoot, Unreferenced
  <2>7. MarkedIsSupported'
    BY <1>1, <1>2, <1>4, InTables, Zenon DEF IInv, MarkedIsSupported
  <2> QED
    BY <2>1, <2>2, <2>3, <2>4, <2>5, <2>6, <2>7, Zenon
<1>6. QueueNodesValid' /\ FreshIsPrivate' /\ NoDanglingReference'
  <2>1. QueueNodesValid'
    BY <1>1, <1>2, <1>4, InTables DEF IInv, QueueNodesValid
  <2>2. FreshIsPrivate'
    BY <1>1, <1>2, <1>4, InTables, SMTT(30) DEF IInv, TypeOK, FreshIsPrivate, Unreferenced
  <2>3. NoDanglingReference'
    BY <1>1, <1>2, <1>4, InTables, Zenon DEF IInv, NoDanglingReference
  <2> QED
    BY <2>1, <2>2, <2>3, Zenon
<1>7. KeptIsLive'
  <2>1. (roots \cup Black \cup mark_queue)' \subseteq Kept
    BY <1>1, <1>4, KeptIsClosed, Zenon DEF IInv
  <2>2. Kept \in SUBSET Tables /\ ClosedUnder(elements', Kept, Tables)
    BY <1>1, KeptIsClosed, Zenon DEF IInv, ClosedUnder, Children
  <2>3. Kept' \subseteq Kept
    BY <2>1, <2>2, ReachLeast DEF Kept
  <2> QED
    BY <1>1, <1>4, <2>2, <2>3, Zenon DEF IInv, KeptIsLive
<1>8. NoLeak'
  <2>1. roots' \cup prev_sweep_queue' \cup sweep_queue' \cup remained_queue'
          = roots \cup prev_sweep_queue \cup sweep_queue \cup remained_queue
    BY <1>1, Zenon
  <2> QED
    BY <1>1, <2>1, Zenon DEF IInv, NoLeak
<1> QED
  BY <1>3, <1>5, <1>6, <1>7, <1>8, Zenon DEF IInv

\* One iteration of st_gc_mark_reachable_tables keeps the invariant.
LEMMA MarkReachableIInv ==
    ASSUME IInv, NEW t \in Tables, st_gc_mark_reachable_tables(t)
    PROVE  IInv'
<1> DEFINE New == {c \in Children(t) \ {t} : st_gc_is_status_unknown(mark[c])}
<1>1. /\ UNCHANGED <<inited, fresh, elements, roots, prev_sweep_queue, sweep_queue,
                     remained_queue, garbage_queue, begin, phase, api>>
      /\ mark' = [mark EXCEPT ![t] = st_gc_status_reachable]
      /\ mark_queue' = (mark_queue \ {t}) \cup New
      /\ phase = "mark" /\ t \in mark_queue
  BY Zenon DEF st_gc_mark_reachable_tables, heap, sweep_lists
<1>2. /\ t \in Kept /\ t \in inited /\ ~IsGarbage(t) /\ t \notin fresh
      /\ Children(t) \subseteq Kept
      /\ \A c \in Children(t) : c \in Tables /\ c \in inited /\ ~IsGarbage(c) /\ c \notin fresh
  <2>1. t \in Kept /\ Children(t) \subseteq Kept /\ Kept \in SUBSET Tables
    BY <1>1, KeptIsClosed, Zenon DEF IInv
  <2> QED
    BY <1>1, <2>1, Zenon DEF IInv, KeptIsLive, FreshIsPrivate, Unreferenced
<1> HIDE DEF New
<1>3. /\ \A u \in Tables : Children(u)' = Children(u) /\ IsGarbage(u)' = IsGarbage(u)
      /\ Black' = Black \cup {t} /\ SweepListed' = SweepListed
  BY <1>1, <1>2 DEF IInv, TypeOK, Children, IsGarbage, Black, SweepListed,
                    st_gc_status_reachable, st_gc_status_garbage
<1>4. /\ New \subseteq Children(t)
      /\ Children(t) \subseteq Black' \cup New
  BY <1>2, <1>3 DEF New, IInv, TypeOK, Black, IsGarbage, st_gc_is_status_unknown,
                    st_gc_status_unknown, st_gc_status_reachable, st_gc_status_garbage
<1>5. Black \cup mark_queue \subseteq Black' \cup mark_queue'
  BY <1>1, <1>3, Zenon
<1>6. TypeOK' /\ PhaseOK'
  <2>1. PhaseOK'
    BY <1>1, <1>2, <1>4, Zenon DEF IInv, PhaseOK
  <2>2. TypeOK'
    BY <1>1, <1>2, <1>4, Zenon DEF IInv, TypeOK
  <2> QED
    BY <2>1, <2>2, Zenon
<1>7. FreedIsBlank' /\ GarbageIsQueued' /\ NoDanglingReference' /\ NoLeak'
      /\ ClosedMeansNoRoots' /\ DestroyIsClean'
  <2>1. FreedIsBlank'
    BY <1>1, <1>2, <1>3, InTables, Zenon DEF IInv, TypeOK, FreedIsBlank
  <2>2. GarbageIsQueued' /\ NoDanglingReference'
    <3>1. GarbageIsQueued'
      BY <1>1, <1>3, InTables, Zenon DEF IInv, GarbageIsQueued
    <3>2. NoDanglingReference'
      BY <1>1, <1>3, InTables, Zenon DEF IInv, NoDanglingReference
    <3> QED
      BY <3>1, <3>2, Zenon
  <2>3. NoLeak' /\ ClosedMeansNoRoots' /\ DestroyIsClean'
    <3>1. ClosedMeansNoRoots' /\ DestroyIsClean'
      BY <1>1, Zenon DEF IInv, ClosedMeansNoRoots, DestroyIsClean
    <3>2. NoLeak'
      BY <1>1, ZenonT(30) DEF IInv, NoLeak
    <3> QED
      BY <3>1, <3>2, Zenon
  <2> QED
    BY <2>1, <2>2, <2>3, Zenon
<1>8. FreshIsPrivate'
  BY <1>1, <1>2, <1>3, <1>4, InTables DEF IInv, TypeOK, FreshIsPrivate, Unreferenced
<1>9. QueueNodesValid'
  BY <1>1, <1>2, <1>3, <1>4, Zenon DEF IInv, QueueNodesValid
<1>10. TriColour' /\ RemainedIsMarked'
  <2>1. TriColour'
    BY <1>1, <1>3, <1>4, <1>5, InTables DEF IInv, TriColour
  <2>2. RemainedIsMarked'
    BY <1>1, <1>3, <1>4, <1>5, InTables, Zenon DEF IInv, RemainedIsMarked
  <2> QED
    BY <2>1, <2>2, Zenon
<1>11. RootsAreMarked'
  BY <1>1, <1>3, <1>5, InTables DEF IInv, RootsAreMarked, LateRoot, Unreferenced
<1>12. KeptIsLive'
  <2>1. (roots \cup Black \cup mark_queue)' \subseteq Kept
    BY <1>1, <1>2, <1>3, <1>4, KeptIsClosed, Zenon DEF IInv
  <2>2. Kept \in SUBSET Tables /\ ClosedUnder(elements', Kept, Tables)
    BY <1>1, KeptIsClosed, Zenon DEF IInv, ClosedUnder, Children
  <2>3. Kept' \subseteq Kept
    BY <2>1, <2>2, ReachLeast, Zenon DEF Kept
  <2> QED
    BY <1>1, <1>3, <2>2, <2>3, Zenon DEF IInv, KeptIsLive
<1>13. MarkedIsSupported'
  <2> DEFINE X == roots \cup sweep_queue \cup remained_queue
  <2>1. ASSUME NEW C \in SUBSET Tables, X \subseteq C,
               ClosedUnder(elements, C, roots \cup Black \cup {t})
        PROVE  (Black \cup {t}) \cup (mark_queue \cup New) \subseteq C
    <3>1. ClosedUnder(elements, C, roots \cup Black)
      BY <2>1, Zenon DEF ClosedUnder
    <3>2. Black \cup mark_queue \subseteq C
      BY <3>1, <2>1, ReachLeast, Zenon DEF IInv, MarkedIsSupported
    <3>3. Children(t) \subseteq C
      BY <3>2, <2>1, <1>1, Zenon DEF ClosedUnder, Children
    <3> QED
      BY <3>2, <3>3, <1>1, <1>4, Zenon
  <2>2. (Black \cup {t}) \cup (mark_queue \cup New) \in SUBSET Tables
    BY <1>2, <1>4, Zenon DEF IInv, TypeOK, Black
  <2>3. (Black \cup {t}) \cup (mark_queue \cup New)
            \subseteq ReachFrom(elements, X, roots \cup Black \cup {t})
    <3> DEFINE P == (Black \cup {t}) \cup (mark_queue \cup New)
               via == roots \cup Black \cup {t}
    <3>1. /\ P \in SUBSET Tables
          /\ \A C \in SUBSET Tables :
               X \subseteq C /\ ClosedUnder(elements, C, via) => P \subseteq C
      BY <2>1, <2>2, Zenon
    <3> HIDE DEF P, X, via
    <3>2. P \subseteq ReachFrom(elements, X, via)
      BY <3>1, ReachGreatest, Zenon
    <3> QED
      BY <3>2, Zenon DEF P, X, via
  <2>4. X' = X /\ elements' = elements /\ (roots \cup Black)' = roots \cup Black \cup {t}
        /\ (Black \cup mark_queue)' \subseteq (Black \cup {t}) \cup (mark_queue \cup New)
    BY <1>1, <1>3, Zenon
  <2> QED
    BY <2>3, <2>4, Zenon DEF MarkedIsSupported
<1> QED
  BY <1>6, <1>7, <1>8, <1>9, <1>10, <1>11, <1>12, <1>13, Zenon DEF IInv

\* A table marked reachable is found again from the roots and the DEL-ed tables
\* of this round, so it lies in every set that is closed around those (what
\* st_gc_mark_garbage_tables relies on when it drops it from prev_sweep_queue).
LEMMA BlackInClosed ==
    ASSUME IInv, NEW C \in SUBSET Tables, NEW via,
           roots \cup sweep_queue \cup remained_queue \subseteq C,
           ClosedUnder(elements, C, via), roots \cup Black \subseteq via
    PROVE  Black \cup mark_queue \subseteq C
<1>1. ClosedUnder(elements, C, roots \cup Black)
  BY Zenon DEF ClosedUnder
<1> QED
  BY <1>1, ReachLeast, Zenon DEF IInv, MarkedIsSupported

\* Roots and reachable tables are not garbage.
LEMMA MarkedNotGarbage ==
    ASSUME IInv
    PROVE  roots \cup Black \subseteq Tables \ garbage_queue
<1>1. roots \cup Black \subseteq Kept /\ Kept \in SUBSET Tables
  BY KeptIsClosed, Zenon DEF IInv
<1> QED
  BY <1>1, Zenon DEF IInv, KeptIsLive, GarbageIsQueued

\* st_gc_mark_garbage_tables on an unknown table, in either sweep list.
LEMMA JudgedGarbage ==
    ASSUME IInv, NEW t \in prev_sweep_queue \cup sweep_queue,
           phase \in {"prev_sweep", "sweep"}, mark[t] = st_gc_status_unknown,
           UNCHANGED <<inited, fresh, elements, roots, mark_queue, remained_queue, begin,
                       phase, api>>,
           mark' = [mark EXCEPT ![t] = st_gc_status_garbage],
           garbage_queue' = garbage_queue \cup {t},
           sweep_queue \ {t} \subseteq sweep_queue',
           prev_sweep_queue' \cap sweep_queue' = {},
           prev_sweep_queue' \cup sweep_queue'
             = ((prev_sweep_queue \cup sweep_queue) \ {t})
                 \cup st_gc_table_unknown_children_to_queue(t)
    PROVE  /\ CoreInv' /\ RootsAreMarked' /\ TypeOK'
<1> DEFINE F == st_gc_table_unknown_children_to_queue(t)
<1> USE DEF st_gc_status_unknown, st_gc_status_reachable, st_gc_status_garbage
<1>1. begin /\ mark_queue = {}
  BY Zenon DEF IInv, PhaseOK
<1>2. /\ t \in Tables /\ t \in inited /\ ~IsGarbage(t) /\ t \notin garbage_queue
      /\ t \notin remained_queue /\ t \notin fresh /\ t \notin Black
  BY DEF IInv, TypeOK, QueueNodesValid, SweepListed, FreshIsPrivate, IsGarbage, Black
<1>3. /\ \A r \in roots : r \in Black \/ LateRoot(r)
      /\ \A u \in roots \cup Black : Children(u) \subseteq Black
  BY <1>1, ReachableIsMarked, Zenon DEF IInv
<1>4. t \notin roots
  BY <1>2, <1>3, Zenon DEF LateRoot, SweepListed
<1>5. /\ \A u \in Tables : Children(u)' = Children(u)
      /\ \A u \in Tables : IsGarbage(u)' <=> IsGarbage(u) \/ u = t
      /\ Black' = Black
  BY <1>2, SMTT(30) DEF IInv, TypeOK, Children, IsGarbage, Black
<1>6. /\ F \subseteq Children(t) \ {t} /\ F \cap SweepListed = {}
      /\ \A c \in Children(t) \ {t} : c \in F \/ c \in SweepListed \/ c \in Black
  BY <1>2, RefsInTables, ElementsAreAGraph, SMTT(30)
     DEF IInv, TypeOK, st_gc_table_unknown_children_to_queue, st_gc_is_status_unknown, Black,
         GarbageIsQueued, IsGarbage, SweepListed, Children
<1>7. /\ Children(t) \subseteq inited
      /\ \A c \in Children(t) : c \notin fresh
      /\ \A r \in roots : r \in Children(t) => r \in Black
  <2>1. Children(t) \subseteq inited
    BY <1>2, Zenon DEF IInv, NoDanglingReference
  <2>2. \A c \in Children(t) : c \notin fresh
    BY <1>2, Zenon DEF IInv, FreshIsPrivate, Unreferenced
  <2>3. \A r \in roots : r \in Children(t) => r \in Black
    BY <1>2, <1>3, Zenon DEF LateRoot, Unreferenced
  <2> QED
    BY <2>1, <2>2, <2>3, Zenon
<1>8. F \cap Black = {}
  BY DEF st_gc_table_unknown_children_to_queue, st_gc_is_status_unknown, Black
<1> HIDE DEF F
<1>9. SweepListed' = SweepListed \cup F
  BY Zenon DEF SweepListed, F
<1>10. TypeOK'
  BY <1>2, <1>6, <1>7, Zenon DEF IInv, TypeOK, F
<1>11. FreedIsBlank' /\ GarbageIsQueued' /\ NoDanglingReference' /\ RemainedIsMarked'
  <2>1. FreedIsBlank'
    BY <1>2, <1>5, InTables DEF IInv, TypeOK, FreedIsBlank
  <2>2. GarbageIsQueued'
    BY <1>2, <1>5, InTables, Zenon DEF IInv, GarbageIsQueued
  <2>3. NoDanglingReference'
    BY <1>2, <1>5, InTables DEF IInv, NoDanglingReference
  <2>4. RemainedIsMarked'
    BY <1>2, <1>5, InTables, Zenon DEF IInv, RemainedIsMarked
  <2> QED
    BY <2>1, <2>2, <2>3, <2>4, Zenon
<1>12. FreshIsPrivate'
  BY <1>2, <1>5, <1>6, <1>7, <1>9, InTables, SMTT(30)
     DEF IInv, TypeOK, FreshIsPrivate, Unreferenced
<1>13. QueueNodesValid'
  <2>1. (mark_queue \cup SweepListed)' \subseteq inited'
    BY <1>6, <1>7, <1>9, Zenon DEF IInv, QueueNodesValid
  <2>2. (prev_sweep_queue \cup sweep_queue)' \cap (remained_queue \cup garbage_queue)' = {}
    BY <1>2, <1>6, Zenon DEF IInv, QueueNodesValid, F, SweepListed
  <2> QED
    BY <2>1, <2>2, <1>2 DEF IInv, QueueNodesValid
<1>14. TriColour'
  BY <1>5, InTables, Zenon DEF IInv, TriColour
<1>15. RootsAreMarked'
  BY <1>3, <1>5, <1>6, <1>7, <1>8, <1>9, InTables, SMTT(30)
     DEF IInv, RootsAreMarked, LateRoot, Unreferenced
<1>16. KeptIsLive'
  <2>1. roots \cup Black \in SUBSET Tables /\ ClosedUnder(elements, roots \cup Black, Tables)
    BY <1>3, Zenon DEF IInv, TypeOK, ClosedUnder, Children, Black
  <2>2. Kept \subseteq roots \cup Black
    BY <2>1, <1>1, ReachLeast, Zenon DEF Kept
  <2>3. Kept' = Kept
    BY <1>5, Zenon DEF Kept
  <2> QED
    BY <1>2, <1>4, <1>5, <2>1, <2>2, <2>3, Zenon DEF IInv, KeptIsLive
<1>17. MarkedIsSupported'
  <2> DEFINE X == roots \cup sweep_queue' \cup remained_queue
  <2>1. ASSUME NEW C \in SUBSET Tables, X \subseteq C,
               ClosedUnder(elements, C, roots \cup Black)
        PROVE  Black \subseteq C
    <3>1. C \cup {t} \in SUBSET Tables
          /\ roots \cup sweep_queue \cup remained_queue \subseteq C \cup {t}
      BY <2>1, <1>2, Zenon
    <3>2. ClosedUnder(elements, C \cup {t}, roots \cup Black)
      BY <2>1, <1>2, <1>4, Zenon DEF ClosedUnder
    <3> QED
      BY <3>1, <3>2, <1>2, BlackInClosed
  <2>2. Black \subseteq ReachFrom(elements, X, roots \cup Black)
    <3>1. Black \in SUBSET Tables
      BY Zenon DEF Black
    <3> HIDE DEF X
    <3> QED
      BY <2>1, <3>1, ReachGreatest, ZenonT(30)
  <2> QED
    BY <2>2, <1>1, <1>5, ZenonT(30) DEF MarkedIsSupported
<1>18. NoLeak'
  <2> DEFINE X == roots \cup prev_sweep_queue' \cup sweep_queue' \cup remained_queue
             via == Tables \ (garbage_queue \cup {t})
             P == inited \ (fresh \cup garbage_queue \cup {t})
  <2>1. ASSUME NEW C \in SUBSET Tables, X \subseteq C, ClosedUnder(elements, C, via)
        PROVE  P \subseteq C
    <3> DEFINE D == C \cup {t} \cup garbage_queue
    <3>1. Black \subseteq C
      <4>1. roots \cup Black \subseteq via
        BY <1>2, <1>4, MarkedNotGarbage, Zenon
      <4>2. ClosedUnder(elements, C, roots \cup Black)
        BY <4>1, <2>1, Zenon DEF ClosedUnder
      <4>3. ClosedUnder(elements, C \cup {t}, roots \cup Black)
        BY <4>2, <1>2, <1>4, Zenon DEF ClosedUnder
      <4>4. C \cup {t} \in SUBSET Tables
            /\ roots \cup sweep_queue \cup remained_queue \subseteq C \cup {t}
        BY <2>1, <1>2, Zenon
      <4> QED
        BY <4>3, <4>4, <1>2, BlackInClosed
    <3>2. Children(t) \subseteq D
      BY <3>1, <2>1, <1>6, Zenon DEF SweepListed, F
    <3>3. ClosedUnder(elements, D, Tables \ garbage_queue)
      <4>1. ASSUME NEW u \in D \cap (Tables \ garbage_queue)
            PROVE  Refs(elements, u) \subseteq D
        <5>1. CASE u = t
          BY <5>1, <3>2, Zenon DEF Children
        <5>2. CASE u # t
          BY <5>2, <2>1, Zenon DEF ClosedUnder
        <5> QED
          BY <5>1, <5>2, Zenon
      <4> QED
        BY <4>1, Zenon DEF ClosedUnder
    <3>4. D \in SUBSET Tables
          /\ roots \cup prev_sweep_queue \cup sweep_queue \cup remained_queue \subseteq D
      BY <2>1, <1>2, Zenon DEF IInv, TypeOK
    <3>5. inited \ (fresh \cup garbage_queue) \subseteq D
      BY <3>3, <3>4, ReachLeast DEF IInv, NoLeak
    <3> QED
      BY <3>5, Zenon
  <2>2. P \in SUBSET Tables
    BY Zenon DEF IInv, TypeOK
  <2>3. P \subseteq ReachFrom(elements, X, via)
    <3> HIDE DEF P, X, via
    <3> QED
      BY <2>1, <2>2, ReachGreatest, Zenon
  <2>4. P = (inited \ (fresh \cup garbage_queue))' /\ via = (Tables \ garbage_queue)'
        /\ X = (roots \cup prev_sweep_queue \cup sweep_queue \cup remained_queue)'
    BY Zenon
  <2> QED
    BY <2>3, <2>4, Zenon DEF NoLeak
<1> QED
  BY <1>10, <1>11, <1>12, <1>13, <1>14, <1>15, <1>16, <1>17, <1>18, Zenon DEF CoreInv

\* One iteration of st_gc_mark_garbage_tables on prev_sweep_queue keeps the
\* invariant.
LEMMA MarkGarbageInPrevSweepIInv ==
    ASSUME IInv, NEW t \in Tables, MarkGarbageInPrevSweep(t)
    PROVE  IInv'
<1> USE DEF st_gc_status_unknown, st_gc_status_reachable, st_gc_status_garbage
<1>1. /\ UNCHANGED <<inited, fresh, elements, roots, mark_queue, sweep_queue, remained_queue,
                     begin, api>>
      /\ phase = "prev_sweep" /\ t \in prev_sweep_queue /\ Judge(t)
      /\ prev_sweep_queue' = (prev_sweep_queue \ {t}) \cup Followers(t)
  BY Zenon DEF MarkGarbageInPrevSweep, heap
<1>2. mark[t] \in {st_gc_status_unknown, st_gc_status_reachable} /\ t \notin sweep_queue
  BY <1>1, Zenon DEF IInv, TypeOK, GarbageIsQueued, QueueNodesValid, IsGarbage
<1>3. phase' = phase
  BY <1>1, <1>2 DEF Judge
<1>4. PhaseOK' /\ ClosedMeansNoRoots' /\ DestroyIsClean'
  BY <1>1, <1>3, Zenon DEF IInv, PhaseOK, ClosedMeansNoRoots, DestroyIsClean
<1>5. CASE mark[t] = st_gc_status_unknown
  <2>1. /\ mark' = [mark EXCEPT ![t] = st_gc_status_garbage]
        /\ garbage_queue' = garbage_queue \cup {t}
        /\ Followers(t) = st_gc_table_unknown_children_to_queue(t)
    BY <1>1, <1>5 DEF Judge, Followers, st_gc_is_status_unknown
  <2>2. st_gc_table_unknown_children_to_queue(t) \cap sweep_queue = {}
    BY Zenon DEF st_gc_table_unknown_children_to_queue, SweepListed
  <2>3. prev_sweep_queue' \cap sweep_queue' = {}
    BY <1>1, <2>1, <2>2, Zenon DEF IInv, QueueNodesValid
  <2>4. prev_sweep_queue' \cup sweep_queue'
             = ((prev_sweep_queue \cup sweep_queue) \ {t})
                 \cup st_gc_table_unknown_children_to_queue(t)
    BY <1>1, <1>2, <2>1, Zenon
  <2>5. CoreInv' /\ RootsAreMarked' /\ TypeOK'
    BY <1>1, <1>3, <1>5, <2>1, <2>3, <2>4, JudgedGarbage, ZenonT(30)
  <2> QED
    BY <1>4, <2>5, Zenon DEF IInv, CoreInv
<1>6. CASE mark[t] = st_gc_status_reachable
  <2>1. /\ mark' = mark /\ garbage_queue' = garbage_queue
        /\ prev_sweep_queue' = prev_sweep_queue \ {t}
    BY <1>1, <1>6 DEF Judge, Followers, st_gc_is_status_unknown
  <2>2. t \in Black
    BY <1>6, Zenon DEF Black
  <2>3. /\ \A u \in Tables : Children(u)' = Children(u) /\ IsGarbage(u)' = IsGarbage(u)
        /\ Black' = Black /\ SweepListed' \subseteq SweepListed
    BY <1>1, <2>1, Zenon DEF Children, IsGarbage, Black, SweepListed
  <2>4. TypeOK'
    BY <1>1, <1>3, <2>1, Zenon DEF IInv, TypeOK
  <2>5. FreedIsBlank' /\ GarbageIsQueued' /\ NoDanglingReference' /\ RemainedIsMarked'
        /\ MarkedIsSupported' /\ TriColour'
    <3>1. FreedIsBlank' /\ GarbageIsQueued' /\ NoDanglingReference' /\ RemainedIsMarked'
      <4>1. FreedIsBlank'
        BY <1>1, <2>1, <2>3, InTables, Zenon DEF IInv, TypeOK, FreedIsBlank
      <4>2. GarbageIsQueued'
        BY <1>1, <2>1, <2>3, InTables, Zenon DEF IInv, GarbageIsQueued
      <4>3. NoDanglingReference'
        BY <1>1, <2>1, <2>3, InTables, Zenon DEF IInv, NoDanglingReference
      <4>4. RemainedIsMarked'
        BY <1>1, <2>1, <2>3, InTables, Zenon DEF IInv, RemainedIsMarked
      <4> QED
        BY <4>1, <4>2, <4>3, <4>4, Zenon
    <3>2. MarkedIsSupported'
      BY <1>1, <2>1, <2>3, Zenon DEF IInv, MarkedIsSupported
    <3>3. TriColour'
      BY <1>1, <2>1, <2>3, InTables, Zenon DEF IInv, TriColour
    <3> QED
      BY <3>1, <3>2, <3>3, Zenon
  <2>6. FreshIsPrivate' /\ QueueNodesValid' /\ RootsAreMarked'
    <3>1. FreshIsPrivate'
      BY <1>1, <2>1, <2>3, InTables DEF IInv, TypeOK, FreshIsPrivate, Unreferenced
    <3>2. QueueNodesValid'
      BY <1>1, <2>1, <2>3, InTables, Zenon DEF IInv, QueueNodesValid
    <3>3. RootsAreMarked'
      BY <1>1, <2>1, <2>3, InTables DEF IInv, RootsAreMarked, LateRoot, Unreferenced
    <3> QED
      BY <3>1, <3>2, <3>3, Zenon
  <2>7. KeptIsLive'
    BY <1>1, <2>1, <2>3, Zenon DEF IInv, KeptIsLive, Kept, IsGarbage
  <2>8. NoLeak'
    <3> DEFINE X == roots \cup (prev_sweep_queue \ {t}) \cup sweep_queue \cup remained_queue
               via == Tables \ garbage_queue
               P == inited \ (fresh \cup garbage_queue)
    <3>1. ASSUME NEW C \in SUBSET Tables, X \subseteq C, ClosedUnder(elements, C, via)
          PROVE  P \subseteq C
      <4>1. Black \subseteq C
        BY <3>1, MarkedNotGarbage, BlackInClosed, Zenon
      <4>2. roots \cup prev_sweep_queue \cup sweep_queue \cup remained_queue \subseteq C
        BY <3>1, <4>1, <2>2, Zenon
      <4> QED
        BY <3>1, <4>2, ReachLeast, SMTT(30) DEF IInv, NoLeak
    <3>2. P \subseteq ReachFrom(elements, X, via)
      <4>1. P \in SUBSET Tables
        BY Zenon DEF IInv, TypeOK
      <4> HIDE DEF P, X, via
      <4> QED
        BY <3>1, <4>1, ReachGreatest, Zenon
    <3> QED
      BY <1>1, <2>1, <3>2, Zenon DEF NoLeak
  <2> QED
    BY <1>4, <2>4, <2>5, <2>6, <2>7, <2>8, Zenon DEF IInv
<1> QED
  BY <1>2, <1>5, <1>6, Zenon

\* One iteration of st_gc_mark_garbage_tables on sweep_queue keeps the invariant.
LEMMA MarkGarbageInSweepIInv ==
    ASSUME IInv, NEW t \in Tables, MarkGarbageInSweep(t)
    PROVE  IInv'
<1> USE DEF st_gc_status_unknown, st_gc_status_reachable, st_gc_status_garbage
<1>1. /\ UNCHANGED <<inited, fresh, elements, roots, mark_queue, prev_sweep_queue,
                     begin, api>>
      /\ phase = "sweep" /\ t \in sweep_queue /\ Judge(t)
      /\ sweep_queue' = (sweep_queue \ {t}) \cup Followers(t)
      /\ remained_queue' = IF mark[t] = st_gc_status_reachable
                           THEN remained_queue \cup {t} ELSE remained_queue
  BY Zenon DEF MarkGarbageInSweep, heap
<1>2. /\ mark[t] \in {st_gc_status_unknown, st_gc_status_reachable}
      /\ t \notin prev_sweep_queue /\ t \notin garbage_queue
  BY <1>1, Zenon DEF IInv, TypeOK, GarbageIsQueued, QueueNodesValid, IsGarbage
<1>3. phase' = phase
  BY <1>1, <1>2 DEF Judge
<1>4. PhaseOK' /\ ClosedMeansNoRoots' /\ DestroyIsClean'
  BY <1>1, <1>3, Zenon DEF IInv, PhaseOK, ClosedMeansNoRoots, DestroyIsClean
<1>5. CASE mark[t] = st_gc_status_unknown
  <2>1. /\ mark' = [mark EXCEPT ![t] = st_gc_status_garbage]
        /\ garbage_queue' = garbage_queue \cup {t}
        /\ remained_queue' = remained_queue
        /\ Followers(t) = st_gc_table_unknown_children_to_queue(t)
    BY <1>1, <1>5 DEF Judge, Followers, st_gc_is_status_unknown
  <2>2. st_gc_table_unknown_children_to_queue(t) \cap prev_sweep_queue = {}
    BY Zenon DEF st_gc_table_unknown_children_to_queue, SweepListed
  <2>3. prev_sweep_queue' \cap sweep_queue' = {}
    BY <1>1, <2>1, <2>2, Zenon DEF IInv, QueueNodesValid
  <2>4. prev_sweep_queue' \cup sweep_queue'
             = ((prev_sweep_queue \cup sweep_queue) \ {t})
                 \cup st_gc_table_unknown_children_to_queue(t)
    BY <1>1, <1>2, <2>1, Zenon
  <2>5. CoreInv' /\ RootsAreMarked' /\ TypeOK'
    BY <1>1, <1>3, <1>5, <2>1, <2>3, <2>4, JudgedGarbage, ZenonT(30)
  <2> QED
    BY <1>4, <2>5 DEF IInv, CoreInv
<1>6. CASE mark[t] = st_gc_status_reachable
  <2>1. /\ mark' = mark /\ garbage_queue' = garbage_queue
        /\ sweep_queue' = sweep_queue \ {t}
        /\ remained_queue' = remained_queue \cup {t}
    BY <1>1, <1>6 DEF Judge, Followers, st_gc_is_status_unknown
  <2>2. t \in Black
    BY <1>6 DEF Black
  <2>3. /\ \A u \in Tables : Children(u)' = Children(u) /\ IsGarbage(u)' = IsGarbage(u)
        /\ Black' = Black /\ SweepListed' = SweepListed
        /\ sweep_queue' \cup remained_queue' = sweep_queue \cup remained_queue
    BY <1>1, <2>1 DEF Children, IsGarbage, Black, SweepListed
  <2>4. TypeOK'
    BY <1>1, <1>3, <2>1, Zenon DEF IInv, TypeOK
  <2>5. FreedIsBlank' /\ GarbageIsQueued' /\ NoDanglingReference' /\ RemainedIsMarked'
        /\ TriColour'
    <3>1. FreedIsBlank'
      BY <1>1, <2>1, <2>2, <2>3, InTables, Zenon DEF IInv, TypeOK, FreedIsBlank
    <3>2. GarbageIsQueued'
      BY <1>1, <2>1, <2>2, <2>3, InTables, Zenon DEF IInv, GarbageIsQueued
    <3>3. NoDanglingReference'
      BY <1>1, <2>1, <2>2, <2>3, InTables DEF IInv, NoDanglingReference
    <3>4. RemainedIsMarked'
      BY <1>1, <2>1, <2>2, <2>3, InTables, Zenon DEF IInv, RemainedIsMarked
    <3>5. TriColour'
      BY <1>1, <2>1, <2>2, <2>3, InTables, SMTT(30) DEF IInv, TriColour
    <3> QED
      BY <3>1, <3>2, <3>3, <3>4, <3>5, Zenon
  <2>6. FreshIsPrivate' /\ QueueNodesValid' /\ RootsAreMarked'
    <3>1. FreshIsPrivate'
      BY <1>1, <1>2, <2>1, <2>3, InTables, SMTT(30)
         DEF IInv, TypeOK, FreshIsPrivate, Unreferenced
    <3>2. QueueNodesValid'
      BY <1>1, <1>2, <2>1, <2>3, InTables DEF IInv, QueueNodesValid
    <3>3. RootsAreMarked'
      BY <1>1, <1>2, <2>1, <2>3, InTables, SMTT(30)
         DEF IInv, RootsAreMarked, LateRoot, Unreferenced
    <3> QED
      BY <3>1, <3>2, <3>3
  <2>7. KeptIsLive'
    BY <1>1, <2>1, <2>3, Zenon DEF IInv, KeptIsLive, Kept, IsGarbage
  <2>8. /\ (roots \cup sweep_queue \cup remained_queue)'
             = roots \cup sweep_queue \cup remained_queue
        /\ (roots \cup prev_sweep_queue \cup sweep_queue \cup remained_queue)'
             = roots \cup prev_sweep_queue \cup sweep_queue \cup remained_queue
    BY <1>1, <2>3, Zenon
  <2>9. MarkedIsSupported' /\ NoLeak'
    <3>1. MarkedIsSupported'
      BY <1>1, <2>1, <2>3, <2>8, InTables, Zenon DEF IInv, MarkedIsSupported
    <3>2. NoLeak'
      BY <1>1, <2>1, <2>3, <2>8, InTables, Zenon DEF IInv, NoLeak
    <3> QED
      BY <3>1, <3>2
  <2> QED
    BY <1>4, <2>4, <2>5, <2>6, <2>7, <2>9, Zenon DEF IInv
<1> QED
  BY <1>2, <1>5, <1>6, Zenon

\* One iteration of st_gc_free_tables keeps the invariant: no table that stays
\* refers to the one that is freed.
LEMMA FreeTablesIInv ==
    ASSUME IInv, NEW t \in Tables, st_gc_free_tables(t)
    PROVE  IInv'
<1> USE DEF st_gc_status_unknown, st_gc_status_reachable, st_gc_status_garbage
<1>1. /\ UNCHANGED <<fresh, roots, mark_queue, prev_sweep_queue, sweep_queue,
                     remained_queue, begin, phase, api>>
      /\ phase = "free" /\ t \in garbage_queue
      /\ garbage_queue' = garbage_queue \ {t}
      /\ elements' = [elements EXCEPT ![t] = NoElements]
      /\ inited' = inited \ {t}
      /\ mark' = [mark EXCEPT ![t] = st_gc_status_unknown]
  BY Zenon DEF st_gc_free_tables
<1>2. begin /\ mark_queue = {} /\ prev_sweep_queue = {} /\ sweep_queue = {}
  BY <1>1, Zenon DEF IInv, PhaseOK
<1>3. /\ IsGarbage(t) /\ t \notin remained_queue /\ t \notin fresh /\ t \notin Black
      /\ t \notin roots /\ t \notin Kept
  BY <1>1, KeptIsClosed, Zenon
     DEF IInv, GarbageIsQueued, QueueNodesValid, FreshIsPrivate, SweepListed, IsGarbage, Black,
         KeptIsLive
<1>4. /\ \A u \in Tables \ {t} : /\ Refs(elements', u) = Refs(elements, u)
                                 /\ Children(u)' = Children(u)
                                 /\ IsGarbage(u)' = IsGarbage(u)
                                 /\ mark'[u] = mark[u]
      /\ Children(t)' = {} /\ Refs(elements', t) = {} /\ ~IsGarbage(t)'
      /\ Black' = Black /\ SweepListed' = SweepListed \ {t}
  <2>1. \A k \in Keys : elements'[t][k] = NoTable
    BY <1>1, Zenon DEF IInv, TypeOK, NoElements
  <2>2. Refs(elements', t) = {}
    BY <2>1, Zenon DEF Refs
  <2>3. \A u \in Tables \ {t} : elements'[u] = elements[u] /\ mark'[u] = mark[u]
    BY <1>1, Zenon DEF IInv, TypeOK
  <2>4. Black' = Black /\ ~IsGarbage(t)'
    BY <1>1, <1>3 DEF IInv, TypeOK, Black, IsGarbage
  <2>5. SweepListed' = SweepListed \ {t}
    BY <1>1, <1>2, <1>3, Zenon DEF SweepListed
  <2>6. \A u \in Tables \ {t} : Refs(elements', u) = Refs(elements, u)
    BY <2>3, Zenon DEF Refs
  <2> QED
    BY <2>2, <2>3, <2>4, <2>5, <2>6, Zenon DEF Children, IsGarbage
<1>5. /\ \A u \in roots \cup Black : Children(u) \subseteq Black
      /\ \A r \in roots : r \in Black \/ LateRoot(r)
  BY <1>2, ReachableIsMarked, Zenon DEF IInv
<1>6. TypeOK' /\ PhaseOK' /\ ClosedMeansNoRoots'
  <2>1. PhaseOK' /\ ClosedMeansNoRoots'
    BY <1>1, <1>3, <1>4, Zenon DEF IInv, PhaseOK, ClosedMeansNoRoots, NoElements
  <2>2. TypeOK'
    BY <1>1, <1>3, <1>4, Zenon DEF IInv, TypeOK, NoElements
  <2> QED
    BY <2>1, <2>2, Zenon
<1>7. DestroyIsClean'
  BY <1>1, Zenon DEF IInv, DestroyIsClean, TypeOK
<1>8. FreedIsBlank' /\ RemainedIsMarked' /\ GarbageIsQueued' /\ QueueNodesValid'
  <2>1. FreedIsBlank'
    BY <1>1, <1>2, <1>3, <1>4, InTables, Zenon DEF IInv, TypeOK, FreedIsBlank
  <2>2. RemainedIsMarked'
    BY <1>1, <1>2, <1>3, <1>4, InTables, Zenon DEF IInv, RemainedIsMarked
  <2>3. GarbageIsQueued'
    BY <1>1, <1>2, <1>3, <1>4, InTables, Zenon DEF IInv, GarbageIsQueued
  <2>4. QueueNodesValid'
    BY <1>1, <1>2, <1>3, <1>4, InTables DEF IInv, QueueNodesValid
  <2> QED
    BY <2>1, <2>2, <2>3, <2>4, Zenon
<1>9. FreshIsPrivate'
  BY <1>1, <1>3, <1>4, InTables, SMTT(30) DEF IInv, TypeOK, FreshIsPrivate, Unreferenced
<1>10. TriColour'
  BY <1>1, <1>3, <1>4, InTables DEF IInv, TriColour
<1>11. RootsAreMarked'
  BY <1>1, <1>3, <1>4, <1>5, InTables, SMTT(30) DEF IInv, RootsAreMarked, LateRoot, Unreferenced
<1>12. NoDanglingReference'
  <2>1. inited \ (fresh \cup garbage_queue) \subseteq roots \cup Black
    <3>1. /\ roots \cup Black \in SUBSET Tables
          /\ ClosedUnder(elements, roots \cup Black, Tables \ garbage_queue)
      BY <1>5, Zenon DEF IInv, TypeOK, ClosedUnder, Children, Black
    <3>2. roots \cup prev_sweep_queue \cup sweep_queue \cup remained_queue
            \subseteq roots \cup Black
      BY <1>2, Zenon DEF IInv, RemainedIsMarked
    <3> QED
      BY <3>1, <3>2, ReachLeast DEF IInv, NoLeak
  <2>2. ASSUME NEW n \in inited', ~IsGarbage(n)'
        PROVE  Children(n)' \subseteq inited'
    <3>1. n \in inited /\ n # t /\ n \in Tables /\ Children(n)' = Children(n) /\ ~IsGarbage(n)
      BY <1>1, <1>4, <2>2, Zenon DEF IInv, TypeOK
    <3>2. Children(n) \subseteq inited
      BY <3>1, Zenon DEF IInv, NoDanglingReference
    <3>3. t \notin Children(n)
      BY <3>1, <2>1, <1>3, <1>5, Zenon DEF IInv, FreshIsPrivate, GarbageIsQueued
    <3> QED
      BY <1>1, <3>1, <3>2, <3>3, Zenon
  <2> QED
    BY <2>2, Zenon DEF NoDanglingReference
<1>13. KeptIsLive'
  <2>1. (roots \cup Black \cup mark_queue)' \subseteq Kept
    BY <1>1, <1>4, KeptIsClosed, Zenon DEF IInv
  <2>2. Kept \in SUBSET Tables /\ ClosedUnder(elements', Kept, Tables)
    BY <1>3, <1>4, KeptIsClosed, Zenon DEF IInv, ClosedUnder, Children
  <2>3. Kept' \subseteq Kept
    BY <2>1, <2>2, ReachLeast DEF Kept
  <2> QED
    BY <1>1, <1>3, <1>4, <2>2, <2>3, Zenon DEF IInv, KeptIsLive
<1>14. MarkedIsSupported'
  <2> DEFINE X == roots \cup sweep_queue \cup remained_queue
  <2>1. ASSUME NEW C \in SUBSET Tables, X \subseteq C,
               ClosedUnder(elements', C, roots \cup Black)
        PROVE  Black \subseteq C
    <3>1. ClosedUnder(elements, C, roots \cup Black)
      BY <2>1, <1>3, <1>4, Zenon DEF ClosedUnder
    <3> QED
      BY <2>1, <3>1, BlackInClosed, Zenon
  <2>2. Black \subseteq ReachFrom(elements', X, roots \cup Black)
    <3>1. Black \in SUBSET Tables
      BY Zenon DEF Black
    <3> HIDE DEF X
    <3> QED
      BY <2>1, <3>1, ReachGreatest, ZenonT(30)
  <2> QED
    BY <2>2, <1>1, <1>2, <1>4, ZenonT(30) DEF MarkedIsSupported
<1>15. NoLeak'
  <2> DEFINE X == roots \cup prev_sweep_queue \cup sweep_queue \cup remained_queue
             via == Tables \ (garbage_queue \ {t})
             P == inited \ (fresh \cup garbage_queue)
  <2>1. ASSUME NEW C \in SUBSET Tables, X \subseteq C, ClosedUnder(elements', C, via)
        PROVE  P \subseteq C
    <3>1. ClosedUnder(elements, C, Tables \ garbage_queue)
      BY <2>1, <1>1, <1>4, ZenonT(30) DEF ClosedUnder
    <3> QED
      BY <2>1, <3>1, ReachLeast DEF IInv, NoLeak
  <2>2. P \subseteq ReachFrom(elements', X, via)
    <3>1. P \in SUBSET Tables
      BY DEF IInv, TypeOK
    <3> HIDE DEF P, X, via
    <3> QED
      BY <2>1, <3>1, ReachGreatest, Zenon
  <2>3. (inited \ (fresh \cup garbage_queue))' = P
    BY <1>1, Zenon
  <2> QED
    BY <2>2, <2>3, <1>1, ZenonT(30) DEF NoLeak
<1> QED
  BY <1>6, <1>7, <1>8, <1>9, <1>10, <1>11, <1>12, <1>13, <1>14, <1>15, Zenon DEF IInv

-----------------------------------------------------------------------------
(* The operations on the elements of a table: t loses references to D, which *)
(* are pushed to the sweep queue, and gains references to A, which are       *)
(* pushed to the mark queue.                                                 *)

\* A table a user works on is alive, and so is what it stores or drops.
LEMMA HeldIsLive ==
    ASSUME IInv, NEW t \in Held, NEW A \in SUBSET Tables, \A c \in A : MayAdd(t, c)
    PROVE  /\ t \in Kept /\ t \in Tables /\ t \in inited /\ ~IsGarbage(t) /\ t \notin fresh
           /\ \A c \in A : c \in inited /\ ~IsGarbage(c) /\ (c \in fresh \/ c \in Kept)
           /\ \A c \in Children(t) : c \in Kept /\ c \in inited /\ ~IsGarbage(c) /\ c \notin fresh
<1>1. /\ Held \subseteq Reachable /\ Obtainable \subseteq fresh \cup Reachable
      /\ Reachable \subseteq Kept /\ Kept \in SUBSET Tables
      /\ roots \subseteq Kept
      /\ \A u \in Kept : Children(u) \subseteq Kept
  BY HeldIsReachable, KeptIsClosed, Zenon DEF IInv
<1>2. t \in Kept /\ t \in Tables /\ t \in inited /\ ~IsGarbage(t)
  BY <1>1, Zenon DEF IInv, KeptIsLive
<1>3. t \notin fresh
  <2>1. CASE t \in roots
    BY <2>1, Zenon DEF IInv, FreshIsPrivate
  <2>2. CASE \E r \in roots : t \in Children(r)
    BY <2>2, <1>1, Zenon DEF IInv, FreshIsPrivate, Unreferenced, KeptIsLive
  <2> QED
    BY <2>1, <2>2, Zenon DEF Held
<1>4. ASSUME NEW c \in A
      PROVE  c \in inited /\ ~IsGarbage(c) /\ (c \in fresh \/ c \in Kept)
  <2>1. c \in fresh \/ c \in Kept
    BY <1>1, Zenon DEF MayAdd
  <2> QED
    BY <2>1 DEF IInv, TypeOK, KeptIsLive, FreshIsPrivate, IsGarbage, st_gc_status_unknown,
                st_gc_status_garbage
<1>5. ASSUME NEW c \in Children(t)
      PROVE  c \in Kept /\ c \in inited /\ ~IsGarbage(c) /\ c \notin fresh
  BY <1>1, <1>2, Zenon DEF IInv, KeptIsLive, FreshIsPrivate, Unreferenced
<1> QED
  BY <1>2, <1>3, <1>4, <1>5, Zenon

\* From the graph E to E2, t loses references to D and gains references to A.
Relinked(E, E2, t, A, D) ==
    /\ A \in SUBSET Tables /\ D \in SUBSET Tables
    /\ E2 \in Graphs
    /\ \A u \in Tables \ {t} : Refs(E2, u) = Refs(E, u)
    /\ Refs(E2, t) \subseteq Refs(E, t) \cup A
    /\ Refs(E, t) \subseteq Refs(E2, t) \cup D
    /\ A \subseteq Refs(E2, t)
    /\ D \subseteq Refs(E, t)

\* Storing v under one key of t.
WithKey(E, t, k, v) == [E EXCEPT ![t][k] = v]

\* Replacing references of a held table under the pushes of table.c keeps the
\* invariant.
LEMMA LinkIInv ==
    ASSUME IInv, UserTurn, NEW t \in Held, NEW A, NEW D,
           \A c \in A : MayAdd(t, c),
           Relinked(elements, elements', t, A, D),
           st_gc_push_to_sweep(D), st_gc_push_to_mark(A),
           fresh' = fresh \ A,
           UNCHANGED <<inited, roots, mark, begin, phase, api>>
    PROVE  IInv'
<1>0. /\ A \in SUBSET Tables /\ D \in SUBSET Tables
      /\ elements' \in Graphs
      /\ \A u \in Tables \ {t} : Refs(elements', u) = Refs(elements, u)
      /\ Refs(elements', t) \subseteq Refs(elements, t) \cup A
      /\ Refs(elements, t) \subseteq Refs(elements', t) \cup D
      /\ A \subseteq Refs(elements', t)
      /\ D \subseteq Children(t)
  BY Zenon DEF Relinked, Children
<1> USE <1>0
<1>1. /\ t \in Kept /\ t \in Tables /\ t \in inited /\ ~IsGarbage(t) /\ t \notin fresh
      /\ \A c \in A : c \in inited /\ ~IsGarbage(c) /\ (c \in fresh \/ c \in Kept)
      /\ \A c \in Children(t) : c \in Kept /\ c \in inited /\ ~IsGarbage(c) /\ c \notin fresh
  BY HeldIsLive, Zenon
<1>2. /\ \A u \in Tables : IsGarbage(u)' = IsGarbage(u)
      /\ Black' = Black
      /\ \A u \in Tables \ {t} : Children(u)' = Children(u)
      /\ Children(t)' \subseteq Children(t) \cup A
  BY Zenon DEF IsGarbage, Black, Children
<1>3. /\ mark_queue \subseteq mark_queue' /\ mark_queue' \subseteq mark_queue \cup A
      /\ A \subseteq Black \cup mark_queue'
  BY Zenon DEF st_gc_push_to_mark, Black
<1>4. /\ prev_sweep_queue' = prev_sweep_queue \ D
      /\ sweep_queue' = sweep_queue \cup D
      /\ remained_queue' = remained_queue \ D
      /\ garbage_queue' = garbage_queue
      /\ SweepListed' = SweepListed \cup D
  BY <1>1, Zenon DEF st_gc_push_to_sweep, IInv, GarbageIsQueued, SweepListed
<1>5. TypeOK' /\ PhaseOK' /\ ClosedMeansNoRoots' /\ DestroyIsClean'
  <2>1. TypeOK'
    BY <1>1, <1>3, <1>4, Zenon DEF IInv, TypeOK, Graphs
  <2>2. PhaseOK'
    BY <1>4, Zenon DEF IInv, PhaseOK, UserTurn
  <2>3. ClosedMeansNoRoots' /\ DestroyIsClean'
    BY Zenon DEF UserTurn, ClosedMeansNoRoots, DestroyIsClean
  <2> QED
    BY <2>1, <2>2, <2>3, Zenon
<1>6. FreedIsBlank' /\ GarbageIsQueued' /\ NoDanglingReference' /\ RemainedIsMarked'
  <2>1. FreedIsBlank'
    BY <1>1, <1>2, InTables, Zenon DEF IInv, FreedIsBlank
  <2>2. GarbageIsQueued' /\ RemainedIsMarked'
    <3>1. GarbageIsQueued'
      BY <1>2, <1>4, InTables, Zenon DEF IInv, GarbageIsQueued
    <3>2. RemainedIsMarked'
      BY <1>2, <1>4, InTables, Zenon DEF IInv, RemainedIsMarked
    <3> QED
      BY <3>1, <3>2, Zenon
  <2>3. NoDanglingReference'
    BY <1>1, <1>2, InTables, Zenon DEF IInv, NoDanglingReference
  <2> QED
    BY <2>1, <2>2, <2>3, Zenon
<1>7. QueueNodesValid'
  <2>1. D \cap garbage_queue = {} /\ D \subseteq inited
    BY <1>1, Zenon DEF IInv, GarbageIsQueued
  <2>2. (mark_queue \cup SweepListed)' \subseteq inited'
    BY <1>1, <1>3, <1>4, <2>1, Zenon DEF IInv, QueueNodesValid
  <2> QED
    BY <1>4, <2>1, <2>2, Zenon DEF IInv, QueueNodesValid
<1>8. FreshIsPrivate'
  <2>1. ASSUME NEW f \in fresh' PROVE f \in fresh /\ f \notin A /\ f \in Tables /\ f # t
    BY <1>1, <2>1, Zenon DEF IInv, TypeOK
  <2>2. ASSUME NEW f \in fresh' PROVE Unreferenced(f)'
    BY <1>1, <1>2, <2>1, <2>2, SMTT(30) DEF IInv, FreshIsPrivate, Unreferenced
  <2>3. ASSUME NEW f \in fresh'
        PROVE  f \notin (roots \cup mark_queue \cup SweepListed)' /\ Children(f)' = {}
               /\ mark'[f] = st_gc_status_unknown
    BY <1>1, <1>2, <1>3, <1>4, <2>1, <2>3, Zenon DEF IInv, FreshIsPrivate
  <2> QED
    BY <2>2, <2>3, Zenon DEF FreshIsPrivate
<1>9. TriColour'
  <2>1. \A u \in Black : u \in Tables
    BY Zenon DEF Black
  <2> QED
    BY <1>2, <1>3, <2>1 DEF IInv, TriColour
<1>10. RootsAreMarked'
  <2>1. ASSUME begin, NEW r \in roots
        PROVE  r \in Black \cup mark_queue' \/ LateRoot(r)'
    <3>1. CASE r \in Black \cup mark_queue \cup A
      BY <3>1, <1>3, Zenon
    <3>2. CASE r \notin Black \cup mark_queue \cup A
      <4>1. LateRoot(r) /\ r \in Tables
        BY <2>1, <3>2, Zenon DEF IInv, RootsAreMarked, TypeOK
      <4>2. r \notin Children(t)
        BY <4>1, <1>1, Zenon DEF LateRoot, Unreferenced
      <4>3. Unreferenced(r)'
        BY <4>1, <4>2, <1>2, <3>2, Zenon DEF LateRoot, Unreferenced
      <4>4. r \notin SweepListed'
        BY <4>1, <4>2, <1>4, Zenon DEF LateRoot
      <4>5. Children(r)' \subseteq (Black \cup mark_queue)'
        BY <4>1, <1>2, <1>3, Zenon DEF LateRoot
      <4> QED
        BY <4>3, <4>4, <4>5, Zenon DEF LateRoot
    <3> QED
      BY <3>1, <3>2, Zenon
  <2> QED
    BY <2>1, <1>2, Zenon DEF RootsAreMarked
<1>11. KeptIsLive'
  <2>1. (roots \cup Black \cup mark_queue)' \subseteq Kept \cup A
    BY <1>2, <1>3, KeptIsClosed, Zenon DEF IInv
  <2>2. Kept \cup A \in SUBSET Tables
    BY KeptIsClosed, Zenon DEF IInv
  <2>3. ClosedUnder(elements', Kept \cup A, Tables)
    <3>1. ASSUME NEW u \in Kept \cup A PROVE Refs(elements', u) \subseteq Kept \cup A
      <4>1. CASE u \in Kept
        BY <4>1, <2>2, KeptIsClosed, Zenon DEF IInv, Children
      <4>2. CASE u \in fresh
        BY <4>2, <1>1, <2>2, Zenon DEF IInv, FreshIsPrivate, Children
      <4> QED
        BY <1>1, <4>1, <4>2, Zenon
    <3> QED
      BY <3>1, Zenon DEF ClosedUnder
  <2>4. Kept' \subseteq Kept \cup A
    BY <2>1, <2>2, <2>3, ReachLeast, ZenonT(30) DEF Kept
  <2> QED
    BY <1>1, <1>2, <2>2, <2>4, Zenon DEF IInv, KeptIsLive
<1>12. MarkedIsSupported'
  <2> DEFINE X == roots \cup sweep_queue \cup remained_queue \cup D
  <2>1. ASSUME NEW C \in SUBSET Tables, X \subseteq C,
               ClosedUnder(elements', C, roots \cup Black)
        PROVE  Black \cup mark_queue \cup A \subseteq C
    <3>1. ClosedUnder(elements, C, roots \cup Black)
      BY <2>1, Zenon DEF ClosedUnder
    <3>2. Black \cup mark_queue \subseteq C
      BY <2>1, <3>1, BlackInClosed, Zenon
    <3>3. Held \subseteq C
      BY <2>1, <3>1 DEF Held, ClosedUnder, Children
    <3>4. ASSUME NEW c \in A PROVE c \in C
      <4>1. CASE t \in roots
        BY <4>1, <2>1, Zenon DEF ClosedUnder
      <4>2. CASE c \in Held
        BY <4>2, <3>3, Zenon
      <4> QED
        BY <4>1, <4>2, Zenon DEF MayAdd
    <3> QED
      BY <3>2, <3>4, Zenon
  <2>2. Black \cup mark_queue \cup A \in SUBSET Tables
    BY Zenon DEF IInv, TypeOK, Black
  <2>3. Black \cup mark_queue \cup A \subseteq ReachFrom(elements', X, roots \cup Black)
    <3> HIDE DEF X
    <3> QED
      BY <2>1, <2>2, ReachGreatest, ZenonT(30)
  <2>4. (roots \cup sweep_queue \cup remained_queue)' = X
    BY <1>4, Zenon
  <2> QED
    BY <2>3, <2>4, <1>2, <1>3, ZenonT(30) DEF MarkedIsSupported
<1>13. NoLeak'
  <2> DEFINE X == roots \cup prev_sweep_queue \cup sweep_queue \cup remained_queue \cup D
             via == Tables \ garbage_queue
             P == inited \ ((fresh \ A) \cup garbage_queue)
  <2>1. ASSUME NEW C \in SUBSET Tables, X \subseteq C, ClosedUnder(elements', C, via)
        PROVE  P \subseteq C
    <3>1. ClosedUnder(elements, C, via)
      BY <2>1, Zenon DEF ClosedUnder
    <3>2. inited \ (fresh \cup garbage_queue) \subseteq C
      BY <2>1, <3>1, ReachLeast, SMTT(30) DEF IInv, NoLeak
    <3>3. t \in C /\ t \in via
      BY <3>2, <1>1, Zenon DEF IInv, GarbageIsQueued
    <3>4. A \subseteq C
      BY <3>3, <2>1, Zenon DEF ClosedUnder
    <3> QED
      BY <3>2, <3>4, Zenon
  <2>2. P \in SUBSET Tables
    BY Zenon DEF IInv, TypeOK
  <2>3. P \subseteq ReachFrom(elements', X, via)
    <3> HIDE DEF X, via, P
    <3> QED
      BY <2>1, <2>2, ReachGreatest, Zenon
  <2>4. /\ (roots \cup prev_sweep_queue \cup sweep_queue \cup remained_queue)' = X
        /\ (inited \ (fresh \cup garbage_queue))' = P
        /\ (Tables \ garbage_queue)' = via
    BY <1>4, Zenon
  <2> QED
    BY <2>3, <2>4, ZenonT(30) DEF NoLeak
<1> QED
  BY <1>5, <1>6, <1>7, <1>8, <1>9, <1>10, <1>11, <1>12, <1>13, Zenon DEF IInv

\* What storing v under a key of t does to the references.
LEMMA OneKeyChanged ==
    ASSUME NEW E \in Graphs, NEW t \in Tables, NEW k \in Keys, NEW v \in Tables \cup {NoTable}
    PROVE  Relinked(E, WithKey(E, t, k, v), t, {v} \ {NoTable}, {E[t][k]} \ {NoTable})
<1> DEFINE E2 == WithKey(E, t, k, v)
<1>1. E2 \in Graphs
  BY Zenon DEF Graphs, WithKey
<1>2. /\ \A u \in Tables \ {t} : E2[u] = E[u]
      /\ \A j \in Keys \ {k} : E2[t][j] = E[t][j]
      /\ E2[t][k] = v
  BY Zenon DEF Graphs, WithKey
<1>3. E[t][k] \in Tables \cup {NoTable}
  BY Zenon DEF Graphs
<1> HIDE DEF E2
<1>4. \A u \in Tables \ {t} : Refs(E2, u) = Refs(E, u)
  BY <1>2 DEF Refs
<1>5. Refs(E2, t) \subseteq Refs(E, t) \cup ({v} \ {NoTable})
  BY <1>2, Zenon DEF Refs
<1>6. Refs(E, t) \subseteq Refs(E2, t) \cup ({E[t][k]} \ {NoTable})
  BY <1>2, Zenon DEF Refs
<1>7. {v} \ {NoTable} \subseteq Refs(E2, t) /\ {E[t][k]} \ {NoTable} \subseteq Refs(E, t)
  BY <1>2, Zenon DEF Refs
<1>8. {v} \ {NoTable} \in SUBSET Tables /\ {E[t][k]} \ {NoTable} \in SUBSET Tables
  BY <1>3, Zenon
<1>9. Relinked(E, E2, t, {v} \ {NoTable}, {E[t][k]} \ {NoTable})
  BY <1>1, <1>4, <1>5, <1>6, <1>7, <1>8, Zenon DEF Relinked
<1> QED
  BY <1>9, Zenon DEF E2

\* st_table_set_key_value keeps the invariant.
LEMMA SetKeyValueIInv ==
    ASSUME IInv, UserTurn, NEW t \in Held, NEW k \in Keys, NEW v \in Tables \cup {NoTable},
           v = NoTable \/ MayAdd(t, v), st_table_set_key_value(t, k, v)
    PROVE  IInv'
<1> DEFINE A == {v} \ {NoTable}
           D == {elements[t][k]} \ {NoTable}
<1>1. (\A c \in A : MayAdd(t, c)) /\ t \in Tables /\ elements \in Graphs
  BY HeldIsReachable, ElementsAreAGraph, Zenon DEF IInv
<1>2. elements' = WithKey(elements, t, k, v)
  BY Zenon DEF st_table_set_key_value, WithKey
<1>3. Relinked(elements, elements', t, A, D)
  BY <1>1, <1>2, OneKeyChanged, Zenon
<1>4. /\ st_gc_push_to_sweep(D) /\ st_gc_push_to_mark(A)
      /\ UNCHANGED <<inited, roots, mark, begin, phase, api>>
  BY Zenon DEF st_table_set_key_value
<1>5. fresh' = fresh \ A
  BY NoTableAssumption, Zenon DEF st_table_set_key_value, IInv, TypeOK
<1> HIDE DEF A, D
<1> QED
  BY <1>1, <1>3, <1>4, <1>5, LinkIInv, Zenon

\* st_table_add_key_value keeps the invariant.
LEMMA AddKeyValueIInv ==
    ASSUME IInv, UserTurn, NEW t \in Held, NEW k \in Keys, NEW c \in Tables,
           MayAdd(t, c), st_table_add_key_value(t, k, c)
    PROVE  IInv'
<1>1. t \in Tables /\ elements \in Graphs /\ {c} \ {NoTable} = {c}
      /\ {elements[t][k]} \ {NoTable} = {}
  BY HeldIsReachable, ElementsAreAGraph, NoTableAssumption, Zenon
     DEF IInv, st_table_add_key_value
<1>2. elements' = WithKey(elements, t, k, c)
  BY Zenon DEF st_table_add_key_value, WithKey
<1>3. Relinked(elements, elements', t, {c} \ {NoTable}, {elements[t][k]} \ {NoTable})
  BY <1>1, <1>2, OneKeyChanged, Zenon
<1>4. Relinked(elements, elements', t, {c}, {})
  BY <1>1, <1>3, Zenon
<1>5. /\ st_gc_push_to_sweep({}) /\ st_gc_push_to_mark({c}) /\ fresh' = fresh \ {c}
      /\ UNCHANGED <<inited, roots, mark, begin, phase, api>>
  BY Zenon DEF st_table_add_key_value, st_gc_push_to_sweep, sweep_lists
<1>6. \A d \in {c} : MayAdd(t, d)
  BY Zenon
<1> QED
  BY <1>4, <1>5, <1>6, LinkIInv, Zenon

\* st_table_remove_key keeps the invariant.
LEMMA RemoveKeyIInv ==
    ASSUME IInv, UserTurn, NEW t \in Held, NEW k \in Keys, st_table_remove_key(t, k)
    PROVE  IInv'
<1> DEFINE D == {elements[t][k]}
<1>1. t \in Tables /\ elements \in Graphs /\ {elements[t][k]} \ {NoTable} = D
      /\ {NoTable} \ {NoTable} = {}
  BY HeldIsReachable, ElementsAreAGraph, Zenon DEF IInv, st_table_remove_key
<1>2. elements' = WithKey(elements, t, k, NoTable)
  BY Zenon DEF st_table_remove_key, WithKey
<1>3. Relinked(elements, elements', t, {NoTable} \ {NoTable}, {elements[t][k]} \ {NoTable})
  BY <1>1, <1>2, OneKeyChanged, Zenon
<1>4. Relinked(elements, elements', t, {}, D)
  BY <1>1, <1>3, Zenon
<1>5. /\ st_gc_push_to_sweep(D) /\ st_gc_push_to_mark({}) /\ fresh' = fresh \ {}
      /\ UNCHANGED <<inited, roots, mark, begin, phase, api>>
  BY Zenon DEF st_table_remove_key, st_gc_push_to_mark
<1>6. \A d \in {} : MayAdd(t, d)
  BY Zenon
<1> HIDE DEF D
<1> QED
  BY <1>4, <1>5, <1>6, LinkIInv, Zenon

\* st_table_remove_all keeps the invariant.
LEMMA RemoveAllIInv ==
    ASSUME IInv, UserTurn, NEW t \in Held, st_table_remove_all(t)
    PROVE  IInv'
<1>1. t \in Tables /\ elements \in Graphs /\ Children(t) \in SUBSET Tables
  BY HeldIsReachable, ElementsAreAGraph, RefsInTables, Zenon DEF IInv, Children
<1>2. /\ elements' \in Graphs
      /\ \A u \in Tables \ {t} : Refs(elements', u) = Refs(elements, u)
      /\ Refs(elements', t) = {}
  <2>1. /\ elements' \in Graphs
        /\ \A u \in Tables \ {t} : elements'[u] = elements[u]
        /\ \A k \in Keys : elements'[t][k] = NoTable
    BY <1>1, Zenon DEF st_table_remove_all, NoElements, Graphs
  <2> QED
    BY <2>1, Zenon DEF Refs
<1>3. Relinked(elements, elements', t, {}, Children(t))
  BY <1>1, <1>2, Zenon DEF Relinked, Children
<1>4. /\ st_gc_push_to_sweep(Children(t)) /\ st_gc_push_to_mark({}) /\ fresh' = fresh \ {}
      /\ UNCHANGED <<inited, roots, mark, begin, phase, api>>
  BY Zenon DEF st_table_remove_all, st_gc_push_to_mark
<1>5. \A d \in {} : MayAdd(t, d)
  BY Zenon
<1> QED
  BY <1>3, <1>4, <1>5, LinkIInv, Zenon

-----------------------------------------------------------------------------
(* Creating a table, giving it up, and the roots.                            *)

\* st_table_new keeps the invariant.
LEMMA NewIInv ==
    ASSUME IInv, NEW t \in Tables, st_table_new(t)
    PROVE  IInv'
<1>1. /\ UNCHANGED <<elements, roots, mark_queue, prev_sweep_queue, sweep_queue,
                     remained_queue, garbage_queue, begin, phase, api>>
      /\ api = "open" /\ t \notin inited
      /\ inited' = inited \cup {t} /\ fresh' = fresh \cup {t}
  BY Zenon DEF st_table_new, sweep_lists
<1>2. Children(t) = {} /\ mark[t] = st_gc_status_unknown
  BY <1>1, Zenon DEF IInv, FreedIsBlank
<1>3. mark' = mark
  BY <1>2, Zenon DEF st_table_new, IInv, TypeOK
<1>4. /\ \A u \in Tables : Children(u)' = Children(u) /\ IsGarbage(u)' = IsGarbage(u)
      /\ Black' = Black /\ SweepListed' = SweepListed /\ Kept' = Kept
  BY <1>1, <1>3, Zenon DEF Children, IsGarbage, Black, SweepListed, Kept
<1>5. Unreferenced(t)
  BY <1>1, Zenon DEF IInv, FreedIsBlank, NoDanglingReference, Unreferenced
<1>6. t \notin roots \cup mark_queue \cup SweepListed
  BY <1>1, Zenon DEF IInv, TypeOK, QueueNodesValid
<1>7. TypeOK' /\ PhaseOK' /\ ClosedMeansNoRoots' /\ DestroyIsClean'
  <2>1. PhaseOK' /\ ClosedMeansNoRoots' /\ DestroyIsClean'
    BY <1>1, <1>3, Zenon DEF IInv, PhaseOK, ClosedMeansNoRoots, DestroyIsClean
  <2>2. TypeOK'
    BY <1>1, <1>3, Zenon DEF IInv, TypeOK
  <2> QED
    BY <2>1, <2>2, Zenon
<1>8. FreedIsBlank' /\ GarbageIsQueued' /\ RemainedIsMarked'
  <2>1. FreedIsBlank'
    BY <1>1, <1>3, <1>4, InTables, Zenon DEF IInv, FreedIsBlank
  <2>2. GarbageIsQueued'
    BY <1>1, <1>3, <1>4, InTables, Zenon DEF IInv, GarbageIsQueued
  <2>3. RemainedIsMarked'
    BY <1>1, <1>3, <1>4, InTables, Zenon DEF IInv, RemainedIsMarked
  <2> QED
    BY <2>1, <2>2, <2>3
<1>9. QueueNodesValid' /\ NoDanglingReference'
  <2>1. QueueNodesValid'
    BY <1>1, <1>2, <1>4, InTables, Zenon DEF IInv, QueueNodesValid
  <2>2. NoDanglingReference'
    BY <1>1, <1>2, <1>4, InTables DEF IInv, NoDanglingReference
  <2> QED
    BY <2>1, <2>2
<1>10. TriColour' /\ RootsAreMarked'
  <2>1. TriColour'
    BY <1>1, <1>4, InTables, Zenon DEF IInv, TriColour
  <2>2. RootsAreMarked'
    BY <1>1, <1>4, InTables, Zenon DEF IInv, RootsAreMarked, LateRoot, Unreferenced
  <2> QED
    BY <2>1, <2>2
<1>11. FreshIsPrivate'
  <2>1. \A u \in Tables : Unreferenced(u)' = Unreferenced(u)
    BY <1>4, Zenon DEF Unreferenced
  <2> QED
    BY <1>1, <1>2, <1>3, <1>4, <1>5, <1>6, <2>1, InTables, Zenon DEF IInv, FreshIsPrivate
<1>12. KeptIsLive'
  BY <1>1, <1>4, KeptIsClosed, Zenon DEF IInv, KeptIsLive
<1>13. MarkedIsSupported' /\ NoLeak'
  <2>1. MarkedIsSupported'
    BY <1>1, <1>4, ZenonT(30) DEF IInv, MarkedIsSupported
  <2>2. NoLeak'
    BY <1>1, <1>4, ZenonT(30) DEF IInv, NoLeak
  <2> QED
    BY <2>1, <2>2
<1> QED
  BY <1>7, <1>8, <1>9, <1>10, <1>11, <1>12, <1>13, Zenon DEF IInv

\* st_table_free keeps the invariant.
LEMMA FreeIInv ==
    ASSUME IInv, NEW t \in Tables, st_table_free(t)
    PROVE  IInv'
<1>1. /\ UNCHANGED <<elements, roots, mark, mark_queue, prev_sweep_queue, sweep_queue,
                     remained_queue, garbage_queue, begin, phase, api>>
      /\ api = "open" /\ t \in fresh
      /\ inited' = inited \ {t} /\ fresh' = fresh \ {t}
  BY Zenon DEF st_table_free, sweep_lists
<1>2. /\ Children(t) = {} /\ mark[t] = st_gc_status_unknown /\ Unreferenced(t)
      /\ t \notin roots \cup mark_queue \cup SweepListed /\ t \notin Black
  BY <1>1 DEF IInv, FreshIsPrivate, Black, st_gc_status_unknown, st_gc_status_reachable
<1>3. /\ \A u \in Tables : Children(u)' = Children(u) /\ IsGarbage(u)' = IsGarbage(u)
      /\ Black' = Black /\ SweepListed' = SweepListed /\ Kept' = Kept
  BY <1>1, Zenon DEF Children, IsGarbage, Black, SweepListed, Kept
<1>4. TypeOK' /\ PhaseOK' /\ ClosedMeansNoRoots' /\ DestroyIsClean'
  <2>1. PhaseOK' /\ ClosedMeansNoRoots' /\ DestroyIsClean'
    BY <1>1, <1>2, Zenon DEF IInv, PhaseOK, ClosedMeansNoRoots, DestroyIsClean
  <2>2. TypeOK'
    BY <1>1, <1>2 DEF IInv, TypeOK
  <2> QED
    BY <2>1, <2>2
<1>5. FreedIsBlank' /\ GarbageIsQueued' /\ RemainedIsMarked'
  <2>1. FreedIsBlank'
    BY <1>1, <1>2, <1>3, InTables, Zenon DEF IInv, FreedIsBlank
  <2>2. GarbageIsQueued'
    BY <1>1, <1>2, <1>3, InTables, Zenon DEF IInv, GarbageIsQueued
  <2>3. RemainedIsMarked'
    BY <1>1, <1>2, <1>3, InTables, Zenon DEF IInv, RemainedIsMarked
  <2> QED
    BY <2>1, <2>2, <2>3
<1>6. QueueNodesValid'
  BY <1>1, <1>2, <1>3, Zenon DEF IInv, QueueNodesValid
<1>7. NoDanglingReference'
  BY <1>1, <1>2, <1>3, InTables DEF IInv, NoDanglingReference, Unreferenced
<1>8. TriColour' /\ RootsAreMarked' /\ FreshIsPrivate'
  <2>1. TriColour'
    BY <1>1, <1>3, InTables, Zenon DEF IInv, TriColour
  <2>2. RootsAreMarked'
    BY <1>1, <1>3, InTables DEF IInv, RootsAreMarked, LateRoot, Unreferenced
  <2>3. FreshIsPrivate'
    BY <1>1, <1>3, InTables DEF IInv, TypeOK, FreshIsPrivate, Unreferenced
  <2> QED
    BY <2>1, <2>2, <2>3, Zenon
<1>9. KeptIsLive'
  <2>1. t \notin Kept
    <3>1. roots \cup Black \cup mark_queue \subseteq Kept \ {t} /\ Kept \ {t} \in SUBSET Tables
      BY <1>2, KeptIsClosed, Zenon DEF IInv
    <3>2. ClosedUnder(elements, Kept \ {t}, Tables)
      BY <1>2, KeptIsClosed, Zenon DEF IInv, KeptIsLive, ClosedUnder, Children, Unreferenced
    <3> QED
      BY <3>1, <3>2, ReachLeast, Zenon DEF Kept
  <2> QED
    BY <2>1, <1>1, <1>3, KeptIsClosed, Zenon DEF IInv, KeptIsLive
<1>10. MarkedIsSupported' /\ NoLeak'
  <2>1. MarkedIsSupported'
    BY <1>1, <1>3, InTables, Zenon DEF IInv, MarkedIsSupported
  <2>2. NoLeak'
    BY <1>1, <1>3, ZenonT(30) DEF IInv, NoLeak
  <2> QED
    BY <2>1, <2>2
<1> QED
  BY <1>4, <1>5, <1>6, <1>7, <1>8, <1>9, <1>10, Zenon DEF IInv

\* st_gc_add_root keeps the invariant, also in the middle of a round.
LEMMA AddRootIInv ==
    ASSUME IInv, UserTurn, NEW t \in fresh, st_gc_add_root(t)
    PROVE  IInv'
<1>1. /\ UNCHANGED <<inited, elements, mark, mark_queue, prev_sweep_queue, sweep_queue,
                     remained_queue, garbage_queue, begin, phase, api>>
      /\ roots' = roots \cup {t} /\ fresh' = fresh \ {t} /\ api = "open" /\ t \in Tables
      /\ t \in inited
  BY Zenon DEF st_gc_add_root, sweep_lists, UserTurn, IInv, TypeOK
<1>2. /\ Children(t) = {} /\ Unreferenced(t) /\ ~IsGarbage(t)
      /\ t \notin roots \cup mark_queue \cup SweepListed /\ t \notin Black
  BY DEF IInv, FreshIsPrivate, Black, IsGarbage, st_gc_status_unknown,
         st_gc_status_reachable, st_gc_status_garbage
<1>3. /\ \A u \in Tables : Children(u)' = Children(u) /\ IsGarbage(u)' = IsGarbage(u)
      /\ \A u \in Tables : Unreferenced(u) => Unreferenced(u)'
      /\ Black' = Black /\ SweepListed' = SweepListed
  BY <1>1, Zenon DEF Children, IsGarbage, Black, SweepListed, Unreferenced
<1>4. TypeOK' /\ PhaseOK' /\ ClosedMeansNoRoots' /\ DestroyIsClean'
  <2>1. PhaseOK' /\ ClosedMeansNoRoots' /\ DestroyIsClean'
    BY <1>1, Zenon DEF IInv, PhaseOK, ClosedMeansNoRoots, DestroyIsClean
  <2>2. TypeOK'
    BY <1>1, Zenon DEF IInv, TypeOK
  <2> QED
    BY <2>1, <2>2, Zenon
<1>5. FreedIsBlank' /\ GarbageIsQueued' /\ RemainedIsMarked' /\ QueueNodesValid'
      /\ NoDanglingReference'
  <2>1. FreedIsBlank'
    BY <1>1, <1>3, InTables DEF IInv, TypeOK, FreedIsBlank
  <2>2. GarbageIsQueued'
    BY <1>1, <1>3, InTables, Zenon DEF IInv, GarbageIsQueued
  <2>3. RemainedIsMarked'
    BY <1>1, <1>3, InTables, Zenon DEF IInv, RemainedIsMarked
  <2>4. QueueNodesValid'
    BY <1>1, <1>3, InTables, Zenon DEF IInv, QueueNodesValid
  <2>5. NoDanglingReference'
    BY <1>1, <1>3, InTables, Zenon DEF IInv, NoDanglingReference
  <2> QED
    BY <2>1, <2>2, <2>3, <2>4, <2>5, Zenon
<1>6. TriColour' /\ FreshIsPrivate'
  <2>1. TriColour'
    BY <1>1, <1>3, InTables DEF IInv, TriColour
  <2>2. FreshIsPrivate'
    BY <1>1, <1>3, InTables DEF IInv, TypeOK, FreshIsPrivate, Unreferenced
  <2> QED
    BY <2>1, <2>2, Zenon
<1>7. RootsAreMarked'
  BY <1>1, <1>2, <1>3, InTables, SMTT(30) DEF IInv, RootsAreMarked, LateRoot, Unreferenced
<1>8. KeptIsLive'
  <2>1. /\ (roots \cup Black \cup mark_queue)' \subseteq Kept \cup {t}
        /\ Kept \cup {t} \in SUBSET Tables
    BY <1>1, <1>3, KeptIsClosed, Zenon DEF IInv
  <2>2. ClosedUnder(elements', Kept \cup {t}, Tables)
    BY <1>1, <1>2, KeptIsClosed, Zenon DEF IInv, ClosedUnder, Children
  <2>3. Kept' \subseteq Kept \cup {t}
    BY <2>1, <2>2, ReachLeast, Zenon DEF Kept
  <2> QED
    BY <1>1, <1>2, <1>3, <2>1, <2>3, Zenon DEF IInv, KeptIsLive
<1>9. MarkedIsSupported'
  <2> DEFINE X == roots \cup {t} \cup sweep_queue \cup remained_queue
             via == roots \cup {t} \cup Black
  <2>1. ASSUME NEW C \in SUBSET Tables, X \subseteq C, ClosedUnder(elements, C, via)
        PROVE  Black \cup mark_queue \subseteq C
    BY <2>1, BlackInClosed, Zenon
  <2>2. Black \cup mark_queue \in SUBSET Tables
    BY Zenon DEF IInv, TypeOK, Black
  <2>3. Black \cup mark_queue \subseteq ReachFrom(elements, X, via)
    <3> HIDE DEF X, via
    <3> QED
      BY <2>1, <2>2, ReachGreatest, Zenon
  <2> QED
    BY <1>1, <1>3, <2>3, Zenon DEF MarkedIsSupported
<1>10. NoLeak'
  <2> DEFINE X == roots \cup {t} \cup prev_sweep_queue \cup sweep_queue \cup remained_queue
             via == Tables \ garbage_queue
             P == inited \ ((fresh \ {t}) \cup garbage_queue)
  <2>1. ASSUME NEW C \in SUBSET Tables, X \subseteq C, ClosedUnder(elements, C, via)
        PROVE  P \subseteq C
    <3>1. inited \ (fresh \cup garbage_queue) \subseteq C
      BY <2>1, ReachLeast DEF IInv, NoLeak
    <3> QED
      BY <3>1, <2>1, Zenon
  <2>2. P \in SUBSET Tables
    BY Zenon DEF IInv, TypeOK
  <2>3. P \subseteq ReachFrom(elements, X, via)
    <3> HIDE DEF X, via, P
    <3> QED
      BY <2>1, <2>2, ReachGreatest, Zenon
  <2> QED
    BY <1>1, <2>3, Zenon DEF NoLeak
<1> QED
  BY <1>4, <1>5, <1>6, <1>7, <1>8, <1>9, <1>10 DEF IInv

\* st_gc_remove_root keeps the invariant.
LEMMA RemoveRootIInv ==
    ASSUME IInv, UserTurn, NEW t \in roots, st_gc_remove_root(t)
    PROVE  IInv'
<1>1. /\ UNCHANGED <<inited, fresh, elements, mark, mark_queue, begin, phase, api>>
      /\ roots' = roots \ {t} /\ Children(t) = {} /\ phase = "unlocked" /\ api = "open"
  BY Zenon DEF st_gc_remove_root, UserTurn
<1>2. t \in Tables /\ t \in inited /\ t \notin garbage_queue /\ t \notin fresh
  BY MarkedNotGarbage, Zenon DEF IInv, TypeOK, FreshIsPrivate
<1>3. /\ prev_sweep_queue' = prev_sweep_queue \ {t}
      /\ sweep_queue' = sweep_queue \cup {t}
      /\ remained_queue' = remained_queue \ {t}
      /\ garbage_queue' = garbage_queue
      /\ SweepListed' = SweepListed \cup {t}
  BY <1>2, Zenon DEF st_gc_remove_root, st_gc_push_to_sweep, SweepListed
<1>4. /\ \A u \in Tables : Children(u)' = Children(u) /\ IsGarbage(u)' = IsGarbage(u)
      /\ \A u \in Tables : Unreferenced(u) => Unreferenced(u)'
      /\ Black' = Black
  BY <1>1, Zenon DEF Children, IsGarbage, Black, Unreferenced
<1>5. TypeOK' /\ PhaseOK' /\ ClosedMeansNoRoots' /\ DestroyIsClean'
  <2>1. TypeOK'
    BY <1>1, <1>2, <1>3 DEF IInv, TypeOK
  <2>2. PhaseOK' /\ ClosedMeansNoRoots' /\ DestroyIsClean'
    BY <1>1, <1>3, Zenon DEF IInv, PhaseOK, ClosedMeansNoRoots, DestroyIsClean
  <2> QED
    BY <2>1, <2>2, Zenon
<1>6. FreedIsBlank' /\ GarbageIsQueued' /\ RemainedIsMarked' /\ NoDanglingReference'
  <2>1. FreedIsBlank'
    BY <1>1, <1>3, <1>4, InTables DEF IInv, TypeOK, FreedIsBlank
  <2>2. GarbageIsQueued'
    BY <1>1, <1>3, <1>4, InTables, Zenon DEF IInv, GarbageIsQueued
  <2>3. RemainedIsMarked'
    BY <1>1, <1>3, <1>4, InTables, Zenon DEF IInv, RemainedIsMarked
  <2>4. NoDanglingReference'
    BY <1>1, <1>3, <1>4, InTables, Zenon DEF IInv, NoDanglingReference
  <2> QED
    BY <2>1, <2>2, <2>3, <2>4, Zenon
<1>7. QueueNodesValid'
  BY <1>1, <1>2, <1>3 DEF IInv, QueueNodesValid
<1>8. FreshIsPrivate' /\ TriColour'
  <2>1. FreshIsPrivate'
    BY <1>1, <1>2, <1>3, <1>4, InTables DEF IInv, TypeOK, FreshIsPrivate, Unreferenced
  <2>2. TriColour'
    BY <1>1, <1>2, <1>3, <1>4, InTables, Zenon DEF IInv, TriColour
  <2> QED
    BY <2>1, <2>2, Zenon
<1>9. RootsAreMarked'
  BY <1>1, <1>3, <1>4, InTables DEF IInv, RootsAreMarked, LateRoot, Unreferenced
<1>10. KeptIsLive'
  <2>1. (roots \cup Black \cup mark_queue)' \subseteq Kept /\ Kept \in SUBSET Tables
    BY <1>1, <1>4, KeptIsClosed, Zenon DEF IInv
  <2>2. ClosedUnder(elements', Kept, Tables)
    BY <1>1, KeptIsClosed, Zenon DEF IInv, ClosedUnder, Children
  <2>3. Kept' \subseteq Kept
    BY <2>1, <2>2, ReachLeast, Zenon DEF Kept
  <2> QED
    BY <1>1, <1>4, <2>1, <2>3, Zenon DEF IInv, KeptIsLive
<1>11. MarkedIsSupported'
  <2> DEFINE X == (roots \ {t}) \cup sweep_queue' \cup remained_queue'
             via == (roots \ {t}) \cup Black
  <2>1. ASSUME NEW C \in SUBSET Tables, X \subseteq C, ClosedUnder(elements, C, via)
        PROVE  Black \cup mark_queue \subseteq C
    <3>1. ClosedUnder(elements, C, roots \cup Black)
      BY <2>1, <1>1, Zenon DEF ClosedUnder, Children
    <3>2. roots \cup sweep_queue \cup remained_queue \subseteq C
      BY <2>1, <1>3, Zenon
    <3> QED
      BY <2>1, <3>1, <3>2, BlackInClosed, Zenon
  <2>2. Black \cup mark_queue \in SUBSET Tables
    BY Zenon DEF IInv, TypeOK, Black
  <2>3. Black \cup mark_queue \subseteq ReachFrom(elements, X, via)
    <3> HIDE DEF X, via
    <3> QED
      BY <2>1, <2>2, ReachGreatest
  <2> QED
    BY <1>1, <1>4, <2>3, Zenon DEF MarkedIsSupported
<1>12. NoLeak'
  <2>1. (roots \cup prev_sweep_queue \cup sweep_queue \cup remained_queue)'
          = roots \cup prev_sweep_queue \cup sweep_queue \cup remained_queue
    BY <1>1, <1>3, Zenon
  <2> QED
    BY <1>1, <1>3, <2>1, ZenonT(30) DEF IInv, NoLeak
<1> QED
  BY <1>5, <1>6, <1>7, <1>8, <1>9, <1>10, <1>11, <1>12, Zenon DEF IInv

-----------------------------------------------------------------------------
(* The theorems.                                                             *)

\* Every step of the users and of the collector keeps the inductive invariant.
LEMMA NextIInv == IInv /\ [Next]_vars => IInv'
<1> SUFFICES ASSUME IInv, [Next]_vars PROVE IInv'
  BY Zenon
<1>1. CASE Users
  <2>1. CASE \E t \in Tables : st_table_new(t)
    BY <2>1, NewIInv, Zenon
  <2>2. CASE \E t \in Tables : st_table_free(t)
    BY <2>2, FreeIInv, Zenon
  <2>3. CASE UserStep
    <3>1. UserTurn
      BY <2>3, Zenon DEF UserStep
    <3> QED
      BY <2>3, <3>1, SetKeyValueIInv, AddKeyValueIInv, RemoveKeyIInv, RemoveAllIInv,
         AddRootIInv, RemoveRootIInv, Zenon DEF UserStep
  <2> QED
    BY <1>1, <2>1, <2>2, <2>3, Zenon DEF Users
<1>2. CASE st_gc_run
  BY <1>2, GcRunIInv, Zenon
<1>3. CASE GcVisit
  BY <1>3, MarkReachableIInv, MarkGarbageInPrevSweepIInv, MarkGarbageInSweepIInv,
     FreeTablesIInv DEF GcVisit
<1>4. CASE st_gc_mark_tables
  BY <1>4, LoopDoneIInv
<1>5. CASE RoundDone
  BY <1>5, RoundDoneIInv
<1>6. CASE BudgetSpent
  BY <1>6, BudgetSpentIInv
<1>7. CASE st_table_pool_destroy
  BY <1>7, PoolDestroyIInv
<1>8. CASE st_gc_destroy
  BY <1>8, GcDestroyIInv
<1>9. CASE UNCHANGED vars
  BY <1>9, StutterIInv, Zenon
<1> QED
  BY <1>1, <1>2, <1>3, <1>4, <1>5, <1>6, <1>7, <1>8, <1>9, Zenon DEF Next

\* The invariant that all the theorems below rest on.
THEOREM InductiveInvariant == Spec => []IInv
  BY InitIInv, NextIInv, PTL DEF Spec

\* The variables of the collector keep their types.
THEOREM TypeCorrect == Spec => []TypeOK
<1>1. IInv => TypeOK
  BY Zenon DEF IInv
<1> QED
  BY <1>1, InductiveInvariant, PTL

\* For any number of tables and keys, a table that some path from a root leads
\* to is never judged garbage and never freed.
THEOREM LiveTablesAreKept == Spec => []LiveTablesKept
<1>1. IInv => LiveTablesKept
  BY KeptIsClosed, Zenon DEF IInv, KeptIsLive, GarbageIsQueued, LiveTablesKept
<1> QED
  BY <1>1, InductiveInvariant, PTL

\* A walk over the elements of a table that is not garbage never meets a freed
\* table.
THEOREM NoReferenceDangles == Spec => []NoDanglingReference
<1>1. IInv => NoDanglingReference
  BY Zenon DEF IInv
<1> QED
  BY <1>1, InductiveInvariant, PTL

\* The lists of the collector link tables that exist, each in one sweep list.
THEOREM QueuesAreSound == Spec => [](QueueNodesValid /\ GarbageIsQueued)
<1>1. IInv => QueueNodesValid /\ GarbageIsQueued
  BY Zenon DEF IInv
<1> QED
  BY <1>1, InductiveInvariant, PTL

\* Every table that is not on a path from a root is still within the reach of
\* a later sweep.
THEOREM NothingLeaks == Spec => []NoLeak
<1>1. IInv => NoLeak
  BY Zenon DEF IInv
<1> QED
  BY <1>1, InductiveInvariant, PTL

\* A pool that is destroyed has no table left, and st_gc_destroy never answers
\* ST_STATE_INVALID.
THEOREM DestroyLeavesNothing == Spec => []DestroyIsClean
<1>1. IInv => DestroyIsClean
  BY Zenon DEF IInv
<1> QED
  BY <1>1, InductiveInvariant, PTL

-----------------------------------------------------------------------------
(* The refinement.                                                           *)

\* Reachability is the same notion in both specifications.
LEMMA SameReachable ==
    Heap!Reachable = Reachable
  BY Zenon
     DEF Heap!Reachable, Reachable, Heap!ReachFrom, ReachFrom, Heap!ClosedUnder, ClosedUnder,
         Heap!Refs, Refs

\* An operation of a user on tables is the same operation of TableHeap.
LEMMA UserStepRefines == IInv /\ UserStep => [Heap!Next]_(Heap!vars)
<1> SUFFICES ASSUME IInv, UserStep PROVE Heap!Next
  BY Zenon
<1>1. /\ Held \subseteq Reachable /\ Obtainable \subseteq fresh \cup Reachable
      /\ Heap!Reachable = Reachable
      /\ fresh \ {NoTable} = fresh
  BY HeldIsReachable, SameReachable, NoTableAssumption DEF IInv, TypeOK
<1>0. Held \subseteq Tables
  BY HeldIsReachable, Zenon DEF IInv
<1>2. ASSUME NEW t \in Held, NEW k \in Keys, NEW v \in Tables \cup {NoTable},
             v = NoTable \/ MayAdd(t, v), st_table_set_key_value(t, k, v)
      PROVE  Heap!Next
  <2>1. t \in Heap!Reachable /\ v \in fresh \cup Heap!Reachable \cup {NoTable}
    BY <1>1, <1>2, Zenon DEF MayAdd
  <2>2. Heap!Store(t, k, v)
    BY <1>2, <2>1, Zenon DEF st_table_set_key_value, Heap!Store
  <2> QED
    BY <1>0, <2>2, Zenon DEF Heap!Next
<1>3. ASSUME NEW t \in Held, NEW k \in Keys, NEW c \in Tables,
             MayAdd(t, c), st_table_add_key_value(t, k, c)
      PROVE  Heap!Next
  <2>1. t \in Heap!Reachable /\ c \in fresh \cup Heap!Reachable \cup {NoTable}
    BY <1>1, <1>3, Zenon DEF MayAdd
  <2>2. Heap!Store(t, k, c)
    BY <1>3, <2>1, Zenon DEF st_table_add_key_value, Heap!Store
  <2> QED
    BY <1>0, <2>2, Zenon DEF Heap!Next
<1>4. ASSUME NEW t \in Held, NEW k \in Keys, st_table_remove_key(t, k)
      PROVE  Heap!Next
  <2>1. Heap!Store(t, k, NoTable)
    BY <1>1, <1>4, Zenon DEF st_table_remove_key, Heap!Store
  <2> QED
    BY <1>0, <2>1, Zenon DEF Heap!Next
<1>5. ASSUME NEW t \in Held, st_table_remove_all(t)
      PROVE  Heap!Next
  <2>1. Heap!Clear(t)
    BY <1>1, <1>5, Zenon DEF st_table_remove_all, Heap!Clear, NoElements, Heap!NoElements
  <2> QED
    BY <1>0, <2>1, Zenon DEF Heap!Next
<1>6. ASSUME NEW t \in fresh, st_gc_add_root(t)
      PROVE  Heap!Next
  BY <1>6, Zenon DEF st_gc_add_root, Heap!AddRoot, Heap!Next
<1>7. ASSUME NEW t \in roots, st_gc_remove_root(t)
      PROVE  Heap!Next
  BY <1>7, Zenon DEF st_gc_remove_root, Heap!RemoveRoot, Heap!Next
<1> QED
  BY <1>2, <1>3, <1>4, <1>5, <1>6, <1>7, Zenon DEF UserStep

\* Whatever st_gc_free_tables frees may be collected in TableHeap; the other
\* steps of the collector leave the tables alone.
LEMMA GcStepRefines ==
    IInv /\ (st_gc_run \/ GcVisit \/ st_gc_mark_tables \/ RoundDone \/ BudgetSpent
               \/ st_table_pool_destroy \/ st_gc_destroy)
      => [Heap!Next]_(Heap!vars)
<1> SUFFICES ASSUME IInv, st_gc_run \/ GcVisit \/ st_gc_mark_tables \/ RoundDone \/ BudgetSpent
                            \/ st_table_pool_destroy \/ st_gc_destroy
             PROVE  Heap!Next \/ UNCHANGED Heap!vars
  BY Zenon
<1>1. ASSUME NEW t \in Tables, st_gc_free_tables(t)
      PROVE  Heap!Next
  <2>1. t \in inited /\ t \notin Reachable /\ t \notin fresh
    BY <1>1, KeptIsClosed, Zenon DEF st_gc_free_tables, IInv, QueueNodesValid, SweepListed,
                              FreshIsPrivate, KeptIsLive, GarbageIsQueued
  <2>2. Heap!Collect(t)
    BY <1>1, <2>1, SameReachable, Zenon
       DEF st_gc_free_tables, Heap!Collect, NoElements, Heap!NoElements
  <2> QED
    BY <2>2, Zenon DEF Heap!Next
<1>2. ASSUME NEW t \in Tables,
             st_gc_mark_reachable_tables(t) \/ MarkGarbageInPrevSweep(t) \/ MarkGarbageInSweep(t)
      PROVE  UNCHANGED heap
  BY <1>2, Zenon DEF st_gc_mark_reachable_tables, MarkGarbageInPrevSweep, MarkGarbageInSweep
<1>3. ASSUME st_gc_run \/ st_gc_mark_tables \/ RoundDone \/ BudgetSpent
               \/ st_table_pool_destroy \/ st_gc_destroy
      PROVE  UNCHANGED heap
  BY <1>3, Zenon DEF st_gc_run, st_gc_mark_tables, LoopDone, RoundDone, BudgetSpent,
              st_table_pool_destroy, st_gc_destroy
<1> QED
  BY <1>1, <1>2, <1>3, Zenon DEF GcVisit, heap, Heap!vars

\* The collector implements TableHeap: whatever it does between the operations
\* of the users, all they can notice is that tables which no root leads to are
\* gone.
THEOREM Refinement == Spec => ImplementsTableHeap
<1>1. Init => Heap!Init
  BY Zenon DEF Init, Heap!Init, NoElements, Heap!NoElements
<1>2. IInv /\ [Next]_vars => [Heap!Next]_(Heap!vars)
  <2> SUFFICES ASSUME IInv, [Next]_vars PROVE [Heap!Next]_(Heap!vars)
    BY Zenon
  <2>1. ASSUME NEW t \in Tables, st_table_new(t) PROVE Heap!Next
    BY <2>1, Zenon DEF st_table_new, Heap!Create, Heap!Next
  <2>2. ASSUME NEW t \in Tables, st_table_free(t) PROVE Heap!Next
    BY <2>2, Zenon DEF st_table_free, Heap!Discard, Heap!Next
  <2>3. CASE Users
    BY <2>1, <2>2, <2>3, UserStepRefines, Zenon DEF Users
  <2>4. CASE UNCHANGED vars
    BY <2>4, Zenon DEF vars, heap, Heap!vars
  <2> QED
    BY <2>3, <2>4, GcStepRefines, Zenon DEF Next
<1>3. Spec => Heap!Init /\ [][Heap!Next]_(Heap!vars)
  BY <1>1, <1>2, InductiveInvariant, PTL DEF Spec
<1> QED
  BY <1>3, Zenon DEF ImplementsTableHeap, Heap!Spec

=============================================================================
