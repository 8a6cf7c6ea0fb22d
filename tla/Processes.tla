------------------------------ MODULE Processes ------------------------------
(***************************************************************************)
(* The processes of src/src/capi/capi.c: how a process registers itself,   *)
(* and how the master finds those that have died and releases what they    *)
(* have left behind.                                                       *)
(*                                                                         *)
(* A process owns a process state in shared memory and a table, proot,     *)
(* which is a root of the collector.  It holds the lock alive of its       *)
(* process state as long as it lives; the master finds it dead when it can *)
(* take that lock.                                                         *)
(*                                                                         *)
(* The operators named Wrong... are the definition that follows them with  *)
(* a mistake in it.                                                        *)
(***************************************************************************)
EXTENDS Integers, FiniteSets, Sequences, Functions

CONSTANTS
    Workers,        \* the worker processes
    Master,         \* the process that forks and cleans up
    None,           \* nobody
    MaxRoots,       \* the room for process roots in gc->roots
    DeathPoints,    \* where in st_capi_worker_init, or after it, a worker may die
    MaxNums         \* the arguments max_num of st_capi_clean_dead_proot

Procs == Workers \cup {Master}

\* How far a process has come.
Points == {"start", "pstate", "proot", "root", "alive", "locked", "listed", "running"}

NoCall == [active |-> FALSE]

VARIABLES
    pc,         \* how far each process has come
    up,         \* the processes that are alive
    pstates,    \* those whose process state is allocated
    roots,      \* those whose proot is in gc->roots
    alive,      \* the lock of each process state
    proots,     \* lib_state->proots
    lib_lock,   \* the owner of lib_state->lock
    call        \* the call of st_capi_clean_dead_proot under way

pvars == <<pc, up, pstates, roots, alive, proots, lib_lock, call>>

-----------------------------------------------------------------------------
ProcInit ==
    /\ pc = [p \in Procs |-> "start"]
    /\ up = {Master}
    /\ pstates = {}
    /\ roots = {}
    /\ alive = [p \in Procs |-> "none"]
    /\ proots = <<>>
    /\ lib_lock = None
    /\ call = NoCall

(* st_capi_init_process_state, by the master in st_capi_init and by a worker *)
(* in st_capi_worker_init once the master has forked it.                     *)

IsAt(p, point) == p \in up /\ pc[p] = point

Goes(p, point) == pc' = [pc EXCEPT ![p] = point]

\* lib_state->lock is free, or its owner has died.
LibLockable == lib_lock = None \/ lib_lock \notin up

AllocProcessState(p) ==
    /\ IsAt(p, "start")
    /\ pstates' = pstates \cup {p}
    /\ Goes(p, "pstate")
    /\ UNCHANGED <<up, roots, alive, proots, lib_lock, call>>

\* st_table_new.  When it fails, the process state is given back.
NewProot(p) ==
    /\ IsAt(p, "pstate")
    /\ \/ Goes(p, "proot") /\ UNCHANGED pstates
       \/ Goes(p, "start") /\ pstates' = pstates \ {p}
    /\ UNCHANGED <<up, roots, alive, proots, lib_lock, call>>

\* When gc->roots is full, the error path removes a root that is not there;
\* its assertion fails and the process aborts.
st_gc_add_root(p) ==
    /\ IsAt(p, "proot")
    /\ IF Cardinality(roots) < MaxRoots
       THEN roots' = roots \cup {p} /\ Goes(p, "root") /\ UNCHANGED up
       ELSE up' = up \ {p} /\ UNCHANGED <<pc, roots>>
    /\ UNCHANGED <<pstates, alive, proots, lib_lock, call>>

WrongLockAlive(p) ==
    /\ IsAt(p, "root")
    /\ Goes(p, "alive")
    /\ alive' = [alive EXCEPT ![p] = "free"]
    /\ UNCHANGED <<up, pstates, roots, proots, lib_lock, call>>

\* The lock is created and taken.
LockAlive(p) ==
    /\ IsAt(p, "root")
    /\ Goes(p, "alive")
    /\ alive' = [alive EXCEPT ![p] = "held"]
    /\ UNCHANGED <<up, pstates, roots, proots, lib_lock, call>>

\* When it cannot be created, root and process state are given back.
NoAlive(p) ==
    /\ IsAt(p, "root")
    /\ Goes(p, "start")
    /\ roots' = roots \ {p}
    /\ pstates' = pstates \ {p}
    /\ UNCHANGED <<up, alive, proots, lib_lock, call>>

LockLib(p) ==
    /\ IsAt(p, "alive")
    /\ LibLockable
    /\ lib_lock' = p
    /\ Goes(p, "locked")
    /\ UNCHANGED <<up, pstates, roots, alive, proots, call>>

Insert(p) ==
    /\ IsAt(p, "locked")
    /\ proots' = Append(proots, p)
    /\ Goes(p, "listed")
    /\ UNCHANGED <<up, pstates, roots, alive, lib_lock, call>>

UnlockLib(p) ==
    /\ IsAt(p, "listed")
    /\ lib_lock' = None
    /\ Goes(p, "running")
    /\ UNCHANGED <<up, pstates, roots, alive, proots, call>>

st_capi_init_process_state(p) ==
    \/ AllocProcessState(p)
    \/ NewProot(p)
    \/ st_gc_add_root(p)
    \/ LockAlive(p)
    \/ NoAlive(p)
    \/ LockLib(p)
    \/ Insert(p)
    \/ UnlockLib(p)

\* The locks that p holds stay locked.
WorkerDies(p) ==
    /\ p \in up \cap Workers
    /\ pc[p] \in DeathPoints
    /\ up' = up \ {p}
    /\ UNCHANGED <<pc, pstates, roots, alive, proots, lib_lock, call>>

\* The master forks a worker, between its calls, under a name that nothing is
\* left of.
Fork(p) ==
    /\ IsAt(Master, "running") /\ ~call.active
    /\ p \in Workers \ up
    /\ p \notin pstates
    /\ up' = up \cup {p}
    /\ Goes(p, "start")
    /\ UNCHANGED <<pstates, roots, alive, proots, lib_lock, call>>

-----------------------------------------------------------------------------
(* st_capi_do_clean_dead_proot, by the master; with clean_self when it       *)
(* destroys the library.                                                     *)

\* The call remembers, beside what the code does, who was dead and listed when
\* it began.
BeginClean(max_num, clean_self) ==
    /\ ~call.active
    /\ LibLockable
    /\ lib_lock' = Master
    /\ call' = [active |-> TRUE, max_num |-> max_num, clean_self |-> clean_self,
                num |-> 0, rest |-> proots, were_dead |-> Range(proots) \ up]
    /\ UNCHANGED <<pc, up, pstates, roots, alive, proots>>

\* st_robustlock_trylock on the lock of q.
CanLockAlive(q) == alive[q] = "free" \/ (alive[q] = "held" /\ q \notin up)

WrongToClean(q) == q # Master /\ CanLockAlive(q)

\* A process that is not the caller and whose lock can be taken is dead.
ToClean(q) == IF q = Master THEN call.clean_self ELSE CanLockAlive(q)

\* The loop over proots.
Skip ==
    /\ call.active /\ call.rest # <<>>
    /\ ~ToClean(Head(call.rest))
    /\ call' = [call EXCEPT !.rest = Tail(@)]
    /\ UNCHANGED <<pc, up, pstates, roots, alive, proots, lib_lock>>

\* The end of a loop that has cleaned max_num processes.
Enough(num) == call.max_num # 0 /\ num = call.max_num

\* The list without its entry q.
st_list_remove(list, q) ==
    LET at == CHOOSE i \in 1..Len(list) : list[i] = q
    IN [i \in 1..(Len(list) - 1) |-> list[IF i < at THEN i ELSE i + 1]]

WrongKeepRoot(q) ==
    /\ alive' = [alive EXCEPT ![q] = "none"]
    /\ proots' = st_list_remove(proots, q)
    /\ pstates' = pstates \ {q}
    /\ UNCHANGED roots

\* The lock is destroyed, the process leaves the list, its proot is emptied
\* and no longer a root, and its process state goes back to the slab.
Release(q) ==
    /\ alive' = [alive EXCEPT ![q] = "none"]
    /\ proots' = st_list_remove(proots, q)
    /\ roots' = roots \ {q}
    /\ pstates' = pstates \ {q}

WrongNextEntry(rest) == IF Len(rest) > 1 THEN SubSeq(rest, 3, Len(rest)) ELSE <<>>

\* The loop goes on with the entry that followed the one just removed.
NextEntry(rest) == Tail(rest)

Clean ==
    /\ call.active /\ call.rest # <<>>
    /\ LET q == Head(call.rest)
       IN /\ ToClean(q)
          /\ Release(q)
          /\ IF q = Master THEN Goes(q, "start") ELSE UNCHANGED pc
          /\ call' = [call EXCEPT !.num = @ + 1,
                                  !.rest = IF Enough(call.num + 1) THEN <<>> ELSE NextEntry(@)]
    /\ UNCHANGED <<up, lib_lock>>

EndClean ==
    /\ call.active /\ call.rest = <<>>
    /\ lib_lock' = None
    /\ call' = NoCall
    /\ UNCHANGED <<pc, up, pstates, roots, alive, proots>>

ProcNext ==
    \/ \E p \in Procs : st_capi_init_process_state(p) \/ WorkerDies(p) \/ Fork(p)
    \/ \E max_num \in MaxNums : IsAt(Master, "running") /\ BeginClean(max_num, FALSE)
    \/ Skip
    \/ Clean
    \/ EndClean

ProcSpec == ProcInit /\ [][ProcNext]_pvars

-----------------------------------------------------------------------------
(* Properties.                                                               *)

ProcTypeOK ==
    /\ pc \in [Procs -> Points]
    /\ up \subseteq Procs
    /\ pstates \subseteq Procs
    /\ roots \subseteq Procs /\ Cardinality(roots) <= MaxRoots
    /\ alive \in [Procs -> {"none", "free", "held"}]
    /\ Range(proots) \subseteq Procs /\ IsInjective(proots)
    /\ lib_lock \in Procs \cup {None}
    /\ call.active => call.num \in 0..Cardinality(Procs)

\* The master never releases what a living process uses: from its registration
\* on, its process state is allocated, its proot is a root and its lock is its
\* own.  A process takes its lock before it can be found in proots.
LiveProcessKept ==
    \A p \in up : pc[p] \in {"listed", "running"} =>
        p \in pstates /\ p \in roots /\ alive[p] = "held" /\ p \in Range(proots)

\* What a dead process has left behind can be found in proots: "if process
\* died, it's share memory will be release".
DeadAreFound ==
    \A p \in Procs \ up : p \in pstates \cup roots => p \in Range(proots)

\* A call that does not stop at max_num has released every process that was
\* dead when it began.
CleanFindsAll ==
    [][EndClean /\ ~Enough(call.num)
        => call.were_dead \cap (Range(proots) \cup roots \cup pstates) = {}]_pvars

=============================================================================
