-------------------------------- MODULE Capi --------------------------------
(***************************************************************************)
(* The life of the library, src/src/capi/capi.c: st_capi_init builds it    *)
(* layer by layer on a piece of shared memory, processes come and go as in *)
(* Processes, and st_capi_destroy takes the layers down from where         *)
(* init_state says that they have got to.  The same st_capi_destroy clears *)
(* up after an st_capi_init that fails half-way.                           *)
(*                                                                         *)
(* A layer is what it holds: the shared memory, its locks, its arrays.     *)
(* What is in the shared memory goes with it.                              *)
(*                                                                         *)
(* The operators named Wrong... are the definition that follows them with  *)
(* a mistake in it.                                                        *)
(***************************************************************************)
EXTENDS Processes

CONSTANT Faults     \* what may fail while the library is built

NONE == 1
SHM == 2
REGION == 3
PAGEPOOL == 4
SLAB == 5
TABLE == 6
GROOT == 7
PROOT == 8
DONE == 9

\* What the layer of each init_state holds.
Layer == <<{},
           {"shm name", "mapping", "shm_fd"},
           {"rcb lock"},
           {"regions", "regions_lock", "pages_lock"},
           {"group locks"},
           {"gc"},
           {"groot"},
           {"lib lock"},
           {}>>

Everything == UNION {Layer[i] : i \in NONE..DONE}

\* What a process that is killed inside an operation leaves in the slabs: a
\* table or an element that no process, table or queue knows of.
Stray == "stray object"

VARIABLES
    init_state,     \* lib_state->init_state, 0 when there is no shared memory
    held,           \* what the layers hold, and the objects that got lost
    process_state,  \* where process_state of the master points to
    job,            \* what the master is doing
    last            \* the call that has returned last

cvars == <<init_state, held, process_state, job, last>>

allvars == <<pvars, cvars>>

-----------------------------------------------------------------------------
CapiInit ==
    /\ ProcInit
    /\ init_state = 0
    /\ held = {}
    /\ process_state = "NULL"
    /\ job = "idle"
    /\ last = [call |-> "none"]

\* How a step that may fail in the ways given ends.
Outcomes(faults) == {"ok"} \cup (Faults \cap faults)

\* The master returns from a call.
Return(call_name, ok) ==
    /\ job' = "idle"
    /\ last' = [call |-> call_name, ok |-> ok, alone |-> job = "destroy" => last.alone]

\* An assertion of the master fails, or it uses memory that it no longer has.
Abort ==
    /\ job' = "aborted"
    /\ UNCHANGED <<init_state, held, process_state, last>>

\* A layer is complete, and init_state says so.
Built(layer, with) ==
    /\ init_state' = layer
    /\ held' = held \cup with
    /\ UNCHANGED <<pvars, process_state, job, last>>

\* goto err_quit: st_capi_destroy is called by st_capi_do_init.
Unwind(left) ==
    /\ job' = "unwind"
    /\ held' = held \cup left
    /\ UNCHANGED <<pvars, init_state, process_state, last>>

Building(layer) == job = "init" /\ init_state = layer

-----------------------------------------------------------------------------
(* st_capi_do_init.                                                          *)

\* When process_state is not NULL, st_capi_init returns at once.  The workers
\* of a library that was destroyed have ended.
st_capi_init ==
    /\ job = "idle" /\ process_state = "NULL"
    /\ up = {Master}
    /\ job' = "init"
    /\ last' = [call |-> "none"]
    /\ UNCHANGED <<pvars, init_state, held, process_state>>

\* On failure the name, the mapping and the descriptor are given back.  A
\* failing fcntl gives them back too, but is reported as ST_OK: the master
\* writes to where there is no memory.
st_region_shm_create ==
    /\ Building(0)
    /\ \E outcome \in Outcomes({"shm", "fcntl"}) :
        IF outcome = "ok"
        THEN /\ init_state' = SHM
             /\ held' = Layer[SHM]
             /\ process_state' = "stack"
             /\ UNCHANGED <<job, last>>
        ELSE IF outcome = "shm"
        THEN Return("init", FALSE) /\ UNCHANGED <<init_state, held, process_state>>
        ELSE Abort
    /\ UNCHANGED pvars

st_region_init ==
    /\ Building(SHM)
    /\ \E outcome \in Outcomes({"rcb lock"}) :
        IF outcome = "ok" THEN Built(REGION, Layer[REGION]) ELSE Unwind({})

\* When the second lock cannot be created, the first one and the array are
\* destroyed, and ST_OK is returned.
st_pagepool_init ==
    /\ Building(REGION)
    /\ \E outcome \in Outcomes({"regions_lock", "pages_lock"}) :
        IF outcome = "ok" THEN Built(PAGEPOOL, Layer[PAGEPOOL])
        ELSE IF outcome = "regions_lock" THEN Unwind({})
        ELSE Built(PAGEPOOL, {})

\* A group that fails leaves those before it as they are.
st_slab_pool_init ==
    /\ Building(PAGEPOOL)
    /\ \E outcome \in Outcomes({"group locks"}), left \in {{}, Layer[SLAB]} :
        IF outcome = "ok" THEN Built(SLAB, Layer[SLAB]) ELSE Unwind(left)

st_table_pool_init ==
    /\ Building(SLAB)
    /\ \E outcome \in Outcomes({"gc"}) :
        IF outcome = "ok" THEN Built(TABLE, Layer[TABLE]) ELSE Unwind({})

WrongInitGroot ==
    /\ Building(TABLE)
    /\ \E outcome \in Outcomes({"groot"}) : Built(GROOT, IF outcome = "ok" THEN Layer[GROOT] ELSE {})

\* The first half of st_capi_master_init_roots.  The table is the first object
\* that the slab and the page pool allocate: a destroyed lock makes
\* st_robustlock_lock abort.
InitGroot ==
    /\ Building(TABLE)
    /\ \E outcome \in Outcomes({"groot"}) :
        IF "regions_lock" \notin held THEN Abort /\ UNCHANGED pvars
        ELSE IF outcome = "ok" THEN Built(GROOT, Layer[GROOT])
        ELSE Unwind({})

WrongInitLib ==
    /\ Building(GROOT)
    /\ \E outcome \in Outcomes({"lib lock"}) :
        IF outcome = "ok" THEN Built(PROOT, Layer[PROOT])
        ELSE Return("init", FALSE) /\ UNCHANGED <<pvars, init_state, held, process_state>>

\* The second half.
InitLib ==
    /\ Building(GROOT)
    /\ \E outcome \in Outcomes({"lib lock"}) :
        IF outcome = "ok" THEN Built(PROOT, Layer[PROOT]) ELSE Unwind({})

\* The master registers itself.  process_state points to the stack of
\* st_capi_do_init until it has.
InitMaster ==
    /\ Building(PROOT)
    /\ st_capi_init_process_state(Master)
    /\ IF pc'[Master] = "running"
       THEN /\ process_state' = "slab"
            /\ init_state' = DONE
            /\ Return("init", TRUE)
            /\ UNCHANGED held
       ELSE IF pc'[Master] = "start"
       THEN job' = "unwind" /\ UNCHANGED <<init_state, held, process_state, last>>
       ELSE UNCHANGED cvars

\* st_slab_obj_alloc has no room for its process state.
NoProcessState ==
    /\ Building(PROOT)
    /\ IsAt(Master, "start")
    /\ Unwind({})

st_capi_do_init ==
    \/ st_region_shm_create
    \/ st_region_init
    \/ st_pagepool_init
    \/ st_slab_pool_init
    \/ st_table_pool_init
    \/ InitGroot
    \/ InitLib
    \/ InitMaster
    \/ NoProcessState

-----------------------------------------------------------------------------
(* st_capi_destroy.  It is called by st_capi_do_init when that fails, and by *)
(* the master, whether its workers have ended or not.                        *)

Destroying(layer) == job \in {"destroy", "unwind"} /\ init_state = layer

\* The call remembers whether it is the first attempt and no other process is
\* there.
BeginDestroy ==
    /\ job = "idle" /\ process_state # "NULL" /\ ~call.active
    /\ job' = "destroy"
    /\ last' = [call |-> "none", alone |-> up = {Master} /\ init_state = DONE]
    /\ UNCHANGED <<pvars, init_state, held, process_state>>

\* The layer is gone, and init_state goes down by one.
Down ==
    /\ init_state' = init_state - 1
    /\ held' = held \ Layer[init_state]
    /\ UNCHANGED <<process_state, job, last>>

\* st_capi_do_init asserts that st_capi_destroy succeeds.
DestroyFails ==
    IF job = "unwind" THEN Abort
    ELSE Return("destroy", FALSE) /\ UNCHANGED <<init_state, process_state>>

DestroyDone == Destroying(DONE) /\ Down /\ UNCHANGED pvars

\* st_capi_do_clean_dead_proot(0, 1), whose loop is in Processes; then the lock
\* is destroyed.
BeginDestroyProots == Destroying(PROOT) /\ BeginClean(0, TRUE) /\ UNCHANGED cvars

EndDestroyProots == Destroying(PROOT) /\ EndClean /\ Down

\* st_capi_remove_gc_root.
DestroyGroot ==
    /\ Destroying(GROOT)
    /\ IF "groot" \in held THEN Down ELSE Abort
    /\ UNCHANGED pvars

\* GC shows that st_gc_destroy comes to an end with empty queues.
st_table_pool_destroy == Destroying(TABLE) /\ Down /\ UNCHANGED pvars

\* Any object that is left, a process state, a proot or a stray one, keeps its
\* slab in a list of its group, which is ST_STATE_INVALID; the locks of the
\* other groups may be gone then.
st_slab_pool_destroy ==
    /\ Destroying(SLAB)
    /\ IF pstates = {} /\ roots = {} /\ Stray \notin held THEN Down
       ELSE DestroyFails /\ \E left \in {held, held \ Layer[SLAB]} : held' = left
    /\ UNCHANGED pvars

st_pagepool_destroy ==
    /\ Destroying(PAGEPOOL)
    /\ IF "regions" \in held THEN Down ELSE DestroyFails /\ UNCHANGED held
    /\ UNCHANGED pvars

st_region_destroy == Destroying(REGION) /\ Down /\ UNCHANGED pvars

\* All three calls are made, whichever fails.  Then the phase is logged, out of
\* memory that is unmapped unless it is munmap that has failed.
st_region_shm_destroy ==
    /\ Destroying(SHM)
    /\ \E failed \in SUBSET (Faults \cap Layer[SHM]) :
        IF failed = {}
        THEN /\ init_state' = 0
             /\ held' = {}
             /\ process_state' = "NULL"
             /\ IF job = "unwind" THEN Return("init", FALSE) ELSE Return("destroy", TRUE)
        ELSE IF "mapping" \in failed
        THEN DestroyFails /\ held' = held \ (Layer[SHM] \ failed)
        ELSE Abort
    /\ UNCHANGED pvars

st_capi_destroy ==
    \/ BeginDestroy
    \/ DestroyDone
    \/ BeginDestroyProots
    \/ EndDestroyProots
    \/ DestroyGroot
    \/ st_table_pool_destroy
    \/ st_slab_pool_destroy
    \/ st_pagepool_destroy
    \/ st_region_destroy
    \/ st_region_shm_destroy

-----------------------------------------------------------------------------
(* The processes, while the library is there and when it is taken away.      *)

\* What the next step of a registering worker uses.
Needs(point) ==
    IF point = "pstate" THEN {"group locks"}
    ELSE IF point \in {"proot", "root"} THEN {"gc"}
    ELSE IF point = "alive" THEN {"lib lock"}
    ELSE {}

\* st_capi_worker_init asserts that the library is complete.
Usable(p) == Needs(pc[p]) \subseteq held /\ (pc[p] = "start" => init_state = DONE)

st_capi_worker_init(p) == Usable(p) /\ st_capi_init_process_state(p) /\ UNCHANGED cvars

\* An assertion fails, most often that of st_robustlock_lock for a lock that
\* was destroyed.
WorkerAborts(p) ==
    /\ p \in up /\ ~Usable(p)
    /\ up' = up \ {p}
    /\ UNCHANGED <<pc, pstates, roots, alive, proots, lib_lock, call, cvars>>

\* The lock alive can be created when the collector is gone.
LockAliveLate(p) == ~Usable(p) /\ LockAlive(p) /\ UNCHANGED cvars

\* A worker is killed while it has an object in its hands: a new table that
\* its proot does not have yet, an element not linked yet or linked no more.
\* Its process state and its proot can be found, the object cannot.
DiesInOperation(p) ==
    /\ WorkerDies(p) /\ pc[p] = "running"
    /\ held' = held \cup {Stray}
    /\ UNCHANGED <<init_state, process_state, job, last>>

CapiNext ==
    \/ st_capi_init
    \/ st_capi_do_init
    \/ st_capi_destroy
    \/ \E p \in Workers :
        \/ st_capi_worker_init(p)
        \/ WorkerAborts(p)
        \/ LockAliveLate(p)
        \/ WorkerDies(p) /\ UNCHANGED cvars
        \/ DiesInOperation(p)
        \/ job = "idle" /\ Fork(p) /\ UNCHANGED cvars
    \/ \E max_num \in MaxNums :
        job = "idle" /\ IsAt(Master, "running") /\ BeginClean(max_num, FALSE) /\ UNCHANGED cvars
    \/ Skip /\ UNCHANGED cvars
    \/ Clean /\ UNCHANGED cvars
    \/ job = "idle" /\ EndClean /\ UNCHANGED cvars

CapiSpec == CapiInit /\ [][CapiNext]_allvars

-----------------------------------------------------------------------------
(* Properties.                                                               *)

NothingLeft == process_state = "NULL" /\ held = {} /\ pstates = {} /\ roots = {}

\* st_capi_init is all or nothing: when it reports ST_OK every layer is there
\* and the master is registered, and when it reports an error, whichever step
\* has failed, nothing is left and it can be called again.
InitAllOrNothing ==
    last.call = "init" =>
        IF last.ok
        THEN init_state = DONE => Everything \subseteq held /\ process_state = "slab"
        ELSE NothingLeft

\* st_capi_destroy reports ST_OK only when nothing is left.  When all workers
\* have ended before, however they have ended, it fails for one reason only:
\* one of them was killed inside an operation, with an object in its hands.
DestroyIsComplete ==
    last.call = "destroy" =>
        /\ last.ok <=> process_state = "NULL"
        /\ last.ok => NothingLeft
        /\ last.alone /\ ~last.ok => Stray \in held

\* The assertions of st_capi_init and st_capi_destroy hold, whatever fails
\* while the library is built: "critical error, double fault in destroy" is
\* never reported, and no lock is used that does not exist.
NoDoubleFault == job # "aborted"

\* As long as the library is complete, what a dead process has left behind can
\* be found in proots, also when processes come and go in several lives of the
\* library.
DeadAreFoundWhileUp == init_state = DONE => DeadAreFound

=============================================================================
