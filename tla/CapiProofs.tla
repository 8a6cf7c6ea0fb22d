----------------------------- MODULE CapiProofs -----------------------------
(***************************************************************************)
(* Theorems about the registration of processes and about cleanups, for    *)
(* any number of workers, whatever fails while the library is built and    *)
(* wherever its workers die; then about the life of the library, for any   *)
(* number of lives: what its layers hold, what is left of its processes,   *)
(* and what st_capi_init and st_capi_destroy report.                       *)
(***************************************************************************)
EXTENDS Capi, FiniteSetTheorems, TLAPS

\* The master is no worker, nobody is a process, gc->roots has room for every
\* process, and max_num is a number.
Sizes ==
    /\ Master \notin Workers
    /\ None \notin Procs
    /\ IsFiniteSet(Procs)
    /\ MaxRoots \in Nat /\ Cardinality(Procs) <= MaxRoots
    /\ MaxNums \subseteq Nat

-----------------------------------------------------------------------------
(* The inductive invariant of the processes.                                 *)

CallType ==
    \/ call = NoCall
    \/ call \in [active : {TRUE}, max_num : Nat, clean_self : BOOLEAN, num : Nat,
                 rest : Seq(Procs), were_dead : SUBSET Procs]

Types ==
    /\ pc \in [Procs -> Points]
    /\ up \subseteq Procs /\ Master \in up
    /\ pstates \subseteq Procs
    /\ alive \in [Procs -> {"none", "held"}]
    /\ proots \in Seq(Procs) /\ IsInjective(proots)
    /\ CallType

\* What a living process has is what the point that it has come to says.
Own(p) ==
    /\ p \in pstates <=> pc[p] # "start"
    /\ p \in roots <=> pc[p] \notin {"start", "pstate", "proot"}
    /\ p \in Range(proots) <=> pc[p] \in {"listed", "running"}
    /\ pc[p] \in {"alive", "locked"} => alive[p] = "held"
    /\ pc[p] \in {"locked", "listed"} => lib_lock = p

Registered ==
    /\ Range(proots) \subseteq roots
    /\ roots \subseteq pstates
    /\ \A p \in Range(proots) : alive[p] = "held"
    /\ \A p \in up : Own(p)

\* The loop of the master has the lock, what is left of it is listed, and the
\* processes that were dead are gone or still ahead.
Cleaning ==
    call.active =>
        /\ lib_lock = Master
        /\ pc[Master] \in {"start", "running"}
        /\ IsInjective(call.rest)
        /\ Range(call.rest) \subseteq Range(proots)
        /\ call.were_dead \cap up = {}
        /\ Enough(call.num) => call.rest = <<>>
        /\ ~Enough(call.num) => call.were_dead \cap pstates \subseteq Range(call.rest)
        /\ call.clean_self => /\ call.max_num = 0
                              /\ Master \in Range(proots) => Master \in Range(call.rest)

ProcInv == Types /\ Registered /\ Cleaning

-----------------------------------------------------------------------------
(* How the phases of the library and the state of the master fit.            *)

Phases ==
    /\ init_state \in {0} \cup SHM..DONE
    /\ process_state = "NULL" <=> init_state = 0
    /\ pc[Master] \notin {"start", "running"} => Building(PROOT)
    /\ pc[Master] = "running" => init_state = DONE \/ (init_state = PROOT /\ job = "destroy")
    /\ job = "unwind" => pc[Master] = "start"
    /\ call.active => \/ job = "idle" /\ init_state = DONE /\ ~call.clean_self
                      \/ Destroying(PROOT) /\ call.clean_self

-----------------------------------------------------------------------------
(* Lists.                                                                    *)

\* A list whose entries are all different.
Plain(s) == s \in Seq(Procs) /\ IsInjective(s)

\* The loop goes on behind the first entry: what is ahead is all but that one.
LEMMA TailEntries ==
    ASSUME NEW s, Plain(s), s # <<>>
    PROVE  /\ Plain(Tail(s))
           /\ Head(s) \in Range(s)
           /\ Range(Tail(s)) = Range(s) \ {Head(s)}
<1>1. s \in Seq(Procs) /\ Len(s) \in Nat /\ Len(s) # 0 /\ DOMAIN s = 1..Len(s)
  BY DEF Plain
<1>2. /\ Tail(s) \in Seq(Procs)
      /\ Len(Tail(s)) = Len(s) - 1
      /\ \A i \in 1..(Len(s) - 1) : Tail(s)[i] = s[i + 1]
      /\ Head(s) = s[1]
  BY <1>1
<1>3. DOMAIN Tail(s) = 1..(Len(s) - 1)
  BY <1>2
<1>4. \A i, j \in 1..Len(s) : s[i] = s[j] => i = j
  BY <1>1, Zenon DEF Plain, IsInjective
<1>5. IsInjective(Tail(s))
  BY <1>1, <1>2, <1>3, <1>4 DEF IsInjective
<1>6. Head(s) \in Range(s)
  BY <1>1, <1>2 DEF Range
<1>7. Range(Tail(s)) \subseteq Range(s) \ {Head(s)}
  BY <1>1, <1>2, <1>3, <1>4 DEF Range
<1>8. ASSUME NEW x \in Range(s), x # Head(s)
      PROVE  x \in Range(Tail(s))
  <2>1. PICK i \in 1..Len(s) : s[i] = x
    BY <1>1, Zenon DEF Range
  <2>2. i - 1 \in 1..(Len(s) - 1) /\ (i - 1) + 1 = i
    BY <1>1, <1>2, <1>8, <2>1
  <2>3. Tail(s)[i - 1] = x
    BY <1>2, <2>1, <2>2, Zenon
  <2> QED BY <1>3, <2>2, <2>3, Zenon DEF Range
<1> QED BY <1>2, <1>5, <1>6, <1>7, <1>8, Zenon DEF Plain

\* A process that is not listed is put at the end of the list.
LEMMA AppendEntry ==
    ASSUME NEW s, Plain(s), NEW q \in Procs, q \notin Range(s)
    PROVE  /\ Plain(Append(s, q))
           /\ Range(Append(s, q)) = Range(s) \cup {q}
<1>1. s \in Seq(Procs) /\ Len(s) \in Nat /\ DOMAIN s = 1..Len(s)
  BY DEF Plain
<1>2. /\ Append(s, q) \in Seq(Procs)
      /\ Len(Append(s, q)) = Len(s) + 1
      /\ \A i \in 1..Len(s) : Append(s, q)[i] = s[i]
      /\ Append(s, q)[Len(s) + 1] = q
  BY <1>1
<1>3. DOMAIN Append(s, q) = 1..(Len(s) + 1)
  BY <1>2
<1>4. \A i, j \in 1..Len(s) : s[i] = s[j] => i = j
  BY <1>1, Zenon DEF Plain, IsInjective
<1>5. \A i \in 1..Len(s) : s[i] # q
  BY <1>1, Zenon DEF Range
<1>6. \A i \in 1..(Len(s) + 1) : i \in 1..Len(s) \/ i = Len(s) + 1
  BY <1>1
<1>7. IsInjective(Append(s, q))
  BY <1>2, <1>3, <1>4, <1>5, <1>6 DEF IsInjective
<1>8. Len(s) + 1 \in 1..(Len(s) + 1) /\ 1..Len(s) \subseteq 1..(Len(s) + 1)
  BY <1>1
<1>9. Range(Append(s, q)) = Range(s) \cup {q}
  BY <1>1, <1>2, <1>3, <1>6, <1>8, Zenon DEF Range
<1> QED BY <1>2, <1>7, <1>9, Zenon DEF Plain

\* st_list_remove takes one entry out and keeps the others.
LEMMA RemoveEntry ==
    ASSUME NEW s, Plain(s), NEW q \in Range(s)
    PROVE  /\ Plain(st_list_remove(s, q))
           /\ Range(st_list_remove(s, q)) = Range(s) \ {q}
<1>1. s \in Seq(Procs) /\ Len(s) \in Nat /\ DOMAIN s = 1..Len(s)
  BY DEF Plain
<1> DEFINE at == CHOOSE i \in 1..Len(s) : s[i] = q
           next(i) == IF i < at THEN i ELSE i + 1
           r == [i \in 1..(Len(s) - 1) |-> s[IF i < at THEN i ELSE i + 1]]
<1>2. at \in 1..Len(s) /\ s[at] = q
  <2>1. \E i \in 1..Len(s) : s[i] = q
    BY <1>1, Zenon DEF Range
  <2> QED BY <2>1, Zenon
<1>3. st_list_remove(s, q) = r
  BY Zenon DEF st_list_remove
<1>4. \A i, j \in 1..Len(s) : s[i] = s[j] => i = j
  BY <1>1, Zenon DEF Plain, IsInjective
<1>5. Len(s) - 1 \in Nat
  BY <1>1, <1>2
<1> HIDE DEF at
<1>6. \A i \in 1..(Len(s) - 1) : next(i) \in 1..Len(s) /\ next(i) # at
  BY <1>1, <1>2
<1>7. \A i, j \in 1..(Len(s) - 1) : next(i) = next(j) => i = j
  BY <1>1, <1>2
<1>8. \A k \in 1..Len(s) : k # at => \E i \in 1..(Len(s) - 1) : next(i) = k
  <2>1. SUFFICES ASSUME NEW k \in 1..Len(s), k # at
                 PROVE  \E i \in 1..(Len(s) - 1) : next(i) = k
    BY Zenon
  <2>2. CASE k < at
    BY <1>1, <1>2, <2>2
  <2>3. CASE k > at
    <3>1. k - 1 \in 1..(Len(s) - 1) /\ next(k - 1) = k
      BY <1>1, <1>2, <2>3
    <3> QED BY <3>1, Zenon
  <2> QED BY <1>1, <1>2, <2>1, <2>2, <2>3
<1>9. \A i \in 1..(Len(s) - 1) : r[i] = s[next(i)]
  BY Zenon
<1>10. DOMAIN r = 1..(Len(s) - 1)
  BY Zenon
<1>11. \A i \in 1..Len(s) : s[i] \in Procs
  BY <1>1
<1> HIDE DEF next
<1>12. r \in [1..(Len(s) - 1) -> Procs]
  BY <1>6, <1>9, <1>10, <1>11, Zenon
<1>13. r \in Seq(Procs)
  BY <1>5, <1>12
<1> HIDE DEF r
<1>14. IsInjective(r)
  BY <1>4, <1>6, <1>7, <1>9, <1>10 DEF IsInjective
<1>15. Range(r) = {s[next(i)] : i \in 1..(Len(s) - 1)}
  BY <1>9, <1>10, Zenon DEF Range
<1>16. Range(s) = {s[i] : i \in 1..Len(s)}
  BY <1>1, Zenon DEF Range
<1>17. Range(r) \subseteq Range(s) \ {q}
  BY <1>2, <1>4, <1>6, <1>15, <1>16, Zenon
<1>18. ASSUME NEW x \in Range(s), x # q
       PROVE  x \in Range(r)
  BY <1>2, <1>8, <1>15, <1>16, <1>18, Zenon
<1> QED BY <1>3, <1>13, <1>14, <1>17, <1>18, Zenon DEF Plain

-----------------------------------------------------------------------------
(* The steps of the processes.                                               *)

\* A call under way is a record of the call, and otherwise there is none.
LEMMA CallShape ==
    ASSUME CallType
    PROVE  /\ call.active \in BOOLEAN
           /\ call.active =>
                call \in [active : {TRUE}, max_num : Nat, clean_self : BOOLEAN, num : Nat,
                          rest : Seq(Procs), were_dead : SUBSET Procs]
           /\ ~call.active => call = NoCall
<1>1. CASE call = NoCall
  BY <1>1, Zenon DEF NoCall
<1>2. CASE call \in [active : {TRUE}, max_num : Nat, clean_self : BOOLEAN, num : Nat,
                     rest : Seq(Procs), were_dead : SUBSET Procs]
  <2>1. call.active = TRUE
    BY <1>2, Zenon
  <2> QED BY <1>2, <2>1, Zenon
<1> QED BY <1>1, <1>2, Zenon DEF CallType

\* gc->roots has room for a process that is not in it.
LEMMA RoomForRoot ==
    ASSUME Sizes, roots \subseteq Procs, NEW p \in Procs, p \notin roots
    PROVE  Cardinality(roots) < MaxRoots
<1>1. IsFiniteSet(Procs) /\ Cardinality(Procs) \in Nat /\ roots # Procs
  BY FS_CardinalityType, Zenon DEF Sizes
<1>2. Cardinality(roots) < Cardinality(Procs) /\ Cardinality(roots) \in Nat
  BY <1>1, FS_Subset, FS_CardinalityType
<1> QED BY <1>1, <1>2 DEF Sizes

\* A process that registers itself keeps the invariant, up to the lock of the
\* library.
LEMMA RegisterKeeps ==
    ASSUME Sizes, ProcInv, NEW p \in Procs, call.active => p # Master,
           \/ AllocProcessState(p) \/ NewProot(p) \/ st_gc_add_root(p)
           \/ LockAlive(p) \/ NoAlive(p)
    PROVE  ProcInv'
<1>1. p \in up /\ Own(p) /\ roots \subseteq Procs
  BY Zenon
     DEF ProcInv, Types, Registered, AllocProcessState, NewProot, st_gc_add_root, LockAlive, NoAlive, IsAt
<1>2. UNCHANGED <<proots, lib_lock, call>>
  BY Zenon DEF AllocProcessState, NewProot, st_gc_add_root, LockAlive, NoAlive
<1>3. ASSUME up' = up, pstates' \subseteq pstates \cup {p},
             \A q \in Procs : q # p => pc'[q] = pc[q]
      PROVE  Cleaning'
  BY <1>1, <1>2, <1>3, Zenon DEF ProcInv, Types, Cleaning, Enough, Procs
<1>4. CallType' /\ (proots \in Seq(Procs) /\ IsInjective(proots))'
  BY <1>2, Zenon DEF ProcInv, Types, CallType
<1> USE DEF IsAt, Goes, ProcInv, Types, Registered, Own, Points
<1>5. CASE AllocProcessState(p)
  BY <1>1, <1>2, <1>3, <1>4, <1>5 DEF AllocProcessState
<1>6. CASE NewProot(p)
  BY <1>1, <1>2, <1>3, <1>4, <1>6 DEF NewProot
<1>7. CASE st_gc_add_root(p)
  <2>1. p \notin roots
    BY <1>1, <1>7, Zenon DEF st_gc_add_root
  <2>2. roots' = roots \cup {p} /\ Goes(p, "root") /\ UNCHANGED <<up, pstates, alive>>
    BY <1>1, <1>7, <2>1, RoomForRoot, Zenon DEF st_gc_add_root
  <2> QED BY <1>1, <1>2, <1>3, <1>4, <1>7, <2>2 DEF st_gc_add_root
<1>8. CASE LockAlive(p)
  BY <1>1, <1>2, <1>3, <1>4, <1>8, Zenon DEF LockAlive
<1>9. CASE NoAlive(p)
  BY <1>1, <1>2, <1>3, <1>4, <1>9 DEF NoAlive
<1> QED BY <1>5, <1>6, <1>7, <1>8, <1>9, Zenon

\* So do the steps that take the lock of the library, list the process and
\* release the lock: none of them is possible while the master cleans.
LEMMA ListKeeps ==
    ASSUME Sizes, ProcInv, NEW p \in Procs,
           LockLib(p) \/ Insert(p) \/ UnlockLib(p)
    PROVE  ProcInv' /\ ~call.active
<1>1. p \in up /\ Own(p) /\ \A q \in up : Own(q)
  BY Zenon DEF ProcInv, Types, Registered, LockLib, Insert, UnlockLib, IsAt
<1>2. UNCHANGED <<up, pstates, roots, alive, call>>
  BY Zenon DEF LockLib, Insert, UnlockLib
<1>3. None \notin up /\ Master \in up /\ up \subseteq Procs
  BY Zenon DEF Sizes, ProcInv, Types
<1>4. ~call.active
  <2>1. SUFFICES ASSUME call.active PROVE FALSE
    BY Zenon
  <2>2. lib_lock = Master /\ pc[Master] \in {"start", "running"}
    BY <2>1, Zenon DEF ProcInv, Cleaning
  <2>3. ~LibLockable
    BY <1>3, <2>2, Zenon DEF LibLockable
  <2>4. pc[p] \in {"locked", "listed"}
    BY <2>3, Zenon DEF LockLib, Insert, UnlockLib, IsAt
  <2> QED BY <1>1, <2>2, <2>4, Zenon DEF Own
<1>5. Cleaning' /\ CallType'
  BY <1>2, <1>4, Zenon DEF Cleaning, CallType, ProcInv, Types
<1> USE DEF IsAt, Goes, ProcInv, Types, Registered, Points
<1>6. CASE LockLib(p)
  <2>1. \A q \in up : pc[q] \notin {"locked", "listed"}
    BY <1>1, <1>3, <1>6, Zenon DEF LockLib, LibLockable, Own
  <2>2. pc' = [pc EXCEPT ![p] = "locked"] /\ lib_lock' = p /\ UNCHANGED proots /\ pc[p] = "alive"
    BY <1>6, Zenon DEF LockLib
  <2>3. \A q \in up' : Own(q)'
    BY <1>1, <1>2, <1>3, <2>1, <2>2 DEF Own
  <2> QED BY <1>2, <1>4, <1>5, <2>2, <2>3, Zenon
<1>7. CASE Insert(p)
  <2>1. pc' = [pc EXCEPT ![p] = "listed"] /\ proots' = Append(proots, p) /\ UNCHANGED lib_lock /\ pc[p] = "locked"
    BY <1>7, Zenon DEF Insert
  <2>2. Plain(proots) /\ p \notin Range(proots) /\ p \in roots /\ alive[p] = "held"
    BY <1>1, <2>1, Zenon DEF Own, Plain
  <2>3. Plain(proots') /\ Range(proots') = Range(proots) \cup {p}
    BY <2>1, <2>2, AppendEntry, Zenon
  <2>4. \A q \in up' : Own(q)'
    BY <1>1, <1>2, <1>3, <2>1, <2>3 DEF Own
  <2> QED BY <1>2, <1>4, <1>5, <2>1, <2>2, <2>3, <2>4, Zenon DEF Plain
<1>8. CASE UnlockLib(p)
  <2>1. pc' = [pc EXCEPT ![p] = "running"] /\ lib_lock' = None /\ UNCHANGED proots /\ pc[p] = "listed"
    BY <1>8, Zenon DEF UnlockLib
  <2>2. \A q \in up : q # p => pc[q] \notin {"locked", "listed"}
    BY <1>1, <2>1, Zenon DEF Own
  <2>3. \A q \in up' : Own(q)'
    BY <1>1, <1>2, <1>3, <2>1, <2>2 DEF Own
  <2> QED BY <1>2, <1>4, <1>5, <2>1, <2>3, Zenon
<1> QED BY <1>4, <1>6, <1>7, <1>8, Zenon

\* A worker that dies leaves everything as it is.
LEMMA DeathKeeps ==
    ASSUME Sizes, ProcInv, NEW p \in Workers, up' = up \ {p},
           UNCHANGED <<pc, pstates, roots, alive, proots, lib_lock, call>>
    PROVE  ProcInv'
<1>1. p # Master
  BY Zenon DEF Sizes
<1>2. Types'
  BY <1>1, Zenon DEF ProcInv, Types, CallType
<1>3. Registered'
  BY Zenon DEF ProcInv, Registered, Own
<1>4. Cleaning'
  BY Zenon DEF ProcInv, Cleaning, Enough
<1> QED BY <1>2, <1>3, <1>4, Zenon DEF ProcInv

\* A worker is forked while nobody cleans.
LEMMA ForkKeeps ==
    ASSUME Sizes, ProcInv, NEW p \in Workers, Fork(p)
    PROVE  ProcInv' /\ ~call.active
<1>1. p # Master /\ p \in Procs
  BY Zenon DEF Sizes, Procs
<1>2. Types'
  BY <1>1, Zenon DEF ProcInv, Types, CallType, Fork, Goes, Points
<1>3. Registered'
  BY <1>1 DEF ProcInv, Types, Registered, Own, Fork, Goes
<1>4. Cleaning' /\ ~call.active
  BY Zenon DEF Cleaning, Fork
<1> QED BY <1>2, <1>3, <1>4, Zenon DEF ProcInv

\* The master begins to clean, at a time when nobody has the lock.
LEMMA BeginKeeps ==
    ASSUME Sizes, ProcInv, NEW max_num \in Nat, NEW clean_self \in BOOLEAN,
           clean_self => max_num = 0, pc[Master] \in {"start", "running"},
           BeginClean(max_num, clean_self)
    PROVE  ProcInv'
<1> DEFINE c == [active |-> TRUE, max_num |-> max_num, clean_self |-> clean_self,
                 num |-> 0, rest |-> proots, were_dead |-> Range(proots) \ up]
<1>1. call' = c /\ lib_lock' = Master /\ UNCHANGED <<pc, up, pstates, roots, alive, proots>>
  BY Zenon DEF BeginClean
<1>2. Range(proots) \subseteq Procs
  BY DEF ProcInv, Types, Range
<1>3. Types'
  BY <1>1, <1>2, Zenon DEF ProcInv, Types, CallType
<1>4. \A q \in up : pc[q] \notin {"locked", "listed"}
  BY Zenon DEF ProcInv, Types, Registered, Own, BeginClean, LibLockable, Sizes
<1>5. Registered'
  BY <1>1, <1>4, Zenon DEF ProcInv, Registered, Own
<1>6. ~Enough(call.num)'
  BY <1>1, Zenon DEF Enough
<1>7. Cleaning'
  BY <1>1, <1>6, Zenon DEF Cleaning, ProcInv, Types
<1> QED BY <1>3, <1>5, <1>7, Zenon DEF ProcInv

\* The facts about a call under way that the steps of its loop use.
LEMMA LoopFacts ==
    ASSUME ProcInv, call.active, call.rest # <<>>, NEW q, q = Head(call.rest)
    PROVE  /\ call \in [active : {TRUE}, max_num : Nat, clean_self : BOOLEAN, num : Nat,
                        rest : Seq(Procs), were_dead : SUBSET Procs]
           /\ q \in Range(proots) /\ q \in Procs /\ alive[q] = "held"
           /\ Plain(Tail(call.rest))
           /\ Range(Tail(call.rest)) = Range(call.rest) \ {q}
           /\ CanLockAlive(q) <=> q \notin up
           /\ ~Enough(call.num)
<1>1. call \in [active : {TRUE}, max_num : Nat, clean_self : BOOLEAN, num : Nat,
                rest : Seq(Procs), were_dead : SUBSET Procs]
  BY CallShape, Zenon DEF ProcInv, Types
<1>2. Plain(call.rest) /\ Range(call.rest) \subseteq Range(proots) /\ ~Enough(call.num)
  BY <1>1, Zenon DEF Plain, ProcInv, Cleaning
<1>3. /\ Plain(Tail(call.rest))
      /\ q \in Range(call.rest)
      /\ Range(Tail(call.rest)) = Range(call.rest) \ {q}
  BY <1>2, TailEntries, Zenon
<1>4. q \in Range(proots) /\ alive[q] = "held"
  BY <1>2, <1>3, Zenon DEF ProcInv, Registered
<1>5. Range(proots) \subseteq Procs
  BY DEF ProcInv, Types, Range
<1> QED BY <1>1, <1>2, <1>3, <1>4, <1>5, Zenon DEF CanLockAlive

\* An entry that the loop passes over is a living process, and not the master
\* when it is to clean itself.
LEMMA SkipKeeps ==
    ASSUME Sizes, ProcInv, Skip
    PROVE  ProcInv'
<1> DEFINE q == Head(call.rest)
<1>1. call.active /\ call.rest # <<>> /\ ~ToClean(q) /\ call' = [call EXCEPT !.rest = Tail(@)]
      /\ UNCHANGED <<pc, up, pstates, roots, alive, proots, lib_lock>>
  BY Zenon DEF Skip
<1>2. /\ call \in [active : {TRUE}, max_num : Nat, clean_self : BOOLEAN, num : Nat,
                   rest : Seq(Procs), were_dead : SUBSET Procs]
      /\ Plain(Tail(call.rest))
      /\ Range(Tail(call.rest)) = Range(call.rest) \ {q}
      /\ CanLockAlive(q) <=> q \notin up
      /\ ~Enough(call.num)
  BY <1>1, LoopFacts, Zenon
<1>3. q \in up /\ (call.clean_self => q # Master)
  BY <1>1, <1>2, Zenon DEF ToClean, ProcInv, Types
<1>4. /\ call'.active /\ call'.rest = Tail(call.rest) /\ call'.num = call.num
      /\ call'.max_num = call.max_num /\ call'.were_dead = call.were_dead
      /\ call'.clean_self = call.clean_self
      /\ CallType'
  BY <1>1, <1>2, Zenon DEF CallType, Plain
<1> HIDE DEF q
<1>5. Types' /\ Registered'
  BY <1>1, <1>4, Zenon DEF ProcInv, Types, Registered, Own
<1>6. Cleaning'
  BY <1>1, <1>2, <1>3, <1>4, Zenon DEF ProcInv, Cleaning, Enough, Plain
<1> QED BY <1>5, <1>6, Zenon DEF ProcInv

\* What a step of the loop does when it cleans q: q is a dead process, or the
\* master itself when it is to clean itself, and it is gone from everywhere.
Cleans(q) ==
    /\ q \in Range(proots) /\ q \in Procs
    /\ IF q = Master THEN call.clean_self ELSE q \notin up
    /\ Plain(proots') /\ Range(proots') = Range(proots) \ {q}
    /\ alive' = [alive EXCEPT ![q] = "none"]
    /\ roots' = roots \ {q} /\ pstates' = pstates \ {q}
    /\ pc' = IF q = Master THEN [pc EXCEPT ![q] = "start"] ELSE pc
    /\ UNCHANGED <<up, lib_lock>>
    /\ CallType' /\ call.active /\ call'.active /\ call'.max_num = call.max_num
    /\ call'.were_dead = call.were_dead /\ call'.clean_self = call.clean_self
    /\ IsInjective(call'.rest)
    /\ ~Enough(call.num)
    /\ Enough(call.num)' => call'.rest = <<>>
    /\ ~Enough(call.num)' => Range(call'.rest) = Range(call.rest) \ {q}
    /\ Range(call'.rest) \subseteq Range(call.rest) \ {q}

\* Clean does that to the entry that it has come to.
LEMMA CleanEffect ==
    ASSUME ProcInv, Clean
    PROVE  \E q : Cleans(q)
<1> DEFINE q == Head(call.rest)
           rest2 == IF Enough(call.num + 1) THEN <<>> ELSE Tail(call.rest)
<1>1. /\ call.active /\ call.rest # <<>> /\ ToClean(q) /\ Release(q)
      /\ IF q = Master THEN Goes(q, "start") ELSE UNCHANGED pc
      /\ call' = [call EXCEPT !.num = @ + 1, !.rest = rest2]
      /\ UNCHANGED <<up, lib_lock>>
  BY Zenon DEF Clean, NextEntry
<1>2. /\ call \in [active : {TRUE}, max_num : Nat, clean_self : BOOLEAN, num : Nat,
                   rest : Seq(Procs), were_dead : SUBSET Procs]
      /\ q \in Range(proots) /\ q \in Procs
      /\ Plain(Tail(call.rest))
      /\ Range(Tail(call.rest)) = Range(call.rest) \ {q}
      /\ CanLockAlive(q) <=> q \notin up
      /\ ~Enough(call.num)
  BY <1>1, LoopFacts, Zenon
<1>3. IF q = Master THEN call.clean_self ELSE q \notin up
  BY <1>1, <1>2, Zenon DEF ToClean
<1>4. Plain(proots') /\ Range(proots') = Range(proots) \ {q}
  BY <1>1, <1>2, RemoveEntry, Zenon DEF Release, ProcInv, Types, Plain
<1>5. rest2 \in Seq(Procs) /\ IsInjective(rest2)
  BY <1>2 DEF Plain, IsInjective
<1>6. /\ call'.active /\ call'.rest = rest2 /\ call'.num = call.num + 1
      /\ call'.max_num = call.max_num /\ call'.were_dead = call.were_dead
      /\ call'.clean_self = call.clean_self
      /\ CallType'
  <2> HIDE DEF q, rest2
  <2>1. call' = [call EXCEPT !.num = @ + 1, !.rest = rest2] /\ call.num + 1 \in Nat
    BY <1>1, <1>2
  <2>2. call' = [call EXCEPT !.num = call.num + 1, !.rest = rest2]
    BY <1>2, <2>1, Zenon
  <2>3. call' \in [active : {TRUE}, max_num : Nat, clean_self : BOOLEAN, num : Nat,
                   rest : Seq(Procs), were_dead : SUBSET Procs]
    BY <1>2, <1>5, <2>1, <2>2, Zenon
  <2>4. /\ call'.active = call.active /\ call'.rest = rest2 /\ call'.num = call.num + 1
        /\ call'.max_num = call.max_num /\ call'.were_dead = call.were_dead
        /\ call'.clean_self = call.clean_self
    BY <1>2, <2>2, Zenon
  <2> QED BY <1>1, <2>3, <2>4, Zenon DEF CallType
<1>7. /\ Enough(call.num)' <=> Enough(call.num + 1)
      /\ Enough(call.num + 1) => rest2 = <<>>
      /\ ~Enough(call.num + 1) => Range(rest2) = Range(call.rest) \ {q}
      /\ Range(rest2) \subseteq Range(call.rest) \ {q}
  <2>1. Enough(call.num)' <=> Enough(call.num + 1)
    BY <1>6, Zenon DEF Enough
  <2>2. Range(<<>>) = {}
    BY DEF Range
  <2> QED BY <1>2, <2>1, <2>2, Zenon
<1> HIDE DEF q, rest2
<1>8. /\ alive' = [alive EXCEPT ![q] = "none"]
      /\ roots' = roots \ {q} /\ pstates' = pstates \ {q}
      /\ pc' = IF q = Master THEN [pc EXCEPT ![q] = "start"] ELSE pc
  BY <1>1, Zenon DEF Release, Goes
<1>9. Cleans(q)
  BY <1>1, <1>2, <1>3, <1>4, <1>5, <1>6, <1>7, <1>8 DEF Cleans
<1> QED BY <1>9, Zenon

\* Cleaning an entry keeps the invariant of the processes.
LEMMA CleanKeeps ==
    ASSUME Sizes, ProcInv, Clean
    PROVE  ProcInv'
<1>1. PICK q : Cleans(q)
  BY CleanEffect, Zenon
<1>2. pc' \in [Procs -> Points] /\ \A p \in Procs : pc'[p] = IF p = q /\ q = Master THEN "start" ELSE pc[p]
  BY <1>1, Zenon DEF Cleans, ProcInv, Types, Points
<1>3. Types'
  BY <1>1, <1>2, Zenon DEF Cleans, ProcInv, Types, Plain
<1>4. Registered'
  <2>1. Range(proots') \subseteq roots' /\ roots' \subseteq pstates'
    BY <1>1, Zenon DEF Cleans, ProcInv, Registered
  <2>2. \A p \in Range(proots') : alive'[p] = "held"
    BY <1>1, Zenon DEF Cleans, ProcInv, Registered, Types, Range
  <2>3. \A p \in up' : Own(p)'
    BY <1>1, <1>2 DEF Cleans, ProcInv, Registered, Types, Own
  <2> QED BY <2>1, <2>2, <2>3, Zenon DEF Registered
<1>5. Cleaning'
  <2>1. /\ lib_lock' = Master /\ pc'[Master] \in {"start", "running"}
        /\ IsInjective(call'.rest) /\ call'.were_dead \cap up' = {}
    BY <1>1, <1>2, Zenon DEF Cleans, ProcInv, Cleaning, Types
  <2>2. Range(call'.rest) \subseteq Range(proots')
    BY <1>1, Zenon DEF Cleans, ProcInv, Cleaning
  <2>3. ~Enough(call.num)' => call'.were_dead \cap pstates' \subseteq Range(call'.rest)
    BY <1>1, Zenon DEF Cleans, ProcInv, Cleaning
  <2>4. call'.clean_self => /\ call'.max_num = 0
                            /\ Master \in Range(proots') => Master \in Range(call'.rest)
    BY <1>1, Zenon DEF Cleans, ProcInv, Cleaning, Enough
  <2> QED BY <1>1, <2>1, <2>2, <2>3, <2>4, Zenon DEF Cleans, Cleaning
<1> QED BY <1>3, <1>4, <1>5, Zenon DEF ProcInv

\* The master releases the lock.
LEMMA EndKeeps ==
    ASSUME Sizes, ProcInv, EndClean
    PROVE  ProcInv' /\ ~call.active'
<1>1. /\ call.active /\ lib_lock' = None /\ call' = NoCall
      /\ UNCHANGED <<pc, up, pstates, roots, alive, proots>>
  BY Zenon DEF EndClean
<1>2. \A q \in up : pc[q] \notin {"locked", "listed"}
  BY <1>1, Zenon DEF ProcInv, Types, Registered, Own, Cleaning
<1>3. ~call.active'
  BY <1>1, Zenon DEF NoCall
<1>4. Types' /\ Registered' /\ Cleaning'
  BY <1>1, <1>2, <1>3, Zenon DEF ProcInv, Types, CallType, Registered, Own, Cleaning
<1> QED BY <1>3, <1>4, Zenon DEF ProcInv

-----------------------------------------------------------------------------
(* The invariant of the processes and the phases of the library, whatever    *)
(* fails and wherever workers die.                                           *)

\* A worker registers itself, aborts, dies, in an operation or not, or is forked.
WorkerStep(p) ==
    \/ st_capi_worker_init(p)
    \/ WorkerAborts(p)
    \/ LockAliveLate(p)
    \/ WorkerDies(p) /\ UNCHANGED cvars
    \/ DiesInOperation(p)
    \/ job = "idle" /\ Fork(p) /\ UNCHANGED cvars

\* The layers of st_capi_do_init and st_capi_destroy that do not touch the
\* processes.
LayerStep ==
    \/ st_capi_init
    \/ st_region_shm_create \/ st_region_init \/ st_pagepool_init \/ st_slab_pool_init
    \/ st_table_pool_init \/ InitGroot \/ InitLib \/ NoProcessState
    \/ BeginDestroy \/ DestroyDone \/ DestroyGroot \/ st_table_pool_destroy
    \/ st_slab_pool_destroy \/ st_pagepool_destroy \/ st_region_destroy \/ st_region_shm_destroy

\* The cleanups that the master begins and ends.
CleanupStep ==
    \/ BeginDestroyProots \/ EndDestroyProots
    \/ \E max_num \in MaxNums :
        job = "idle" /\ IsAt(Master, "running") /\ BeginClean(max_num, FALSE) /\ UNCHANGED cvars
    \/ Skip /\ UNCHANGED cvars
    \/ Clean /\ UNCHANGED cvars
    \/ job = "idle" /\ EndClean /\ UNCHANGED cvars

\* These are all the steps.
LEMMA Steps ==
    ASSUME [CapiNext]_allvars
    PROVE  \/ LayerStep \/ InitMaster \/ CleanupStep
           \/ \E p \in Workers : WorkerStep(p)
           \/ UNCHANGED allvars
BY Zenon DEF CapiNext, st_capi_do_init, st_capi_destroy, LayerStep, CleanupStep, WorkerStep

\* The steps of the layers leave the processes as they are.
LEMMA LayersKeepVars ==
    ASSUME LayerStep
    PROVE  UNCHANGED pvars
BY Zenon DEF LayerStep, st_capi_init, st_region_shm_create, st_region_init, st_pagepool_init,
       st_slab_pool_init, st_table_pool_init, InitGroot, InitLib, NoProcessState, BeginDestroy,
       DestroyDone, DestroyGroot, st_table_pool_destroy, st_slab_pool_destroy,
       st_pagepool_destroy, st_region_destroy, st_region_shm_destroy, Built, Unwind

\* A worker that is no master leaves the library and the master as they are,
\* but for the object that it has in its hands when it is killed.
LEMMA WorkersKeepCvars ==
    ASSUME Sizes, ProcInv, NEW p \in Workers, WorkerStep(p)
    PROVE  /\ UNCHANGED <<init_state, process_state, job, last>>
           /\ held' = held \/ (DiesInOperation(p) /\ held' = held \cup {Stray})
           /\ call' = call /\ pc'[Master] = pc[Master]
<1>1. p # Master /\ p \in Procs /\ Master \in Procs
  BY Zenon DEF Sizes, Procs
<1>2. /\ UNCHANGED <<init_state, process_state, job, last>>
      /\ held' = held \/ (DiesInOperation(p) /\ held' = held \cup {Stray})
  <2>1. UNCHANGED cvars \/ DiesInOperation(p)
    BY Zenon DEF WorkerStep, st_capi_worker_init, WorkerAborts, LockAliveLate
  <2>2. CASE UNCHANGED cvars
    BY <2>2, Zenon DEF cvars
  <2>3. CASE DiesInOperation(p)
    BY <2>3, Zenon DEF DiesInOperation
  <2> QED BY <2>1, <2>2, <2>3, Zenon
<1>3. call' = call
  BY Zenon
     DEF WorkerStep, st_capi_worker_init, WorkerAborts, LockAliveLate, DiesInOperation, WorkerDies,
         Fork, LockAlive, st_capi_init_process_state, AllocProcessState, NewProot, st_gc_add_root,
         NoAlive, LockLib, Insert, UnlockLib
<1>4. pc' = pc \/ \E point : pc' = [pc EXCEPT ![p] = point]
  BY Zenon
     DEF WorkerStep, st_capi_worker_init, WorkerAborts, LockAliveLate, DiesInOperation, WorkerDies,
         Fork, LockAlive, st_capi_init_process_state, AllocProcessState, NewProot, st_gc_add_root,
         NoAlive, LockLib, Insert, UnlockLib, Goes
<1>5. pc'[Master] = pc[Master]
  BY <1>1, <1>4, Zenon DEF ProcInv, Types
<1> QED BY <1>2, <1>3, <1>5, Zenon

\* Every step of a worker keeps the invariant of the processes.
LEMMA WorkersKeepProcInv ==
    ASSUME Sizes, ProcInv, NEW p \in Workers, WorkerStep(p)
    PROVE  ProcInv'
<1>1. p # Master /\ p \in Procs
  BY Zenon DEF Sizes, Procs
<1>2. CASE st_capi_init_process_state(p)
  BY <1>1, <1>2, RegisterKeeps, ListKeeps, Zenon DEF st_capi_init_process_state
<1>3. CASE WorkerAborts(p) \/ WorkerDies(p)
  BY <1>3, DeathKeeps, Zenon DEF WorkerAborts, WorkerDies
<1>4. CASE LockAlive(p)
  BY <1>1, <1>4, RegisterKeeps, Zenon
<1>5. CASE Fork(p)
  BY <1>5, ForkKeeps, Zenon
<1> QED BY <1>2, <1>3, <1>4, <1>5, Zenon DEF WorkerStep, st_capi_worker_init, LockAliveLate, DiesInOperation

\* While the master registers itself nobody cleans; afterwards it is where
\* job and init_state say.
LEMMA MasterKeeps ==
    ASSUME Sizes, ProcInv, Phases, InitMaster
    PROVE  ProcInv' /\ Phases' /\ call' = call /\ ~call.active
<1>1. ~call.active /\ Master \in Procs
  BY Zenon DEF Phases, InitMaster, Building, Destroying, Procs
<1>2. st_capi_init_process_state(Master)
  BY Zenon DEF InitMaster
<1>3. ProcInv'
  BY <1>1, <1>2, RegisterKeeps, ListKeeps, Zenon DEF st_capi_init_process_state
<1>4. call' = call
  BY <1>2, Zenon
     DEF st_capi_init_process_state, AllocProcessState, NewProot, st_gc_add_root, LockAlive,
              NoAlive, LockLib, Insert, UnlockLib
<1>5. Phases'
  BY <1>1, <1>4 DEF Phases, InitMaster, Building, Destroying, Return, cvars, PROOT, DONE, SHM
<1> QED BY <1>1, <1>3, <1>4, <1>5, Zenon

\* The steps of the layers go from phase to phase.
LEMMA LayersKeepPhases ==
    ASSUME Phases, LayerStep
    PROVE  Phases'
<1>1. UNCHANGED <<pc, call>>
  BY LayersKeepVars, Zenon DEF pvars
<1> USE DEF Building, Destroying, SHM, REGION, PAGEPOOL, SLAB, TABLE, GROOT, PROOT, DONE
<1>2. ASSUME job = "init", init_state \in SHM..GROOT, process_state' = process_state,
             \/ job' = "init" /\ init_state' \in SHM..PROOT
             \/ job' \in {"unwind", "aborted"} /\ init_state' = init_state
      PROVE  Phases'
  BY <1>1, <1>2 DEF Phases
<1>3. ASSUME job \in {"destroy", "unwind"}, init_state \in SHM..GROOT, process_state' = process_state,
             \/ job' = job /\ init_state' \in SHM..GROOT
             \/ job' \in {"idle", "aborted"} /\ init_state' = init_state
      PROVE  Phases'
  BY <1>1, <1>3 DEF Phases
<1>4. CASE st_capi_init
  BY <1>1, <1>4 DEF st_capi_init, Phases
<1>5. CASE st_region_shm_create
  BY <1>1, <1>5 DEF st_region_shm_create, Return, Abort, Phases
<1>6. CASE st_region_init \/ st_pagepool_init \/ st_slab_pool_init \/ st_table_pool_init \/ InitGroot \/ InitLib
  <2> HIDE DEF SHM, REGION, PAGEPOOL, SLAB, TABLE, GROOT, PROOT, DONE
  <2>1. ASSUME NEW from, NEW to, job = "init", init_state = from, process_state' = process_state,
               \/ job' = job /\ init_state' = to
               \/ job' \in {"unwind", "aborted"} /\ init_state' = init_state,
               <<from, to>> \in {<<SHM, REGION>>, <<REGION, PAGEPOOL>>, <<PAGEPOOL, SLAB>>,
                                <<SLAB, TABLE>>, <<TABLE, GROOT>>, <<GROOT, PROOT>>}
        PROVE  Phases'
    BY <1>2, <2>1 DEF SHM, REGION, PAGEPOOL, SLAB, TABLE, GROOT, PROOT, DONE
  <2>2. CASE st_region_init
    <3>1. /\ job = "init" /\ init_state = SHM /\ process_state' = process_state
          /\ \/ job' = job /\ init_state' = REGION
             \/ job' \in {"unwind", "aborted"} /\ init_state' = init_state
      BY <2>2, Zenon DEF st_region_init, Built, Unwind, Abort
    <3> QED BY <2>1, <3>1, Zenon
  <2>3. CASE st_pagepool_init
    <3>1. /\ job = "init" /\ init_state = REGION /\ process_state' = process_state
          /\ \/ job' = job /\ init_state' = PAGEPOOL
             \/ job' \in {"unwind", "aborted"} /\ init_state' = init_state
      BY <2>3, Zenon DEF st_pagepool_init, Built, Unwind, Abort
    <3> QED BY <2>1, <3>1, Zenon
  <2>4. CASE st_slab_pool_init
    <3>1. /\ job = "init" /\ init_state = PAGEPOOL /\ process_state' = process_state
          /\ \/ job' = job /\ init_state' = SLAB
             \/ job' \in {"unwind", "aborted"} /\ init_state' = init_state
      BY <2>4, Zenon DEF st_slab_pool_init, Built, Unwind, Abort
    <3> QED BY <2>1, <3>1, Zenon
  <2>5. CASE st_table_pool_init
    <3>1. /\ job = "init" /\ init_state = SLAB /\ process_state' = process_state
          /\ \/ job' = job /\ init_state' = TABLE
             \/ job' \in {"unwind", "aborted"} /\ init_state' = init_state
      BY <2>5, Zenon DEF st_table_pool_init, Built, Unwind, Abort
    <3> QED BY <2>1, <3>1, Zenon
  <2>6. CASE InitGroot
    <3>1. /\ job = "init" /\ init_state = TABLE /\ process_state' = process_state
          /\ \/ job' = job /\ init_state' = GROOT
             \/ job' \in {"unwind", "aborted"} /\ init_state' = init_state
      BY <2>6, Zenon DEF InitGroot, Built, Unwind, Abort
    <3> QED BY <2>1, <3>1, Zenon
  <2>7. CASE InitLib
    <3>1. /\ job = "init" /\ init_state = GROOT /\ process_state' = process_state
          /\ \/ job' = job /\ init_state' = PROOT
             \/ job' \in {"unwind", "aborted"} /\ init_state' = init_state
      BY <2>7, Zenon DEF InitLib, Built, Unwind, Abort
    <3> QED BY <2>1, <3>1, Zenon
  <2> QED BY <1>6, <2>2, <2>3, <2>4, <2>5, <2>6, <2>7
<1>8. CASE NoProcessState
  BY <1>1, <1>8, Zenon DEF NoProcessState, Unwind, IsAt, Phases
<1>9. CASE BeginDestroy
  BY <1>1, <1>9, Zenon DEF BeginDestroy, Phases
<1>10. CASE DestroyDone
  BY <1>1, <1>10 DEF DestroyDone, Down, Phases
<1>11. CASE DestroyGroot \/ st_table_pool_destroy \/ st_region_destroy
  BY <1>3, <1>11 DEF DestroyGroot, st_table_pool_destroy, st_region_destroy, Down, Abort
<1>12. CASE st_slab_pool_destroy
  BY <1>3, <1>12 DEF st_slab_pool_destroy, Down, DestroyFails, Return, Abort
<1>13. CASE st_pagepool_destroy
  BY <1>3, <1>13 DEF st_pagepool_destroy, Down, DestroyFails, Return, Abort
<1>14. CASE st_region_shm_destroy
  <2>1. PICK failed \in SUBSET (Faults \cap Layer[SHM]) :
            IF failed = {}
            THEN /\ init_state' = 0
                 /\ process_state' = "NULL"
                 /\ job' = "idle"
            ELSE /\ UNCHANGED <<init_state, process_state>>
                 /\ job' \in {"idle", "aborted"}
    BY <1>14, Zenon DEF st_region_shm_destroy, DestroyFails, Return, Abort
  <2>2. CASE failed = {}
    BY <1>1, <1>14, <2>1, <2>2 DEF st_region_shm_destroy, Phases
  <2>3. CASE failed # {}
    BY <1>3, <1>14, <2>1, <2>3 DEF st_region_shm_destroy
  <2> QED BY <2>2, <2>3, Zenon
<1> QED
  BY <1>4, <1>5, <1>6, <1>8, <1>9, <1>10, <1>11, <1>12, <1>13, <1>14 DEF LayerStep

\* A cleanup begins with the master at rest.  The one of st_capi_destroy has
\* released the master itself when it ends.
LEMMA CleanupsKeep ==
    ASSUME Sizes, ProcInv, Phases, CleanupStep
    PROVE  ProcInv' /\ Phases'
<1> USE DEF Building, Destroying
<1>1. CASE BeginDestroyProots
  <2>1. job # "init" /\ pc[Master] \in {"start", "running"} /\ BeginClean(0, TRUE)
    BY <1>1, Zenon DEF BeginDestroyProots, Phases
  <2>2. ProcInv'
    BY <2>1, BeginKeeps, Zenon
  <2>3. UNCHANGED <<pc, cvars>> /\ call'.clean_self
    BY <1>1, Zenon DEF BeginDestroyProots, BeginClean
  <2> QED BY <1>1, <2>2, <2>3, Zenon DEF Phases, BeginDestroyProots, cvars
<1>2. CASE EndDestroyProots
  <2>1. EndClean /\ Down /\ init_state = PROOT /\ job \in {"destroy", "unwind"}
    BY <1>2, Zenon DEF EndDestroyProots
  <2>2. ProcInv' /\ ~call'.active
    BY <2>1, EndKeeps, Zenon
  <2>3. call.active /\ call.rest = <<>> /\ call.clean_self /\ UNCHANGED pc
    BY <2>1, Zenon DEF EndClean, Phases, PROOT, DONE
  <2>4. Master \notin Range(proots)
    BY <2>3 DEF ProcInv, Cleaning, Range
  <2>5. pc[Master] = "start"
    BY <2>3, <2>4, Zenon DEF ProcInv, Types, Registered, Own, Cleaning
  <2> QED BY <2>1, <2>2, <2>3, <2>5 DEF Phases, Down, SHM, PROOT, DONE
<1>3. CASE \E max_num \in MaxNums :
             job = "idle" /\ IsAt(Master, "running") /\ BeginClean(max_num, FALSE) /\ UNCHANGED cvars
  <2>1. PICK max_num \in MaxNums : BeginClean(max_num, FALSE)
    BY <1>3, Zenon
  <2>2. /\ job = "idle" /\ pc[Master] = "running" /\ UNCHANGED <<pc, cvars>> /\ ~call'.clean_self
        /\ max_num \in Nat
    BY <1>3, <2>1, Zenon DEF IsAt, BeginClean, Sizes
  <2>3. ProcInv'
    BY <2>1, <2>2, BeginKeeps, Zenon
  <2> QED BY <2>2, <2>3, Zenon DEF Phases, cvars
<1>4. CASE Skip /\ UNCHANGED cvars
  <2>1. ProcInv'
    BY <1>4, SkipKeeps, Zenon
  <2>2. call.active /\ UNCHANGED pc /\ call'.clean_self = call.clean_self
    BY <1>4, CallShape, Zenon DEF Skip, ProcInv, Types
  <2> QED BY <1>4, <2>1, <2>2, Zenon DEF Phases, cvars
<1>5. CASE Clean /\ UNCHANGED cvars
  <2>1. ProcInv'
    BY <1>5, CleanKeeps
  <2>2. call.active /\ call'.clean_self = call.clean_self
    BY <1>5, CallShape, Zenon DEF Clean, ProcInv, Types
  <2>3. pc' = pc \/ pc' = [pc EXCEPT ![Master] = "start"]
    BY <1>5, Zenon DEF Clean, Goes
  <2>4. pc'[Master] \in {pc[Master], "start"}
    BY <2>3, Zenon DEF ProcInv, Types, Procs
  <2> QED BY <1>5, <2>1, <2>2, <2>4 DEF Phases, cvars
<1>6. CASE job = "idle" /\ EndClean /\ UNCHANGED cvars
  <2>1. ProcInv' /\ ~call'.active /\ UNCHANGED pc
    BY <1>6, EndKeeps, Zenon DEF EndClean
  <2> QED BY <1>6, <2>1, Zenon DEF Phases, cvars
<1> QED BY <1>1, <1>2, <1>3, <1>4, <1>5, <1>6, Zenon DEF CleanupStep

\* Every step keeps both.
LEMMA StepKeepsPhases ==
    ASSUME Sizes, ProcInv, Phases, [CapiNext]_allvars
    PROVE  ProcInv' /\ Phases'
<1>1. ASSUME UNCHANGED pvars PROVE ProcInv'
  BY <1>1, Zenon DEF pvars, ProcInv, Types, CallType, Registered, Own, Cleaning, Enough
<1>2. ASSUME UNCHANGED <<init_state, process_state, job, last>>, call' = call, pc'[Master] = pc[Master]
      PROVE  Phases'
  BY <1>2, Zenon DEF Phases, Building, Destroying
<1>3. CASE LayerStep
  BY <1>1, <1>3, LayersKeepVars, LayersKeepPhases, Zenon
<1>4. CASE InitMaster
  BY <1>4, MasterKeeps, Zenon
<1>5. CASE CleanupStep
  BY <1>5, CleanupsKeep, Zenon
<1>6. ASSUME NEW p \in Workers, WorkerStep(p) PROVE ProcInv' /\ Phases'
  BY <1>2, <1>6, WorkersKeepCvars, WorkersKeepProcInv, Zenon
<1>7. CASE UNCHANGED allvars
  BY <1>1, <1>2, <1>7, Zenon DEF allvars, pvars, cvars
<1> QED BY <1>3, <1>4, <1>5, <1>6, <1>7, Steps

\* What holds of the processes and of the phases of the library whatever fails
\* while it is built and wherever its workers die.
THEOREM RegistryInvariant ==
    ASSUME Sizes
    PROVE  CapiSpec => [](ProcInv /\ Phases)
<1>1. CapiInit => ProcInv /\ Phases
  <2>1. SUFFICES ASSUME CapiInit PROVE ProcInv /\ Phases
    BY Zenon
  <2>2. ~call.active /\ Range(proots) = {}
    BY <2>1 DEF CapiInit, ProcInit, NoCall, Range
  <2>3. Types
    BY <2>1 DEF CapiInit, ProcInit, Types, Points, CallType, Procs, IsInjective
  <2>4. Registered /\ Cleaning
    BY <2>1, <2>2, Zenon DEF CapiInit, ProcInit, Registered, Own, Cleaning, Procs
  <2>5. Phases
    BY <2>1, <2>2, Zenon DEF CapiInit, ProcInit, Phases, Procs
  <2> QED BY <2>3, <2>4, <2>5, Zenon DEF ProcInv
<1>2. ProcInv /\ Phases /\ [CapiNext]_allvars => (ProcInv /\ Phases)'
  BY StepKeepsPhases, Zenon
<1> QED BY <1>1, <1>2, PTL DEF CapiSpec

\* A cleanup never releases what a living process uses: as long as a process
\* that has registered itself lives, its process state is allocated, its proot
\* is a root, its lock is its own and it is listed, however the steps of the
\* processes and of the master interleave.
THEOREM LiveProcessAlwaysKept ==
    ASSUME Sizes
    PROVE  CapiSpec => []LiveProcessKept
<1>1. ProcInv => LiveProcessKept
  BY Zenon DEF ProcInv, Registered, Own, LiveProcessKept
<1> QED BY <1>1, RegistryInvariant, PTL

\* A cleanup that is not stopped by max_num has released every process that
\* was dead when it began, also when further workers die or register meanwhile.
THEOREM CleanAlwaysFindsAll ==
    ASSUME Sizes
    PROVE  CapiSpec => CleanFindsAll
<1>1. ProcInv /\ EndClean /\ ~Enough(call.num)
        => call.were_dead \cap (Range(proots) \cup roots \cup pstates) = {}
  <2>1. SUFFICES ASSUME ProcInv, EndClean, ~Enough(call.num)
                 PROVE  call.were_dead \cap (Range(proots) \cup roots \cup pstates) = {}
    BY Zenon
  <2>2. call.were_dead \cap pstates \subseteq Range(<<>>)
    BY <2>1, Zenon DEF ProcInv, Cleaning, EndClean
  <2>3. Range(<<>>) = {}
    BY DEF Range
  <2> QED BY <2>1, <2>2, <2>3, Zenon DEF ProcInv, Registered
<1> QED BY <1>1, RegistryInvariant, PTL DEF CleanFindsAll

-----------------------------------------------------------------------------
(* What is assumed.                                                          *)

\* Workers die before st_capi_worker_init or after their registration.
DeathsOutsideRegistration == DeathPoints \subseteq {"start", "listed", "running"}

\* The failures that the code does not see or cannot undo do not happen: an
\* fcntl or a pages_lock that is reported as ST_OK, and the three calls that
\* give the shared memory back.
SoundFaults ==
    Faults \cap {"fcntl", "pages_lock", "shm name", "mapping", "shm_fd"} = {}

\* What the theorems on the life of the library assume.
Calm == Sizes /\ DeathsOutsideRegistration /\ SoundFaults

-----------------------------------------------------------------------------
(* The inductive invariant.                                                  *)

LayersUpTo(i) == UNION {Layer[j] : j \in NONE..i}

\* What the layers hold.
Holds ==
    /\ init_state = 0 => held = {}
    /\ job = "init" => held = LayersUpTo(init_state)
    /\ job \in {"init", "unwind"} => Stray \notin held
    /\ init_state = DONE => Everything \subseteq held /\ process_state = "slab" /\ pc[Master] = "running"
    /\ init_state >= GROOT => "groot" \in held
    /\ init_state >= PAGEPOOL => "regions" \in held

\* Who is there, and what is left of those who were.
Left ==
    /\ DeadAreFoundWhileUp
    /\ init_state < SLAB => pstates = {}
    /\ job \in {"init", "unwind"} => up = {Master}
    /\ job = "init" => pstates \subseteq {Master}
    /\ job = "unwind" => pstates = {}

\* A destroy of the master that is alone meets no process that it cannot
\* release.
Alone ==
    job = "destroy" =>
        /\ last.alone \in BOOLEAN
        /\ last.alone =>
            /\ up = {Master}
            /\ init_state >= PROOT => pstates \subseteq Range(proots)
            /\ call.active => Range(proots) \subseteq Range(call.rest)
            /\ init_state < PROOT => pstates = {}

Results ==
    /\ job \in {"idle", "init", "destroy", "unwind"}
    /\ job # "idle" => last.call = "none"
    /\ last.call = "init" =>
        /\ last.ok \in BOOLEAN
        /\ last.ok => init_state = DONE
        /\ ~last.ok => init_state = 0
    /\ last.call = "destroy" =>
        /\ last.ok \in BOOLEAN /\ last.alone \in BOOLEAN
        /\ last.ok <=> init_state = 0
        /\ last.alone /\ ~last.ok => Stray \in held

LifeInv == Holds /\ Left /\ Alone /\ Results

-----------------------------------------------------------------------------
(* Lemmas on the layers and the registration.                                *)

\* What the next layer adds, and where the resources that st_capi_destroy
\* looks at belong.
LEMMA LayerFacts ==
    /\ LayersUpTo(0) = {}
    /\ LayersUpTo(SHM) = Layer[SHM]
    /\ \A i \in SHM..GROOT : LayersUpTo(i + 1) = LayersUpTo(i) \cup Layer[i + 1]
    /\ LayersUpTo(PROOT) = Everything
    /\ \A i \in PAGEPOOL..PROOT : "regions" \in LayersUpTo(i) /\ "regions_lock" \in LayersUpTo(i)
    /\ \A i \in GROOT..PROOT : "groot" \in LayersUpTo(i)
    /\ \A i \in SHM..DONE : /\ i > GROOT => "groot" \notin Layer[i]
                            /\ i > PAGEPOOL => "regions" \notin Layer[i]
<1> USE DEF NONE, SHM, REGION, PAGEPOOL, SLAB, TABLE, GROOT, PROOT, DONE
<1>1. /\ Layer[1] = {} /\ Layer[2] = {"shm name", "mapping", "shm_fd"} /\ Layer[3] = {"rcb lock"}
      /\ Layer[4] = {"regions", "regions_lock", "pages_lock"} /\ Layer[5] = {"group locks"}
      /\ Layer[6] = {"gc"} /\ Layer[7] = {"groot"} /\ Layer[8] = {"lib lock"} /\ Layer[9] = {}
  BY Zenon DEF Layer
<1>2. NONE..0 = {} /\ NONE..SHM = {1, 2}
  OBVIOUS
<1>3. LayersUpTo(0) = {}
  BY <1>2, Zenon DEF LayersUpTo
<1>4. LayersUpTo(SHM) = Layer[SHM]
  <2>1. LayersUpTo(SHM) = UNION {Layer[j] : j \in {1, 2}}
    BY <1>2, Zenon DEF LayersUpTo
  <2>2. UNION {Layer[j] : j \in {1, 2}} = Layer[1] \cup Layer[2]
    BY Zenon
  <2> QED BY <1>1, <2>1, <2>2, Zenon
<1>5. \A i \in SHM..PROOT : LayersUpTo(i + 1) = LayersUpTo(i) \cup Layer[i + 1]
  <2>1. \A i \in SHM..PROOT : NONE..(i + 1) = (NONE..i) \cup {i + 1}
    OBVIOUS
  <2> QED BY <2>1 DEF LayersUpTo
<1>6. LayersUpTo(DONE) = Everything
  BY Zenon DEF LayersUpTo, Everything
<1>7. LayersUpTo(PROOT) = Everything
  <2>1. LayersUpTo(9) = LayersUpTo(8) \cup Layer[9]
    <3>1. 8 \in SHM..PROOT /\ 8 + 1 = 9
      OBVIOUS
    <3>2. LayersUpTo(8 + 1) = LayersUpTo(8) \cup Layer[8 + 1]
      BY <1>5, <3>1, Zenon
    <3> QED BY <3>1, <3>2, Zenon
  <2>2. LayersUpTo(9) = LayersUpTo(8)
    BY <1>1, <2>1, Zenon
  <2> QED BY <1>6, <2>2, Zenon
<1>8. \A i \in PAGEPOOL..PROOT : "regions" \in LayersUpTo(i) /\ "regions_lock" \in LayersUpTo(i)
  <2>1. \A i \in PAGEPOOL..PROOT : 4 \in NONE..i
    OBVIOUS
  <2>2. \A i \in PAGEPOOL..PROOT : Layer[4] \subseteq LayersUpTo(i)
    BY <2>1, Zenon DEF LayersUpTo
  <2> QED BY <1>1, <2>2, Zenon
<1>9. \A i \in GROOT..PROOT : "groot" \in LayersUpTo(i)
  <2>1. \A i \in GROOT..PROOT : 7 \in NONE..i
    OBVIOUS
  <2>2. \A i \in GROOT..PROOT : Layer[7] \subseteq LayersUpTo(i)
    BY <2>1, Zenon DEF LayersUpTo
  <2> QED BY <1>1, <2>2, Zenon
<1>10. \A i \in SHM..DONE : /\ i > GROOT => "groot" \notin Layer[i]
                            /\ i > PAGEPOOL => "regions" \notin Layer[i]
  <2>1. \A i \in SHM..DONE : i > PAGEPOOL => i \in {5, 6, 7, 8, 9}
    OBVIOUS
  <2>2. \A i \in {5, 6, 7, 8, 9} : "regions" \notin Layer[i] /\ (i # 7 => "groot" \notin Layer[i])
    <3>1. "regions" \notin Layer[5] /\ "groot" \notin Layer[5]
      BY <1>1, Zenon
    <3>2. "regions" \notin Layer[6] /\ "groot" \notin Layer[6]
      BY <1>1, Zenon
    <3>3. "regions" \notin Layer[7]
      BY <1>1, Zenon
    <3>4. "regions" \notin Layer[8] /\ "groot" \notin Layer[8]
      BY <1>1, Zenon
    <3>5. "regions" \notin Layer[9] /\ "groot" \notin Layer[9]
      BY <1>1, Zenon
    <3> QED BY <3>1, <3>2, <3>3, <3>4, <3>5, Zenon
  <2> QED BY <2>1, <2>2
<1>11. \A i \in SHM..GROOT : i \in SHM..PROOT
  OBVIOUS
<1> QED BY <1>3, <1>4, <1>5, <1>7, <1>8, <1>9, <1>10, <1>11

\* No layer holds the objects that got lost.
LEMMA StrayIsNoLayer == \A i \in SHM..DONE : Stray \notin Layer[i]
<1>1. \A i \in SHM..DONE : i \in {2, 3, 4, 5, 6, 7, 8, 9}
  BY DEF SHM, DONE
<1>2. /\ Layer[2] = {"shm name", "mapping", "shm_fd"} /\ Layer[3] = {"rcb lock"}
      /\ Layer[4] = {"regions", "regions_lock", "pages_lock"} /\ Layer[5] = {"group locks"}
      /\ Layer[6] = {"gc"} /\ Layer[7] = {"groot"} /\ Layer[8] = {"lib lock"} /\ Layer[9] = {}
  BY Zenon DEF Layer
<1>3. /\ Stray \notin Layer[2] /\ Stray \notin Layer[3] /\ Stray \notin Layer[4] /\ Stray \notin Layer[5]
      /\ Stray \notin Layer[6] /\ Stray \notin Layer[7] /\ Stray \notin Layer[8] /\ Stray \notin Layer[9]
  BY <1>2 DEF Stray
<1> QED BY <1>1, <1>3, Zenon

\* A worker makes a step only when it is up, or the master is idle and forks it.
LEMMA WorkerIsUp ==
    ASSUME NEW p \in Workers, WorkerStep(p)
    PROVE  p \in up \/ (job = "idle" /\ Fork(p))
BY Zenon
   DEF WorkerStep, st_capi_worker_init, WorkerAborts, LockAliveLate, DiesInOperation, WorkerDies,
       LockAlive, IsAt, st_capi_init_process_state, AllocProcessState, NewProot, st_gc_add_root, NoAlive,
       LockLib, Insert, UnlockLib

\* What a step of a registration may change.
LEMMA RegistrationEffect ==
    ASSUME Sizes, ProcInv, NEW p \in Procs, st_capi_init_process_state(p)
    PROVE  /\ p \in up /\ up' = up
           /\ pstates' \subseteq pstates \cup {p} /\ roots' \subseteq roots \cup {p}
           /\ Range(proots) \subseteq Range(proots')
           /\ pc[p] # "start" \/ AllocProcessState(p)
<1>1. CASE Insert(p)
  <2>1. Plain(proots) /\ p \notin Range(proots)
    BY <1>1, Zenon DEF Insert, IsAt, ProcInv, Types, Registered, Own, Plain
  <2> QED BY <1>1, <2>1, AppendEntry, Zenon DEF Insert, IsAt
<1>2. CASE st_gc_add_root(p)
  <2>1. p \notin roots /\ roots \subseteq Procs
    BY <1>2, Zenon DEF st_gc_add_root, IsAt, ProcInv, Types, Registered, Own
  <2> QED BY <1>2, <2>1, RoomForRoot, Zenon DEF st_gc_add_root, IsAt
<1>3. CASE AllocProcessState(p) \/ NewProot(p) \/ LockAlive(p) \/ NoAlive(p) \/ LockLib(p) \/ UnlockLib(p)
  BY <1>3, Zenon DEF AllocProcessState, NewProot, LockAlive, NoAlive, LockLib, UnlockLib, IsAt
<1> QED BY <1>1, <1>2, <1>3, Zenon DEF st_capi_init_process_state

-----------------------------------------------------------------------------
(* The steps.                                                                *)

\* Workers do not change the layers.  What a worker that dies has in proots can
\* be found; it may lose an object as long as the slabs are there.
LEMMA WorkersKeepLife ==
    ASSUME Calm, ProcInv, Phases, LifeInv, NEW p \in Workers, WorkerStep(p)
    PROVE  LifeInv'
<1>1. call' = call /\ pc'[Master] = pc[Master]
  BY WorkersKeepCvars, Zenon DEF Calm
<1>2. p # Master /\ p \in Procs /\ Master \in up
  BY Zenon DEF Calm, Sizes, Procs, ProcInv, Types
<1>3. /\ UNCHANGED <<init_state, process_state, job, last>>
      /\ held' = held \/ (DiesInOperation(p) /\ held' = held \cup {Stray})
  BY WorkersKeepCvars, Zenon DEF Calm
<1>4. ~(job \in {"init", "unwind"}) /\ ~(job = "destroy" /\ last.alone)
  BY <1>2, WorkerIsUp, Zenon DEF LifeInv, Left, Alone
<1>5. Holds' /\ Results'
  <2>1. CASE held' = held
    BY <1>1, <1>3, <2>1, Zenon DEF LifeInv, Holds, Results
  <2>2. CASE DiesInOperation(p) /\ held' = held \cup {Stray}
    <3>1. p \in pstates
      BY <2>2, Zenon DEF DiesInOperation, WorkerDies, ProcInv, Registered, Own
    <3>2. init_state # 0
      BY <3>1 DEF LifeInv, Left, SLAB
    <3> QED BY <1>1, <1>3, <1>4, <2>2, <3>2, Zenon DEF LifeInv, Holds, Results
  <2> QED BY <1>3, <2>1, <2>2, Zenon
<1>6. Alone'
  BY <1>3, <1>4, Zenon DEF Alone, LifeInv
<1>7. \/ st_capi_init_process_state(p) /\ (pc[p] = "start" => init_state = DONE)
      \/ /\ up' = up \ {p} /\ UNCHANGED <<pstates, roots, proots>>
         /\ p \in up
         /\ init_state = DONE => pc[p] \in {"start", "listed", "running"}
      \/ Fork(p)
  <2>1. init_state = DONE => Usable(p)
    <3>1. init_state = DONE => Everything \subseteq held
      BY Zenon DEF LifeInv, Holds
    <3>2. {"group locks"} \subseteq Everything /\ {"gc"} \subseteq Everything
          /\ {"lib lock"} \subseteq Everything
      <4>1. 5 \in NONE..DONE /\ 6 \in NONE..DONE /\ 8 \in NONE..DONE
        BY DEF NONE, DONE
      <4>2. Layer[5] \subseteq Everything /\ Layer[6] \subseteq Everything /\ Layer[8] \subseteq Everything
        BY <4>1, Zenon DEF Everything
      <4>3. Layer[5] = {"group locks"} /\ Layer[6] = {"gc"} /\ Layer[8] = {"lib lock"}
        BY Zenon DEF Layer
      <4> QED BY <4>2, <4>3, Zenon
    <3>3. init_state = DONE => Needs(pc[p]) \subseteq held
      BY <3>1, <3>2, Zenon DEF Needs
    <3> QED BY <3>3, Zenon DEF Usable
  <2>2. CASE st_capi_worker_init(p)
    BY <2>2, Zenon DEF st_capi_worker_init, Usable
  <2>3. CASE WorkerAborts(p)
    BY <2>1, <2>3, Zenon DEF WorkerAborts
  <2>4. CASE LockAliveLate(p)
    BY <2>1, <2>4, Zenon DEF LockAliveLate, LockAlive, IsAt, st_capi_init_process_state
  <2>5. CASE WorkerDies(p)
    BY <2>5, Zenon DEF WorkerDies, Calm, DeathsOutsideRegistration
  <2>6. CASE Fork(p)
    BY <2>6, Zenon
  <2> QED BY <2>2, <2>3, <2>4, <2>5, <2>6, Zenon DEF WorkerStep, DiesInOperation
<1>8. ASSUME init_state = DONE PROVE DeadAreFound'
  <2>1. \A d \in Procs \ up : d \in pstates \cup roots => d \in Range(proots)
    BY <1>8, Zenon DEF LifeInv, Left, DeadAreFoundWhileUp, DeadAreFound
  <2>2. CASE st_capi_init_process_state(p)
    BY <1>2, <2>1, <2>2, RegistrationEffect, Zenon DEF DeadAreFound, Calm
  <2>3. CASE /\ up' = up \ {p} /\ UNCHANGED <<pstates, roots, proots>>
             /\ p \in up /\ pc[p] \in {"start", "listed", "running"}
    <3>1. p \in pstates \cup roots => p \in Range(proots)
      BY <2>3, Zenon DEF ProcInv, Registered, Own
    <3> QED BY <2>1, <2>3, <3>1, Zenon DEF DeadAreFound
  <2>4. CASE Fork(p)
    BY <2>1, <2>4, Zenon DEF Fork, DeadAreFound
  <2> QED BY <1>7, <1>8, <2>2, <2>3, <2>4, Zenon
<1>9. ASSUME init_state < SLAB PROVE pstates' = {}
  <2>1. pstates = {} /\ init_state # DONE
    BY <1>9 DEF LifeInv, Left, SLAB, DONE
  <2>2. CASE st_capi_init_process_state(p) /\ (pc[p] = "start" => init_state = DONE)
    <3>1. p \in up
      BY <1>2, <2>2, RegistrationEffect, Zenon DEF Calm
    <3>2. pc[p] = "start"
      BY <2>1, <3>1, Zenon DEF ProcInv, Registered, Own
    <3> QED BY <2>1, <2>2, <3>2, Zenon
  <2>3. CASE Fork(p)
    BY <2>1, <2>3, Zenon DEF Fork
  <2> QED BY <1>7, <2>1, <2>2, <2>3, Zenon
<1>10. Left'
  BY <1>3, <1>4, <1>8, <1>9, Zenon DEF Left, DeadAreFoundWhileUp
<1> QED BY <1>5, <1>6, <1>10, Zenon DEF LifeInv

\* Taking down a layer leaves what the layers below hold.
LEMMA DownKeepsHolds ==
    ASSUME Holds, job \in {"destroy", "unwind"}, init_state \in REGION..DONE, Down
    PROVE  Holds' /\ init_state' = init_state - 1 /\ UNCHANGED <<process_state, job, last>>
<1>1. /\ init_state' = init_state - 1 /\ held' = held \ Layer[init_state]
      /\ UNCHANGED <<process_state, job, last>>
  BY Zenon DEF Down
<1>2. init_state' \in SHM..PROOT /\ init_state \in SHM..DONE /\ init_state = init_state' + 1
  BY <1>1 DEF SHM, REGION, PROOT, DONE
<1>3. init_state' >= GROOT => "groot" \in held'
  <2>1. SUFFICES ASSUME init_state' >= GROOT PROVE "groot" \in held'
    BY Zenon
  <2>2. init_state > GROOT /\ init_state >= GROOT
    BY <1>1, <1>2, <2>1 DEF SHM, REGION, GROOT, PROOT, DONE
  <2>3. "groot" \notin Layer[init_state] /\ "groot" \in held
    BY <1>2, <2>2, LayerFacts, Zenon DEF Holds
  <2> QED BY <1>1, <2>3, Zenon
<1>4. init_state' >= PAGEPOOL => "regions" \in held'
  <2>1. SUFFICES ASSUME init_state' >= PAGEPOOL PROVE "regions" \in held'
    BY Zenon
  <2>2. init_state > PAGEPOOL /\ init_state >= PAGEPOOL
    BY <1>1, <1>2, <2>1 DEF SHM, REGION, PAGEPOOL, PROOT, DONE
  <2>3. "regions" \notin Layer[init_state] /\ "regions" \in held
    BY <1>2, <2>2, LayerFacts, Zenon DEF Holds
  <2> QED BY <1>1, <2>3, Zenon
<1>5. init_state' # 0 /\ init_state' # DONE /\ job' # "init"
  BY <1>1, <1>2 DEF SHM, PROOT, DONE
<1> QED BY <1>1, <1>3, <1>4, <1>5, Zenon DEF Holds

\* The master registers itself while it is alone, and leaves nothing when it
\* fails.
LEMMA MasterKeepsLife ==
    ASSUME Calm, ProcInv, Phases, LifeInv, InitMaster
    PROVE  LifeInv'
<1>1. job = "init" /\ init_state = PROOT /\ st_capi_init_process_state(Master) /\ Master \in Procs
  BY Zenon DEF InitMaster, Building, Procs
<1>2. ProcInv'
  BY MasterKeeps, Zenon DEF Calm
<1>3. up' = up /\ pstates' \subseteq pstates \cup {Master}
  BY <1>1, RegistrationEffect, Zenon DEF Calm
<1>4. up' = {Master} /\ pstates' \subseteq {Master} /\ roots' \subseteq pstates'
  BY <1>1, <1>2, <1>3, Zenon DEF LifeInv, Left, ProcInv, Registered
<1>5. held = Everything
  BY <1>1, LayerFacts, Zenon DEF LifeInv, Holds
<1>6. last.call = "none"
  BY <1>1, Zenon DEF LifeInv, Results
<1>7. CASE pc'[Master] = "running"
  <2>1. /\ process_state' = "slab" /\ init_state' = DONE /\ held' = held /\ job' = "idle"
        /\ last'.call = "init" /\ last'.ok
    BY <1>7 DEF InitMaster, Return
  <2>2. Holds'
    <3>1. "groot" \in held /\ "regions" \in held
      BY <1>1, <1>5 DEF LifeInv, Holds, PROOT, GROOT, PAGEPOOL
    <3> QED BY <1>1, <1>5, <1>7, <2>1, <3>1 DEF Holds, DONE
  <2>3. Left'
    BY <1>4, <2>1 DEF Left, DeadAreFoundWhileUp, DeadAreFound, DONE, SLAB
  <2>4. Alone' /\ Results'
    BY <2>1, Zenon DEF Alone, Results
  <2> QED BY <2>2, <2>3, <2>4, Zenon DEF LifeInv
<1>8. CASE pc'[Master] = "start"
  <2>1. job' = "unwind" /\ UNCHANGED <<init_state, held, process_state, last>>
    BY <1>8, Zenon DEF InitMaster
  <2>2. pstates' = {}
    BY <1>2, <1>4, <1>8 DEF ProcInv, Registered, Own
  <2>3. Holds' /\ Left'
    BY <1>1, <1>4, <2>1, <2>2 DEF LifeInv, Holds, Left, DeadAreFoundWhileUp, PROOT, DONE, SLAB
  <2>4. Alone' /\ Results'
    BY <1>6, <2>1, Zenon DEF Alone, Results
  <2> QED BY <2>3, <2>4, Zenon DEF LifeInv
<1>9. CASE pc'[Master] \notin {"running", "start"}
  <2>1. UNCHANGED <<init_state, held, process_state, job, last>>
    BY <1>9, Zenon DEF InitMaster, cvars
  <2>2. Holds' /\ Left'
    BY <1>1, <1>4, <2>1 DEF LifeInv, Holds, Left, DeadAreFoundWhileUp, PROOT, DONE, SLAB
  <2>3. Alone' /\ Results'
    BY <1>1, <1>6, <2>1, Zenon DEF Alone, Results
  <2> QED BY <2>2, <2>3 DEF LifeInv
<1> QED BY <1>7, <1>8, <1>9, Zenon

\* The cleanups: the master that is alone cleans all that is listed.
LEMMA CleanupsKeepLife ==
    ASSUME Calm, ProcInv, Phases, LifeInv, CleanupStep
    PROVE  LifeInv'
<1>1. ASSUME UNCHANGED <<pc, up, pstates, roots, proots, cvars>>,
             call'.active /\ job = "destroy" /\ last.alone => Range(proots) \subseteq Range(call'.rest)
      PROVE  LifeInv'
  <2>1. UNCHANGED <<pc, up, pstates, roots, proots, init_state, held, process_state, job, last>>
    BY <1>1, Zenon DEF cvars
  <2>2. Holds' /\ Results'
    BY <2>1 DEF LifeInv, Holds, Results
  <2>3. Left'
    BY <2>1, Zenon DEF LifeInv, Left, DeadAreFoundWhileUp, DeadAreFound
  <2>4. Alone'
    BY <1>1, <2>1, Zenon DEF LifeInv, Alone
  <2> QED BY <2>2, <2>3, <2>4, Zenon DEF LifeInv
<1>2. CASE BeginDestroyProots \/ \E max_num \in MaxNums :
             job = "idle" /\ IsAt(Master, "running") /\ BeginClean(max_num, FALSE) /\ UNCHANGED cvars
  <2>1. UNCHANGED <<pc, up, pstates, roots, proots, cvars>> /\ call'.rest = proots
    BY <1>2 DEF BeginDestroyProots, BeginClean
  <2> QED BY <1>1, <2>1, Zenon
<1>3. CASE EndDestroyProots
  <2>1. /\ Destroying(PROOT) /\ EndClean /\ Down
        /\ UNCHANGED <<pc, up, pstates, roots, proots>>
    BY <1>3, Zenon DEF EndDestroyProots, EndClean
  <2>2. init_state = PROOT /\ job \in {"destroy", "unwind"} /\ init_state \in REGION..DONE
    BY <2>1 DEF Destroying, PROOT, REGION, DONE
  <2>3. Holds' /\ init_state' = GROOT /\ UNCHANGED <<process_state, job, last>>
    BY <2>1, <2>2, DownKeepsHolds DEF LifeInv, PROOT, GROOT
  <2>4. Left'
    BY <2>1, <2>3 DEF LifeInv, Left, DeadAreFoundWhileUp, GROOT, DONE, SLAB
  <2>5. ~call'.active /\ Range(<<>>) = {} /\ call.active /\ call.rest = <<>>
    BY <2>1 DEF EndClean, NoCall, Range
  <2>6. Alone'
    BY <2>1, <2>2, <2>3, <2>5 DEF LifeInv, Alone, GROOT, PROOT
  <2>7. Results'
    BY <2>2, <2>3, Zenon DEF LifeInv, Results
  <2> QED BY <2>3, <2>4, <2>6, <2>7, Zenon DEF LifeInv
<1>4. CASE Skip /\ UNCHANGED cvars
  <2>1. UNCHANGED <<pc, up, pstates, roots, proots, cvars>>
    BY <1>4, Zenon DEF Skip
  <2>2. ~(job = "destroy" /\ last.alone)
    <3>1. SUFFICES ASSUME job = "destroy", last.alone PROVE FALSE
      BY Zenon
    <3>2. up = {Master} /\ call.active /\ call.clean_self
      BY <1>4, <3>1, Zenon DEF LifeInv, Alone, Phases, Skip
    <3>3. CanLockAlive(Head(call.rest)) <=> Head(call.rest) \notin up
      BY <1>4, LoopFacts DEF Skip
    <3> QED BY <1>4, <3>2, <3>3, Zenon DEF Skip, ToClean
  <2> QED BY <1>1, <2>1, <2>2, Zenon
<1>5. CASE Clean /\ UNCHANGED cvars
  <2>1. PICK q : Cleans(q)
    BY <1>5, CleanEffect, Zenon
  <2>2. UNCHANGED <<up, init_state, held, process_state, job, last>>
    BY <1>5, <2>1, Zenon DEF cvars, Cleans
  <2>3. Holds' /\ Results'
    <3>1. init_state = DONE => UNCHANGED pc
      BY <2>1 DEF Phases, Cleans, Destroying, PROOT, DONE
    <3> QED BY <2>2, <3>1, Zenon DEF LifeInv, Holds, Results
  <2>4. Left'
    BY <2>1, <2>2, Zenon DEF LifeInv, Left, DeadAreFoundWhileUp, DeadAreFound, Cleans
  <2>5. Alone'
    <3>1. job = "destroy" => call.max_num = 0 /\ init_state = PROOT
      BY <2>1, Zenon DEF Phases, Destroying, ProcInv, Cleaning, Cleans
    <3>2. job = "destroy" => Range(call'.rest) = Range(call.rest) \ {q}
      BY <2>1, <3>1, Zenon DEF Cleans, Enough
    <3> QED BY <2>1, <2>2, <3>1, <3>2, Zenon DEF LifeInv, Alone, Cleans, PROOT
  <2> QED BY <2>3, <2>4, <2>5 DEF LifeInv
<1>6. CASE job = "idle" /\ EndClean /\ UNCHANGED cvars
  BY <1>1, <1>6, Zenon DEF EndClean
<1> QED BY <1>2, <1>3, <1>4, <1>5, <1>6 DEF CleanupStep

\* The steps of st_capi_do_init that build a layer on those before.
LEMMA BuildKeepsLife ==
    ASSUME Calm, ProcInv, Phases, LifeInv, UNCHANGED pvars, job = "init",
           NEW layer \in REGION..PROOT, init_state = layer - 1, Built(layer, Layer[layer])
    PROVE  LifeInv'
<1>1. /\ init_state' = layer /\ held' = held \cup Layer[layer] /\ UNCHANGED <<process_state, job, last>>
      /\ UNCHANGED <<pc, up, pstates, roots, proots>>
  BY Zenon DEF Built, pvars
<1>2. held' = LayersUpTo(layer)
  <2>1. layer - 1 \in SHM..GROOT /\ (layer - 1) + 1 = layer
    BY DEF REGION, PROOT, SHM, GROOT
  <2>2. LayersUpTo((layer - 1) + 1) = LayersUpTo(layer - 1) \cup Layer[(layer - 1) + 1]
    BY <2>1, LayerFacts, Zenon
  <2>3. LayersUpTo(layer) = LayersUpTo(layer - 1) \cup Layer[layer]
    BY <2>1, <2>2, Zenon
  <2> QED BY <1>1, <2>3, Zenon DEF LifeInv, Holds
<1>3. /\ layer >= GROOT => layer \in GROOT..PROOT
      /\ layer >= PAGEPOOL => layer \in PAGEPOOL..PROOT
      /\ layer # 0 /\ layer # DONE /\ layer \in SHM..DONE
  BY DEF SHM, REGION, PAGEPOOL, GROOT, PROOT, DONE
<1>4. Holds'
  <2>1. Stray \notin held'
    BY <1>1, <1>3, StrayIsNoLayer, Zenon DEF LifeInv, Holds
  <2> QED BY <1>1, <1>2, <1>3, <2>1, LayerFacts, Zenon DEF Holds
<1>5. layer < SLAB => init_state < SLAB
  BY DEF REGION, SLAB, PROOT
<1>6. Left'
  BY <1>1, <1>3, <1>5, Zenon DEF LifeInv, Left, DeadAreFoundWhileUp
<1>7. Alone' /\ Results'
  BY <1>1, Zenon DEF LifeInv, Alone, Results
<1> QED BY <1>4, <1>6, <1>7, Zenon DEF LifeInv

\* The steps that fail leave the master alone and nothing of a process.
LEMMA UnwindKeepsLife ==
    ASSUME Calm, ProcInv, Phases, LifeInv, job = "init", init_state \in SHM..PROOT,
           pc[Master] = "start", NEW left, Stray \notin left, Unwind(left)
    PROVE  LifeInv'
<1>1. /\ job' = "unwind" /\ held' = held \cup left /\ UNCHANGED <<init_state, process_state, last>>
      /\ UNCHANGED <<pc, up, pstates, roots, proots>>
  BY Zenon DEF Unwind, pvars
<1>2. init_state # 0 /\ init_state # DONE
  BY DEF SHM, PROOT, DONE
<1>3. Holds'
  BY <1>1, <1>2, Zenon DEF LifeInv, Holds
<1>4. up = {Master} /\ pstates = {}
  BY DEF LifeInv, Left, ProcInv, Registered, Own
<1>5. Left'
  BY <1>1, <1>2, <1>4, Zenon DEF LifeInv, Left, DeadAreFoundWhileUp
<1>6. Alone' /\ Results'
  BY <1>1, Zenon DEF LifeInv, Alone, Results
<1> QED BY <1>3, <1>5, <1>6 DEF LifeInv

\* Every step of st_capi_do_init before the master registers itself.
LEMMA InitKeepsLife ==
    ASSUME Calm, ProcInv, Phases, LifeInv,
           \/ st_region_init \/ st_pagepool_init \/ st_slab_pool_init \/ st_table_pool_init
           \/ InitGroot \/ InitLib \/ NoProcessState
    PROVE  LifeInv'
<1>1. ASSUME job = "init", init_state \in SHM..GROOT PROVE pc[Master] = "start"
  BY <1>1 DEF Phases, Building, SHM, GROOT, PROOT, DONE
<1>2. /\ SHM \in SHM..GROOT /\ REGION \in SHM..GROOT /\ PAGEPOOL \in SHM..GROOT /\ SLAB \in SHM..GROOT
      /\ TABLE \in SHM..GROOT /\ GROOT \in SHM..GROOT /\ SHM..GROOT \subseteq SHM..PROOT /\ PROOT \in SHM..PROOT
  BY DEF SHM, REGION, PAGEPOOL, SLAB, TABLE, GROOT, PROOT
<1>3. /\ REGION \in REGION..PROOT /\ PAGEPOOL \in REGION..PROOT /\ SLAB \in REGION..PROOT
      /\ TABLE \in REGION..PROOT /\ GROOT \in REGION..PROOT /\ PROOT \in REGION..PROOT
      /\ SHM = REGION - 1 /\ REGION = PAGEPOOL - 1 /\ PAGEPOOL = SLAB - 1 /\ SLAB = TABLE - 1
      /\ TABLE = GROOT - 1 /\ GROOT = PROOT - 1
  BY DEF SHM, REGION, PAGEPOOL, SLAB, TABLE, GROOT, PROOT
<1>4. ASSUME NEW layer \in REGION..PROOT, Building(layer - 1), Built(layer, Layer[layer])
      PROVE  LifeInv'
  BY <1>4, BuildKeepsLife, Zenon DEF Building, Built
<1>5. ASSUME NEW layer \in SHM..GROOT, Building(layer), NEW left, Stray \notin left, Unwind(left)
      PROVE  LifeInv'
  BY <1>1, <1>2, <1>5, UnwindKeepsLife DEF Building
<1>6. CASE st_region_init
  <2>1. Building(SHM) /\ (Built(REGION, Layer[REGION]) \/ Unwind({}))
    BY <1>6, Zenon DEF st_region_init
  <2> QED BY <1>2, <1>3, <1>4, <1>5, <2>1
<1>7. CASE st_pagepool_init
  <2>1. "pages_lock" \notin Faults
    BY Zenon DEF Calm, SoundFaults
  <2>2. \A outcome \in Outcomes({"regions_lock", "pages_lock"}) : outcome \in {"ok", "regions_lock"}
    BY <2>1, Zenon DEF Outcomes
  <2>3. Building(REGION) /\ (Built(PAGEPOOL, Layer[PAGEPOOL]) \/ Unwind({}))
    BY <1>7, <2>2, Zenon DEF st_pagepool_init
  <2> QED BY <1>2, <1>3, <1>4, <1>5, <2>3
<1>8. CASE st_slab_pool_init
  <2>1. Building(PAGEPOOL) /\ (Built(SLAB, Layer[SLAB]) \/ \E left \in {{}, Layer[SLAB]} : Unwind(left))
    BY <1>8, Zenon DEF st_slab_pool_init
  <2>2. \A left \in {{}, Layer[SLAB]} : Stray \notin left
    <3>1. SLAB \in SHM..DONE
      BY DEF SLAB, SHM, DONE
    <3> QED BY <3>1, StrayIsNoLayer, Zenon
  <2> QED BY <1>2, <1>3, <1>4, <1>5, <2>1, <2>2
<1>9. CASE st_table_pool_init
  <2>1. Building(SLAB) /\ (Built(TABLE, Layer[TABLE]) \/ Unwind({}))
    BY <1>9, Zenon DEF st_table_pool_init
  <2> QED BY <1>2, <1>3, <1>4, <1>5, <2>1
<1>10. CASE InitGroot
  <2>1. job = "init" /\ init_state = TABLE
    BY <1>10, Zenon DEF InitGroot, Building
  <2>2. "regions_lock" \in held
    <3>1. TABLE \in PAGEPOOL..PROOT
      BY DEF TABLE, PAGEPOOL, PROOT
    <3> QED BY <2>1, <3>1, LayerFacts DEF LifeInv, Holds
  <2>3. Building(TABLE) /\ (Built(GROOT, Layer[GROOT]) \/ Unwind({}))
    BY <1>10, <2>2, Zenon DEF InitGroot
  <2> QED BY <1>2, <1>3, <1>4, <1>5, <2>3
<1>11. CASE InitLib
  <2>1. Building(GROOT) /\ (Built(PROOT, Layer[PROOT]) \/ Unwind({}))
    BY <1>11, Zenon DEF InitLib
  <2> QED BY <1>2, <1>3, <1>4, <1>5, <2>1
<1>12. CASE NoProcessState
  BY <1>2, <1>12, UnwindKeepsLife, Zenon DEF NoProcessState, Building, IsAt
<1> QED BY <1>6, <1>7, <1>8, <1>9, <1>10, <1>11, <1>12

\* The steps with which st_capi_init and st_capi_destroy begin, and the one
\* with which the shared memory is made.
LEMMA BeginKeepsLife ==
    ASSUME Calm, ProcInv, Phases, LifeInv, st_capi_init \/ st_region_shm_create \/ BeginDestroy
    PROVE  LifeInv'
<1>1. UNCHANGED <<pc, up, pstates, roots, proots, call>>
  BY LayersKeepVars, Zenon DEF LayerStep, pvars
<1>2. CASE st_capi_init
  <2>1. /\ job' = "init" /\ last'.call = "none" /\ UNCHANGED <<init_state, held, process_state>>
        /\ init_state = 0 /\ up = {Master}
    BY <1>2, Zenon DEF st_capi_init, Phases
  <2>2. held = {} /\ pstates = {}
    BY <2>1 DEF LifeInv, Holds, Left, SLAB
  <2>3. Holds'
    BY <2>1, <2>2, LayerFacts DEF Holds, GROOT, PAGEPOOL, DONE
  <2>4. Left' /\ Alone' /\ Results'
    BY <1>1, <2>1, <2>2 DEF Left, DeadAreFoundWhileUp, DONE, Alone, Results
  <2> QED BY <2>3, <2>4, Zenon DEF LifeInv
<1>3. CASE st_region_shm_create
  <2>1. job = "init" /\ init_state = 0 /\ held = {} /\ last.call = "none" /\ up = {Master} /\ pstates = {}
    BY <1>3 DEF st_region_shm_create, Building, LifeInv, Holds, Results, Left, SLAB
  <2>2. PICK outcome \in Outcomes({"shm", "fcntl"}) :
            IF outcome = "ok"
            THEN init_state' = SHM /\ held' = Layer[SHM] /\ process_state' = "stack" /\ UNCHANGED <<job, last>>
            ELSE IF outcome = "shm"
            THEN Return("init", FALSE) /\ UNCHANGED <<init_state, held, process_state>>
            ELSE Abort
    BY <1>3, Zenon DEF st_region_shm_create
  <2>3. outcome \in {"ok", "shm"}
    BY Zenon DEF Calm, SoundFaults, Outcomes
  <2>4. CASE outcome = "ok"
    <3>1. init_state' = SHM /\ held' = Layer[SHM] /\ process_state' = "stack" /\ UNCHANGED <<job, last>>
      BY <2>2, <2>4, Zenon
    <3>2. Holds'
      <4>1. Stray \notin Layer[SHM]
        BY StrayIsNoLayer DEF SHM, DONE
      <4> QED BY <3>1, <4>1, LayerFacts DEF Holds, SHM, GROOT, PAGEPOOL, DONE
    <3>3. Left' /\ Alone' /\ Results'
      BY <1>1, <2>1, <3>1 DEF Left, DeadAreFoundWhileUp, SHM, SLAB, DONE, Alone, Results
    <3> QED BY <3>2, <3>3, Zenon DEF LifeInv
  <2>5. CASE outcome = "shm"
    <3>1. /\ job' = "idle" /\ last'.call = "init" /\ last'.ok = FALSE
          /\ UNCHANGED <<init_state, held, process_state>>
      BY <2>2, <2>5 DEF Return
    <3>2. Holds'
      BY <2>1, <3>1 DEF Holds, GROOT, PAGEPOOL, DONE
    <3>3. Left'
      BY <1>1, <2>1, <3>1 DEF Left, DeadAreFoundWhileUp, DONE
    <3>4. Alone'
      BY <3>1, Zenon DEF Alone
    <3>5. Results'
      BY <2>1, <3>1, Zenon DEF Results
    <3> QED BY <3>2, <3>3, <3>4, <3>5, Zenon DEF LifeInv
  <2> QED BY <2>3, <2>4, <2>5, Zenon
<1>4. CASE BeginDestroy
  <2>1. /\ job = "idle" /\ job' = "destroy" /\ last'.call = "none"
        /\ last'.alone = (up = {Master} /\ init_state = DONE) /\ ~call.active
        /\ UNCHANGED <<init_state, held, process_state>>
    BY <1>4, Zenon DEF BeginDestroy
  <2>2. Holds' /\ Results' /\ Left'
    BY <1>1, <2>1, Zenon DEF LifeInv, Holds, Results, Left, DeadAreFoundWhileUp, DeadAreFound
  <2>3. up = {Master} /\ init_state = DONE => pstates \subseteq Range(proots)
    <3>1. SUFFICES ASSUME up = {Master}, init_state = DONE, NEW p \in pstates
                   PROVE  p \in Range(proots)
      BY Zenon
    <3>2. p \in Procs
      BY Zenon DEF ProcInv, Types
    <3>3. CASE p = Master
      BY <3>1, <3>3, Zenon DEF LifeInv, Holds, ProcInv, Registered, Own
    <3>4. CASE p # Master
      BY <3>1, <3>2, <3>4, Zenon DEF LifeInv, Left, DeadAreFoundWhileUp, DeadAreFound
    <3> QED BY <3>3, <3>4, Zenon
  <2>4. Alone'
    <3>1. last'.alone \in BOOLEAN /\ (last'.alone <=> up = {Master} /\ init_state = DONE)
      BY <2>1, Zenon
    <3>2. init_state = DONE => init_state >= PROOT /\ ~(init_state < PROOT)
      BY DEF DONE, PROOT
    <3> QED BY <1>1, <2>1, <2>3, <3>1, <3>2 DEF Alone
  <2> QED BY <2>2, <2>4, Zenon DEF LifeInv
<1> QED BY <1>2, <1>3, <1>4

\* Every layer that st_capi_destroy takes down.
LEMMA DestroyKeepsLife ==
    ASSUME Calm, ProcInv, Phases, LifeInv,
           \/ DestroyDone \/ DestroyGroot \/ st_table_pool_destroy \/ st_slab_pool_destroy
           \/ st_pagepool_destroy \/ st_region_destroy \/ st_region_shm_destroy
    PROVE  LifeInv'
<1>1. UNCHANGED <<pc, up, pstates, roots, proots, call>>
  BY LayersKeepVars, Zenon DEF LayerStep, pvars
<1>2. ASSUME NEW layer \in (REGION..DONE) \ {PROOT}, Destroying(layer), Down,
             layer = SLAB => pstates = {}
      PROVE  LifeInv'
  <2>1. init_state = layer /\ job \in {"destroy", "unwind"}
    BY <1>2, Zenon DEF Destroying
  <2>2. Holds' /\ init_state' = layer - 1 /\ UNCHANGED <<process_state, job, last>>
    BY <1>2, <2>1, DownKeepsHolds, Zenon DEF LifeInv
  <2>3. layer \in Int /\ layer - 1 # DONE /\ (layer - 1 < SLAB => layer = SLAB \/ layer < SLAB)
        /\ (layer - 1 >= PROOT => layer >= PROOT) /\ (layer - 1 < PROOT => layer < PROOT)
    BY <1>2 DEF REGION, SLAB, PROOT, DONE
  <2>4. Left'
    BY <1>1, <1>2, <2>1, <2>2, <2>3 DEF LifeInv, Left, DeadAreFoundWhileUp
  <2>5. Alone' /\ Results'
    BY <1>1, <2>1, <2>2, <2>3 DEF LifeInv, Alone, Results
  <2> QED BY <2>2, <2>4, <2>5, Zenon DEF LifeInv
<1>3. CASE DestroyDone \/ st_table_pool_destroy \/ st_region_destroy
  <2>1. {DONE, TABLE, REGION} \subseteq (REGION..DONE) \ {PROOT} /\ SLAB \notin {DONE, TABLE, REGION}
    BY DEF DONE, TABLE, REGION, PROOT, SLAB
  <2> QED BY <1>2, <1>3, <2>1, Zenon DEF DestroyDone, st_table_pool_destroy, st_region_destroy
<1>4. CASE DestroyGroot
  <2>1. "groot" \in held
    BY <1>4 DEF DestroyGroot, Destroying, LifeInv, Holds, GROOT
  <2>2. GROOT \in (REGION..DONE) \ {PROOT} /\ GROOT # SLAB
    BY DEF DONE, GROOT, REGION, PROOT, SLAB
  <2> QED BY <1>2, <1>4, <2>1, <2>2 DEF DestroyGroot
<1>5. CASE st_pagepool_destroy
  <2>1. "regions" \in held
    BY <1>5 DEF st_pagepool_destroy, Destroying, LifeInv, Holds, PAGEPOOL
  <2>2. PAGEPOOL \in (REGION..DONE) \ {PROOT} /\ PAGEPOOL # SLAB
    BY DEF DONE, PAGEPOOL, REGION, PROOT, SLAB
  <2> QED BY <1>2, <1>5, <2>1, <2>2 DEF st_pagepool_destroy
<1>6. CASE st_slab_pool_destroy
  <2>1. Destroying(SLAB) /\ init_state = SLAB /\ job \in {"destroy", "unwind"}
    BY <1>6, Zenon DEF st_slab_pool_destroy, Destroying
  <2>2. SLAB \in (REGION..DONE) \ {PROOT}
    BY DEF DONE, SLAB, REGION, PROOT
  <2>3. CASE pstates = {} /\ roots = {} /\ Stray \notin held
    BY <1>2, <1>6, <2>1, <2>2, <2>3 DEF st_slab_pool_destroy
  <2>4. CASE ~(pstates = {} /\ roots = {} /\ Stray \notin held)
    <3>1. pstates # {} \/ Stray \in held
      BY <2>4, Zenon DEF ProcInv, Registered
    <3>2. job = "destroy" /\ (last.alone => Stray \in held) /\ last.alone \in BOOLEAN
      <4>1. job = "destroy"
        BY <2>1, <3>1, Zenon DEF LifeInv, Holds, Left
      <4>2. SLAB < PROOT
        BY DEF SLAB, PROOT
      <4> QED BY <2>1, <3>1, <4>1, <4>2, Zenon DEF LifeInv, Alone
    <3>3. Return("destroy", FALSE) /\ UNCHANGED <<init_state, process_state>>
          /\ held' \in {held, held \ Layer[SLAB]}
      BY <1>6, <2>4, <3>2, Zenon DEF st_slab_pool_destroy, DestroyFails
    <3>4. job' = "idle" /\ last'.call = "destroy" /\ last'.ok = FALSE /\ last'.alone = last.alone
      BY <3>2, <3>3 DEF Return
    <3>5. "regions" \in held'
      <4>1. "regions" \notin Layer[SLAB]
        BY LayerFacts DEF SLAB, SHM, DONE, PAGEPOOL
      <4>2. "regions" \in held
        BY <2>1 DEF LifeInv, Holds, SLAB, PAGEPOOL
      <4> QED BY <3>3, <4>1, <4>2, Zenon
    <3>6. Holds'
      BY <2>1, <3>3, <3>4, <3>5 DEF Holds, SLAB, GROOT, DONE
    <3>7. Left'
      BY <1>1, <2>1, <3>3, <3>4 DEF Left, DeadAreFoundWhileUp, SLAB, DONE
    <3>8. Alone' /\ Results'
      <4>1. init_state' # 0
        BY <2>1, <3>3 DEF SLAB
      <4>2. Stray \notin Layer[SLAB]
        BY StrayIsNoLayer DEF SLAB, SHM, DONE
      <4>3. last'.alone => Stray \in held'
        BY <3>2, <3>3, <3>4, <4>2, Zenon
      <4> QED BY <3>2, <3>4, <4>1, <4>3, Zenon DEF Alone, Results
    <3> QED BY <3>6, <3>7, <3>8, Zenon DEF LifeInv
  <2> QED BY <2>3, <2>4, Zenon
<1>7. CASE st_region_shm_destroy
  <2>1. init_state = SHM /\ job \in {"destroy", "unwind"}
    BY <1>7, Zenon DEF st_region_shm_destroy, Destroying
  <2>2. Faults \cap Layer[SHM] = {}
    BY Zenon DEF Calm, SoundFaults, Layer, SHM
  <2>3. /\ init_state' = 0 /\ held' = {} /\ process_state' = "NULL"
        /\ IF job = "unwind" THEN Return("init", FALSE) ELSE Return("destroy", TRUE)
    BY <1>7, <2>2, Zenon DEF st_region_shm_destroy
  <2>4. pstates = {}
    BY <2>1 DEF LifeInv, Left, SHM, SLAB
  <2>5. job' = "idle"
    BY <2>3, Zenon DEF Return
  <2>6. Holds' /\ Left' /\ Alone'
    BY <1>1, <2>3, <2>4, <2>5 DEF Holds, Left, DeadAreFoundWhileUp, Alone, GROOT, PAGEPOOL, DONE
  <2>7. Results'
    <3>1. CASE job = "unwind"
      <4>1. last'.call = "init" /\ last'.ok = FALSE
        BY <2>3, <3>1 DEF Return
      <4> QED BY <2>3, <2>5, <4>1, Zenon DEF Results
    <3>2. CASE job # "unwind"
      <4>1. last'.call = "destroy" /\ last'.ok = TRUE /\ last'.alone = (job = "destroy" => last.alone)
        BY <2>3, <3>2 DEF Return
      <4> QED BY <2>3, <2>5, <4>1, Zenon DEF Results
    <3> QED BY <3>1, <3>2, Zenon
  <2> QED BY <2>6, <2>7, Zenon DEF LifeInv
<1> QED BY <1>3, <1>4, <1>5, <1>6, <1>7

\* Every step keeps the invariant of the library.
LEMMA StepKeepsLife ==
    ASSUME Calm, ProcInv, Phases, LifeInv, [CapiNext]_allvars
    PROVE  LifeInv'
<1>1. CASE LayerStep
  BY <1>1, BeginKeepsLife, InitKeepsLife, DestroyKeepsLife, Zenon DEF LayerStep
<1>2. CASE InitMaster
  BY <1>2, MasterKeepsLife, Zenon
<1>3. CASE CleanupStep
  BY <1>3, CleanupsKeepLife, Zenon
<1>4. ASSUME NEW p \in Workers, WorkerStep(p) PROVE LifeInv'
  BY <1>4, WorkersKeepLife, Zenon
<1>5. CASE UNCHANGED allvars
  <2>1. UNCHANGED <<pc, up, pstates, roots, proots, call, init_state, held, process_state, job, last>>
    BY <1>5, Zenon DEF allvars, pvars, cvars
  <2>2. Holds' /\ Results' /\ Alone'
    BY <2>1 DEF LifeInv, Holds, Results, Alone
  <2>3. Left'
    BY <2>1, Zenon DEF LifeInv, Left, DeadAreFoundWhileUp, DeadAreFound
  <2> QED BY <2>2, <2>3, Zenon DEF LifeInv
<1> QED BY <1>1, <1>2, <1>3, <1>4, <1>5, Steps, Zenon

-----------------------------------------------------------------------------
(* The theorems.                                                             *)

\* The invariant of the library: what the layers hold at every init_state,
\* what is left of the processes, and what the calls that have returned said.
THEOREM LifeInvariant ==
    ASSUME Calm
    PROVE  CapiSpec => []LifeInv
<1>1. Sizes
  BY Zenon DEF Calm
<1>2. CapiInit => LifeInv
  <2>1. SUFFICES ASSUME CapiInit PROVE LifeInv
    BY Zenon
  <2>2. Holds
    BY <2>1 DEF CapiInit, Holds, GROOT, PAGEPOOL, DONE
  <2>3. Left
    BY <2>1 DEF CapiInit, ProcInit, Left, DeadAreFoundWhileUp, DONE
  <2>4. Alone /\ Results
    BY <2>1, Zenon DEF CapiInit, Alone, Results
  <2> QED BY <2>2, <2>3, <2>4, Zenon DEF LifeInv
<1>3. ProcInv /\ Phases /\ LifeInv /\ [CapiNext]_allvars => LifeInv'
  BY StepKeepsLife, Zenon
<1> QED BY <1>1, <1>2, <1>3, RegistryInvariant, PTL DEF CapiSpec

\* As long as the library is up, whatever a dead process has left behind is
\* found by a later cleanup, over all lives of the library.
THEOREM DeadAlwaysFound ==
    ASSUME Calm
    PROVE  CapiSpec => []DeadAreFoundWhileUp
<1>1. LifeInv => DeadAreFoundWhileUp
  BY Zenon DEF LifeInv, Left
<1> QED BY <1>1, LifeInvariant, PTL

\* st_capi_init builds every layer and registers the master, or leaves nothing
\* behind, whichever of its steps fails.
THEOREM InitIsAllOrNothing ==
    ASSUME Calm
    PROVE  CapiSpec => []InitAllOrNothing
<1>1. Sizes
  BY DEF Calm
<1>2. ProcInv /\ Phases /\ LifeInv => InitAllOrNothing
  <2>1. SUFFICES ASSUME ProcInv, Phases, LifeInv, last.call = "init"
                 PROVE  IF last.ok
                        THEN init_state = DONE => Everything \subseteq held /\ process_state = "slab"
                        ELSE NothingLeft
    BY Zenon DEF InitAllOrNothing
  <2>2. CASE last.ok
    BY <2>1, <2>2, Zenon DEF LifeInv, Holds
  <2>3. CASE ~last.ok
    <3>1. init_state = 0
      BY <2>1, <2>3, Zenon DEF LifeInv, Results
    <3>2. process_state = "NULL" /\ held = {} /\ pstates = {}
      BY <2>1, <3>1 DEF Phases, LifeInv, Holds, Left, SLAB
    <3> QED BY <2>1, <2>3, <3>2, Zenon DEF NothingLeft, ProcInv, Registered
  <2> QED BY <2>2, <2>3, Zenon
<1> QED BY <1>1, <1>2, RegistryInvariant, LifeInvariant, PTL

\* st_capi_destroy reports ST_OK only when nothing is left.  When all workers
\* have ended before, however they have ended, it fails only if one of them was
\* killed inside an operation and has left an object in the slabs.
THEOREM DestroyAlwaysComplete ==
    ASSUME Calm
    PROVE  CapiSpec => []DestroyIsComplete
<1>1. Sizes
  BY DEF Calm
<1>2. ProcInv /\ Phases /\ LifeInv => DestroyIsComplete
  <2>1. SUFFICES ASSUME ProcInv, Phases, LifeInv, last.call = "destroy"
                 PROVE  /\ last.ok <=> process_state = "NULL"
                        /\ last.ok => NothingLeft
                        /\ last.alone /\ ~last.ok => Stray \in held
    BY Zenon DEF DestroyIsComplete
  <2>2. /\ last.ok <=> init_state = 0
        /\ last.alone /\ ~last.ok => Stray \in held
    BY <2>1, Zenon DEF LifeInv, Results
  <2>3. process_state = "NULL" <=> init_state = 0
    BY <2>1, Zenon DEF Phases
  <2>4. init_state = 0 => held = {} /\ pstates = {} /\ roots = {}
    BY <2>1 DEF LifeInv, Holds, Left, SLAB, ProcInv, Registered
  <2> QED BY <2>2, <2>3, <2>4, Zenon DEF NothingLeft
<1> QED BY <1>1, <1>2, RegistryInvariant, LifeInvariant, PTL

\* The assertions of st_capi_init and st_capi_destroy hold.
THEOREM NeverDoubleFault ==
    ASSUME Calm
    PROVE  CapiSpec => []NoDoubleFault
<1>1. LifeInv => NoDoubleFault
  BY Zenon DEF LifeInv, Results, NoDoubleFault
<1> QED BY <1>1, LifeInvariant, PTL

=============================================================================
