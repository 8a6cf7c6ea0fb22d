---------------------------- MODULE LocksProofs ----------------------------
(***************************************************************************)
(* The order of the locks, for any number of processes and tables.         *)
(*                                                                         *)
(* A program is annotated with the locks that are held before each of its  *)
(* steps.  The annotation is put together along the structure of the       *)
(* program, and the steps of a process carry it along.                     *)
(*                                                                         *)
(* A lock is taken above the locks held, or by a process that copies a     *)
(* table out: what is left of its program then gives back a proot, and     *)
(* that stays so whatever the program is put into.                         *)
(***************************************************************************)
EXTENDS Locks, SequenceTheorems, TLAPS

Steps == ({"lock", "unlock"} \X LockSet) \cup ({"maybe"} \X Nat)

\* Lock m may be taken by step i of prog with lock l held.
InOrder(l, m, prog, i) == Rank(l) < Rank(m) \/ (Inverts(l, m) /\ LeavesProot(prog, i))

\* Step i of prog leads from the locks h[i] to the locks h[i + 1].  A step that
\* may skip others leads to the same locks either way.
Fits(prog, h, i) ==
    /\ prog[i][1] = "lock" =>
        /\ h[i + 1] = h[i] \cup {prog[i][2]}
        /\ \A l \in h[i] : InOrder(l, prog[i][2], prog, i)
    /\ prog[i][1] = "unlock" =>
        /\ prog[i][2] \in h[i]
        /\ h[i + 1] = h[i] \ {prog[i][2]}
    /\ prog[i][1] = "maybe" =>
        /\ i + prog[i][2] <= Len(prog)
        /\ h[i + 1] = h[i]
        /\ h[i + 1 + prog[i][2]] = h[i]

Outlines(prog) == [1..(Len(prog) + 1) -> SUBSET LockSet]

\* A process that does prog holds the locks h[i] before step i, takes locks in
\* their order and has those of H in the end.
Outline(prog, h, H) ==
    /\ prog \in Seq(Steps)
    /\ h \in Outlines(prog)
    /\ h[Len(prog) + 1] = H
    /\ \A i \in 1..Len(prog) : Fits(prog, h, i)

\* A program that can be done with the locks H held, and leaves them held.
Runs(H, prog) == \E h \in Outlines(prog) : Outline(prog, h, H) /\ h[1] = H

\* A program that can be done with any locks of rank r or less held.
Above(r, prog) ==
    \A H \in SUBSET LockSet : (\A l \in H : Rank(l) <= r) => Runs(H, prog)

-----------------------------------------------------------------------------
(* Programs.                                                                 *)

\* The ranks of the locks.
LEMMA Ranks ==
    /\ \A l : Rank(l) \in 1..6
    /\ Lib \in LockSet /\ Gc \in LockSet /\ Group \in LockSet
    /\ PagesLock \in LockSet /\ RegionsLock \in LockSet /\ Rcb \in LockSet
    /\ TableLocks \subseteq LockSet
    /\ Rank(Lib) = 1 /\ Rank(Gc) = 2 /\ Rank(Group) = 4
    /\ Rank(PagesLock) = 5 /\ Rank(RegionsLock) = 6 /\ Rank(Rcb) = 6
    /\ \A l \in TableLocks : Rank(l) = 3
<1>1. \A l : Rank(l) \in 1..6
  BY DEF Rank
<1>2. \A l \in TableLocks : l[1] \in {"table", "proot"}
  BY DEF TableLocks, SharedLocks, ProotLocks, TableLock, proot
<1>3. /\ Lib[1] = "lib_state" /\ Gc[1] = "gc" /\ Group[1] = "group"
      /\ PagesLock[1] = "pages_lock" /\ RegionsLock[1] = "regions_lock" /\ Rcb[1] = "rcb"
  BY Zenon DEF Lib, Gc, Group, PagesLock, RegionsLock, Rcb
<1>4. \A l \in TableLocks : l \notin {Lib, Gc, Group, PagesLock, RegionsLock, Rcb}
  BY <1>2, <1>3, Zenon
<1>5. /\ Gc # Lib /\ Group \notin {Lib, Gc} /\ PagesLock \notin {Lib, Gc, Group}
      /\ RegionsLock \notin {Lib, Gc, Group, PagesLock} /\ Rcb \notin {Lib, Gc, Group, PagesLock}
  BY <1>3, Zenon
<1> QED
  BY <1>1, <1>4, <1>5, Zenon DEF Rank, LockSet

\* A later step that gives back a proot is a later step of every program that
\* prog is a part of.
LEMMA LeavesMore ==
    ASSUME NEW prog \in Seq(Steps), NEW more \in Seq(Steps), NEW k \in Nat, NEW i \in 1..Len(prog),
           k + Len(prog) <= Len(more), \A j \in 1..Len(prog) : more[k + j] = prog[j],
           LeavesProot(prog, i)
    PROVE LeavesProot(more, k + i)
<1>1. PICK j \in i..Len(prog) : prog[j] \in {"unlock"} \X ProotLocks
  BY Zenon DEF LeavesProot
<1>2. j \in 1..Len(prog) /\ k + j \in (k + i)..Len(more)
  BY <1>1
<1>3. more[k + j] \in {"unlock"} \X ProotLocks
  BY <1>1, <1>2, Zenon
<1> QED
  BY <1>2, <1>3, Zenon DEF LeavesProot

\* What fits in prog fits in a program that prog is a part of, with the
\* outline moved along.
LEMMA FitsMore ==
    ASSUME NEW prog \in Seq(Steps), NEW more \in Seq(Steps), NEW k \in Nat, NEW i \in 1..Len(prog),
           k + Len(prog) <= Len(more), \A j \in 1..Len(prog) : more[k + j] = prog[j],
           NEW h, NEW g, \A j \in 1..(Len(prog) + 1) : g[k + j] = h[j],
           Fits(prog, h, i)
    PROVE Fits(more, g, k + i)
<1>1. /\ Len(prog) \in Nat /\ Len(more) \in Nat
      /\ i \in 1..(Len(prog) + 1) /\ i + 1 \in 1..(Len(prog) + 1) /\ k + (i + 1) = k + i + 1
  OBVIOUS
<1>2. more[k + i] = prog[i] /\ g[k + i] = h[i] /\ g[k + i + 1] = h[i + 1]
  BY <1>1
<1>3. LeavesProot(prog, i) => LeavesProot(more, k + i)
  BY LeavesMore
<1>4. CASE prog[i][1] = "maybe"
  <2>1. PICK n \in Nat : n = prog[i][2]
    BY <1>4, ElementOfSeq DEF Steps
  <2>2. i + n <= Len(prog)
    BY <1>4, <2>1, Zenon DEF Fits
  <2>3. /\ i + 1 + n \in 1..(Len(prog) + 1) /\ k + i + n <= Len(more)
        /\ k + i + 1 + n = k + (i + 1 + n)
    BY <2>2, <1>1
  <2>4. g[k + i + 1 + n] = h[i + 1 + n]
    BY <2>3
  <2> QED
    BY <2>1, <2>3, <2>4, <1>2, <1>4, Zenon DEF Fits
<1> QED
  BY <1>2, <1>3, <1>4, Zenon DEF Fits, InOrder

\* A program that does nothing.
LEMMA RunsSkip == \A H \in SUBSET LockSet : Runs(H, Skip)
<1> SUFFICES ASSUME NEW H \in SUBSET LockSet PROVE Runs(H, Skip)
  BY Zenon
<1> DEFINE h == [i \in 1..1 |-> H]
<1>1. Skip \in Seq(Steps) /\ Len(Skip) = 0
  BY DEF Skip
<1>2. h \in Outlines(Skip) /\ h[1] = H
  BY <1>1 DEF Outlines
<1>3. Outline(Skip, h, H)
  BY <1>1, <1>2 DEF Outline
<1> QED
  BY <1>2, <1>3, Zenon DEF Runs

\* One program after another.
LEMMA RunsConcat ==
    ASSUME NEW H, NEW a, NEW b, Runs(H, a), Runs(H, b)
    PROVE Runs(H, a \o b)
<1>1. PICK ha \in Outlines(a) : Outline(a, ha, H) /\ ha[1] = H
  BY Zenon DEF Runs
<1>2. PICK hb \in Outlines(b) : Outline(b, hb, H) /\ hb[1] = H
  BY Zenon DEF Runs
<1>3. a \in Seq(Steps) /\ b \in Seq(Steps) /\ Len(a) \in Nat /\ Len(b) \in Nat
  BY <1>1, <1>2 DEF Outline
<1> DEFINE c == a \o b
           h == [i \in 1..(Len(a) + Len(b) + 1) |-> IF i <= Len(a) THEN ha[i] ELSE hb[i - Len(a)]]
<1>4. /\ c \in Seq(Steps) /\ Len(c) = Len(a) + Len(b)
      /\ \A i \in 1..(Len(a) + Len(b)) : c[i] = IF i <= Len(a) THEN a[i] ELSE b[i - Len(a)]
  BY <1>3, ConcatProperties, Zenon
<1>5. /\ \A i \in 1..(Len(a) + 1) : h[i] = ha[i]
      /\ \A i \in 1..(Len(b) + 1) : h[Len(a) + i] = hb[i]
  <2>1. ha[Len(a) + 1] = H /\ hb[1] = H /\ h[Len(a) + 1] = hb[1]
    BY <1>1, <1>2, <1>3 DEF Outline
  <2>2. \A i \in 1..Len(a) : h[i] = ha[i]
    BY <1>3
  <2>3. \A i \in 1..(Len(b) + 1) : h[Len(a) + i] = hb[i]
    BY <1>3
  <2> HIDE DEF h
  <2>4. \A i \in 1..(Len(a) + 1) : i \in 1..Len(a) \/ i = Len(a) + 1
    BY <1>3
  <2> QED
    BY <2>1, <2>2, <2>3, <2>4, Zenon
<1>6. h \in Outlines(c)
  BY <1>1, <1>2, <1>3, <1>4 DEF Outlines
<1> HIDE DEF c, h
<1>7. ASSUME NEW i \in 1..Len(a) PROVE Fits(c, h, i)
  <2>1. /\ 0 \in Nat /\ 0 + Len(a) <= Len(c) /\ 0 + i = i
        /\ \A j \in 1..Len(a) : c[0 + j] = a[j]
        /\ \A j \in 1..(Len(a) + 1) : h[0 + j] = ha[j]
    BY <1>3, <1>4, <1>5
  <2>2. Fits(a, ha, i)
    BY <1>1, Zenon DEF Outline
  <2>3. Fits(c, h, 0 + i)
    BY <2>1, <2>2, <1>3, <1>4, FitsMore
  <2> QED
    BY <2>1, <2>3, Zenon
<1>8. ASSUME NEW j \in 1..Len(b) PROVE Fits(c, h, Len(a) + j)
  <2>1. Len(a) + Len(b) <= Len(c) /\ \A i \in 1..Len(b) : c[Len(a) + i] = b[i]
    BY <1>3, <1>4
  <2>2. Fits(b, hb, j)
    BY <1>2, Zenon DEF Outline
  <2> QED
    BY <2>1, <2>2, <1>3, <1>4, <1>5, FitsMore
<1>9. \A i \in 1..Len(c) : Fits(c, h, i)
  <2>1. ASSUME NEW i \in 1..Len(c) PROVE i \in 1..Len(a) \/ \E j \in 1..Len(b) : i = Len(a) + j
    <3>1. CASE i > Len(a)
      <4>1. i - Len(a) \in 1..Len(b) /\ i = Len(a) + (i - Len(a))
        BY <3>1, <1>3, <1>4
      <4> QED
        BY <4>1, Zenon
    <3> QED
      BY <3>1, <1>3, <1>4
  <2> QED
    BY <2>1, <1>7, <1>8, Zenon
<1>10. h[1] = H /\ h[Len(c) + 1] = H
  <2>1. 1 \in 1..(Len(a) + 1) /\ Len(b) + 1 \in 1..(Len(b) + 1) /\ Len(c) + 1 = Len(a) + (Len(b) + 1)
    BY <1>3, <1>4
  <2> QED
    BY <2>1, <1>1, <1>2, <1>5, Zenon DEF Outline
<1>11. Outline(c, h, H)
  BY <1>4, <1>6, <1>9, <1>10, Zenon DEF Outline
<1> QED
  BY <1>6, <1>10, <1>11, Zenon DEF Runs, c

\* The steps of Maybe(prog) and of With(l, prog).
LEMMA MaybeSteps ==
    ASSUME NEW prog \in Seq(Steps)
    PROVE /\ Maybe(prog) \in Seq(Steps) /\ Len(Maybe(prog)) = Len(prog) + 1
          /\ Maybe(prog)[1] = <<"maybe", Len(prog)>>
          /\ \A i \in 1..Len(prog) : Maybe(prog)[i + 1] = prog[i]
<1> DEFINE s == <<<<"maybe", Len(prog)>>>>
<1>1. s \in Seq(Steps) /\ Len(s) = 1 /\ s[1] = <<"maybe", Len(prog)>> /\ Len(prog) \in Nat
  BY DEF Steps
<1> HIDE DEF s
<1>2. /\ s \o prog \in Seq(Steps) /\ Len(s \o prog) = Len(s) + Len(prog)
      /\ \A i \in 1..(Len(s) + Len(prog)) :
            (s \o prog)[i] = IF i <= Len(s) THEN s[i] ELSE prog[i - Len(s)]
  BY <1>1, ConcatProperties, Zenon
<1>3. ASSUME NEW i \in 1..Len(prog) PROVE (s \o prog)[i + 1] = prog[i]
  <2>1. i + 1 \in 1..(Len(s) + Len(prog)) /\ ~(i + 1 <= Len(s)) /\ (i + 1) - Len(s) = i
    BY <1>1
  <2> QED
    BY <2>1, <1>2, Zenon
<1>4. (s \o prog)[1] = <<"maybe", Len(prog)>>
  BY <1>1, <1>2
<1>5. Maybe(prog) = s \o prog
  BY Zenon DEF Maybe, s
<1> QED
  BY <1>1, <1>2, <1>3, <1>4, <1>5

\* The steps of a program between a lock and its unlock.
LEMMA WithSteps ==
    ASSUME NEW prog \in Seq(Steps), NEW l \in LockSet
    PROVE /\ With(l, prog) \in Seq(Steps) /\ Len(With(l, prog)) = Len(prog) + 2
          /\ With(l, prog)[1] = <<"lock", l>>
          /\ \A i \in 1..Len(prog) : With(l, prog)[i + 1] = prog[i]
          /\ With(l, prog)[Len(prog) + 2] = <<"unlock", l>>
<1> DEFINE s == <<<<"lock", l>>>>
           u == <<<<"unlock", l>>>>
<1>1. /\ s \in Seq(Steps) /\ Len(s) = 1 /\ s[1] = <<"lock", l>> /\ Len(prog) \in Nat
      /\ u \in Seq(Steps) /\ Len(u) = 1 /\ u[1] = <<"unlock", l>>
  BY DEF Steps
<1>0. With(l, prog) = (s \o prog) \o u
  BY Zenon DEF With
<1> HIDE DEF s, u
<1> DEFINE a == s \o prog
<1>2. /\ a \in Seq(Steps) /\ Len(a) = Len(s) + Len(prog)
      /\ \A i \in 1..(Len(s) + Len(prog)) : a[i] = IF i <= Len(s) THEN s[i] ELSE prog[i - Len(s)]
  BY <1>1, ConcatProperties, Zenon
<1> HIDE DEF a
<1>3. /\ a \o u \in Seq(Steps) /\ Len(a \o u) = Len(a) + Len(u)
      /\ \A i \in 1..(Len(a) + Len(u)) : (a \o u)[i] = IF i <= Len(a) THEN a[i] ELSE u[i - Len(a)]
  <2>1. a \in Seq(Steps) /\ u \in Seq(Steps)
    BY <1>1, <1>2, Zenon
  <2> QED
    BY <2>1, ConcatProperties, Zenon
<1>4. ASSUME NEW i \in 1..Len(prog) PROVE (a \o u)[i + 1] = prog[i]
  <2>1. /\ i + 1 \in 1..(Len(s) + Len(prog)) /\ ~(i + 1 <= Len(s)) /\ (i + 1) - Len(s) = i
        /\ i + 1 \in 1..(Len(a) + Len(u)) /\ i + 1 <= Len(a)
    BY <1>1, <1>2
  <2> QED
    BY <2>1, <1>2, <1>3, Zenon
<1>5. (a \o u)[1] = <<"lock", l>>
  <2>1. /\ 1 \in 1..(Len(s) + Len(prog)) /\ 1 <= Len(s)
        /\ 1 \in 1..(Len(a) + Len(u)) /\ 1 <= Len(a)
    BY <1>1, <1>2
  <2> QED
    BY <2>1, <1>1, <1>2, <1>3, Zenon
<1>6. (a \o u)[Len(prog) + 2] = <<"unlock", l>>
  <2>1. /\ Len(prog) + 2 \in 1..(Len(a) + Len(u)) /\ ~(Len(prog) + 2 <= Len(a))
        /\ Len(prog) + 2 - Len(a) = 1
    BY <1>1, <1>2
  <2>2. (a \o u)[Len(prog) + 2] = u[Len(prog) + 2 - Len(a)]
    BY <2>1, <1>3
  <2> QED
    BY <2>1, <2>2, <1>1, Zenon
<1>7. With(l, prog) = a \o u /\ Len(a \o u) = Len(prog) + 2
  BY <1>0, <1>1, <1>2, <1>3 DEF a
<1> QED
  BY <1>3, <1>4, <1>5, <1>6, <1>7, Zenon

\* A program that is done or not.
LEMMA RunsMaybe ==
    ASSUME NEW H, NEW prog, Runs(H, prog)
    PROVE Runs(H, Maybe(prog))
<1>1. PICK h \in Outlines(prog) : Outline(prog, h, H) /\ h[1] = H
  BY Zenon DEF Runs
<1>2. prog \in Seq(Steps) /\ Len(prog) \in Nat /\ h[Len(prog) + 1] = H
  BY <1>1 DEF Outline
<1> DEFINE m == Maybe(prog)
           g == [i \in 1..(Len(prog) + 2) |-> IF i = 1 THEN H ELSE h[i - 1]]
<1>3. /\ m \in Seq(Steps) /\ Len(m) = Len(prog) + 1
      /\ m[1] = <<"maybe", Len(prog)>>
      /\ \A i \in 1..Len(prog) : m[i + 1] = prog[i]
  BY <1>2, MaybeSteps, Zenon
<1>4. /\ g[1] = H /\ g[2] = H /\ g[Len(prog) + 2] = H
      /\ \A i \in 1..(Len(prog) + 1) : g[1 + i] = h[i]
  BY <1>1, <1>2
<1>5. g \in Outlines(m)
  <2>1. H \in SUBSET LockSet
    BY <1>1, <1>2 DEF Outlines
  <2> QED
    BY <2>1, <1>2, <1>3 DEF Outlines
<1> HIDE DEF m, g
<1>6. Fits(m, g, 1)
  <2>1. g[1 + 1] = H /\ g[1 + 1 + Len(prog)] = H /\ 1 + Len(prog) <= Len(m)
    BY <1>2, <1>3, <1>4
  <2>2. m[1][1] = "maybe" /\ m[1][2] = Len(prog)
    BY <1>3
  <2> QED
    BY <2>1, <2>2, <1>4, Zenon DEF Fits
<1>7. ASSUME NEW i \in 1..Len(prog) PROVE Fits(m, g, 1 + i)
  <2>1. 1 + Len(prog) <= Len(m) /\ \A j \in 1..Len(prog) : m[1 + j] = prog[j]
    BY <1>2, <1>3
  <2>2. Fits(prog, h, i)
    BY <1>1, Zenon DEF Outline
  <2> QED
    BY <2>1, <2>2, <1>2, <1>3, <1>4, FitsMore
<1>8. \A i \in 1..Len(m) : i = 1 \/ \E j \in 1..Len(prog) : i = 1 + j
  <2>1. ASSUME NEW i \in 1..Len(m), i # 1 PROVE i - 1 \in 1..Len(prog) /\ i = 1 + (i - 1)
    BY <2>1, <1>2, <1>3
  <2> QED
    BY <2>1, Zenon
<1>9. g[Len(m) + 1] = H
  BY <1>2, <1>3, <1>4
<1>10. Outline(m, g, H)
  BY <1>3, <1>5, <1>6, <1>7, <1>8, <1>9, Zenon DEF Outline
<1> QED
  BY <1>4, <1>5, <1>10, Zenon DEF Runs, m

\* A program that is done with lock l held too.
LEMMA RunsWith ==
    ASSUME NEW H, NEW l \in LockSet, l \notin H, NEW prog, Runs(H \cup {l}, prog),
           \A k \in H : InOrder(k, l, With(l, prog), 1)
    PROVE Runs(H, With(l, prog))
<1>1. PICK h \in Outlines(prog) : Outline(prog, h, H \cup {l}) /\ h[1] = H \cup {l}
  BY Zenon DEF Runs
<1>2. prog \in Seq(Steps) /\ Len(prog) \in Nat /\ h[Len(prog) + 1] = H \cup {l}
  BY <1>1 DEF Outline
<1> DEFINE w == With(l, prog)
           g == [i \in 1..(Len(prog) + 3) |-> IF i = 1 \/ i = Len(prog) + 3 THEN H ELSE h[i - 1]]
<1>3. /\ w \in Seq(Steps) /\ Len(w) = Len(prog) + 2
      /\ w[1] = <<"lock", l>>
      /\ \A i \in 1..Len(prog) : w[i + 1] = prog[i]
      /\ w[Len(prog) + 2] = <<"unlock", l>>
  BY <1>2, WithSteps, Zenon
<1>4. /\ g[1] = H /\ g[2] = H \cup {l}
      /\ g[Len(prog) + 2] = H \cup {l} /\ g[Len(prog) + 3] = H
      /\ \A i \in 1..(Len(prog) + 1) : g[1 + i] = h[i]
  BY <1>1, <1>2
<1>5. g \in Outlines(w)
  <2>1. \A i \in 1..(Len(prog) + 1) : h[i] \in SUBSET LockSet
    BY <1>1, Zenon DEF Outlines
  <2>2. H \in SUBSET LockSet
    <3>1. 1 \in 1..(Len(prog) + 1)
      BY <1>2
    <3> QED
      BY <3>1, <2>1, <1>1, Zenon
  <2>3. ASSUME NEW i \in 1..(Len(prog) + 3)
        PROVE (IF i = 1 \/ i = Len(prog) + 3 THEN H ELSE h[i - 1]) \in SUBSET LockSet
    <3>1. i # 1 /\ i # Len(prog) + 3 => i - 1 \in 1..(Len(prog) + 1)
      BY <1>2
    <3> QED
      BY <3>1, <2>1, <2>2, Zenon
  <2>4. Len(w) + 1 = Len(prog) + 3
    BY <1>2, <1>3
  <2> QED
    BY <2>3, <2>4, Zenon DEF Outlines
<1>6. \A k \in H : InOrder(k, l, w, 1)
  BY Zenon
<1> HIDE DEF w, g
<1>7. Fits(w, g, 1)
  <2>1. g[1 + 1] = H \cup {l}
    BY <1>4
  <2>2. w[1][1] = "lock" /\ w[1][2] = l
    BY <1>3
  <2> QED
    BY <2>1, <2>2, <1>4, <1>6, Zenon DEF Fits
<1>8. Fits(w, g, Len(prog) + 2)
  <2>1. g[Len(prog) + 2 + 1] = H
    BY <1>2, <1>4
  <2>2. w[Len(prog) + 2][1] = "unlock" /\ w[Len(prog) + 2][2] = l
    BY <1>3
  <2>3. H = (H \cup {l}) \ {l}
    BY Zenon
  <2> QED
    BY <2>1, <2>2, <2>3, <1>4, Zenon DEF Fits
<1>9. ASSUME NEW i \in 1..Len(prog) PROVE Fits(w, g, 1 + i)
  <2>1. 1 + Len(prog) <= Len(w) /\ \A j \in 1..Len(prog) : w[1 + j] = prog[j]
    BY <1>2, <1>3
  <2>2. Fits(prog, h, i)
    BY <1>1, Zenon DEF Outline
  <2> QED
    BY <2>1, <2>2, <1>2, <1>3, <1>4, FitsMore
<1>10. \A i \in 1..Len(w) : i = 1 \/ i = Len(prog) + 2 \/ \E j \in 1..Len(prog) : i = 1 + j
  <2>1. ASSUME NEW i \in 1..Len(w), i # 1, i # Len(prog) + 2
        PROVE i - 1 \in 1..Len(prog) /\ i = 1 + (i - 1)
    BY <2>1, <1>2, <1>3
  <2> QED
    BY <2>1, Zenon
<1>11. g[Len(w) + 1] = H
  BY <1>2, <1>3, <1>4
<1>12. Outline(w, g, H)
  BY <1>3, <1>5, <1>7, <1>8, <1>9, <1>10, <1>11, Zenon DEF Outline
<1> QED
  BY <1>4, <1>5, <1>12, Zenon DEF Runs, w

\* A program that does nothing takes no lock below any rank.
LEMMA AboveSkip == \A r : Above(r, Skip)
  BY RunsSkip, Zenon DEF Above

\* One such program after another.
LEMMA AboveConcat ==
    ASSUME NEW r, NEW a, NEW b, Above(r, a), Above(r, b)
    PROVE Above(r, a \o b)
  BY RunsConcat, Zenon DEF Above

\* One that is done or not.
LEMMA AboveMaybe ==
    ASSUME NEW r, NEW prog, Above(r, prog)
    PROVE Above(r, Maybe(prog))
  BY RunsMaybe, Zenon DEF Above

\* One that is done under a lock that is above r and below its own.
LEMMA AboveWith ==
    ASSUME NEW r \in Nat, NEW l \in LockSet, Rank(l) > r, NEW prog, Above(Rank(l), prog)
    PROVE Above(r, With(l, prog))
<1> SUFFICES ASSUME NEW H \in SUBSET LockSet, \A k \in H : Rank(k) <= r
             PROVE Runs(H, With(l, prog))
  BY Zenon DEF Above
<1>1. \A k : Rank(k) \in Nat
  BY Ranks
<1>2. (\A k \in H : Rank(k) < Rank(l)) /\ l \notin H
  BY <1>1
<1>3. \A k \in H \cup {l} : Rank(k) <= Rank(l)
  BY <1>1, <1>2
<1>4. Runs(H \cup {l}, prog)
  BY <1>3, Zenon DEF Above
<1>5. \A k \in H : InOrder(k, l, With(l, prog), 1)
  BY <1>2, Zenon DEF InOrder
<1> QED
  BY <1>2, <1>4, <1>5, RunsWith, Zenon

\* Locks above s are above all below s.
LEMMA AboveLower ==
    ASSUME NEW r \in Nat, NEW s \in Nat, r <= s, NEW prog, Above(s, prog)
    PROVE Above(r, prog)
<1> SUFFICES ASSUME NEW H \in SUBSET LockSet, \A l \in H : Rank(l) <= r PROVE Runs(H, prog)
  BY Zenon DEF Above
<1>1. \A l \in H : Rank(l) <= s
  BY Ranks
<1> QED
  BY <1>1, Zenon DEF Above

-----------------------------------------------------------------------------
(* The operations.                                                           *)

\* Allocating pages takes the locks of the page pool and what is below it.
LEMMA AboveAllocPages == Above(4, st_pagepool_alloc_pages)
<1>1. Above(5, With(Rcb, Skip)) /\ Above(5, With(RegionsLock, Skip))
  BY Ranks, AboveSkip, AboveWith
<1>2. Above(5, Maybe(With(Rcb, Skip) \o Maybe(With(RegionsLock, Skip))))
  BY <1>1, AboveMaybe, AboveConcat, Zenon
<1> QED
  BY <1>2, Ranks, AboveWith DEF st_pagepool_alloc_pages

\* So does freeing them.
LEMMA AboveFreePages == Above(4, st_pagepool_free_pages)
<1>1. Above(5, With(Rcb, Skip)) /\ Above(5, With(RegionsLock, Skip))
  BY Ranks, AboveSkip, AboveWith
<1>2. Above(5, Maybe(With(RegionsLock, Skip) \o With(Rcb, Skip)))
  BY <1>1, AboveMaybe, AboveConcat, Zenon
<1> QED
  BY <1>2, Ranks, AboveWith DEF st_pagepool_free_pages

\* The slab takes no lock of a table or of the collector.
LEMMA AboveSlab == \A r \in 0..3 : Above(r, st_slab_obj_alloc) /\ Above(r, st_slab_obj_free)
<1>1. Above(4, Maybe(st_pagepool_alloc_pages)) /\ Above(4, Maybe(st_pagepool_free_pages))
  BY AboveAllocPages, AboveFreePages, AboveMaybe, Zenon
<1>2. Above(3, With(Group, Maybe(st_pagepool_alloc_pages)))
  BY <1>1, Ranks, AboveWith
<1>3. Above(3, With(Group, Maybe(st_pagepool_free_pages)))
  BY <1>1, Ranks, AboveWith
<1>4. Above(3, With(RegionsLock, Skip))
  BY Ranks, AboveSkip, AboveWith
<1>5. Above(3, With(RegionsLock, Skip) \o Maybe(With(Group, Maybe(st_pagepool_free_pages))))
  BY <1>3, <1>4, AboveMaybe, AboveConcat, Zenon
<1>6. Above(3, st_slab_obj_alloc) /\ Above(3, st_slab_obj_free)
  BY <1>2, <1>5, Zenon DEF st_slab_obj_alloc, st_slab_obj_free
<1> QED
  BY <1>6, AboveLower

\* The lock of a table, alone or inside that of the collector.
LEMMA AboveTable ==
    ASSUME NEW t \in TableLocks
    PROVE /\ Above(1, With(t, Skip)) /\ Above(2, With(t, Skip))
          /\ Above(2, With(t, Maybe(st_slab_obj_free)))
          /\ Above(1, With(Gc, With(t, Skip)))
<1>1. t \in LockSet /\ Rank(t) = 3
  BY Ranks, Zenon
<1>2. Above(1, With(t, Skip)) /\ Above(2, With(t, Skip))
  BY <1>1, AboveSkip, AboveWith
<1>3. Above(3, Maybe(st_slab_obj_free))
  BY AboveSlab, AboveMaybe
<1>4. Above(2, With(t, Maybe(st_slab_obj_free)))
  BY <1>1, <1>3, AboveWith
<1> QED
  BY <1>2, <1>4, Ranks, AboveWith, SMTT(30)

\* The operations on a table, and a run of the collector.
LEMMA AboveTableOperations ==
    ASSUME NEW t \in TableLocks
    PROVE /\ Above(1, st_table_set_key_value(t))
          /\ \A b \in BOOLEAN : Above(1, st_table_add_key_value(t, b))
          /\ Above(1, st_table_remove_key(t))
          /\ Above(1, st_table_remove_all(t))
          /\ Above(1, st_gc_run(t))
<1>1. /\ Above(1, st_slab_obj_alloc) /\ Above(1, Maybe(st_slab_obj_free))
      /\ Above(2, Maybe(st_slab_obj_free)) /\ Above(2, st_slab_obj_free)
  BY AboveSlab, AboveMaybe
<1>2. Above(1, With(Gc, With(t, Skip)) \o Maybe(st_slab_obj_free))
  BY <1>1, AboveTable, AboveConcat, Zenon
<1>3. Above(1, With(t, Skip) \o Maybe(st_slab_obj_free))
  BY <1>1, AboveTable, AboveConcat, Zenon
<1>4. Above(1, st_table_set_key_value(t)) /\ Above(1, st_table_remove_key(t))
  BY <1>1, <1>2, AboveMaybe, AboveConcat, Zenon DEF st_table_set_key_value, st_table_remove_key
<1>5. \A b \in BOOLEAN : Above(1, st_table_add_key_value(t, b))
  <2>1. Above(1, st_table_add_key_value(t, TRUE))
    BY <1>1, <1>2, AboveMaybe, AboveConcat, Zenon DEF st_table_add_key_value
  <2>2. Above(1, st_table_add_key_value(t, FALSE))
    BY <1>1, <1>3, AboveMaybe, AboveConcat, Zenon DEF st_table_add_key_value
  <2> QED
    BY <2>1, <2>2, Zenon
<1>6. Above(1, st_table_remove_all(t))
  BY AboveTable, Ranks, AboveWith DEF st_table_remove_all
<1>7. Above(2, Maybe(With(t, Skip)) \o Maybe(With(t, Maybe(st_slab_obj_free)) \o st_slab_obj_free))
  BY <1>1, AboveTable, AboveMaybe, AboveConcat, Zenon
<1>8. Above(1, st_gc_run(t))
  BY <1>7, Ranks, AboveWith DEF st_gc_run
<1> QED
  BY <1>4, <1>5, <1>6, <1>8, Zenon

\* A table that is copied out under the lock of the table it is read from.
LEMMA CopyRuns ==
    ASSUME NEW p \in Procs, NEW t \in SharedLocks
    PROVE Runs({}, With(t, Maybe(st_capi_copy_out_tvalue(p, TRUE))))
<1> DEFINE r == proot(p)
           H == {t}
           G == {t, Gc}
           inner == With(r, Skip)
           add == With(Gc, inner)
<1>1. /\ r \in ProotLocks /\ r \in TableLocks /\ t \in TableLocks
      /\ r \in LockSet /\ t \in LockSet /\ Gc \in LockSet
      /\ Rank(r) = 3 /\ Rank(t) = 3 /\ Rank(Gc) = 2
  BY Ranks, Zenon DEF ProotLocks, TableLocks
<1>2. t # r /\ Gc # t /\ Gc # r
  <2>1. t[1] = "table" /\ r[1] = "proot"
    BY DEF SharedLocks, TableLock, proot
  <2> QED
    BY <2>1, <1>1
<1>3. Above(3, st_slab_obj_alloc) /\ Above(3, Maybe(st_slab_obj_free))
  BY AboveSlab, AboveMaybe
<1>4. Runs(H, st_slab_obj_alloc) /\ Runs(H, Maybe(st_slab_obj_free))
  <2>1. H \in SUBSET LockSet /\ \A l \in H : Rank(l) <= 3
    BY <1>1
  <2> QED
    BY <2>1, <1>3, Zenon DEF Above
<1>5. Inverts(t, Gc) /\ Inverts(t, r)
  BY <1>1, Zenon DEF Inverts
<1>6. /\ Skip \in Seq(Steps) /\ Len(Skip) = 0
      /\ inner \in Seq(Steps) /\ Len(inner) = 2 /\ inner[2] = <<"unlock", r>>
      /\ add \in Seq(Steps) /\ Len(add) = 4 /\ add[3] = <<"unlock", r>>
  <2>1. Skip \in Seq(Steps) /\ Len(Skip) = 0
    BY DEF Skip
  <2>2. inner \in Seq(Steps) /\ Len(inner) = 2 /\ inner[2] = <<"unlock", r>>
    <3>1. /\ inner \in Seq(Steps) /\ Len(inner) = Len(Skip) + 2
          /\ inner[Len(Skip) + 2] = <<"unlock", r>>
      BY <2>1, <1>1, WithSteps, Zenon
    <3> HIDE DEF inner
    <3> QED
      BY <3>1, <2>1
  <2> HIDE DEF inner
  <2>3. /\ add \in Seq(Steps) /\ Len(add) = Len(inner) + 2
        /\ \A i \in 1..Len(inner) : add[i + 1] = inner[i]
    BY <2>2, <1>1, WithSteps, Zenon
  <2> HIDE DEF add
  <2>4. Len(add) = 4 /\ add[2 + 1] = inner[2] /\ 2 + 1 = 3
    BY <2>2, <2>3
  <2> QED
    BY <2>1, <2>2, <2>3, <2>4
<1>7. LeavesProot(inner, 1) /\ LeavesProot(add, 1)
  <2> HIDE DEF inner, add
  <2>1. 2 \in 1..Len(inner) /\ 3 \in 1..Len(add)
    BY <1>6
  <2>2. inner[2] \in {"unlock"} \X ProotLocks /\ add[3] \in {"unlock"} \X ProotLocks
    BY <1>1, <1>6
  <2> QED
    BY <2>1, <2>2, Zenon DEF LeavesProot
<1>8. Runs(G, inner)
  <2>1. G \cup {r} \in SUBSET LockSet /\ r \notin G
    BY <1>1, <1>2, Zenon
  <2>2. Runs(G \cup {r}, Skip)
    BY <2>1, RunsSkip, Zenon
  <2>3. \A k \in G : InOrder(k, r, inner, 1)
    <3>1. Rank(Gc) < Rank(r)
      BY <1>1
    <3> QED
      BY <3>1, <1>5, <1>7, Zenon DEF InOrder
  <2> QED
    BY <2>1, <2>2, <2>3, <1>1, RunsWith, Zenon
<1>9. Runs(H, add)
  <2>1. H \cup {Gc} = G /\ Gc \notin H
    BY <1>2, Zenon
  <2>2. \A k \in H : InOrder(k, Gc, add, 1)
    BY <1>5, <1>7, Zenon DEF InOrder
  <2> HIDE DEF inner
  <2> QED
    BY <2>1, <2>2, <1>1, <1>8, RunsWith, Zenon
<1> HIDE DEF inner
<1>10. Runs(H, Maybe(st_capi_copy_out_tvalue(p, TRUE)))
  <2>1. st_capi_copy_out_tvalue(p, TRUE) = st_slab_obj_alloc \o Maybe(add \o Maybe(st_slab_obj_free))
    BY Zenon DEF st_capi_copy_out_tvalue, st_table_add_key_value, inner
  <2> HIDE DEF add, H
  <2> QED
    BY <2>1, <1>4, <1>9, RunsConcat, RunsMaybe, Zenon
<1>11. {} \cup {t} = H /\ t \notin {} /\ \A prog : \A k \in {} : InOrder(k, t, prog, 1)
  BY Zenon
<1> QED
  BY <1>1, <1>10, <1>11, RunsWith, Zenon

\* Every operation begins and ends without locks, and takes them in their order
\* or to copy a table out.
LEMMA RunsOperations ==
    ASSUME NEW p \in Procs, NEW prog \in Operations(p)
    PROVE Runs({}, prog)
<1>0. \A q \in Procs : proot(q) \in TableLocks
  BY Zenon DEF TableLocks, ProotLocks
<1>1. SharedLocks \subseteq TableLocks
  BY Zenon DEF TableLocks
<1>2. /\ \A t \in TableLocks : Above(0, st_table_set_key_value(t))
      /\ \A t \in TableLocks : \A b \in BOOLEAN : Above(0, st_table_add_key_value(t, b))
      /\ \A t \in TableLocks : Above(0, st_table_remove_key(t))
      /\ \A t \in TableLocks : Above(0, st_table_remove_all(t))
      /\ \A t \in TableLocks : Above(0, st_gc_run(t))
  BY AboveTableOperations, AboveLower
<1>3. Above(0, st_slab_obj_alloc) /\ Above(0, st_slab_obj_free) /\ Above(0, Maybe(st_slab_obj_free))
  BY AboveSlab, AboveMaybe
<1>4. Above(0, st_capi_new(p))
  <2>1. Above(0, st_capi_copy_out_tvalue(p, TRUE))
    BY <1>0, <1>2, Zenon DEF st_capi_copy_out_tvalue
  <2>2. Above(0, Maybe(st_capi_copy_out_tvalue(p, TRUE) \o Maybe(st_slab_obj_free)))
    BY <2>1, <1>3, AboveMaybe, AboveConcat, Zenon
  <2> QED
    BY <2>2, <1>3, AboveConcat, Zenon DEF st_capi_new, st_table_new
<1>5. Above(0, st_capi_free(p))
  BY <1>0, <1>2, Zenon DEF st_capi_free
<1>6. Above(0, With(Gc, Skip)) /\ Above(1, With(Gc, Skip)) /\ Above(0, With(Lib, Skip))
  BY Ranks, AboveSkip, AboveWith
<1>7. Above(0, st_capi_init_process_state)
  <2>1. Above(0, Maybe(st_gc_add_root \o With(Lib, Skip)))
    BY <1>6, AboveMaybe, AboveConcat, Zenon DEF st_gc_add_root
  <2>2. Above(0, Maybe(st_table_new \o Maybe(st_gc_add_root \o With(Lib, Skip))))
    BY <2>1, <1>3, AboveMaybe, AboveConcat, Zenon DEF st_table_new
  <2> QED
    BY <2>2, <1>3, AboveConcat, Zenon DEF st_capi_init_process_state
<1>8. ASSUME NEW t \in SharedLocks, NEW b \in BOOLEAN
      PROVE /\ Runs({}, st_capi_do_get(p, t, b)) /\ Runs({}, st_capi_next(p, t, b))
            /\ Runs({}, st_capi_init_iterator(p, t))
  <2>1. Above(3, Maybe(Skip)) /\ t \in LockSet /\ Rank(t) = 3
    BY <1>1, Ranks, AboveSkip, AboveMaybe, Zenon
  <2>2. Above(0, With(t, Maybe(Skip)))
    BY <2>1, AboveWith
  <2>3. Runs({}, With(t, Maybe(Skip)))
    BY <2>2, Zenon DEF Above
  <2>4. st_capi_copy_out_tvalue(p, FALSE) = Skip
    BY Zenon DEF st_capi_copy_out_tvalue
  <2>5. CASE b = TRUE
    BY <2>5, CopyRuns, Zenon DEF st_capi_do_get, st_capi_next, st_capi_init_iterator
  <2>6. CASE b = FALSE
    BY <2>3, <2>4, <2>6, CopyRuns, Zenon DEF st_capi_do_get, st_capi_next, st_capi_init_iterator
  <2> QED
    BY <2>5, <2>6, Zenon
<1>9. ASSUME NEW q \in Procs PROVE Above(0, st_capi_do_clean_dead_proot(q))
  <2>1. Above(1, st_table_remove_all(proot(q))) /\ Above(1, st_gc_remove_root) /\ Above(1, st_slab_obj_free)
    BY <1>0, <1>6, AboveTableOperations, AboveSlab DEF st_gc_remove_root
  <2>2. Above(1, Maybe(st_table_remove_all(proot(q)) \o st_gc_remove_root \o st_slab_obj_free))
    BY <2>1, AboveMaybe, AboveConcat, Zenon
  <2> QED
    BY <2>2, Ranks, AboveWith DEF st_capi_do_clean_dead_proot
<1>10. \/ \E t \in SharedLocks :
             \/ prog = st_table_set_key_value(t)
             \/ \E b \in BOOLEAN : prog = st_table_add_key_value(t, b)
             \/ prog = st_table_remove_key(t)
             \/ prog = st_table_remove_all(t)
             \/ \E b \in BOOLEAN : prog = st_capi_do_get(p, t, b) \/ prog = st_capi_next(p, t, b)
             \/ prog = st_capi_init_iterator(p, t)
       \/ \E t \in TableLocks : prog = st_gc_run(t)
       \/ prog \in {st_capi_new(p), st_capi_free(p), st_capi_init_process_state}
       \/ \E q \in Procs : prog = st_capi_do_clean_dead_proot(q)
  <2> DEFINE sets == {st_table_set_key_value(t) : t \in SharedLocks}
             adds == {st_table_add_key_value(t, b) : t \in SharedLocks, b \in BOOLEAN}
             removes == {st_table_remove_key(t) : t \in SharedLocks}
             clears == {st_table_remove_all(t) : t \in SharedLocks}
             runs == {st_gc_run(t) : t \in TableLocks}
             own == {st_capi_new(p), st_capi_free(p), st_capi_init_process_state}
             gets == {st_capi_do_get(p, t, b) : t \in SharedLocks, b \in BOOLEAN}
             nexts == {st_capi_next(p, t, b) : t \in SharedLocks, b \in BOOLEAN}
             iters == {st_capi_init_iterator(p, t) : t \in SharedLocks}
             cleans == {st_capi_do_clean_dead_proot(q) : q \in Procs \ {p}}
  <2>1. Operations(p) =
          UNION {sets, adds, removes, clears, runs, own, gets, nexts, iters, cleans}
    BY DEF Operations
  <2>2. prog \in sets \/ prog \in adds => \E t \in SharedLocks :
          prog = st_table_set_key_value(t) \/ \E b \in BOOLEAN : prog = st_table_add_key_value(t, b)
    OBVIOUS
  <2>3. prog \in removes \/ prog \in clears => \E t \in SharedLocks :
          prog = st_table_remove_key(t) \/ prog = st_table_remove_all(t)
    BY Zenon
  <2>4. prog \in gets \/ prog \in nexts => \E t \in SharedLocks, b \in BOOLEAN :
          prog = st_capi_do_get(p, t, b) \/ prog = st_capi_next(p, t, b)
    OBVIOUS
  <2>5. /\ prog \in runs => \E t \in TableLocks : prog = st_gc_run(t)
        /\ prog \in cleans => \E q \in Procs : prog = st_capi_do_clean_dead_proot(q)
        /\ prog \in iters => \E t \in SharedLocks : prog = st_capi_init_iterator(p, t)
    BY Zenon
  <2> HIDE DEF sets, adds, removes, clears, runs, gets, nexts, iters, cleans
  <2>6. \/ prog \in sets \/ prog \in adds \/ prog \in removes \/ prog \in clears \/ prog \in runs
        \/ prog \in own \/ prog \in gets \/ prog \in nexts \/ prog \in iters \/ prog \in cleans
    <3> HIDE DEF own
    <3> QED
      BY <2>1, Zenon
  <2> QED
    BY <2>2, <2>3, <2>4, <2>5, <2>6, Zenon
<1>11. \A a : Above(0, a) => Runs({}, a)
  BY Zenon DEF Above
<1>12. \A t \in SharedLocks : \A b \in BOOLEAN :
         /\ Runs({}, st_table_set_key_value(t)) /\ Runs({}, st_table_add_key_value(t, b))
         /\ Runs({}, st_table_remove_key(t)) /\ Runs({}, st_table_remove_all(t))
  BY <1>1, <1>2, <1>11, Zenon
<1> QED
  BY <1>2, <1>4, <1>5, <1>7, <1>8, <1>9, <1>10, <1>11, <1>12, Zenon

-----------------------------------------------------------------------------
(* The steps of the processes.                                               *)

HeldBy(p) == {l \in LockSet : owner[l] = p}

\* What process p has left to do goes with the locks it holds.
Carries(p) == \E h \in Outlines(todo[p]) : Outline(todo[p], h, {}) /\ h[1] = HeldBy(p)

LInv ==
    /\ todo \in [Procs -> Seq(Steps)]
    /\ owner \in [LockSet -> Procs \cup {None}]
    /\ \A p \in Procs \cap dead : todo[p] = Skip
    /\ \A p \in Procs \ dead : Carries(p)

\* The rest of a program has the rest of the outline.
LEMMA OutlineRest ==
    ASSUME NEW prog, NEW h, Outline(prog, h, {}), NEW k \in 0..Len(prog)
    PROVE \E g \in Outlines(SubSeq(prog, k + 1, Len(prog))) :
            Outline(SubSeq(prog, k + 1, Len(prog)), g, {}) /\ g[1] = h[k + 1]
<1> DEFINE n == Len(prog)
           q == SubSeq(prog, k + 1, n)
           g == [i \in 1..(n - k + 1) |-> h[k + i]]
<1>1. prog \in Seq(Steps) /\ n \in Nat /\ h[n + 1] = {} /\ \A i \in 1..n : prog[i] \in Steps
  BY ElementOfSeq DEF Outline
<1> HIDE DEF n
<1>2. /\ q \in Seq(Steps) /\ Len(q) = n - k
      /\ \A i \in 1..(n - k) : q[i] = prog[k + i]
  <2>1. k \in Nat /\ k <= n /\ k + 1 \in Int
    BY <1>1 DEF n
  <2>2. \A i \in (k + 1)..n : prog[i] \in Steps
    BY <2>1, <1>1
  <2>3. /\ q \in Seq(Steps) /\ Len(q) = IF k + 1 <= n THEN n - (k + 1) + 1 ELSE 0
        /\ \A i \in 1..(n - (k + 1) + 1) : q[i] = prog[(k + 1) + i - 1]
    BY <2>1, <2>2, <1>1, SubSeqProperties
  <2>4. ASSUME NEW i \in 1..(n - k) PROVE q[i] = prog[k + i]
    <3>1. i \in 1..(n - (k + 1) + 1) /\ (k + 1) + i - 1 = k + i
      BY <2>1, <1>1
    <3>2. q[i] = prog[(k + 1) + i - 1]
      BY <3>1, <2>3, Zenon
    <3> QED
      BY <3>1, <3>2, Zenon
  <2> HIDE DEF q
  <2>5. Len(q) = n - k
    BY <2>1, <2>3, <1>1
  <2> QED
    BY <2>3, <2>4, <2>5, Zenon
<1>3. k \in Nat /\ k <= n
  BY <1>1 DEF n
<1>4. \A i \in 1..(n - k + 1) : g[i] = h[k + i]
  BY Zenon
<1>5. g \in Outlines(q)
  <2>1. ASSUME NEW i \in 1..(n - k + 1) PROVE h[k + i] \in SUBSET LockSet
    <3>1. k + i \in 1..(n + 1)
      BY <1>1, <1>3
    <3> QED
      BY <3>1, Zenon DEF Outline, Outlines, n
  <2> HIDE DEF q
  <2>2. Len(q) + 1 = n - k + 1
    BY <1>2, Zenon
  <2> QED
    BY <2>1, <2>2, Zenon DEF Outlines
<1> HIDE DEF q, g
<1>6. ASSUME NEW i \in 1..(n - k) PROVE Fits(q, g, i)
  <2>1. /\ k + i \in 1..n /\ i \in 1..(n - k + 1) /\ i + 1 \in 1..(n - k + 1)
        /\ k + (i + 1) = k + i + 1
    BY <1>1, <1>3
  <2>2. /\ Fits(prog, h, k + i) /\ q[i] = prog[k + i]
        /\ g[i] = h[k + i] /\ g[i + 1] = h[k + i + 1]
    BY <2>1, <1>2, <1>4 DEF Outline, n
  <2>0. LeavesProot(prog, k + i) => LeavesProot(q, i)
    <3> SUFFICES ASSUME NEW j \in (k + i)..n, prog[j] \in {"unlock"} \X ProotLocks
                 PROVE LeavesProot(q, i)
      BY Zenon DEF LeavesProot, n
    <3>1. /\ j - k \in i..Len(q) /\ j - k \in 1..(n - k) /\ k + (j - k) = j
      BY <1>1, <1>2, <1>3, <2>1
    <3>2. q[j - k] = prog[j]
      BY <3>1, <1>2
    <3> QED
      BY <3>1, <3>2, Zenon DEF LeavesProot
  <2>3. CASE prog[k + i][1] = "maybe"
    <3>1. PICK m \in Nat : m = prog[k + i][2]
      BY <1>1, <2>1, <2>3, Zenon DEF Steps
    <3>2. k + i + m <= n
      BY <2>2, <2>3, <3>1, Zenon DEF Fits, n
    <3>3. /\ i + 1 + m \in 1..(n - k + 1) /\ i + m <= Len(q)
          /\ k + (i + 1 + m) = k + i + 1 + m
      BY <3>2, <1>1, <1>2, <1>3
    <3>4. g[i + 1 + m] = h[k + i + 1 + m]
      BY <3>3, <1>4
    <3> QED
      BY <3>1, <3>3, <3>4, <2>2, <2>3, Zenon DEF Fits
  <2> QED
    BY <2>0, <2>2, <2>3, Zenon DEF Fits, InOrder
<1>7. g[1] = h[k + 1] /\ g[Len(q) + 1] = {}
  <2>1. /\ 1 \in 1..(n - k + 1) /\ Len(q) + 1 \in 1..(n - k + 1) /\ k + (Len(q) + 1) = n + 1
    BY <1>1, <1>2, <1>3
  <2> QED
    BY <2>1, <1>1, <1>4, Zenon
<1>8. Outline(q, g, {})
  BY <1>2, <1>5, <1>6, <1>7, Zenon DEF Outline
<1> QED
  BY <1>5, <1>7, <1>8, Zenon DEF q, n

\* What the first step of a process says about its program.
LEMMA FirstStep ==
    ASSUME LInv, NEW p \in Procs, NEW kind, At(p, kind)
    PROVE /\ p \notin dead
          /\ Len(todo[p]) \in Nat /\ Len(todo[p]) >= 1
          /\ todo[p] \in Seq(Steps) /\ todo[p][1] \in Steps
          /\ todo[p][1][1] = kind /\ Arg(p) = todo[p][1][2]
          /\ Tail(todo[p]) = SubSeq(todo[p], 2, Len(todo[p]))
<1>1. todo[p] \in Seq(Steps) /\ todo[p] # << >>
  BY Zenon DEF LInv, At, Skip
<1>2. p \notin dead
  BY Zenon DEF LInv, At
<1>3. Len(todo[p]) \in Nat /\ Len(todo[p]) >= 1
  BY <1>1, EmptySeq
<1>4. Head(todo[p]) = todo[p][1]
  BY <1>1
<1>5. Tail(todo[p]) = SubSeq(todo[p], 2, Len(todo[p]))
  BY <1>1, TailIsSubSeq, Zenon
<1> QED
  BY <1>1, <1>2, <1>3, <1>4, <1>5, ElementOfSeq DEF At, Arg

\* In the beginning nobody has anything to do, or a lock.
LEMMA InitLInv == Init => LInv
<1> SUFFICES ASSUME Init PROVE LInv
  BY Zenon
<1>1. todo \in [Procs -> Seq(Steps)] /\ \A p \in Procs : todo[p] = Skip
  BY DEF Init, Skip
<1>2. owner \in [LockSet -> Procs \cup {None}] /\ \A p \in Procs : HeldBy(p) = {}
  BY LocksAssumption, Zenon DEF Init, HeldBy
<1>3. ASSUME NEW p \in Procs PROVE Carries(p)
  <2>1. Runs({}, Skip)
    BY RunsSkip, Zenon
  <2> QED
    BY <2>1, <1>1, <1>2, Zenon DEF Runs, Carries
<1> QED
  BY <1>1, <1>2, <1>3, Zenon DEF LInv, Init

\* A process that is left with program prog, for which there is an outline that
\* begins with the locks it holds, while the other processes that are alive
\* keep their programs and their locks.
LEMMA StepLInv ==
    ASSUME LInv, NEW p \in Procs \ dead, NEW prog \in Seq(Steps),
           todo' = [todo EXCEPT ![p] = prog],
           owner' \in [LockSet -> Procs \cup {None}],
           dead' = dead,
           \A q \in Procs \ (dead \cup {p}) : HeldBy(q)' = HeldBy(q),
           \E h \in Outlines(prog) : Outline(prog, h, {}) /\ h[1] = HeldBy(p)'
    PROVE LInv'
<1>1. /\ todo' \in [Procs -> Seq(Steps)] /\ todo'[p] = prog
      /\ \A q \in Procs \ {p} : todo'[q] = todo[q]
  BY Zenon DEF LInv
<1>2. Carries(p)'
  BY <1>1, Zenon DEF Carries
<1>3. ASSUME NEW q \in Procs \ (dead \cup {p}) PROVE Carries(q)'
  <2>1. Carries(q) /\ HeldBy(q)' = HeldBy(q) /\ todo'[q] = todo[q]
    BY <1>1, Zenon DEF LInv
  <2> QED
    BY <2>1, Zenon DEF Carries
<1>4. \A q \in Procs \cap dead : todo'[q] = Skip
  BY <1>1, Zenon DEF LInv
<1> QED
  BY <1>1, <1>2, <1>3, <1>4, Zenon DEF LInv

\* An operation begins without locks.
LEMMA CallLInv ==
    ASSUME LInv, NEW p \in Procs, Call(p)
    PROVE LInv'
<1>1. PICK prog \in Operations(p) : todo' = [todo EXCEPT ![p] = prog]
  BY Zenon DEF Call
<1>2. p \in Procs \ dead /\ todo[p] = Skip /\ owner' = owner /\ dead' = dead
  BY Zenon DEF Call
<1>3. HeldBy(p) = {}
  <2>1. PICK h \in Outlines(Skip) : Outline(Skip, h, {}) /\ h[1] = HeldBy(p)
    BY <1>2, Zenon DEF LInv, Carries
  <2>2. Len(Skip) + 1 = 1
    BY DEF Skip
  <2> QED
    BY <2>1, <2>2, Zenon DEF Outline
<1>4. \A q : HeldBy(q)' = HeldBy(q)
  BY <1>2, Zenon DEF HeldBy
<1>5. PICK h \in Outlines(prog) : Outline(prog, h, {}) /\ h[1] = {}
  BY RunsOperations, Zenon DEF Runs
<1>6. prog \in Seq(Steps)
  BY <1>5, Zenon DEF Outline
<1>7. owner' \in [LockSet -> Procs \cup {None}]
  BY <1>2, Zenon DEF LInv
<1> QED
  BY <1>1, <1>2, <1>3, <1>4, <1>5, <1>6, <1>7, StepLInv, Zenon

\* What a process has left after the first step, and the outline of that.
LEMMA AfterFirst ==
    ASSUME LInv, NEW p \in Procs, NEW kind, At(p, kind)
    PROVE /\ Tail(todo[p]) \in Seq(Steps)
          /\ \E h \in Outlines(todo[p]) :
              /\ Outline(todo[p], h, {}) /\ h[1] = HeldBy(p)
              /\ Fits(todo[p], h, 1)
              /\ \E g \in Outlines(Tail(todo[p])) :
                    Outline(Tail(todo[p]), g, {}) /\ g[1] = h[2]
<1>1. /\ p \notin dead
      /\ Len(todo[p]) \in Nat /\ Len(todo[p]) >= 1
      /\ Tail(todo[p]) = SubSeq(todo[p], 2, Len(todo[p]))
  BY FirstStep, Zenon
<1>2. PICK h \in Outlines(todo[p]) : Outline(todo[p], h, {}) /\ h[1] = HeldBy(p)
  BY <1>1, Zenon DEF LInv, Carries
<1>3. 1 \in 0..Len(todo[p]) /\ 1 \in 1..Len(todo[p]) /\ 1 + 1 = 2
  BY <1>1
<1>4. Fits(todo[p], h, 1)
  BY <1>2, <1>3, Zenon DEF Outline
<1>5. \E g \in Outlines(SubSeq(todo[p], 1 + 1, Len(todo[p]))) :
        Outline(SubSeq(todo[p], 1 + 1, Len(todo[p])), g, {}) /\ g[1] = h[1 + 1]
  BY <1>2, <1>3, OutlineRest
<1>6. PICK g \in Outlines(Tail(todo[p])) : Outline(Tail(todo[p]), g, {}) /\ g[1] = h[2]
  BY <1>1, <1>3, <1>5, Zenon
<1>7. Tail(todo[p]) \in Seq(Steps)
  BY <1>6, Zenon DEF Outline
<1> QED
  BY <1>2, <1>4, <1>6, <1>7, Zenon

\* The lock was free or its owner dead: no process that is alive loses a lock.
LEMMA LockLInv ==
    ASSUME LInv, NEW p \in Procs, st_robustlock_lock(p)
    PROVE LInv'
<1>1. At(p, "lock")
  BY Zenon DEF st_robustlock_lock
<1>2. /\ p \notin dead /\ todo[p][1] \in Steps
      /\ todo[p][1][1] = "lock" /\ Arg(p) = todo[p][1][2]
  BY <1>1, FirstStep, Zenon
<1>3. Arg(p) \in LockSet
  BY <1>2, Zenon DEF Steps
<1>4. /\ owner' = [owner EXCEPT ![Arg(p)] = p] /\ dead' = dead
      /\ todo' = [todo EXCEPT ![p] = Tail(todo[p])]
      /\ owner[Arg(p)] \in dead \cup {None}
  BY Zenon DEF st_robustlock_lock
<1>5. /\ owner' \in [LockSet -> Procs \cup {None}] /\ owner'[Arg(p)] = p
      /\ \A l \in LockSet \ {Arg(p)} : owner'[l] = owner[l]
  BY <1>3, <1>4, Zenon DEF LInv
<1>6. HeldBy(p)' = HeldBy(p) \cup {Arg(p)}
  BY <1>3, <1>5, Zenon DEF HeldBy
<1>7. ASSUME NEW q \in Procs \ (dead \cup {p}) PROVE HeldBy(q)' = HeldBy(q)
  <2>1. owner[Arg(p)] # q
    BY <1>4, LocksAssumption, Zenon
  <2> QED
    BY <2>1, <1>3, <1>5, Zenon DEF HeldBy
<1>8. \E h \in Outlines(Tail(todo[p])) : Outline(Tail(todo[p]), h, {}) /\ h[1] = HeldBy(p)'
  <2>1. PICK h \in Outlines(todo[p]) :
            /\ h[1] = HeldBy(p) /\ Fits(todo[p], h, 1)
            /\ \E g \in Outlines(Tail(todo[p])) : Outline(Tail(todo[p]), g, {}) /\ g[1] = h[2]
    BY <1>1, AfterFirst, Zenon
  <2>2. h[1 + 1] = h[1] \cup {todo[p][1][2]}
    BY <2>1, <1>2, Zenon DEF Fits
  <2>3. h[2] = h[1] \cup {Arg(p)}
    BY <2>2, <1>2
  <2> QED
    BY <2>1, <2>3, <1>6, Zenon
<1>9. Tail(todo[p]) \in Seq(Steps)
  BY <1>1, AfterFirst, Zenon
<1> QED
  BY <1>2, <1>4, <1>5, <1>7, <1>8, <1>9, StepLInv, Zenon

\* Only the process's own lock is given back.
LEMMA UnlockLInv ==
    ASSUME LInv, NEW p \in Procs, st_robustlock_unlock(p)
    PROVE LInv'
<1>1. At(p, "unlock")
  BY Zenon DEF st_robustlock_unlock
<1>2. /\ p \notin dead /\ todo[p][1] \in Steps
      /\ todo[p][1][1] = "unlock" /\ Arg(p) = todo[p][1][2]
  BY <1>1, FirstStep, Zenon
<1>3. Arg(p) \in LockSet
  BY <1>2, Zenon DEF Steps
<1>4. /\ owner' = [owner EXCEPT ![Arg(p)] = None] /\ dead' = dead
      /\ todo' = [todo EXCEPT ![p] = Tail(todo[p])]
      /\ owner[Arg(p)] = p
  BY Zenon DEF st_robustlock_unlock
<1>5. /\ owner' \in [LockSet -> Procs \cup {None}] /\ owner'[Arg(p)] = None
      /\ \A l \in LockSet \ {Arg(p)} : owner'[l] = owner[l]
  BY <1>3, <1>4, Zenon DEF LInv
<1>6. HeldBy(p)' = HeldBy(p) \ {Arg(p)}
  BY <1>3, <1>5, LocksAssumption, Zenon DEF HeldBy
<1>7. ASSUME NEW q \in Procs \ (dead \cup {p}) PROVE HeldBy(q)' = HeldBy(q)
  BY <1>3, <1>4, <1>5, LocksAssumption, Zenon DEF HeldBy
<1>8. \E h \in Outlines(Tail(todo[p])) : Outline(Tail(todo[p]), h, {}) /\ h[1] = HeldBy(p)'
  <2>1. PICK h \in Outlines(todo[p]) :
            /\ h[1] = HeldBy(p) /\ Fits(todo[p], h, 1)
            /\ \E g \in Outlines(Tail(todo[p])) : Outline(Tail(todo[p]), g, {}) /\ g[1] = h[2]
    BY <1>1, AfterFirst, Zenon
  <2>2. h[1 + 1] = h[1] \ {todo[p][1][2]}
    BY <2>1, <1>2, Zenon DEF Fits
  <2>3. h[2] = h[1] \ {Arg(p)}
    BY <2>2, <1>2
  <2> QED
    BY <2>1, <2>3, <1>6, Zenon
<1>9. Tail(todo[p]) \in Seq(Steps)
  BY <1>1, AfterFirst, Zenon
<1> QED
  BY <1>2, <1>4, <1>5, <1>7, <1>8, <1>9, StepLInv, Zenon

\* Whether the steps are done or skipped, the locks at their end are the same.
LEMMA BranchLInv ==
    ASSUME LInv, NEW p \in Procs, Branch(p)
    PROVE LInv'
<1>1. At(p, "maybe")
  BY Zenon DEF Branch
<1>2. /\ p \notin dead /\ todo[p][1] \in Steps
      /\ todo[p][1][1] = "maybe" /\ Arg(p) = todo[p][1][2]
      /\ Len(todo[p]) \in Nat /\ Len(todo[p]) >= 1
  BY <1>1, FirstStep, Zenon
<1>3. PICK n \in Nat : n = Arg(p)
  BY <1>2, Zenon DEF Steps
<1>4. PICK s \in {0, n} : todo' = [todo EXCEPT ![p] = SubSeq(todo[p], 2 + s, Len(todo[p]))]
  BY <1>3, Zenon DEF Branch
<1>5. PICK h \in Outlines(todo[p]) :
        Outline(todo[p], h, {}) /\ h[1] = HeldBy(p) /\ Fits(todo[p], h, 1)
  BY <1>1, AfterFirst, Zenon
<1>6. /\ 1 + n <= Len(todo[p])
      /\ h[1 + 1] = h[1] /\ h[1 + 1 + n] = h[1]
  BY <1>2, <1>3, <1>5, Zenon DEF Fits
<1>7. /\ 1 + s \in 0..Len(todo[p]) /\ 2 + s = (1 + s) + 1
      /\ h[(1 + s) + 1] = h[1]
  BY <1>2, <1>4, <1>6
<1> DEFINE prog == SubSeq(todo[p], 2 + s, Len(todo[p]))
<1>8. PICK g \in Outlines(prog) : Outline(prog, g, {}) /\ g[1] = h[1]
  BY <1>5, <1>7, OutlineRest
<1>9. prog \in Seq(Steps)
  BY <1>8, Zenon DEF Outline
<1>10. /\ dead' = dead /\ owner' \in [LockSet -> Procs \cup {None}]
       /\ \A q : HeldBy(q)' = HeldBy(q)
  BY Zenon DEF Branch, LInv, HeldBy
<1> QED
  BY <1>2, <1>4, <1>5, <1>8, <1>9, <1>10, StepLInv, Zenon

\* A process that dies leaves its program, and its locks locked.
LEMMA DieLInv ==
    ASSUME LInv, NEW p \in Procs, Die(p)
    PROVE LInv'
<1>1. /\ todo' \in [Procs -> Seq(Steps)] /\ todo'[p] = Skip
      /\ \A q \in Procs \ {p} : todo'[q] = todo[q]
      /\ owner' = owner /\ dead' = dead \cup {p}
  BY DEF LInv, Die, Skip
<1>2. ASSUME NEW q \in Procs \ dead' PROVE Carries(q)'
  <2>1. Carries(q) /\ todo'[q] = todo[q] /\ HeldBy(q)' = HeldBy(q)
    BY <1>1, Zenon DEF LInv, HeldBy
  <2> QED
    BY <2>1, Zenon DEF Carries
<1>3. \A q \in Procs \cap dead' : todo'[q] = Skip
  BY <1>1, Zenon DEF LInv
<1>4. owner' \in [LockSet -> Procs \cup {None}]
  BY <1>1, Zenon DEF LInv
<1> QED
  BY <1>1, <1>2, <1>3, <1>4, Zenon DEF LInv

\* Every step keeps the invariant.
LEMMA NextLInv == LInv /\ [Next]_vars => LInv'
<1> SUFFICES ASSUME LInv, [Next]_vars PROVE LInv'
  BY Zenon
<1>1. ASSUME NEW p \in Procs,
             \/ Call(p) \/ st_robustlock_lock(p) \/ st_robustlock_unlock(p)
             \/ Branch(p) \/ Die(p)
      PROVE LInv'
  BY <1>1, CallLInv, LockLInv, UnlockLInv, BranchLInv, DieLInv, Zenon
<1>2. CASE UNCHANGED vars
  BY <1>2, Zenon DEF LInv, Carries, HeldBy, vars
<1> QED
  BY <1>1, <1>2, Zenon DEF Next

\* What a process is about to lock is above the locks it holds, or it copies
\* a table out.
LEMMA LInvOrder == LInv => LocksTakenInOrder
<1> SUFFICES ASSUME LInv, NEW p \in Procs, At(p, "lock"),
                    NEW l \in LockSet, owner[l] = p
             PROVE Rank(l) < Rank(Arg(p)) \/ (Inverts(l, Arg(p)) /\ CopiesOut(p))
  BY Zenon DEF LocksTakenInOrder
<1>1. todo[p][1][1] = "lock" /\ Arg(p) = todo[p][1][2]
  BY FirstStep, Zenon
<1>2. PICK h \in Outlines(todo[p]) : h[1] = HeldBy(p) /\ Fits(todo[p], h, 1)
  BY AfterFirst, Zenon
<1>3. l \in h[1]
  BY <1>2, Zenon DEF HeldBy
<1>4. InOrder(l, Arg(p), todo[p], 1)
  BY <1>1, <1>2, <1>3, Zenon DEF Fits
<1> QED
  BY <1>4, Zenon DEF InOrder, Inverts, CopiesOut

\* Of processes that wait for each other and copy nothing out, one waits for a
\* lock of the highest rank; whoever holds that lock waits for one of a higher
\* rank.
LEMMA OrderNoCircle == LInv /\ LocksTakenInOrder => CirclesCopyOut
<1> SUFFICES ASSUME LInv, LocksTakenInOrder,
                    NEW S \in (SUBSET Procs) \ {{}}, Circle(S),
                    \A p \in S : ~CopiesOut(p)
             PROVE FALSE
  BY Zenon DEF CirclesCopyOut
<1>1. ASSUME NEW p \in S PROVE At(p, "lock") /\ Arg(p) \in LockSet
  <2>1. p \in Procs /\ At(p, "lock")
    BY Zenon DEF Circle, WaitsFor
  <2>2. todo[p][1] \in Steps /\ todo[p][1][1] = "lock" /\ Arg(p) = todo[p][1][2]
    BY <2>1, FirstStep, Zenon
  <2> QED
    BY <2>1, <2>2, Zenon DEF Steps
<1>2. ASSUME NEW p \in S PROVE \E q \in S : Rank(Arg(p)) < Rank(Arg(q))
  <2>1. PICK q \in S : WaitsFor(p, q)
    BY Zenon DEF Circle
  <2>2. owner[Arg(p)] = q /\ q \in Procs
    BY <2>1, Zenon DEF WaitsFor
  <2>3. Rank(Arg(p)) < Rank(Arg(q))
    BY <2>2, <1>1, Zenon DEF LocksTakenInOrder
  <2> QED
    BY <2>3, Zenon
<1> DEFINE R(p) == Rank(Arg(p))
<1>3. \A p \in S : R(p) \in 1..6
  BY Ranks, Zenon
<1>4. \A p \in S : \E q \in S : R(p) < R(q)
  BY <1>2, Zenon
<1> HIDE DEF R
<1>5. ASSUME NEW n \in 1..6, \E p \in S : R(p) >= n PROVE \E p \in S : R(p) >= n + 1
  <2>1. PICK p \in S : R(p) >= n
    BY <1>5, Zenon
  <2>2. PICK q \in S : R(p) < R(q)
    BY <1>4, Zenon
  <2>3. R(p) \in 1..6 /\ R(q) \in 1..6
    BY <1>3, Zenon
  <2>4. R(q) >= n + 1
    BY <2>1, <2>2, <2>3
  <2> QED
    BY <2>4, Zenon
<1> DEFINE Reached(n) == \E p \in S : R(p) >= n
<1>6. Reached(1)
  BY <1>3
<1>7. \A n \in 1..6 : Reached(n) => Reached(n + 1)
  BY <1>5, Zenon
<1>8. ~Reached(7)
  BY <1>3
<1> HIDE DEF Reached
<1> QED
  BY <1>6, <1>7, <1>8

-----------------------------------------------------------------------------
(* Theorems.                                                                 *)

\* Any number of processes, on any tables, dying anywhere, take the locks in
\* one order: the library, the collector, a table, a slab group, the page pool,
\* and then its regions or the region control block.  All that leaves the order
\* is a table that is put into a proot under the lock of the table read.
THEOREM LocksInOrder == Spec => []LocksTakenInOrder
<1>1. Init => LInv
  BY InitLInv, Zenon
<1>2. LInv /\ [Next]_vars => LInv'
  BY NextLInv, Zenon
<1>3. LInv => LocksTakenInOrder
  BY LInvOrder, Zenon
<1> QED
  BY <1>1, <1>2, <1>3, PTL DEF Spec

\* A set of processes, of whatever size, that are stuck on each other's locks
\* has one in it that copies a table out under a table's lock: without such
\* copies the library cannot deadlock.
THEOREM CirclesNeedCopy == Spec => []CirclesCopyOut
<1>1. Init => LInv
  BY InitLInv
<1>2. LInv /\ [Next]_vars => LInv'
  BY NextLInv
<1>3. LInv => CirclesCopyOut
  BY LInvOrder, OrderNoCircle, Zenon
<1> QED
  BY <1>1, <1>2, <1>3, PTL DEF Spec

=============================================================================
