--------------------------- MODULE TkSchedProofs ---------------------------
(****************************************************************************)
(* Proofs about the scheduler.  The main invariant is that the pool and the *)
(* schedule agree (ScheduleIntegrity), for any size of the pool and of the  *)
(* schedule, for clients that keep to Discipline.                           *)
(****************************************************************************)
EXTENDS TkSched, FiniteSetTheorems, TLAPS

Typed(sch, pr, ix, prc, S) ==
  /\ sch \in [Prios -> [Slots -> Tids]]
  /\ pr \in [Tids -> Prios]
  /\ ix \in [Tids -> Nat]
  /\ prc \in [Prios -> Nat]
  /\ S \in SUBSET Tids

(* ScheduleIntegrity of any table sch, with counters prc, that holds the    *)
(* threads S at their priorities pr and indices ix.                         *)
Fits(sch, pr, ix, prc, S) ==
  /\ prc[0] >= 1 /\ sch[0][0] = Root
  /\ \A p \in Prios : prc[p] <= MaxAtPrio
  /\ \A t \in S \ {Root} : ix[t] < prc[pr[t]] /\ sch[pr[t]][ix[t]] = t
  /\ \A p \in Prios, i \in Slots :
       IF i < prc[p]
       THEN /\ sch[p][i] \in S
            /\ pr[sch[p][i]] = p
            /\ IF sch[p][i] = Root THEN i = 0 ELSE ix[sch[p][i]] = i
       ELSE sch[p][i] = 0

(* The inductive strengthening of ScheduleIntegrity.                        *)
TableOK == ScheduleIntegrity /\ \A p \in Prios : curr[p] = 0

FixedOK ==     \* root and idle stay where tk_create_kernel put them
  /\ Root \in Scheduled /\ prio[Root] = 0 /\ "Z" \notin state[Root]
  /\ Idle \in Scheduled /\ prio[Idle] = MaxPrio - 1 /\ state[Idle] = Ready

LimboOK ==     \* a thread on its way into the schedule is READY
  \A t \in limbo : valid[t] /\ state[t] = Ready

ActiveOK ==    \* user code is run by a thread that is in the schedule
  phase = "run" => active \in Scheduled /\ "Z" \notin state[active]

Creating(t) == cont[t] = "create" /\ "Z" \notin state[t]
CreateOK ==    \* __tk_proc_idx is the index of the one creation under way
  /\ \A t \in Tids : Creating(t) => making[t] = procIdx /\ procIdx \in limbo
  /\ \A t, u \in Tids : Creating(t) /\ Creating(u) => t = u

(* TypeOK in two parts: the schedule, and the rest of the pool.             *)
TableTyped == Typed(sched, prio, idx, procs, Scheduled) /\ curr \in [Prios -> Nat]

PoolTyped ==
  /\ valid \in [Tids -> BOOLEAN] /\ state \in [Tids -> SUBSET Bits]
  /\ gid \in [Tids -> Tids \cup {NoTid}] /\ noChilds \in [Tids -> Int]
  /\ bon \in [Tids -> Tids \cup {NoTid}] /\ event \in [Tids -> Events]
  /\ procIdx \in Tids /\ inUse \in Int /\ active \in Tids
  /\ phase \in {"run", "yield", "exit"} /\ scan \in 0 .. MaxThreads
  /\ cont \in [Tids -> {"user", "create", "join"}]
  /\ making \in [Tids -> Tids \cup {NoTid}] /\ limbo \in SUBSET Tids

IInv == TypeOK /\ TableOK /\ FixedOK /\ LimboOK /\ ActiveOK /\ CreateOK

-----------------------------------------------------------------------------
LEMMA Constants ==
  /\ Root \in Tids /\ Idle \in Tids /\ Root # Idle
  /\ 0 \in Prios /\ MaxPrio - 1 \in Prios /\ MaxPrio - 1 # 0 /\ 0 \in Slots
  /\ Cancelled \subseteq Tids \ {Idle} /\ Moved \subseteq Tids \ {Idle}
BY PoolAssumption, ClientAssumption DEF Tids, Prios, Slots, Root, Idle

LEMMA SlotsAre == \A i : i \in Slots <=> i \in Nat /\ i < MaxAtPrio
BY PoolAssumption DEF Slots

LEMMA FirstNumbers ==
  ASSUME NEW n \in Nat
  PROVE  IsFiniteSet(0 .. n - 1) /\ Cardinality(0 .. n - 1) = n
<1>1. 0 \in Int /\ n - 1 \in Int
  OBVIOUS
<1>2. IsFiniteSet(0 .. n - 1) /\ Cardinality(0 .. n - 1) =
        IF 0 > n - 1 THEN 0 ELSE n - 1 - 0 + 1
  BY <1>1, FS_Interval
<1>3. (IF 0 > n - 1 THEN 0 ELSE n - 1 - 0 + 1) = n
  OBVIOUS
<1> QED BY <1>2, <1>3

LEMMA TidsFinite == IsFiniteSet(Tids) /\ Cardinality(Tids) = MaxThreads
BY FirstNumbers, PoolAssumption DEF Tids

LEMMA MaxOfOne == \A n \in Nat : Max({n}) = n
BY DEF Max

(* What Fits says of one thread and of one cell, in the form the proofs     *)
(* below use.                                                               *)
ThreadsPlaced(sch, pr, ix, prc, S) ==
  \A t \in S \ {Root} :
    ix[t] \in Slots /\ ix[t] < prc[pr[t]] /\ sch[pr[t]][ix[t]] = t
CellsNamed(sch, pr, ix, prc, S) ==
  \A q \in Prios, i \in Slots : i < prc[q] =>
    /\ sch[q][i] \in S /\ pr[sch[q][i]] = q
    /\ sch[q][i] = Root => i = 0
    /\ sch[q][i] # Root => ix[sch[q][i]] = i
TailsZero(sch, prc) ==
  \A q \in Prios, i \in Slots : ~(i < prc[q]) => sch[q][i] = Root
Ranges(pr, ix, S) ==
  S \subseteq Tids /\ \A t \in Tids : pr[t] \in Prios /\ ix[t] \in Nat
CountsBounded(prc) == \A q \in Prios : prc[q] \in Nat /\ prc[q] <= MaxAtPrio

LEMMA FitsUse ==
  ASSUME NEW sch, NEW pr, NEW ix, NEW prc, NEW S,
         Typed(sch, pr, ix, prc, S), Fits(sch, pr, ix, prc, S)
  PROVE  /\ ThreadsPlaced(sch, pr, ix, prc, S)
         /\ CellsNamed(sch, pr, ix, prc, S)
         /\ TailsZero(sch, prc)
         /\ Ranges(pr, ix, S)
         /\ CountsBounded(prc)
<1>0. Ranges(pr, ix, S) /\ \A q \in Prios : prc[q] \in Nat
  BY DEF Typed, Ranges
<1>1. ASSUME NEW t \in S \ {Root}
      PROVE  ix[t] \in Slots /\ ix[t] < prc[pr[t]] /\ sch[pr[t]][ix[t]] = t
  <2>1. ix[t] < prc[pr[t]] /\ sch[pr[t]][ix[t]] = t
    BY DEF Fits
  <2>2. pr[t] \in Prios /\ ix[t] \in Nat /\ prc[pr[t]] \in Nat
    BY <1>0 DEF Ranges
  <2>3. prc[pr[t]] <= MaxAtPrio
    BY <2>2 DEF Fits
  <2> QED BY <2>1, <2>2, <2>3, SlotsAre, PoolAssumption
<1>2. CellsNamed(sch, pr, ix, prc, S) /\ TailsZero(sch, prc)
  BY DEF Fits, CellsNamed, TailsZero, Root
<1> QED BY <1>0, <1>1, <1>2 DEF Fits, ThreadsPlaced, CountsBounded

(* No row of the schedule is ever full: a row of the pool's size would need *)
(* every thread, and root and idle live at different priorities.            *)
LEMMA RowsHaveRoom ==
  ASSUME NEW sch, NEW pr, NEW ix, NEW prc, NEW S,
         Typed(sch, pr, ix, prc, S), Fits(sch, pr, ix, prc, S), Discipline,
         Root \in S, Idle \in S, pr[Root] = 0, pr[Idle] = MaxPrio - 1,
         NEW p \in Prios
  PROVE  prc[p] < MaxAtPrio
<1> DEFINE other == IF p = 0 THEN Idle ELSE Root
           T == Tids \ {other}
<1>0. /\ CellsNamed(sch, pr, ix, prc, S) /\ Ranges(pr, ix, S)
      /\ CountsBounded(prc)
  BY FitsUse
<1>1. other \in Tids /\ pr[other] # p
  BY Constants
<1>2. SUFFICES ASSUME NEW N \in Nat, N = prc[p], N >= MaxAtPrio
               PROVE  FALSE
  BY <1>0, PoolAssumption DEF CountsBounded
<1> DEFINE f == [i \in 0 .. N - 1 |-> sch[p][i]]
<1>3. \A i \in 0 .. N - 1 : i \in Slots /\ i < prc[p]
  <2>1. N <= MaxAtPrio
    BY <1>0, <1>2 DEF CountsBounded
  <2> QED BY <2>1, <1>2, SlotsAre, PoolAssumption
<1>4. f \in [0 .. N - 1 -> T]
  <2> SUFFICES ASSUME NEW i \in 0 .. N - 1 PROVE sch[p][i] \in T
    OBVIOUS
  <2>1. sch[p][i] \in S /\ pr[sch[p][i]] = p
    BY <1>0, <1>3 DEF CellsNamed
  <2> QED BY <2>1, <1>0, <1>1 DEF Ranges
<1>5. ASSUME NEW i \in 0 .. N - 1, NEW j \in 0 .. N - 1, f[i] = f[j]
      PROVE  i = j
  <2>1. sch[p][i] = sch[p][j]
    BY <1>5
  <2> QED BY <2>1, <1>0, <1>3 DEF CellsNamed
<1>6. IsFiniteSet(T) /\ Cardinality(T) = MaxThreads - 1
  <2>1. IsFiniteSet(T) /\ Cardinality(T) =
          IF other \in Tids THEN Cardinality(Tids) - 1 ELSE Cardinality(Tids)
    BY TidsFinite, FS_RemoveElement
  <2> QED BY <2>1, <1>1, TidsFinite
<1>7. IsFiniteSet(0 .. N - 1) /\ Cardinality(0 .. N - 1) = N
  BY FirstNumbers
<1>8. ~ Cardinality(T) < Cardinality(0 .. N - 1)
  <2>1. ~ \E x, y \in 0 .. N - 1 : x # y /\ f[x] = f[y]
    BY <1>5
  <2> HIDE DEF f, T
  <2> QED BY <2>1, <1>4, <1>6, <1>7, FS_PigeonHole
<1>9. MaxAtPrio >= MaxThreads
  BY DEF Discipline
<1> QED BY <1>2, <1>6, <1>7, <1>8, <1>9, PoolAssumption

(* A thread appended to a row that has room.                                *)
LEMMA Appended ==
  ASSUME NEW sch, NEW pr, NEW ix, NEW prc, NEW S,
         Typed(sch, pr, ix, prc, S), Fits(sch, pr, ix, prc, S),
         NEW n \in Tids \ S, n # Root, NEW p \in Prios, prc[p] < MaxAtPrio
  PROVE  Fits([sch EXCEPT ![p][prc[p]] = n], [pr EXCEPT ![n] = p],
              [ix EXCEPT ![n] = prc[p]], [prc EXCEPT ![p] = @ + 1], S \cup {n})
<1> DEFINE sch2 == [sch EXCEPT ![p][prc[p]] = n]
           pr2  == [pr EXCEPT ![n] = p]
           ix2  == [ix EXCEPT ![n] = prc[p]]
           prc2 == [prc EXCEPT ![p] = @ + 1]
<1>0. /\ ThreadsPlaced(sch, pr, ix, prc, S) /\ CellsNamed(sch, pr, ix, prc, S)
      /\ TailsZero(sch, prc) /\ Ranges(pr, ix, S) /\ CountsBounded(prc)
  BY FitsUse
<1>1. /\ prc[p] \in Slots
      /\ prc2[p] = prc[p] + 1 /\ \A q \in Prios \ {p} : prc2[q] = prc[q]
      /\ sch2[p][prc[p]] = n
      /\ \A q \in Prios, i \in Slots : ~(q = p /\ i = prc[p]) => sch2[q][i] = sch[q][i]
      /\ pr2[n] = p /\ \A t \in Tids \ {n} : pr2[t] = pr[t]
      /\ ix2[n] = prc[p] /\ \A t \in Tids \ {n} : ix2[t] = ix[t]
  BY <1>0, SlotsAre DEF Typed, CountsBounded
<1> HIDE DEF sch2, pr2, ix2, prc2
<1>2. prc2[0] >= 1 /\ sch2[0][0] = Root
  <2>1. 0 \in Prios /\ 0 \in Slots /\ prc[0] \in Nat /\ prc[0] >= 1 /\ sch[0][0] = Root
    BY <1>0, Constants DEF Fits, CountsBounded
  <2>2. ~(0 = p /\ 0 = prc[p])
    BY <2>1
  <2> QED BY <2>1, <2>2, <1>1
<1>3. \A q \in Prios : prc2[q] <= MaxAtPrio
  BY <1>0, <1>1, PoolAssumption DEF CountsBounded
<1>4. ASSUME NEW t \in (S \cup {n}) \ {Root}
      PROVE  ix2[t] < prc2[pr2[t]] /\ sch2[pr2[t]][ix2[t]] = t
  <2>1. CASE t = n
    BY <2>1, <1>0, <1>1 DEF CountsBounded
  <2>2. CASE t # n
    <3>1. ix2[t] = ix[t] /\ pr2[t] = pr[t] /\ ix[t] < prc[pr[t]]
          /\ sch[pr[t]][ix[t]] = t
      BY <2>2, <1>0, <1>1 DEF ThreadsPlaced, Ranges
    <3>2. pr[t] \in Prios /\ ix[t] \in Slots /\ prc[pr[t]] \in Nat
      BY <2>2, <1>0 DEF ThreadsPlaced, Ranges, CountsBounded
    <3>3. sch2[pr[t]][ix[t]] = t
      BY <3>1, <3>2, <1>1
    <3>4. ix[t] < prc2[pr[t]]
      BY <3>1, <3>2, <1>1, SlotsAre
    <3> QED BY <3>1, <3>3, <3>4
  <2> QED BY <2>1, <2>2
<1>5. ASSUME NEW q \in Prios, NEW i \in Slots
      PROVE  IF i < prc2[q]
             THEN /\ sch2[q][i] \in S \cup {n}
                  /\ pr2[sch2[q][i]] = q
                  /\ IF sch2[q][i] = Root THEN i = 0 ELSE ix2[sch2[q][i]] = i
             ELSE sch2[q][i] = 0
  <2>1. CASE q = p /\ i = prc[p]
    BY <2>1, <1>0, <1>1 DEF CountsBounded
  <2>2. CASE ~(q = p /\ i = prc[p])
    <3>1. sch2[q][i] = sch[q][i]
      BY <2>2, <1>1
    <3>2. i < prc2[q] <=> i < prc[q]
      BY <2>2, <1>0, <1>1, SlotsAre DEF CountsBounded
    <3>3. CASE i < prc[q]
      <4>1. /\ sch[q][i] \in S /\ pr[sch[q][i]] = q /\ sch[q][i] # n
            /\ sch[q][i] = Root => i = 0
            /\ sch[q][i] # Root => ix[sch[q][i]] = i
        BY <3>3, <1>0 DEF CellsNamed
      <4> QED BY <4>1, <3>1, <3>2, <3>3, <1>0, <1>1 DEF Ranges
    <3>4. CASE ~(i < prc[q])
      BY <3>1, <3>2, <3>4, <1>0 DEF TailsZero, Root
    <3> QED BY <3>3, <3>4
  <2> QED BY <2>1, <2>2
<1> QED BY <1>2, <1>3, <1>4, <1>5 DEF Fits, sch2, pr2, ix2, prc2


(* Row p, of N threads, without the cell at k.                              *)
GapClosed(sch, ix, prc, p, k, N, sch2, ix2, prc2) ==
  /\ \A q \in Prios \ {p} : sch2[q] = sch[q]
  /\ \A i \in Slots : sch2[p][i] = IF k <= i /\ i < N THEN sch[p][i + 1]
                                                      ELSE sch[p][i]
  /\ \A i \in Slots : k <= i /\ i + 1 < N => ix2[sch[p][i + 1]] = i
  /\ \A u \in Tids : (\A i \in Slots : k <= i /\ i < N => sch[p][i + 1] # u)
                       => ix2[u] = ix[u]
  /\ prc2[p] = N - 1 /\ \A q \in Prios \ {p} : prc2[q] = prc[q]

(* The gap closed behind a thread that leaves a row which is not full.      *)
LEMMA Closed ==
  ASSUME NEW sch, NEW pr, NEW ix, NEW prc, NEW S,
         Typed(sch, pr, ix, prc, S), Fits(sch, pr, ix, prc, S),
         NEW t \in S \ {Root}, NEW p \in Prios, NEW k \in Nat, NEW N \in Nat,
         p = pr[t], k = ix[t], N = prc[p], N < MaxAtPrio,
         NEW sch2, NEW ix2, NEW prc2,
         GapClosed(sch, ix, prc, p, k, N, sch2, ix2, prc2)
  PROVE  Fits(sch2, pr, ix2, prc2, S \ {t})
<1> USE DEF GapClosed
<1>0. /\ ThreadsPlaced(sch, pr, ix, prc, S) /\ CellsNamed(sch, pr, ix, prc, S)
      /\ TailsZero(sch, prc) /\ Ranges(pr, ix, S) /\ CountsBounded(prc)
  BY FitsUse
<1>1. k \in Slots /\ k < N /\ sch[p][k] = t /\ t \in Tids
  BY <1>0 DEF ThreadsPlaced, Ranges
<1>2. \A i \in Slots : k <= i /\ i < N => i + 1 \in Slots
  BY SlotsAre, PoolAssumption
<1>3. \A i, j \in Slots : i < N /\ j < N /\ sch[p][i] = sch[p][j] => i = j
  BY <1>0 DEF CellsNamed
<1>7. prc2[0] >= 1 /\ sch2[0][0] = Root
  <2>0. 0 \in Prios /\ 0 \in Slots /\ prc[0] \in Nat /\ prc[0] >= 1 /\ sch[0][0] = Root
    BY <1>0, Constants DEF Fits, CountsBounded
  <2>1. CASE p = 0
    <3>1. k # 0
      BY <2>0, <2>1, <1>1
    <3> QED BY <3>1, <2>0, <2>1, <1>1
  <2>2. CASE p # 0
    BY <2>0, <2>2
  <2> QED BY <2>1, <2>2
<1>8. \A q \in Prios : prc2[q] <= MaxAtPrio
  BY <1>0, PoolAssumption DEF CountsBounded
<1>9. ASSUME NEW u \in (S \ {t}) \ {Root}
      PROVE  ix2[u] < prc2[pr[u]] /\ sch2[pr[u]][ix2[u]] = u
  <2>0. /\ u \in Tids /\ pr[u] \in Prios /\ ix[u] \in Slots /\ ix[u] \in Nat
        /\ ix[u] < prc[pr[u]] /\ sch[pr[u]][ix[u]] = u
    BY <1>0 DEF ThreadsPlaced, Ranges
  <2>1. CASE pr[u] = p /\ ix[u] > k
    <3> DEFINE i == ix[u] - 1
    <3>1. i \in Slots /\ k <= i /\ i < N /\ i + 1 = ix[u] /\ i + 1 < N
      BY <2>0, <2>1, SlotsAre, PoolAssumption
    <3>2. ix2[u] = i
      BY <3>1, <2>0, <2>1
    <3>3. sch2[p][i] = u
      BY <3>1, <2>0, <2>1
    <3> QED BY <3>1, <3>2, <3>3, <2>1, SlotsAre
  <2>2. CASE pr[u] = p /\ ~(ix[u] > k)
    <3>1. ix[u] < k
      <4>1. ix[u] # k
        BY <2>0, <2>2, <1>1
      <4> QED BY <4>1, <2>0, <2>2
    <3>2. ASSUME NEW i \in Slots, k <= i, i < N PROVE sch[p][i + 1] # u
      <4>1. i + 1 \in Slots /\ i \in Nat
        BY <3>2, <1>2, SlotsAre
      <4>2. CASE i + 1 < N
        BY <4>1, <4>2, <3>1, <3>2, <2>0, <2>2, <1>3
      <4>3. CASE ~(i + 1 < N)
        BY <4>1, <4>3, <1>0 DEF TailsZero
      <4> QED BY <4>2, <4>3
    <3>3. ix2[u] = ix[u]
      BY <3>2, <2>0
    <3>4. sch2[p][ix[u]] = u
      BY <3>1, <2>0, <2>2
    <3> QED BY <3>1, <3>3, <3>4, <2>0, <2>2, <1>1
  <2>3. CASE pr[u] # p
    <3>1. ASSUME NEW i \in Slots, k <= i, i < N PROVE sch[p][i + 1] # u
      <4>1. i + 1 \in Slots /\ i \in Nat
        BY <3>1, <1>2, SlotsAre
      <4>2. CASE i + 1 < N
        BY <4>1, <4>2, <2>3, <1>0 DEF CellsNamed
      <4>3. CASE ~(i + 1 < N)
        BY <4>1, <4>3, <1>0 DEF TailsZero
      <4> QED BY <4>2, <4>3
    <3>2. ix2[u] = ix[u]
      BY <3>1, <2>0
    <3> QED BY <3>2, <2>0, <2>3
  <2> QED BY <2>0, <2>1, <2>2, <2>3
<1>10. ASSUME NEW q \in Prios, NEW i \in Slots, i < prc2[q]
       PROVE  /\ sch2[q][i] \in S \ {t}
              /\ pr[sch2[q][i]] = q
              /\ IF sch2[q][i] = Root THEN i = 0 ELSE ix2[sch2[q][i]] = i
  <2>0. i \in Nat
    BY SlotsAre
  <2>1. PICK j \in Slots : /\ sch2[q][i] = sch[q][j] /\ j < prc[q]
                           /\ q = p => j # k
                           /\ j # i => j = i + 1 /\ q = p /\ k <= i
                           /\ q = p /\ j = i => i < k
    <3>1. CASE q = p /\ k <= i
      <4>1. i < N /\ i + 1 < N
        BY <3>1, <2>0, <1>10
      <4>2. i + 1 \in Slots /\ i + 1 # k /\ i + 1 # i
        BY <4>1, <3>1, <2>0, <1>2
      <4> QED BY <4>1, <4>2, <3>1
    <3>2. CASE q = p /\ ~(k <= i)
      <4>1. i < k /\ i < N /\ i # k
        BY <3>2, <2>0, <1>1
      <4> QED BY <4>1, <3>2
    <3>3. CASE q # p
      BY <3>3, <1>10
    <3> QED BY <3>1, <3>2, <3>3
  <2>2. /\ sch[q][j] \in S /\ pr[sch[q][j]] = q /\ sch[q][j] # t
        /\ sch[q][j] = Root => j = 0
        /\ sch[q][j] # Root => ix[sch[q][j]] = j
    <3>1. /\ sch[q][j] \in S /\ pr[sch[q][j]] = q
          /\ sch[q][j] = Root => j = 0
          /\ sch[q][j] # Root => ix[sch[q][j]] = j
      BY <2>1, <1>0 DEF CellsNamed
    <3>2. sch[q][j] # t
      BY <2>1, <3>1
    <3> QED BY <3>1, <3>2
  <2>3. sch2[q][i] = Root => i = 0
    BY <2>0, <2>1, <2>2
  <2>4. ASSUME sch2[q][i] # Root PROVE ix2[sch2[q][i]] = i
    <3>1. CASE j = i + 1
      <4>1. q = p /\ k <= i /\ i + 1 < N
        BY <3>1, <2>0, <2>1
      <4> QED BY <4>1, <3>1, <2>1
    <3>2. CASE j = i
      <4> DEFINE u == sch[q][i]
      <4>0. u \in Tids /\ pr[u] = q /\ ix[u] = i /\ u # Root
        BY <3>2, <2>1, <2>2, <2>4, <1>0 DEF Ranges
      <4>1. ASSUME NEW m \in Slots, k <= m, m < N PROVE sch[p][m + 1] # u
        <5>1. m + 1 \in Slots /\ m \in Nat
          BY <4>1, <1>2, SlotsAre
        <5>2. CASE m + 1 < N /\ q # p
          BY <5>1, <5>2, <4>0, <1>0 DEF CellsNamed
        <5>3. CASE m + 1 < N /\ q = p
          <6>1. i < k
            BY <5>3, <3>2, <2>1
          <6>2. m + 1 # i
            BY <6>1, <5>1, <4>1, <2>0
          <6>3. i < N
            BY <6>1, <2>0, <1>1
          <6> QED BY <6>2, <6>3, <5>1, <5>3, <1>3
        <5>4. CASE ~(m + 1 < N)
          BY <5>1, <5>4, <4>0, <1>0 DEF TailsZero
        <5> QED BY <5>2, <5>3, <5>4
      <4>2. ix2[u] = ix[u]
        BY <4>0, <4>1
      <4> QED BY <4>0, <4>2, <3>2, <2>1
    <3> QED BY <3>1, <3>2, <2>1
  <2> QED BY <2>1, <2>2, <2>3, <2>4
<1>11. ASSUME NEW q \in Prios, NEW i \in Slots, ~(i < prc2[q])
       PROVE  sch2[q][i] = 0
  <2>0. i \in Nat
    BY SlotsAre
  <2>1. CASE q = p /\ k <= i /\ i < N
    <3>1. i + 1 \in Slots /\ ~(i + 1 < N)
      BY <2>0, <2>1, <1>2, <1>11
    <3> QED BY <3>1, <2>1, <1>0 DEF TailsZero, Root
  <2>2. CASE q = p /\ ~(k <= i /\ i < N)
    <3>1. ~(i < N)
      BY <2>0, <2>2, <1>1, <1>11
    <3> QED BY <3>1, <2>2, <1>0 DEF TailsZero, Root
  <2>3. CASE q # p
    BY <2>3, <1>0, <1>11 DEF TailsZero, Root
  <2> QED BY <2>1, <2>2, <2>3
<1> QED BY <1>7, <1>8, <1>9, <1>10, <1>11 DEF Fits

-----------------------------------------------------------------------------
LEMMA TypeParts == TypeOK <=> TableTyped /\ PoolTyped
<1>1. Scheduled \in SUBSET Tids
  BY DEF Scheduled
<1> QED BY <1>1 DEF TypeOK, TableTyped, PoolTyped, Typed

LEMMA IntegrityFits ==
  ScheduleIntegrity <=> Fits(sched, prio, idx, procs, Scheduled)
BY DEF ScheduleIntegrity, Fits

(* Nothing but the threads S of a table matters to it.                      *)
LEMMA Elsewhere ==
  ASSUME NEW sch, NEW pr, NEW ix, NEW prc, NEW S,
         Typed(sch, pr, ix, prc, S), Fits(sch, pr, ix, prc, S),
         NEW pr2, NEW ix2, \A t \in S : pr2[t] = pr[t] /\ ix2[t] = ix[t]
  PROVE  Fits(sch, pr2, ix2, prc, S)
<1>0. /\ ThreadsPlaced(sch, pr, ix, prc, S) /\ CellsNamed(sch, pr, ix, prc, S)
      /\ TailsZero(sch, prc) /\ Ranges(pr, ix, S) /\ CountsBounded(prc)
  BY FitsUse
<1>1. \A t \in S \ {Root} : ix2[t] < prc[pr2[t]] /\ sch[pr2[t]][ix2[t]] = t
  BY <1>0 DEF ThreadsPlaced
<1>2. ASSUME NEW q \in Prios, NEW i \in Slots
      PROVE  IF i < prc[q]
             THEN /\ sch[q][i] \in S /\ pr2[sch[q][i]] = q
                  /\ IF sch[q][i] = Root THEN i = 0 ELSE ix2[sch[q][i]] = i
             ELSE sch[q][i] = 0
  BY <1>0 DEF CellsNamed, TailsZero, Root
<1> QED BY <1>1, <1>2 DEF Fits

(* The schedule after a thread has left it.                                 *)
LEMMA TableWithout ==
  ASSUME TableTyped, TableOK, FixedOK, Discipline, NEW t \in Scheduled \ {Root}
  PROVE  LET sch == RowWithout(prio[t], idx[t])
             ix  == Renumbered(prio[t], idx[t])
             prc == ProcsWithout(prio[t])
         IN /\ Typed(sch, prio, ix, prc, Scheduled \ {t})
            /\ Fits(sch, prio, ix, prc, Scheduled \ {t})
            /\ CurrWithout(prio[t]) = curr
<1>0. Fits(sched, prio, idx, procs, Scheduled) /\ Typed(sched, prio, idx, procs, Scheduled)
  BY IntegrityFits DEF TableOK, TableTyped
<1>1. /\ ThreadsPlaced(sched, prio, idx, procs, Scheduled)
      /\ CellsNamed(sched, prio, idx, procs, Scheduled)
      /\ TailsZero(sched, procs) /\ Ranges(prio, idx, Scheduled)
      /\ CountsBounded(procs)
  BY <1>0, FitsUse
<1>2. PICK p \in Prios, k \in Nat, N \in Nat : p = prio[t] /\ k = idx[t] /\ N = procs[p]
  BY <1>1 DEF Ranges, CountsBounded
<1>3. N < MaxAtPrio /\ k < N
  <2>1. procs[p] < MaxAtPrio
    BY <1>0, RowsHaveRoom DEF FixedOK
  <2> QED BY <2>1, <1>1, <1>2 DEF ThreadsPlaced
<1> DEFINE sch == RowWithout(p, k)
           ix  == Renumbered(p, k)
           prc == ProcsWithout(p)
<1>4. \A i \in k .. N - 1 :
        i \in Slots /\ i + 1 \in Slots /\ Cell(p, i + 1) = sched[p][i + 1]
  <2>1. \A i \in k .. N - 1 : i \in Slots /\ i + 1 \in Slots /\ i + 1 < MaxAtPrio
    BY <1>3, SlotsAre, PoolAssumption
  <2> QED BY <2>1 DEF Cell
<1>5. \A i \in Slots : (k <= i /\ i < N) <=> i \in k .. N - 1
  BY SlotsAre
<1>6. /\ sch \in [Prios -> [Slots -> Tids]]
      /\ \A q \in Prios \ {p} : sch[q] = sched[q]
      /\ \A i \in Slots : sch[p][i] = IF k <= i /\ i < N THEN sched[p][i + 1]
                                                         ELSE sched[p][i]
  BY <1>0, <1>2, <1>4, <1>5 DEF RowWithout, Typed
<1>7. ASSUME NEW i \in Slots, k <= i, i + 1 < N
      PROVE  ix[sched[p][i + 1]] = i
  <2> DEFINE u == sched[p][i + 1]
             L == Landings(p, k, u)
  <2>1. i \in Nat /\ i \in k .. N - 1 /\ i + 1 \in Slots
    BY <1>4, <1>7, SlotsAre
  <2>2. u \in Tids /\ u # Root /\ idx[u] = i + 1
    BY <1>1, <1>2, <1>7, <2>1 DEF CellsNamed, Ranges
  <2>3. i \in L
    BY <1>2, <1>4, <2>1 DEF Landings
  <2>4. ASSUME NEW j \in L PROVE j = i
    <3>1. j \in k .. N - 1 /\ j + 1 \in Slots /\ sched[p][j + 1] = u /\ j \in Nat
      BY <1>2, <1>4, SlotsAre DEF Landings
    <3>2. j + 1 < N
      BY <3>1, <2>2, <1>1, <1>2 DEF TailsZero
    <3> QED BY <3>1, <3>2, <2>1, <2>2, <1>1, <1>2 DEF CellsNamed
  <2>5. ix[u] = IF L = {} THEN idx[u] ELSE Max(L)
    BY <2>2 DEF Renumbered
  <2>6. L = {i}
    BY <2>3, <2>4
  <2>7. Max({i}) = i
    BY <2>1, MaxOfOne
  <2> HIDE DEF L, ix
  <2> QED BY <2>5, <2>6, <2>7
<1>8. ASSUME NEW u \in Tids, \A i \in Slots : k <= i /\ i < N => sched[p][i + 1] # u
      PROVE  ix[u] = idx[u]
  <2>1. Landings(p, k, u) = {}
    BY <1>2, <1>4, <1>5, <1>8 DEF Landings
  <2> QED BY <2>1 DEF Renumbered
<1>9. ix \in [Tids -> Nat]
  <2> SUFFICES ASSUME NEW u \in Tids PROVE ix[u] \in Nat
    BY DEF Renumbered
  <2>1. CASE \A i \in Slots : k <= i /\ i < N => sched[p][i + 1] # u
    BY <2>1, <1>1, <1>8 DEF Ranges
  <2>2. CASE \E i \in Slots : k <= i /\ i + 1 < N /\ sched[p][i + 1] = u
    BY <2>2, <1>7, SlotsAre
  <2>3. CASE /\ \A i \in Slots : k <= i /\ i + 1 < N => sched[p][i + 1] # u
             /\ \E i \in Slots : k <= i /\ i < N /\ sched[p][i + 1] = u
    <3> DEFINE L == Landings(p, k, u)
    <3>1. \A i \in L : i = N - 1
      <4> SUFFICES ASSUME NEW i \in L PROVE i = N - 1
        OBVIOUS
      <4>1. i \in k .. N - 1 /\ i \in Slots /\ sched[p][i + 1] = u
        BY <1>2, <1>4 DEF Landings
      <4> QED BY <4>1, <2>3
    <3>2. \E i \in L : TRUE
      BY <1>2, <1>4, <1>5, <2>3 DEF Landings
    <3>3. ix[u] = IF L = {} THEN idx[u] ELSE Max(L)
      BY DEF Renumbered
    <3>4. L = {N - 1} /\ N - 1 \in Nat
      BY <1>3, <3>1, <3>2
    <3> HIDE DEF L, ix
    <3> QED BY <3>3, <3>4 DEF Max
  <2> QED BY <2>1, <2>2, <2>3, SlotsAre
<1>10. /\ prc \in [Prios -> Nat] /\ prc[p] = N - 1
       /\ \A q \in Prios \ {p} : prc[q] = procs[q]
  BY <1>0, <1>2, <1>3 DEF ProcsWithout, Typed
<1>11. Fits(sch, prio, ix, prc, Scheduled \ {t})
  <2>1. \A i \in Slots : k <= i /\ i + 1 < N => ix[sched[p][i + 1]] = i
    BY <1>7
  <2>2. \A u \in Tids : (\A i \in Slots : k <= i /\ i < N => sched[p][i + 1] # u)
                           => ix[u] = idx[u]
    BY <1>8
  <2>3. N < MaxAtPrio
    BY <1>3
  <2>4. GapClosed(sched, idx, procs, p, k, N, sch, ix, prc)
    BY <1>6, <1>10, <2>1, <2>2 DEF GapClosed
  <2> HIDE DEF sch, ix, prc
  <2> QED BY <1>0, <1>2, <2>3, <2>4, Closed
<1>12. Typed(sch, prio, ix, prc, Scheduled \ {t})
  BY <1>0, <1>6, <1>9, <1>10 DEF Typed
<1>13. CurrWithout(p) = curr
  BY <1>2 DEF CurrWithout, TableOK, TableTyped
<1> QED BY <1>2, <1>11, <1>12, <1>13

-----------------------------------------------------------------------------
(* The schedule side of a step.                                             *)
LEMMA SameTable ==
  ASSUME TableTyped, TableOK, UNCHANGED <<valid, limbo, prio, idx, table>>
  PROVE  TableTyped' /\ TableOK' /\ Scheduled' = Scheduled
<1>1. Scheduled' = Scheduled
  BY DEF Scheduled
<1>2. TableTyped'
  BY <1>1 DEF TableTyped, Typed, table
<1>3. ScheduleIntegrity'
  BY <1>1 DEF TableOK, ScheduleIntegrity, table
<1> QED BY <1>1, <1>2, <1>3 DEF TableOK, table

LEMMA BuryTable ==
  ASSUME TableTyped, TableOK, FixedOK, Discipline,
         NEW t \in Scheduled \ {Root}, Bury(t), limbo' = limbo,
         valid \in [Tids -> BOOLEAN]
  PROVE  TableTyped' /\ TableOK' /\ Scheduled' = Scheduled \ {t}
<1>1. Scheduled' = Scheduled \ {t}
  BY DEF Bury, Scheduled
<1>2. /\ Typed(sched', prio', idx', procs', Scheduled')
      /\ Fits(sched', prio', idx', procs', Scheduled')
      /\ curr' = curr
  BY <1>1, TableWithout DEF Bury
<1>3. ScheduleIntegrity'
  BY <1>2 DEF ScheduleIntegrity, Fits
<1>4. TableTyped'
  BY <1>2 DEF TableTyped
<1> QED BY <1>1, <1>2, <1>3, <1>4 DEF TableOK

LEMMA UnburiedTable ==
  ASSUME TableTyped, TableOK, Unburied, limbo' = limbo
  PROVE  TableTyped' /\ TableOK' /\ Scheduled' = Scheduled
BY SameTable DEF Unburied

(* The pool side of a step.                                                 *)
LEMMA OrphansTyped ==
  ASSUME PoolTyped, NEW t \in Tids
  PROVE  /\ GidWithout(t) \in [Tids -> Tids \cup {NoTid}]
         /\ NoChildsWithout(t) \in [Tids -> Int]
<1>1. Orphans(t) \subseteq Tids
  BY DEF Orphans, Children
<1>2. Cardinality(Orphans(t)) \in Nat
  BY <1>1, TidsFinite, FS_Subset, FS_CardinalityType
<1> QED BY <1>2 DEF PoolTyped, GidWithout, NoChildsWithout

LEMMA DetachKeeps ==
  ASSUME NEW st \in [Tids -> SUBSET Bits],
         NEW g \in [Tids -> Tids \cup {NoTid}], NEW nc \in [Tids -> Int],
         NEW ev \in [Tids -> Events], bon \in [Tids -> Tids \cup {NoTid}],
         NEW t \in Tids, NEW force \in BOOLEAN,
         DetachParent(t, force, st, g, nc, ev)
  PROVE  /\ state' \in [Tids -> SUBSET Bits] /\ event' \in [Tids -> Events]
         /\ bon' \in [Tids -> Tids \cup {NoTid}]
         /\ noChilds' \in [Tids -> Int] /\ gid' \in [Tids -> Tids \cup {NoTid}]
         /\ \A u \in Tids : state'[u] = st[u] \/ state'[u] = st[u] \ {"T"}
<1>1. g[t] # NoTid => g[t] \in Tids
  OBVIOUS
<1>2. \A u \in Tids : st[u] \subseteq Bits
  OBVIOUS
<1>3. "E_CHILDDEATH" \in Events
  BY DEF Events
<1>4. CASE JoinedBy(t, st, g)
  <2>1. PICK p \in Tids : p = g[t]
    BY <1>1, <1>4 DEF JoinedBy
  <2>2. /\ state' = [st EXCEPT ![p] = @ \ {"T"}]
        /\ event' = [ev EXCEPT ![p] = "E_CHILDDEATH"]
        /\ bon' = [bon EXCEPT ![p] = IF st[p] = {"T"} THEN NoTid ELSE t]
        /\ noChilds' = [nc EXCEPT ![p] = @ - 1]
        /\ gid' = [g EXCEPT ![t] = NoTid]
    BY <2>1, <1>4 DEF DetachParent, JoinedBy
  <2>3. state' \in [Tids -> SUBSET Bits]
        /\ \A u \in Tids : state'[u] = st[u] \/ state'[u] = st[u] \ {"T"}
    BY <2>1, <2>2, <1>2
  <2> QED BY <2>1, <2>2, <2>3, <1>3
<1>5. CASE ~JoinedBy(t, st, g)
  <2>1. /\ state' = st /\ event' = ev /\ bon' = bon
        /\ noChilds' = nc \/ (g[t] # NoTid /\ noChilds' = [nc EXCEPT ![g[t]] = @ - 1])
        /\ gid' = g \/ gid' = [g EXCEPT ![t] = NoTid]
    BY <1>5 DEF DetachParent
  <2>2. noChilds' \in [Tids -> Int]
    BY <2>1, <1>1
  <2> QED BY <2>1, <2>2
<1> QED BY <1>4, <1>5

(* The rest of the invariant, for the steps that neither create a thread    *)
(* nor finish a creation.                                                   *)
LEMMA ControlKept ==
  ASSUME FixedOK, LimboOK, CreateOK, PoolTyped,
         UNCHANGED <<making, procIdx, limbo>>,
         Root \in Scheduled', prio'[Root] = prio[Root],
         Idle \in Scheduled', prio'[Idle] = prio[Idle],
         \A u \in Tids : "Z" \in state[u] => "Z" \in state'[u],
         "Z" \notin state'[Root], state'[Idle] = Ready,
         \A u \in limbo : valid'[u] /\ state'[u] = Ready,
         \A u \in Tids : cont'[u] = "create" => cont[u] = "create"
  PROVE  FixedOK' /\ LimboOK' /\ CreateOK'
<1>1. FixedOK'
  BY DEF FixedOK
<1>2. LimboOK'
  BY DEF LimboOK
<1>3. \A u \in Tids : Creating(u)' => Creating(u)
  BY DEF Creating
<1>4. CreateOK'
  BY <1>3 DEF CreateOK
<1> QED BY <1>1, <1>2, <1>4

-----------------------------------------------------------------------------
(* One lemma per group of actions: the invariant is kept.                   *)
LEMMA Parts ==
  IInv <=> /\ TableTyped /\ PoolTyped /\ TableOK /\ FixedOK /\ LimboOK
           /\ ActiveOK /\ CreateOK
BY TypeParts DEF IInv

LEMMA PartsPrimed ==
  /\ TableTyped' /\ PoolTyped' /\ TableOK' /\ FixedOK' /\ LimboOK'
  /\ ActiveOK' /\ CreateOK'
  => IInv'
<1>1. TypeOK' <=> TableTyped' /\ PoolTyped'
  <2>1. Scheduled' \in SUBSET Tids
    BY DEF Scheduled
  <2> QED BY <2>1 DEF TypeOK, TableTyped, PoolTyped, Typed
<1> QED BY <1>1 DEF IInv

LEMMA UserIsScheduled ==
  ASSUME IInv, Caller
  PROVE  /\ active \in Scheduled /\ active \in Tids /\ active # Idle
         /\ "Z" \notin state[active] /\ active \notin limbo
BY Parts DEF ActiveOK, Caller, InUser, Scheduled

LEMMA FixedUse ==
  ASSUME IInv
  PROVE  /\ Root \in Tids /\ Idle \in Tids /\ Root # Idle
         /\ valid[Root] /\ valid[Idle] /\ Root \notin limbo /\ Idle \notin limbo
         /\ "Z" \notin state[Root] /\ state[Idle] = Ready
BY Parts, Constants DEF FixedOK, Scheduled

(* Steps that leave the pool and the schedule alone.                        *)
LEMMA StillSteps ==
  ASSUME IInv, UNCHANGED <<tcb, table, procIdx, inUse, making, limbo>>,
         active' \in Tids, phase' \in {"run", "yield", "exit"},
         scan' \in 0 .. MaxThreads,
         cont' \in [Tids -> {"user", "create", "join"}],
         \A u \in Tids : cont'[u] = "create" => cont[u] = "create",
         phase' = "run" => active' \in Scheduled /\ "Z" \notin state[active']
  PROVE  IInv'
<1>0. TableTyped /\ PoolTyped /\ TableOK /\ FixedOK /\ LimboOK /\ ActiveOK /\ CreateOK
  BY Parts
<1>1. TableTyped' /\ TableOK' /\ Scheduled' = Scheduled
  BY <1>0, SameTable DEF tcb, table
<1>2. PoolTyped'
  BY <1>0 DEF PoolTyped, tcb
<1>3. FixedOK' /\ LimboOK' /\ CreateOK'
  <2>1. state' = state /\ valid' = valid /\ prio' = prio
    BY DEF tcb
  <2>2. \A u \in limbo : valid'[u] /\ state'[u] = Ready
    BY <2>1, <1>0 DEF LimboOK
  <2> QED BY <1>0, <1>1, <2>1, <2>2, ControlKept DEF FixedOK
<1>4. ActiveOK'
  BY <1>1 DEF ActiveOK, tcb
<1> QED BY <1>1, <1>2, <1>3, <1>4, PartsPrimed

(* Steps into the yield that change nothing of the schedule.                *)
LEMMA BlockSteps ==
  ASSUME IInv, UNCHANGED <<valid, limbo, prio, idx, table, procIdx, inUse, making>>,
         NEW t \in Tids \ {Idle}, t \notin limbo,
         \A u \in Tids \ {t} : state'[u] = state[u],
         t = Root => "Z" \notin state'[t],
         "Z" \in state[t] => "Z" \in state'[t],
         PoolTyped', phase' # "run",
         \A u \in Tids : cont'[u] = "create" => cont[u] = "create"
  PROVE  IInv'
<1>0. TableTyped /\ PoolTyped /\ TableOK /\ FixedOK /\ LimboOK /\ ActiveOK /\ CreateOK
  BY Parts
<1>1. TableTyped' /\ TableOK' /\ Scheduled' = Scheduled
  BY <1>0, SameTable
<1>2. FixedOK' /\ LimboOK' /\ CreateOK'
  <2>1. \A u \in Tids : "Z" \in state[u] => "Z" \in state'[u]
    OBVIOUS
  <2>2. "Z" \notin state'[Root] /\ state'[Idle] = Ready
    BY FixedUse
  <2>3. \A u \in limbo : valid'[u] /\ state'[u] = Ready
    BY <1>0 DEF LimboOK, PoolTyped
  <2> QED BY <1>0, <1>1, <2>1, <2>2, <2>3, ControlKept DEF FixedOK
<1>3. ActiveOK'
  BY DEF ActiveOK
<1> QED BY <1>0, <1>1, <1>2, <1>3, PartsPrimed

LEMMA SleepStep == IInv /\ Sleep => IInv'
<1> SUFFICES ASSUME IInv, Sleep PROVE IInv'
  OBVIOUS
<1>1. active \in Tids /\ active # Idle /\ active \notin limbo /\ "Z" \notin state[active]
  BY UserIsScheduled DEF Sleep
<1>2. /\ state' = [state EXCEPT ![active] = @ \cup {"S"}]
      /\ phase' = "yield" /\ scan' = 0
      /\ UNCHANGED <<valid, gid, noChilds, prio, idx, bon, event, table, procIdx,
                     inUse, active, cont, making, limbo>>
  BY DEF Sleep, EnterYield, local
<1>3. PoolTyped
  BY Parts
<1>4. PoolTyped'
  BY <1>1, <1>2, <1>3, PoolAssumption DEF PoolTyped, Bits
<1>5. /\ \A u \in Tids \ {active} : state'[u] = state[u]
      /\ "Z" \notin state'[active]
  BY <1>1, <1>2, <1>3 DEF PoolTyped
<1> QED BY <1>1, <1>2, <1>4, <1>5, BlockSteps

LEMMA JoinBlockStep == ASSUME NEW t \in Tids PROVE IInv /\ JoinBlock(t) => IInv'
<1> SUFFICES ASSUME IInv, JoinBlock(t) PROVE IInv'
  OBVIOUS
<1>1. active \in Tids /\ active # Idle /\ active \notin limbo /\ "Z" \notin state[active]
  BY UserIsScheduled DEF JoinBlock
<1>2. /\ state' = [state EXCEPT ![active] = @ \cup {"T"}]
      /\ bon' = [bon EXCEPT ![active] = t]
      /\ cont' = [cont EXCEPT ![active] = "join"]
      /\ phase' = "yield" /\ scan' = 0
      /\ UNCHANGED <<valid, gid, noChilds, prio, idx, event, table, procIdx,
                     inUse, active, making, limbo>>
  BY DEF JoinBlock, EnterYield
<1>3. PoolTyped
  BY Parts
<1>4. PoolTyped'
  BY <1>1, <1>2, <1>3, PoolAssumption DEF PoolTyped, Bits
<1>5. /\ \A u \in Tids \ {active} : state'[u] = state[u]
      /\ "Z" \notin state'[active]
      /\ \A u \in Tids : cont'[u] = "create" => cont[u] = "create"
  BY <1>1, <1>2, <1>3 DEF PoolTyped
<1> QED BY <1>1, <1>2, <1>4, <1>5, BlockSteps

LEMMA ReturnStep == IInv /\ Return => IInv'
<1> SUFFICES ASSUME IInv, Return PROVE IInv'
  OBVIOUS
<1>1. active \in Tids /\ active # Idle /\ active \notin limbo /\ active # Root
  BY UserIsScheduled DEF Return
<1>2. /\ state' = [state EXCEPT ![active] = {"Z", "S"}]
      /\ gid' = GidWithout(active) /\ noChilds' = NoChildsWithout(active)
      /\ phase' = "yield" /\ scan' = 0
      /\ UNCHANGED <<valid, prio, idx, bon, event, table, procIdx,
                     inUse, active, cont, making, limbo>>
  BY DEF Return, EnterYield, local
<1>3. PoolTyped
  BY Parts
<1>4. PoolTyped'
  <2>1. gid' \in [Tids -> Tids \cup {NoTid}] /\ noChilds' \in [Tids -> Int]
    BY <1>1, <1>2, <1>3, OrphansTyped
  <2>2. state' \in [Tids -> SUBSET Bits]
    BY <1>1, <1>2, <1>3 DEF PoolTyped, Bits
  <2> QED BY <1>2, <1>3, <2>1, <2>2, PoolAssumption DEF PoolTyped
<1>5. /\ \A u \in Tids \ {active} : state'[u] = state[u]
      /\ "Z" \in state'[active]
  BY <1>1, <1>2, <1>3 DEF PoolTyped
<1> QED BY <1>1, <1>2, <1>4, <1>5, BlockSteps

LEMMA YieldSteps == IInv /\ (Yield \/ YieldEvent \/ RootReturn) => IInv'
<1> SUFFICES ASSUME IInv, Yield \/ YieldEvent \/ RootReturn PROVE IInv'
  OBVIOUS
<1>1. /\ UNCHANGED <<tcb, table, procIdx, inUse, making, limbo, active, cont>>
      /\ phase' \in {"yield", "exit"}
      /\ scan' \in {0, MaxThreads, scan}
  BY DEF Yield, YieldEvent, RootReturn, EnterYield, Stop, local
<1>2. PoolTyped
  BY Parts
<1> QED BY <1>1, <1>2, StillSteps, PoolAssumption DEF PoolTyped

LEMMA RefuseSteps ==
  ASSUME NEW p \in Prios
  PROVE  IInv /\ (RefuseCreate(p) \/ \E t \in Tids : RefuseSetPrio(t, p)) => IInv'
<1> SUFFICES ASSUME IInv, RefuseCreate(p) \/ \E t \in Tids : RefuseSetPrio(t, p)
             PROVE  IInv'
  OBVIOUS
<1>1. /\ UNCHANGED <<tcb, table, procIdx, inUse, making, limbo, active, cont>>
      /\ phase' = "exit" /\ scan' = scan
  BY DEF RefuseCreate, RefuseSetPrio, Stop, local
<1>2. PoolTyped
  BY Parts
<1> QED BY <1>1, <1>2, StillSteps, PoolAssumption DEF PoolTyped

LEMMA FinishJoinStep == IInv /\ FinishJoin => IInv'
<1> SUFFICES ASSUME IInv, FinishJoin PROVE IInv'
  OBVIOUS
<1>1. PoolTyped /\ ActiveOK
  BY Parts
<1>2. /\ UNCHANGED <<tcb, table, procIdx, inUse, making, limbo, active, phase, scan>>
      /\ cont' = [cont EXCEPT ![active] = "user"]
  BY DEF FinishJoin
<1>3. /\ cont' \in [Tids -> {"user", "create", "join"}]
      /\ \A u \in Tids : cont'[u] = "create" => cont[u] = "create"
  BY <1>1, <1>2 DEF PoolTyped
<1> QED BY <1>1, <1>2, <1>3, StillSteps DEF PoolTyped, ActiveOK

(* curr_idx stays 0, so the dispatcher reads each row from its start.       *)
LEMMA TurnIsCell ==
  ASSUME TableTyped, TableOK, NEW a \in Turns
  PROVE  /\ a[1] \in Prios /\ a[2] \in Slots /\ a[2] < procs[a[1]]
         /\ Turn(a[1], a[2]) = sched[a[1]][a[2]]
         /\ Turn(a[1], a[2]) \in Scheduled
         /\ prio[Turn(a[1], a[2])] = a[1]
<1>1. Fits(sched, prio, idx, procs, Scheduled) /\ Typed(sched, prio, idx, procs, Scheduled)
  BY IntegrityFits DEF TableOK, TableTyped
<1>2. CellsNamed(sched, prio, idx, procs, Scheduled) /\ CountsBounded(procs)
  BY <1>1, FitsUse
<1>3. PICK p \in Prios, k \in Nat : p = a[1] /\ k = a[2] /\ k < procs[p]
  BY <1>2 DEF Turns, CountsBounded
<1>4. k \in Slots /\ k < MaxAtPrio
  BY <1>2, <1>3, SlotsAre, PoolAssumption DEF CountsBounded
<1>5. curr[p] = 0
  BY DEF TableOK
<1>6. Turn(p, k) = sched[p][k]
  BY <1>3, <1>4, <1>5 DEF Turn, Cell
<1> QED BY <1>2, <1>3, <1>4, <1>6 DEF CellsNamed

LEMMA DispatchStep == IInv /\ Dispatch => IInv'
<1> SUFFICES ASSUME IInv, Dispatch PROVE IInv'
  OBVIOUS
<1>1. PoolTyped /\ TableTyped /\ TableOK /\ FixedOK
  BY Parts
<1>2. PICK t \in Tids : IsNextRunnable(t) /\ active' = t
  BY DEF Dispatch
<1>3. t \in Scheduled /\ state[t] = Ready
  <2>1. CASE \E a \in Turns : Runnable(a)
    <3>1. PICK a \in Turns : Runnable(a) /\ Turn(a[1], a[2]) = t
      BY <1>2, <2>1 DEF IsNextRunnable
    <3> QED BY <3>1, <1>1, TurnIsCell DEF Runnable
  <2>2. CASE ~ \E a \in Turns : Runnable(a)
    BY <1>1, <1>2, <2>2 DEF IsNextRunnable, FixedOK
  <2> QED BY <2>1, <2>2
<1>4. /\ UNCHANGED <<tcb, table, procIdx, inUse, making, limbo, cont>>
      /\ phase' = "run" /\ scan' = 0
  BY DEF Dispatch, local
<1> QED BY <1>1, <1>2, <1>3, <1>4, StillSteps, PoolAssumption DEF PoolTyped, Ready

(* The steps in which a thread lets go of its parent, and those in which it *)
(* is buried.                                                               *)
LEMMA DetachSteps ==
  ASSUME IInv, Discipline, NEW t \in Tids, NEW st \in [Tids -> SUBSET Bits],
         state' \in [Tids -> SUBSET Bits], event' \in [Tids -> Events],
         bon' \in [Tids -> Tids \cup {NoTid}],
         noChilds' \in [Tids -> Int], gid' \in [Tids -> Tids \cup {NoTid}],
         \A u \in Tids : state'[u] = st[u] \/ state'[u] = st[u] \ {"T"},
         \A u \in Tids : "Z" \in state[u] => "Z" \in st[u],
         \A u \in Tids \ {t} : st[u] \subseteq state[u],
         t \in {Root, Idle} \cup limbo => st[t] \subseteq state[t],
         \/ Unburied
         \/ Bury(t) /\ t \in Scheduled \ {Root, Idle},
         UNCHANGED <<procIdx, active, local>>,
         phase' \in {"run", "yield", "exit"}, scan' \in 0 .. MaxThreads,
         phase' = "run" => phase = "run" /\ (Unburied \/ active # t)
                           /\ "Z" \notin st[active]
  PROVE  IInv'
<1>0. TableTyped /\ PoolTyped /\ TableOK /\ FixedOK /\ LimboOK /\ ActiveOK /\ CreateOK
  BY Parts
<1>1. limbo' = limbo /\ cont' = cont /\ making' = making
  BY DEF local
<1>2. /\ TableTyped' /\ TableOK'
      /\ Scheduled' = Scheduled \/ (Bury(t) /\ Scheduled' = Scheduled \ {t})
      /\ prio' = prio /\ inUse' \in Int /\ valid' \in [Tids -> BOOLEAN]
      /\ Root \in Scheduled' /\ Idle \in Scheduled'
      /\ \A u \in limbo : valid'[u]
      /\ Unburied => Scheduled' = Scheduled
  <2>1. CASE Unburied
    <3>1. TableTyped' /\ TableOK' /\ Scheduled' = Scheduled
      BY <2>1, <1>0, <1>1, UnburiedTable
    <3> QED BY <3>1, <2>1, <1>0 DEF Unburied, PoolTyped, FixedOK, LimboOK
  <2>2. CASE Bury(t) /\ t \in Scheduled \ {Root, Idle}
    <3>1. TableTyped' /\ TableOK' /\ Scheduled' = Scheduled \ {t}
      BY <2>2, <1>0, <1>1, BuryTable DEF PoolTyped
    <3>2. valid' = [valid EXCEPT ![t] = FALSE] /\ inUse' = inUse - 1 /\ prio' = prio
      BY <2>2 DEF Bury
    <3>3. t \notin limbo
      BY <2>2 DEF Scheduled
    <3>4. ~Unburied
      BY <3>2, <2>2, <1>0 DEF Unburied, Scheduled, PoolTyped
    <3> QED BY <3>1, <3>2, <3>3, <3>4, <2>2, <1>0 DEF PoolTyped, FixedOK, LimboOK
  <2> QED BY <2>1, <2>2
<1>3. PoolTyped'
  BY <1>0, <1>1, <1>2 DEF PoolTyped
<1>4. FixedOK' /\ LimboOK' /\ CreateOK'
  <2>1. \A u \in Tids : "Z" \in state[u] => "Z" \in state'[u]
    OBVIOUS
  <2>2. \A u \in {Root, Idle} \cup limbo : u \in Tids /\ state'[u] \subseteq state[u]
    BY <1>0, Constants DEF PoolTyped
  <2>3. "Z" \notin state'[Root] /\ state'[Idle] = Ready
    BY <2>2, FixedUse DEF Ready
  <2>4. \A u \in limbo : valid'[u] /\ state'[u] = Ready
    BY <2>2, <1>0, <1>2 DEF LimboOK, Ready
  <2> QED BY <1>0, <1>1, <1>2, <2>1, <2>3, <2>4, ControlKept
<1>5. ActiveOK'
  <2> SUFFICES ASSUME phase' = "run"
               PROVE  active \in Scheduled' /\ "Z" \notin state'[active]
    BY DEF ActiveOK
  <2>1. active \in Scheduled /\ active \in Tids /\ "Z" \notin st[active]
    BY <1>0 DEF ActiveOK, Scheduled
  <2> QED BY <2>1, <1>2
<1> QED BY <1>2, <1>3, <1>4, <1>5, PartsPrimed

LEMMA JoinZombieStep ==
  ASSUME NEW t \in Tids PROVE IInv /\ Discipline /\ JoinZombie(t) => IInv'
<1> SUFFICES ASSUME IInv, Discipline, JoinZombie(t) PROVE IInv'
  OBVIOUS
<1>1. PoolTyped
  BY Parts
<1>2. /\ DetachParent(t, TRUE, state, gid, noChilds, event)
      /\ UNCHANGED <<valid, prio, idx, table, inUse, procIdx, active, phase, scan, local>>
      /\ Caller
  BY DEF JoinZombie
<1>3. /\ state' \in [Tids -> SUBSET Bits] /\ event' \in [Tids -> Events]
      /\ bon' \in [Tids -> Tids \cup {NoTid}]
      /\ noChilds' \in [Tids -> Int] /\ gid' \in [Tids -> Tids \cup {NoTid}]
      /\ \A u \in Tids : state'[u] = state[u] \/ state'[u] = state[u] \ {"T"}
  BY <1>1, <1>2, DetachKeeps DEF PoolTyped
<1>4. Unburied
  BY <1>2 DEF Unburied
<1>5. "Z" \notin state[active]
  BY <1>2, UserIsScheduled
<1> QED BY <1>1, <1>2, <1>3, <1>4, <1>5, DetachSteps DEF PoolTyped

LEMMA DeleteThreadStep ==
  ASSUME NEW t \in Tids PROVE IInv /\ Discipline /\ DeleteThread(t) => IInv'
<1> SUFFICES ASSUME IInv, Discipline, DeleteThread(t) PROVE IInv'
  OBVIOUS
<1> DEFINE st == [state EXCEPT ![t] = {"Z"}]
<1>1. PoolTyped
  BY Parts
<1>2. /\ DetachParent(t, FALSE, st, GidWithout(t), NoChildsWithout(t), event)
      /\ Bury(t) \/ Unburied
      /\ AfterDelete(t)
      /\ UNCHANGED <<procIdx, active, local>>
      /\ Caller
      /\ t \in Cancelled \ limbo /\ valid[t]
  BY DEF DeleteThread
<1>3. t \in Scheduled \ {Root, Idle} /\ t \notin {Root, Idle} \cup limbo
  BY <1>2, Constants DEF Scheduled, Discipline
<1>4. /\ st \in [Tids -> SUBSET Bits]
      /\ \A u \in Tids : "Z" \in state[u] => "Z" \in st[u]
      /\ \A u \in Tids \ {t} : st[u] = state[u]
  BY <1>1 DEF PoolTyped, Bits
<1>5. /\ GidWithout(t) \in [Tids -> Tids \cup {NoTid}]
      /\ NoChildsWithout(t) \in [Tids -> Int]
  BY <1>1, OrphansTyped
<1>6. bon \in [Tids -> Tids \cup {NoTid}] /\ event \in [Tids -> Events]
  BY <1>1 DEF PoolTyped
<1>7. /\ state' \in [Tids -> SUBSET Bits] /\ event' \in [Tids -> Events]
      /\ bon' \in [Tids -> Tids \cup {NoTid}]
      /\ noChilds' \in [Tids -> Int] /\ gid' \in [Tids -> Tids \cup {NoTid}]
      /\ \A u \in Tids : state'[u] = st[u] \/ state'[u] = st[u] \ {"T"}
  <2> HIDE DEF st
  <2> QED BY <1>2, <1>4, <1>5, <1>6, DetachKeeps
<1>8. /\ phase' \in {"run", "yield", "exit"} /\ scan' \in 0 .. MaxThreads
      /\ phase' = "run" => phase = "run" /\ active # t
  BY <1>1, <1>2, PoolAssumption DEF AfterDelete, EnterYield, PoolTyped, Caller, InUser
<1>9. phase' = "run" => "Z" \notin st[active]
  BY <1>2, <1>4, <1>8, UserIsScheduled
<1> HIDE DEF st
<1> QED BY <1>2, <1>3, <1>4, <1>7, <1>8, <1>9, DetachSteps

LEMMA DeleteZombieStep ==
  ASSUME NEW t \in Tids PROVE IInv /\ Discipline /\ DeleteZombie(t) => IInv'
<1> SUFFICES ASSUME IInv, Discipline, DeleteZombie(t) PROVE IInv'
  OBVIOUS
<1>1. PoolTyped
  BY Parts
<1>2. /\ Bury(t) /\ Caller
      /\ UNCHANGED <<state, gid, noChilds, bon, event, procIdx, active, phase, scan, local>>
      /\ t \in Cancelled \ limbo /\ valid[t] /\ "Z" \in state[t]
  BY DEF DeleteZombie
<1>3. t \in Scheduled \ {Root, Idle} /\ t \notin {Root, Idle} \cup limbo
  BY <1>2, Constants DEF Scheduled, Discipline
<1>4. active # t /\ "Z" \notin state[active]
  BY <1>2, UserIsScheduled
<1> QED BY <1>1, <1>2, <1>3, <1>4, DetachSteps DEF PoolTyped

LEMMA ScanStepStep ==
  ASSUME NEW due \in BOOLEAN PROVE IInv /\ Discipline /\ ScanStep(due) => IInv'
<1> SUFFICES ASSUME IInv, Discipline, ScanStep(due) PROVE IInv'
  OBVIOUS
<1> DEFINE woken == due /\ valid[scan] /\ "S" \in state[scan]
           st == IF woken THEN [state EXCEPT ![scan] = @ \ {"S"}] ELSE state
           ev == IF woken THEN [event EXCEPT ![scan] = "E_TIMER"] ELSE event
<1>1. PoolTyped /\ LimboOK
  BY Parts
<1>2. PICK t \in Tids : t = scan
  BY <1>1, PoolAssumption DEF ScanStep, PoolTyped, Tids
<1>3. /\ st \in [Tids -> SUBSET Bits] /\ ev \in [Tids -> Events]
      /\ \A u \in Tids : st[u] \subseteq state[u] /\ ("Z" \in state[u] => "Z" \in st[u])
  BY <1>1, <1>2 DEF PoolTyped, Bits, Events
<1>4. /\ phase = "yield" /\ phase' = phase /\ scan' = scan + 1 /\ scan < MaxThreads
      /\ UNCHANGED <<procIdx, active, local>>
      /\ IF valid[t] /\ "Z" \in st[t] /\ t # active
         THEN /\ DetachParent(t, FALSE, st, gid, noChilds, ev)
              /\ IF LetGo(t, st, gid) THEN Bury(t) ELSE Unburied
         ELSE /\ state' = st /\ event' = ev
              /\ UNCHANGED <<gid, noChilds, bon>>
              /\ Unburied
  BY <1>2 DEF ScanStep
<1> HIDE DEF st, ev
<1>5. scan' \in 0 .. MaxThreads
  BY <1>1, <1>4, PoolAssumption DEF PoolTyped
<1>6. CASE valid[t] /\ "Z" \in st[t] /\ t # active
  <2>1. "Z" \in state[t]
    BY <1>3, <1>6
  <2>2. t \notin limbo /\ t \notin {Root, Idle}
    BY <2>1, <1>1, FixedUse DEF LimboOK, Ready
  <2>3. t \in Scheduled \ {Root, Idle}
    BY <2>2, <1>6 DEF Scheduled
  <2>4. DetachParent(t, FALSE, st, gid, noChilds, ev) /\ (Bury(t) \/ Unburied)
    BY <1>4, <1>6
  <2>5. /\ state' \in [Tids -> SUBSET Bits] /\ event' \in [Tids -> Events]
        /\ bon' \in [Tids -> Tids \cup {NoTid}]
        /\ noChilds' \in [Tids -> Int] /\ gid' \in [Tids -> Tids \cup {NoTid}]
        /\ \A u \in Tids : state'[u] = st[u] \/ state'[u] = st[u] \ {"T"}
    BY <2>4, <1>1, <1>3, DetachKeeps DEF PoolTyped
  <2> QED BY <2>3, <2>4, <2>5, <1>3, <1>4, <1>5, DetachSteps
<1>7. CASE ~(valid[t] /\ "Z" \in st[t] /\ t # active)
  <2>1. state' = st /\ event' = ev /\ UNCHANGED <<gid, noChilds, bon>> /\ Unburied
    BY <1>4, <1>7
  <2> QED BY <2>1, <1>1, <1>3, <1>4, <1>5, DetachSteps DEF PoolTyped
<1> QED BY <1>6, <1>7

LEMMA SetPrioStep ==
  ASSUME NEW t \in Tids, NEW p \in Prios
  PROVE  IInv /\ Discipline /\ SetPrio(t, p) => IInv'
<1> SUFFICES ASSUME IInv, Discipline, SetPrio(t, p) PROVE IInv'
  OBVIOUS
<1> DEFINE q   == prio[t]
           sch == RowWithout(q, idx[t])
           ix  == Renumbered(q, idx[t])
           prc == ProcsWithout(q)
           S   == Scheduled \ {t}
<1>0. TableTyped /\ PoolTyped /\ TableOK /\ FixedOK /\ LimboOK /\ ActiveOK /\ CreateOK
  BY Parts
<1>1. /\ Caller /\ t \in Moved \ limbo /\ valid[t] /\ p # q /\ procs[p] < MaxAtPrio
      /\ sched' = WithCell(sch, p, procs[p], t)
      /\ idx' = [ix EXCEPT ![t] = procs[p]]
      /\ procs' = [prc EXCEPT ![p] = @ + 1]
      /\ curr' = CurrWithout(q)
      /\ prio' = [prio EXCEPT ![t] = p]
      /\ (phase' = "yield" /\ scan' = 0) \/ UNCHANGED <<phase, scan>>
      /\ UNCHANGED <<valid, state, gid, noChilds, bon, event, procIdx, inUse, active,
                     cont, making, limbo>>
  BY DEF SetPrio, EnterYield, local
<1>2. t \in Scheduled \ {Root, Idle} /\ Scheduled \in SUBSET Tids
  BY <1>1, Constants DEF Scheduled, Discipline
<1>3. /\ Typed(sch, prio, ix, prc, S) /\ Fits(sch, prio, ix, prc, S)
      /\ CurrWithout(q) = curr
  BY <1>0, <1>2, TableWithout
<1>4. prc[p] = procs[p]
  BY <1>0, <1>1 DEF ProcsWithout, TableTyped, Typed
<1> HIDE DEF sch, ix, prc
<1>5. sched' = [sch EXCEPT ![p][prc[p]] = t]
  BY <1>1, <1>4 DEF WithCell
<1>6. Fits(sched', prio', idx', procs', S \cup {t})
  <2>1. t \in Tids \ S /\ t # Root
    BY <1>2
  <2>2. Fits([sch EXCEPT ![p][prc[p]] = t], [prio EXCEPT ![t] = p],
             [ix EXCEPT ![t] = prc[p]], [prc EXCEPT ![p] = @ + 1], S \cup {t})
    <3> HIDE DEF S
    <3> QED BY <2>1, <1>1, <1>3, <1>4, Appended
  <2> QED BY <2>2, <1>1, <1>4, <1>5
<1>7. Scheduled' = Scheduled /\ S \cup {t} = Scheduled
  BY <1>1, <1>2 DEF Scheduled
<1>8. Typed(sched', prio', idx', procs', Scheduled')
  <2>1. procs[p] \in Slots
    BY <1>0, <1>1, SlotsAre DEF TableTyped, Typed
  <2> QED BY <2>1, <1>1, <1>2, <1>3, <1>4, <1>5, <1>7, SlotsAre DEF Typed
<1>9. TableTyped' /\ TableOK'
  <2>1. ScheduleIntegrity'
    BY <1>6, <1>7 DEF ScheduleIntegrity, Fits
  <2> QED BY <2>1, <1>0, <1>1, <1>3, <1>8 DEF TableTyped, TableOK
<1>10. PoolTyped'
  BY <1>0, <1>1, PoolAssumption DEF PoolTyped
<1>11. FixedOK' /\ LimboOK' /\ CreateOK'
  <2>1. prio'[Root] = prio[Root] /\ prio'[Idle] = prio[Idle]
    <3>1. prio \in [Tids -> Prios]
      BY <1>0 DEF TableTyped, Typed
    <3> QED BY <3>1, <1>1, <1>2, Constants
  <2> QED BY <2>1, <1>0, <1>1, <1>7, ControlKept DEF FixedOK, LimboOK
<1>12. ActiveOK'
  BY <1>0, <1>1, <1>7 DEF ActiveOK
<1> QED BY <1>9, <1>10, <1>11, <1>12, PartsPrimed

LEMMA FinishCreateStep == IInv /\ Discipline /\ FinishCreate => IInv'
<1> SUFFICES ASSUME IInv, Discipline, FinishCreate PROVE IInv'
  OBVIOUS
<1>0. TableTyped /\ PoolTyped /\ TableOK /\ FixedOK /\ LimboOK /\ ActiveOK /\ CreateOK
  BY Parts
<1>1. active \in Scheduled /\ active \in Tids /\ Creating(active)
      /\ Scheduled \in SUBSET Tids
  BY <1>0 DEF FinishCreate, ActiveOK, Creating, Scheduled
<1>2. PICK n \in Tids : n = procIdx /\ n = making[active] /\ n \in limbo
  BY <1>0, <1>1 DEF CreateOK, PoolTyped
<1>3. PICK p \in Prios : p = prio[n]
  BY <1>0 DEF TableTyped, Typed
<1>4. /\ phase = "run" /\ cont[active] = "create"
      /\ idx' = [idx EXCEPT ![n] = procs[p]]
      /\ sched' = WithCell(sched, p, procs[p], n)
      /\ procs' = [procs EXCEPT ![p] = @ + 1]
      /\ cont' = [cont EXCEPT ![active] = "user"]
      /\ making' = [making EXCEPT ![active] = NoTid]
      /\ limbo' = limbo \ {n}
      /\ UNCHANGED <<valid, state, gid, noChilds, prio, bon, event, curr,
                     procIdx, inUse, active, phase, scan>>
  BY <1>2, <1>3 DEF FinishCreate
<1>5. n \in Tids \ Scheduled /\ n # Root /\ n # Idle /\ valid[n]
  BY <1>0, <1>2, FixedUse DEF Scheduled, LimboOK
<1>6. Fits(sched, prio, idx, procs, Scheduled) /\ Typed(sched, prio, idx, procs, Scheduled)
  BY <1>0, IntegrityFits DEF TableOK, TableTyped
<1>7. procs[p] < MaxAtPrio
  BY <1>0, <1>6, RowsHaveRoom DEF FixedOK
<1>8. sched' = [sched EXCEPT ![p][procs[p]] = n]
  BY <1>4, <1>7 DEF WithCell
<1>9. prio' = [prio EXCEPT ![n] = p]
  BY <1>3, <1>4, <1>6 DEF Typed
<1>10. Scheduled' = Scheduled \cup {n}
  BY <1>2, <1>4, <1>5 DEF Scheduled
<1>11. Fits(sched', prio', idx', procs', Scheduled')
  <2>1. Fits([sched EXCEPT ![p][procs[p]] = n], [prio EXCEPT ![n] = p],
             [idx EXCEPT ![n] = procs[p]], [procs EXCEPT ![p] = @ + 1], Scheduled \cup {n})
    BY <1>5, <1>6, <1>7, Appended
  <2> QED BY <2>1, <1>4, <1>8, <1>9, <1>10
<1>12. Typed(sched', prio', idx', procs', Scheduled')
  <2>1. procs[p] \in Slots
    BY <1>6, <1>7, SlotsAre DEF Typed
  <2> QED BY <2>1, <1>1, <1>4, <1>6, <1>8, <1>10, SlotsAre DEF Typed
<1>13. TableTyped' /\ TableOK'
  <2>1. ScheduleIntegrity'
    BY <1>11 DEF ScheduleIntegrity, Fits
  <2> QED BY <2>1, <1>0, <1>4, <1>12 DEF TableTyped, TableOK
<1>14. PoolTyped'
  BY <1>0, <1>4 DEF PoolTyped
<1>15. FixedOK' /\ LimboOK' /\ ActiveOK'
  BY <1>0, <1>4, <1>10 DEF FixedOK, LimboOK, ActiveOK
<1>16. CreateOK'
  <2>1. ASSUME NEW u \in Tids PROVE ~Creating(u)'
    <3>1. CASE u = active
      BY <3>1, <1>0, <1>1, <1>4 DEF Creating, PoolTyped
    <3>2. CASE u # active
      <4>1. Creating(u)' => Creating(u)
        BY <3>2, <1>0, <1>4 DEF Creating, PoolTyped
      <4> QED BY <4>1, <3>2, <1>0, <1>1 DEF CreateOK
    <3> QED BY <3>1, <3>2
  <2> QED BY <2>1 DEF CreateOK
<1> QED BY <1>13, <1>14, <1>15, <1>16, PartsPrimed

LEMMA CreateThreadStep ==
  ASSUME NEW p \in Prios PROVE IInv /\ Discipline /\ CreateThread(p) => IInv'
<1> SUFFICES ASSUME IInv, Discipline, CreateThread(p) PROVE IInv'
  OBVIOUS
<1>0. TableTyped /\ PoolTyped /\ TableOK /\ FixedOK /\ LimboOK /\ ActiveOK /\ CreateOK
  BY Parts
<1>1. PICK n \in Tids :
        /\ ~valid[n]
        /\ procIdx' = n
        /\ valid' = [valid EXCEPT ![n] = TRUE]
        /\ state' = [state EXCEPT ![n] = Ready]
        /\ bon' = [bon EXCEPT ![n] = NoTid]
        /\ gid' = [gid EXCEPT ![n] = active]
        /\ noChilds' = [noChilds EXCEPT ![n] = 0, ![active] = @ + 1]
        /\ prio' = [prio EXCEPT ![n] = p]
        /\ idx' = [idx EXCEPT ![n] = procs[p]]
        /\ event' = [event EXCEPT ![n] = "E_NONE"]
        /\ cont' = [cont EXCEPT ![n] = "user", ![active] = "create"]
        /\ making' = [making EXCEPT ![active] = n]
        /\ limbo' = limbo \cup {n}
        /\ active' = n
  BY DEF CreateThread, IsNextFree
<1>2. /\ Caller /\ MayCreate /\ inUse' = inUse + 1
      /\ phase' = "yield" /\ scan' = 0 /\ UNCHANGED <<sched, procs, curr>>
  BY DEF CreateThread, EnterYield, table
<1>3. active \in Tids /\ active \in Scheduled /\ active # n
      /\ n \notin Scheduled /\ n \notin limbo /\ n # Root /\ n # Idle
  BY <1>0, <1>1, <1>2, UserIsScheduled, FixedUse DEF Scheduled, LimboOK
<1>4. Scheduled' = Scheduled
  BY <1>0, <1>1, <1>3 DEF Scheduled, PoolTyped
<1>5. Fits(sched, prio, idx, procs, Scheduled) /\ Typed(sched, prio, idx, procs, Scheduled)
  BY <1>0, IntegrityFits DEF TableOK, TableTyped
<1>6. \A t \in Scheduled : prio'[t] = prio[t] /\ idx'[t] = idx[t]
  <2>1. prio \in [Tids -> Prios] /\ idx \in [Tids -> Nat] /\ Scheduled \subseteq Tids
    BY <1>5 DEF Typed
  <2> QED BY <2>1, <1>1, <1>3
<1>7. Fits(sched', prio', idx', procs', Scheduled')
  BY <1>2, <1>4, <1>5, <1>6, Elsewhere
<1>8. Typed(sched', prio', idx', procs', Scheduled')
  BY <1>1, <1>2, <1>4, <1>5 DEF Typed
<1>9. TableTyped' /\ TableOK'
  <2>1. ScheduleIntegrity'
    BY <1>7 DEF ScheduleIntegrity, Fits
  <2> QED BY <2>1, <1>0, <1>2, <1>8 DEF TableTyped, TableOK
<1>10. PoolTyped'
  BY <1>0, <1>1, <1>2, <1>3, PoolAssumption DEF PoolTyped, Ready, Bits, Events
<1>11. FixedOK'
  BY <1>0, <1>1, <1>3, <1>4, <1>6, Constants DEF FixedOK, PoolTyped
<1>12. LimboOK'
  BY <1>0, <1>1 DEF LimboOK, PoolTyped
<1>13. ActiveOK'
  BY <1>2 DEF ActiveOK
<1>14. CreateOK'
  <2>1. ASSUME NEW u \in Tids, Creating(u)' PROVE u = active
    <3>1. u # n
      BY <2>1, <1>0, <1>1, <1>3 DEF Creating, PoolTyped
    <3>2. CASE u # active
      <4>1. cont[u] = "create" /\ "Z" \notin state[u]
        BY <2>1, <3>1, <3>2, <1>0, <1>1 DEF Creating, PoolTyped
      <4> QED BY <4>1, <1>2 DEF MayCreate, Discipline
    <3> QED BY <3>2
  <2>2. making'[active] = procIdx' /\ procIdx' \in limbo'
    BY <1>0, <1>1, <1>3 DEF PoolTyped
  <2> QED BY <2>1, <2>2 DEF CreateOK
<1> QED BY <1>9, <1>10, <1>11, <1>12, <1>13, <1>14, PartsPrimed

-----------------------------------------------------------------------------
LEMMA InitIInv == Init => IInv
<1> SUFFICES ASSUME Init PROVE IInv
  OBVIOUS
<1>1. Scheduled = {Root, Idle} /\ Root = 0 /\ Idle = 1
  BY Constants DEF Init, Scheduled, Root, Idle
<1>2. \A p \in Prios : procs[p] = IF p \in {0, MaxPrio - 1} THEN 1 ELSE 0
  BY DEF Init
<1>3. \A p \in Prios, i \in Slots :
        sched[p][i] = IF p = MaxPrio - 1 /\ i = 0 THEN Idle ELSE 0
  BY DEF Init
<1>4. /\ prio[Root] = 0 /\ prio[Idle] = MaxPrio - 1 /\ idx[Root] = 0 /\ idx[Idle] = 0
      /\ state[Root] = Ready /\ state[Idle] = Ready
  BY Constants DEF Init
<1>5. ScheduleIntegrity
  <2>1. \A p \in Prios : procs[p] <= MaxAtPrio
    BY <1>2, PoolAssumption
  <2>2. ASSUME NEW p \in Prios, NEW i \in Slots
        PROVE  IF i < procs[p]
               THEN /\ sched[p][i] \in Scheduled /\ prio[sched[p][i]] = p
                    /\ IF sched[p][i] = Root THEN i = 0 ELSE idx[sched[p][i]] = i
               ELSE sched[p][i] = 0
    <3>1. i \in Nat /\ (i < procs[p] => i = 0 /\ p \in {0, MaxPrio - 1})
      BY <1>2, SlotsAre
    <3>2. CASE i < procs[p]
      BY <3>1, <3>2, <1>1, <1>3, <1>4, Constants
    <3>3. CASE ~(i < procs[p])
      BY <3>1, <3>3, <1>2, <1>3
    <3> QED BY <3>2, <3>3
  <2>3. procs[0] >= 1 /\ sched[0][0] = Root
    <3>1. 0 \in Prios /\ 0 \in Slots
      BY Constants
    <3>2. procs[0] = 1
      BY <3>1, <1>2
    <3>3. sched[0][0] = 0
      BY <3>1, <1>3, Constants
    <3> QED BY <3>2, <3>3, <1>1
  <2>4. idx[Idle] < procs[prio[Idle]] /\ sched[prio[Idle]][idx[Idle]] = Idle
    BY <1>2, <1>3, <1>4, Constants
  <2> QED BY <2>1, <2>2, <2>3, <2>4, <1>1 DEF ScheduleIntegrity
<1>6. PoolTyped
  BY Constants, PoolAssumption
  DEF Init, PoolTyped, Ready, Bits, Events, Root, Idle, Tids
<1>7. TableTyped
  BY <1>1, Constants, PoolAssumption DEF Init, TableTyped, Typed
<1>8. LimboOK /\ ActiveOK /\ CreateOK /\ \A p \in Prios : curr[p] = 0
  BY <1>1, <1>4 DEF Init, LimboOK, ActiveOK, CreateOK, Creating, Ready
<1> QED BY <1>1, <1>4, <1>5, <1>6, <1>7, <1>8, Parts DEF TableOK, FixedOK, Ready

LEMMA StepIInv == IInv /\ Discipline /\ [Next]_vars => IInv'
<1> SUFFICES ASSUME IInv, Discipline, [Next]_vars PROVE IInv'
  OBVIOUS
<1>1. CASE FinishCreate
  BY <1>1, FinishCreateStep
<1>2. CASE FinishJoin
  BY <1>2, FinishJoinStep
<1>3. CASE ScanStep(TRUE) \/ ScanStep(FALSE)
  BY <1>3, ScanStepStep
<1>4. CASE Dispatch
  BY <1>4, DispatchStep
<1>5. CASE Sleep
  BY <1>5, SleepStep
<1>6. CASE Yield \/ YieldEvent \/ RootReturn
  BY <1>6, YieldSteps
<1>7. CASE Return
  BY <1>7, ReturnStep
<1>8. ASSUME NEW p \in Prios, CreateThread(p) \/ RefuseCreate(p) PROVE IInv'
  BY <1>8, CreateThreadStep, RefuseSteps
<1>9. ASSUME NEW t \in Tids, JoinZombie(t) \/ JoinBlock(t) \/ DeleteThread(t) \/ DeleteZombie(t)
      PROVE  IInv'
  BY <1>9, JoinZombieStep, JoinBlockStep, DeleteThreadStep, DeleteZombieStep
<1>10. ASSUME NEW t \in Tids, NEW p \in Prios, SetPrio(t, p) \/ RefuseSetPrio(t, p)
       PROVE  IInv'
  BY <1>10, SetPrioStep, RefuseSteps
<1>11. CASE UNCHANGED vars
  <2>1. PoolTyped /\ ActiveOK
    BY Parts
  <2> QED BY <2>1, <1>11, StillSteps DEF vars, local, PoolTyped, ActiveOK
<1> QED BY <1>1, <1>2, <1>3, <1>4, <1>5, <1>6, <1>7, <1>8, <1>9, <1>10, <1>11
        DEF Next, Kernel

(* The inductive invariant of the disciplined system.                       *)
THEOREM Invariance == ASSUME Discipline PROVE Spec => []IInv
<1>1. Init => IInv
  BY InitIInv
<1>2. IInv /\ [Next]_vars => IInv'
  BY StepIInv
<1> QED BY <1>1, <1>2, PTL DEF Spec

(* Every variable of the kernel keeps its type: no index of the pool or of  *)
(* the schedule that tk.c computes is out of range.                         *)
THEOREM TypeCorrect == ASSUME Discipline PROVE Spec => []TypeOK
<1>1. IInv => TypeOK
  BY DEF IInv
<1> QED BY <1>1, Invariance, PTL

(* The schedule and the pool agree at every step, for every size of both:   *)
(* what tk_create_thread, tk_delete_thread, tk_change_prio and the scan of  *)
(* tk_yield do to one they do to the other.                                 *)
THEOREM ScheduleSound == ASSUME Discipline PROVE Spec => []ScheduleIntegrity
<1>1. IInv => ScheduleIntegrity
  BY DEF IInv, TableOK
<1> QED BY <1>1, Invariance, PTL

-----------------------------------------------------------------------------
LEMMA OnlyDispatchRuns == Next /\ phase = "yield" /\ phase' = "run" => Dispatch
BY DEF Next, Kernel, FinishCreate, FinishJoin, ScanStep, Dispatch, Sleep, Yield,
       YieldEvent, Return, RootReturn, CreateThread, RefuseCreate, JoinZombie,
       JoinBlock, DeleteThread, DeleteZombie, SetPrio, RefuseSetPrio, Caller, InUser

LEMMA DispatchedIsHighest ==
  ASSUME IInv, Dispatch
  PROVE  /\ valid[active'] /\ state[active'] = Ready
         /\ \A t \in Scheduled : state[t] = Ready => prio[active'] <= prio[t]
<1>0. TableTyped /\ TableOK /\ FixedOK /\ PoolTyped
  BY Parts
<1>1. PICK n \in Tids : IsNextRunnable(n) /\ active' = n
  BY DEF Dispatch
<1>2. ASSUME NEW t \in Scheduled, state[t] = Ready
      PROVE  \E b \in Turns : Runnable(b) /\ b[1] = prio[t]
  <2>1. Fits(sched, prio, idx, procs, Scheduled)
        /\ Typed(sched, prio, idx, procs, Scheduled)
    BY <1>0, IntegrityFits DEF TableOK, TableTyped
  <2>2. /\ ThreadsPlaced(sched, prio, idx, procs, Scheduled)
        /\ CellsNamed(sched, prio, idx, procs, Scheduled)
        /\ Ranges(prio, idx, Scheduled) /\ CountsBounded(procs)
    BY <2>1, FitsUse
  <2>3. PICK p \in Prios, k \in Slots :
          p = prio[t] /\ k < procs[p] /\ sched[p][k] = t
    <3>1. CASE t = Root
      <4>1. prio[t] = 0 /\ procs[0] >= 1 /\ sched[0][0] = Root
        BY <3>1, <2>1, <1>0 DEF FixedOK, Fits
      <4>2. 0 \in Prios /\ 0 \in Slots /\ procs[0] \in Nat
        BY <2>2, Constants DEF CountsBounded
      <4> QED BY <4>1, <4>2, <3>1
    <3>2. CASE t # Root
      BY <3>2, <2>2 DEF ThreadsPlaced, Ranges
    <3> QED BY <3>1, <3>2
  <2> DEFINE b == <<p, k>>
  <2>4. b \in Turns
    <3>1. k \in 0 .. procs[p] - 1
      BY <2>2, <2>3, SlotsAre DEF CountsBounded
    <3> QED BY <3>1 DEF Turns
  <2>5. b[1] = p /\ b[2] = k
    OBVIOUS
  <2> HIDE DEF b
  <2>6. Turn(b[1], b[2]) = t
    BY <2>3, <2>4, <2>5, <1>0, TurnIsCell
  <2> QED BY <2>3, <2>4, <2>5, <2>6, <1>2 DEF Runnable
<1>3. CASE \E a \in Turns : Runnable(a)
  <2>1. PICK a \in Turns :
          /\ Runnable(a) /\ Turn(a[1], a[2]) = n
          /\ \A b \in Turns : Before(b, a) => ~Runnable(b)
    BY <1>1, <1>3 DEF IsNextRunnable
  <2>2. /\ n \in Scheduled /\ state[n] = Ready /\ prio[n] = a[1]
        /\ a[1] \in Prios
    BY <2>1, <1>0, TurnIsCell DEF Runnable
  <2>3. ASSUME NEW t \in Scheduled, state[t] = Ready PROVE prio[n] <= prio[t]
    <3>1. PICK b \in Turns : Runnable(b) /\ b[1] = prio[t]
      BY <2>3, <1>2
    <3>2. b[1] \in Prios /\ ~(b[1] < a[1])
      BY <3>1, <2>1, <1>0, TurnIsCell DEF Before
    <3> QED BY <3>1, <3>2, <2>2 DEF Prios
  <2> QED BY <1>1, <2>2, <2>3 DEF Scheduled
<1>4. CASE ~ \E a \in Turns : Runnable(a)
  <2>1. n = Idle /\ Idle \in Scheduled /\ state[Idle] = Ready
    BY <1>0, <1>1, <1>4 DEF IsNextRunnable, FixedOK
  <2> QED BY <2>1, <1>1, <1>2, <1>4 DEF Scheduled
<1> QED BY <1>3, <1>4

(* The dispatcher of tk_yield never passes over a READY thread of higher    *)
(* priority, and what it runs is alive and READY.                           *)
THEOREM DispatchHighest == ASSUME Discipline PROVE Spec => DispatchIsHighest
<1>1. ASSUME IInv, [Next]_vars
      PROVE  [phase = "yield" /\ phase' = "run" =>
               /\ valid[active'] /\ state[active'] = Ready
               /\ \A t \in Scheduled : state[t] = Ready =>
                                       prio[active'] <= prio[t]]_vars
  BY <1>1, OnlyDispatchRuns, DispatchedIsHighest DEF vars
<1> QED BY <1>1, Invariance, PTL DEF Spec, DispatchIsHighest

(* A thread that leaves the pool is one that the schedule knows.            *)
LEMMA OnlyBuryFrees ==
  ASSUME IInv, Discipline, Next, NEW t \in Tids, valid[t], ~valid'[t]
  PROVE  t \in Scheduled \ {Root}
<1>0. PoolTyped /\ LimboOK
  BY Parts
<1>1. CASE \E due \in BOOLEAN : ScanStep(due)
  <2>1. PICK due \in BOOLEAN : ScanStep(due)
    BY <1>1
  <2>2. t = scan
    <3>1. Bury(scan) \/ Unburied
      BY <2>1 DEF ScanStep
    <3> QED BY <3>1, <1>0 DEF Bury, Unburied, PoolTyped
  <2>3. "Z" \in state[t]
    <3>1. ~Unburied
      BY <1>0 DEF Unburied, PoolTyped
    <3> QED BY <2>1, <2>2, <3>1, <1>0 DEF ScanStep, PoolTyped
  <2> QED BY <2>3, <1>0, FixedUse DEF LimboOK, Ready, Scheduled
<1>2. CASE \E u \in Tids : DeleteThread(u) \/ DeleteZombie(u)
  <2>1. PICK u \in Tids : DeleteThread(u) \/ DeleteZombie(u)
    BY <1>2
  <2>2. u \in Cancelled \ limbo /\ (Bury(u) \/ Unburied)
    BY <2>1 DEF DeleteThread, DeleteZombie
  <2>3. t = u
    BY <2>2, <1>0 DEF Bury, Unburied, PoolTyped
  <2> QED BY <2>2, <2>3 DEF Discipline, Scheduled
<1>3. CASE \E p \in Prios : CreateThread(p)
  <2>1. PICK p \in Prios, n \in Tids : valid' = [valid EXCEPT ![n] = TRUE]
    BY <1>3 DEF CreateThread
  <2> QED BY <2>1, <1>0 DEF PoolTyped
<1>4. CASE \/ FinishCreate \/ FinishJoin \/ Dispatch
           \/ Sleep \/ Yield \/ YieldEvent \/ Return \/ RootReturn
           \/ \E p \in Prios : RefuseCreate(p)
           \/ \E u \in Tids : JoinZombie(u) \/ JoinBlock(u)
           \/ \E u \in Tids, p \in Prios : SetPrio(u, p) \/ RefuseSetPrio(u, p)
  <2>1. valid' = valid
    BY <1>4 DEF FinishCreate, FinishJoin, Dispatch, Sleep, Yield, YieldEvent,
                Return, RootReturn, RefuseCreate, JoinZombie, JoinBlock, SetPrio,
                RefuseSetPrio, tcb
  <2> QED BY <2>1
<1> QED BY <1>1, <1>2, <1>3, <1>4 DEF Next, Kernel

LEMMA ThreadHasCell ==
  ASSUME IInv, NEW t \in Scheduled \ {Root}
  PROVE  Cell(prio[t], idx[t]) = t
<1>1. Fits(sched, prio, idx, procs, Scheduled)
      /\ Typed(sched, prio, idx, procs, Scheduled)
  BY Parts, IntegrityFits DEF TableOK, TableTyped
<1>2. ThreadsPlaced(sched, prio, idx, procs, Scheduled)
  BY <1>1, FitsUse
<1> QED BY <1>2, SlotsAre DEF ThreadsPlaced, Cell

(* assert(__tk_schedule[Prio][Idx] == Thid) in tk_delete_thread never fails *)
(* for disciplined clients.                                                 *)
THEOREM BuryAsserted == ASSUME Discipline PROVE Spec => BuryAssert
<1>1. ASSUME IInv, [Next]_vars
      PROVE  [\A t \in Tids : valid[t] /\ ~valid'[t] =>
                Cell(prio[t], idx[t]) = t]_vars
  <2> SUFFICES ASSUME Next, NEW t \in Tids, valid[t], ~valid'[t]
               PROVE  Cell(prio[t], idx[t]) = t
    BY <1>1 DEF vars
  <2> QED BY <1>1, OnlyBuryFrees, ThreadHasCell
<1> QED BY <1>1, Invariance, PTL DEF Spec, BuryAssert

-----------------------------------------------------------------------------
(* The count of threads, for any client whatever.                           *)
CInv == valid \in [Tids -> BOOLEAN] /\ scan \in 0 .. MaxThreads /\ CountOK

LEMMA CountStep == CInv /\ [Next]_vars => CInv'
<1> SUFFICES ASSUME CInv, [Next]_vars PROVE CInv'
  OBVIOUS
<1> DEFINE Live == {u \in Tids : valid[u]}
<1>0. IsFiniteSet(Live) /\ Cardinality(Live) \in Nat /\ inUse = Cardinality(Live)
  BY TidsFinite, FS_Subset, FS_CardinalityType DEF CInv, CountOK
<1>1. ASSUME NEW t \in Tids, valid[t], Bury(t), scan' \in 0 .. MaxThreads
      PROVE  CInv'
  <2>1. valid' = [valid EXCEPT ![t] = FALSE] /\ inUse' = inUse - 1
    BY <1>1 DEF Bury
  <2>2. {u \in Tids : valid'[u]} = Live \ {t} /\ t \in Live
    BY <2>1, <1>1 DEF CInv
  <2>3. Cardinality(Live \ {t}) = Cardinality(Live) - 1
    BY <1>0, <2>2, FS_RemoveElement
  <2> QED BY <2>1, <2>2, <2>3, <1>0, <1>1 DEF CInv, CountOK
<1>2. ASSUME valid' = valid, inUse' = inUse, scan' \in 0 .. MaxThreads
      PROVE  CInv'
  BY <1>2 DEF CInv, CountOK
<1>3. CASE \E p \in Prios : CreateThread(p)
  <2>1. PICK n \in Tids : /\ ~valid[n] /\ valid' = [valid EXCEPT ![n] = TRUE]
                          /\ inUse' = inUse + 1 /\ scan' = 0
    BY <1>3 DEF CreateThread, IsNextFree, EnterYield
  <2>2. {u \in Tids : valid'[u]} = Live \cup {n} /\ n \notin Live
    BY <2>1 DEF CInv
  <2>3. Cardinality(Live \cup {n}) = Cardinality(Live) + 1
    BY <1>0, <2>2, FS_AddElement
  <2> QED BY <2>1, <2>2, <2>3, <1>0, PoolAssumption DEF CInv, CountOK
<1>4. CASE \E due \in BOOLEAN : ScanStep(due)
  <2>1. PICK t \in Tids : t = scan
    BY <1>4, PoolAssumption DEF CInv, ScanStep, Tids
  <2>2. scan' \in 0 .. MaxThreads
    BY <1>4, PoolAssumption DEF CInv, ScanStep
  <2>3. (valid[t] /\ Bury(t)) \/ Unburied
    BY <1>4, <2>1 DEF ScanStep
  <2> QED BY <2>2, <2>3, <1>1, <1>2 DEF Unburied
<1>5. CASE \E t \in Tids : DeleteThread(t) \/ DeleteZombie(t)
  <2>1. PICK t \in Tids : DeleteThread(t) \/ DeleteZombie(t)
    BY <1>5
  <2>2. valid[t] /\ (Bury(t) \/ Unburied)
    BY <2>1 DEF DeleteThread, DeleteZombie
  <2>3. scan' \in {0, scan}
    BY <2>1 DEF DeleteThread, DeleteZombie, AfterDelete, EnterYield
  <2> QED BY <2>2, <2>3, <1>1, <1>2, PoolAssumption DEF Unburied, CInv
<1>6. CASE \/ FinishCreate \/ FinishJoin \/ Dispatch
           \/ Sleep \/ Yield \/ YieldEvent \/ Return \/ RootReturn
           \/ \E p \in Prios : RefuseCreate(p)
           \/ \E u \in Tids : JoinZombie(u) \/ JoinBlock(u)
           \/ \E u \in Tids, p \in Prios : SetPrio(u, p) \/ RefuseSetPrio(u, p)
           \/ UNCHANGED vars
  <2>1. valid' = valid /\ inUse' = inUse /\ scan' \in {0, MaxThreads, scan}
    BY <1>6 DEF FinishCreate, FinishJoin, Dispatch, Sleep, Yield, YieldEvent,
                Return, RootReturn, RefuseCreate, JoinZombie, JoinBlock, SetPrio,
                RefuseSetPrio, EnterYield, Stop, tcb, vars
  <2> QED BY <2>1, <1>2, PoolAssumption DEF CInv
<1> QED BY <1>3, <1>4, <1>5, <1>6 DEF Next, Kernel

(* __tk_procs_in_use counts the slots in use, so that tk_create_thread      *)
(* refuses exactly when its search for a free slot would not end.           *)
THEOREM CountSound == Spec => []CountOK
<1>1. Init => CInv
  <2> SUFFICES ASSUME Init PROVE CInv
    OBVIOUS
  <2>1. {u \in Tids : valid[u]} = {Root, Idle}
    BY Constants DEF Init
  <2>2. Cardinality({Root, Idle}) = 2
    <3>1. IsFiniteSet({Root}) /\ Cardinality({Root}) = 1 /\ Idle \notin {Root}
      BY Constants, FS_Singleton
    <3>2. Cardinality({Root} \cup {Idle}) = 1 + 1
      BY <3>1, FS_AddElement
    <3> QED BY <3>2
  <2>3. valid \in [Tids -> BOOLEAN] /\ scan = 0 /\ inUse = 2
    BY DEF Init
  <2> QED BY <2>1, <2>2, <2>3, PoolAssumption DEF CInv, CountOK
<1>2. CInv => CountOK
  BY DEF CInv
<1> QED BY <1>1, <1>2, CountStep, PTL DEF Spec
-----------------------------------------------------------------------------
(* Parents, children and joiners, on any values of the pool's fields.       *)
KidsOf(v, g, t) == {c \in Tids : v[c] /\ g[c] = t /\ c # t}

(* FamilyOK, with the parents of root and idle fixed and no other thread    *)
(* its own parent.                                                          *)
Family(v, st, g, nc) ==
  /\ g[Root] = Root /\ g[Idle] = Idle
  /\ \A t \in Tids \ {Root, Idle} : v[t] =>
       g[t] # t /\ (g[t] # NoTid => v[g[t]] /\ "Z" \notin st[g[t]])
  /\ \A t \in Tids : v[t] => nc[t] = Cardinality(KidsOf(v, g, t))

(* JoinOK of the living, and what keeps the event of a joiner: it does not  *)
(* sleep at the same time.  The dead wait for nobody.                       *)
Joiner(v, st, g, b, ev, c, t) ==
  /\ "Z" \in st[t] => "T" \notin st[t]
  /\ "T" \in st[t] => c[t] = "join" /\ b[t] # NoTid /\ v[b[t]] /\ g[b[t]] = t
  /\ "Z" \notin st[t] /\ c[t] = "join" =>
       "S" \notin st[t] /\ ("T" \in st[t] \/ ev[t] = "E_CHILDDEATH")
Waiting(v, st, g, b, ev, c) ==
  \A t \in Tids : v[t] => Joiner(v, st, g, b, ev, c, t)

KinOK == Family(valid, state, gid, noChilds)
WaitOK == Waiting(valid, state, gid, bon, event, cont)
RunOK == phase = "run" => state[active] = Ready
FInv == KinOK /\ WaitOK /\ RunOK
LEMMA KidsFinite ==
  ASSUME NEW v, NEW g, NEW t
  PROVE  /\ IsFiniteSet(KidsOf(v, g, t)) /\ Cardinality(KidsOf(v, g, t)) \in Nat
         /\ KidsOf(v, g, t) \subseteq Tids
<1>1. KidsOf(v, g, t) \subseteq Tids
  BY DEF KidsOf
<1> QED BY <1>1, TidsFinite, FS_Subset, FS_CardinalityType

(* The children of a thread other than root and idle, which are their own.  *)
LEMMA ChildrenAre ==
  ASSUME KinOK, NEW t \in Tids \ {Root, Idle}, valid[t]
  PROVE  Children(t) = KidsOf(valid, gid, t) /\ Root \notin Children(t) /\ Idle \notin Children(t)
BY DEF KinOK, Family, Children, KidsOf

(* _tk_detach_children reaches every child: its counter is exact.           *)
LEMMA OrphansAre ==
  ASSUME KinOK, NEW t \in Tids \ {Root, Idle}, valid[t]
  PROVE  /\ Orphans(t) = KidsOf(valid, gid, t)
         /\ noChilds[t] = Cardinality(Orphans(t))
<1> DEFINE C == Children(t)
<1>1. C = KidsOf(valid, gid, t) /\ IsFiniteSet(C) /\ Cardinality(C) \in Nat
  BY ChildrenAre, KidsFinite
<1>2. noChilds[t] = Cardinality(C)
  BY <1>1 DEF KinOK, Family
<1>3. ASSUME NEW c \in C
      PROVE  Cardinality({d \in C : d < c}) < Cardinality(C)
  <2> DEFINE L == {d \in C : d < c}
  <2>1. c \in Int
    BY PoolAssumption DEF Children, Tids
  <2>2. L \subseteq C \ {c}
    BY <2>1
  <2>3. IsFiniteSet(C \ {c}) /\ Cardinality(C \ {c}) = Cardinality(C) - 1
    BY <1>1, FS_RemoveElement
  <2> HIDE DEF L, C
  <2>4. IsFiniteSet(L) /\ Cardinality(L) <= Cardinality(C \ {c})
    BY <2>2, <2>3, FS_Subset
  <2>5. Cardinality(L) \in Nat
    BY <2>4, FS_CardinalityType
  <2> QED BY <2>3, <2>4, <2>5, <1>1 DEF L
<1>4. Orphans(t) = C
  BY <1>2, <1>3 DEF Orphans
<1> QED BY <1>1, <1>2, <1>4

(* A thread dies and lets go of its children.                               *)
LEMMA Orphaned ==
  ASSUME KinOK, WaitOK, PoolTyped, NEW t \in Tids \ {Root, Idle}, valid[t],
         NEW st, "Z" \in st[t], "T" \notin st[t],
         \A u \in Tids \ {t} : st[u] = state[u]
  PROVE  /\ Family(valid, st, GidWithout(t), NoChildsWithout(t))
         /\ Waiting(valid, st, GidWithout(t), bon, event, cont)
         /\ GidWithout(t)[t] = gid[t]
<1> DEFINE g == GidWithout(t)  nc == NoChildsWithout(t)  K == KidsOf(valid, gid, t)
<1>1. Orphans(t) = K /\ noChilds[t] = Cardinality(K) /\ Cardinality(K) \in Nat
  BY OrphansAre, KidsFinite
<1>2. /\ \A c \in Tids : g[c] = IF c \in K THEN NoTid ELSE gid[c]
      /\ nc[t] = 0 /\ \A u \in Tids \ {t} : nc[u] = noChilds[u]
  BY <1>1 DEF GidWithout, NoChildsWithout, PoolTyped
<1> HIDE DEF g, nc
<1>3. /\ gid[Root] = Root /\ gid[Idle] = Idle /\ Root \in Tids /\ Idle \in Tids
      /\ \A u \in Tids \ {Root, Idle} : valid[u] =>
            gid[u] # u /\ (gid[u] # NoTid => valid[gid[u]] /\ "Z" \notin state[gid[u]])
      /\ \A u \in Tids : valid[u] => noChilds[u] = Cardinality(KidsOf(valid, gid, u))
      /\ \A u \in Tids : gid[u] \in Tids \cup {NoTid}
  BY Constants DEF KinOK, Family, PoolTyped
<1>4. NoTid \notin Tids
  BY DEF NoTid, Tids
<1>5. \A c \in Tids : c \in K <=> valid[c] /\ gid[c] = t /\ c # t
  BY DEF KidsOf
<1> HIDE DEF K
<1>6. g[Root] = Root /\ g[Idle] = Idle
  BY <1>2, <1>3, <1>5
<1>7. ASSUME NEW u \in Tids \ {Root, Idle}, valid[u]
      PROVE  g[u] # u /\ (g[u] # NoTid => valid[g[u]] /\ "Z" \notin st[g[u]])
  <2>1. CASE u \in K
    BY <2>1, <1>2, <1>4
  <2>2. CASE u \notin K
    <3>1. g[u] = gid[u] /\ gid[u] # t
      BY <2>2, <1>2, <1>3, <1>5, <1>7
    <3> QED BY <3>1, <1>3, <1>7
  <2> QED BY <2>1, <2>2
<1>8. ASSUME NEW u \in Tids, valid[u]
      PROVE  nc[u] = Cardinality(KidsOf(valid, g, u))
  <2>1. CASE u = t
    <3>1. KidsOf(valid, g, t) = {}
      BY <1>2, <1>4, <1>5 DEF KidsOf
    <3> QED BY <2>1, <3>1, <1>2, FS_EmptySet
  <2>2. CASE u # t
    <3>1. KidsOf(valid, g, u) = KidsOf(valid, gid, u)
      BY <2>2, <1>2, <1>4, <1>5 DEF KidsOf
    <3> QED BY <2>2, <3>1, <1>2, <1>3, <1>8
  <2> QED BY <2>1, <2>2
<1>9. Family(valid, st, g, nc)
  BY <1>6, <1>7, <1>8 DEF Family
<1>10. Waiting(valid, st, g, bon, event, cont)
  <2> SUFFICES ASSUME NEW u \in Tids, valid[u]
               PROVE  Joiner(valid, st, g, bon, event, cont, u)
    BY DEF Waiting
  <2>1. Joiner(valid, state, gid, bon, event, cont, u)
    BY DEF WaitOK, Waiting
  <2>2. CASE u = t
    BY <2>2 DEF Joiner
  <2>3. CASE u # t
    <3>1. st[u] = state[u] /\ bon[u] \in Tids \cup {NoTid}
      BY <2>3 DEF PoolTyped
    <3>2. bon[u] \in Tids /\ gid[bon[u]] = u => g[bon[u]] = u
      BY <2>3, <1>2, <1>5
    <3> QED BY <2>1, <3>1, <3>2 DEF Joiner
  <2> QED BY <2>2, <2>3
<1>11. g[t] = gid[t]
  BY <1>2, <1>5
<1> QED BY <1>9, <1>10, <1>11 DEF g, nc
(* A dead thread is let go by its parent: by a joiner, which then wakes up, *)
(* or by force.                                                             *)
LEMMA Detached ==
  ASSUME NEW st \in [Tids -> SUBSET Bits], NEW g \in [Tids -> Tids \cup {NoTid}],
         NEW nc \in [Tids -> Int], NEW ev \in [Tids -> Events],
         PoolTyped, Family(valid, st, g, nc), Waiting(valid, st, g, bon, ev, cont),
         NEW t \in Tids \ {Root, Idle}, valid[t], "Z" \in st[t], NEW force \in BOOLEAN,
         DetachParent(t, force, st, g, nc, ev)
  PROVE  /\ Family(valid, state', gid', noChilds')
         /\ Waiting(valid, state', gid', bon', event', cont)
         /\ LetGo(t, st, g) => gid'[t] = NoTid
         /\ "Z" \in state'[t]
<1>1. /\ NoTid \notin Tids /\ Root \in Tids /\ Idle \in Tids
      /\ bon \in [Tids -> Tids \cup {NoTid}]
  BY Constants DEF NoTid, Tids, PoolTyped
<1>2. /\ g[Root] = Root /\ g[Idle] = Idle
      /\ \A u \in Tids \ {Root, Idle} : valid[u] =>
            g[u] # u /\ (g[u] # NoTid => valid[g[u]] /\ "Z" \notin st[g[u]])
      /\ \A u \in Tids : valid[u] => nc[u] = Cardinality(KidsOf(valid, g, u))
  BY DEF Family
<1>3. CASE g[t] = NoTid \/ ~(JoinedBy(t, st, g) \/ force)
  <2>1. ~JoinedBy(t, st, g)
    BY <1>3 DEF JoinedBy
  <2>2. state' = st /\ event' = ev /\ bon' = bon /\ noChilds' = nc /\ gid' = g
    BY <1>3, <2>1 DEF DetachParent
  <2> QED BY <2>1, <2>2 DEF LetGo
<1>4. CASE g[t] # NoTid /\ (JoinedBy(t, st, g) \/ force)
  <2>1. PICK p \in Tids : p = g[t]
    BY <1>4
  <2>2. p # t /\ valid[p] /\ "Z" \notin st[p]
    BY <2>1, <1>2, <1>4
  <2> DEFINE g2 == [g EXCEPT ![t] = NoTid]  nc2 == [nc EXCEPT ![p] = @ - 1]
  <2>3. gid' = g2 /\ noChilds' = nc2
    BY <1>4, <2>1 DEF DetachParent, JoinedBy
  <2>4. /\ \A u \in Tids \ {t} : g2[u] = g[u]
        /\ g2[t] = NoTid /\ nc2[p] = nc[p] - 1
        /\ \A u \in Tids \ {p} : nc2[u] = nc[u]
    BY <2>1
  <2> HIDE DEF g2, nc2
  <2>5. \A u \in Tids : "Z" \in state'[u] <=> "Z" \in st[u]
    <3>1. state' = st \/ state' = [st EXCEPT ![p] = @ \ {"T"}]
      BY <2>1 DEF DetachParent
    <3> QED BY <3>1, <2>1
  <2>6. ASSUME NEW u \in Tids, valid[u]
        PROVE  nc2[u] = Cardinality(KidsOf(valid, g2, u))
    <3>1. CASE u = p
      <4>1. KidsOf(valid, g2, p) = KidsOf(valid, g, p) \ {t} /\ t \in KidsOf(valid, g, p)
        BY <2>1, <2>2, <2>4, <1>1 DEF KidsOf
      <4>2. IsFiniteSet(KidsOf(valid, g, p)) /\ Cardinality(KidsOf(valid, g, p)) \in Nat
        BY KidsFinite
      <4>3. Cardinality(KidsOf(valid, g2, p)) = Cardinality(KidsOf(valid, g, p)) - 1
        <5> DEFINE K == KidsOf(valid, g, p)
        <5> HIDE DEF K
        <5>1. IsFiniteSet(K) /\ t \in K /\ KidsOf(valid, g2, p) = K \ {t}
          BY <4>1, <4>2 DEF K
        <5>2. Cardinality(K \ {t}) = Cardinality(K) - 1
          BY <5>1, FS_RemoveElement
        <5> QED BY <5>1, <5>2 DEF K
      <4> QED BY <3>1, <4>3, <2>2, <2>4, <1>2
    <3>2. CASE u # p
      <4>1. KidsOf(valid, g2, u) = KidsOf(valid, g, u)
        BY <3>2, <2>1, <2>4, <1>1 DEF KidsOf
      <4> QED BY <3>2, <4>1, <2>4, <2>6, <1>2
    <3> QED BY <3>1, <3>2
  <2>7. ASSUME NEW u \in Tids \ {Root, Idle}, valid[u]
        PROVE  g2[u] # u /\ (g2[u] # NoTid => valid[g2[u]] /\ "Z" \notin state'[g2[u]])
    <3>1. CASE u = t
      BY <3>1, <2>4, <1>1
    <3>2. CASE u # t
      BY <3>2, <2>4, <2>5, <2>7, <1>2
    <3> QED BY <3>1, <3>2
  <2>8. Family(valid, state', g2, nc2)
    BY <2>4, <2>6, <2>7, <1>1, <1>2 DEF Family
  <2>9. Waiting(valid, state', g2, bon', event', cont)
    <3> SUFFICES ASSUME NEW u \in Tids, valid[u]
                 PROVE  Joiner(valid, state', g2, bon', event', cont, u)
      BY DEF Waiting
    <3>1. Joiner(valid, st, g, bon, ev, cont, u)
      BY DEF Waiting
    <3>2. u # p => ~("T" \in st[u] /\ bon[u] = t)
      BY <3>1, <2>1 DEF Joiner
    <3>3. bon[u] \in Tids \cup {NoTid}
      BY <1>1
    <3>4. CASE ~(JoinedBy(t, st, g) /\ u = p)
      <4>1. state'[u] = st[u] /\ event'[u] = ev[u] /\ bon'[u] = bon[u]
        <5>1. \/ state' = st /\ event' = ev /\ bon' = bon
              \/ /\ u # p /\ state' = [st EXCEPT ![p] = @ \ {"T"}]
                 /\ event' = [ev EXCEPT ![p] = "E_CHILDDEATH"]
                 /\ bon' = [bon EXCEPT ![p] = IF st[p] = {"T"} THEN NoTid ELSE t]
          BY <3>4, <2>1 DEF DetachParent
        <5> QED BY <5>1, <1>1
      <4>2. ~("T" \in st[u] /\ bon[u] = t)
        BY <3>4, <3>2, <2>1, <1>4 DEF JoinedBy
      <4>3. "T" \in st[u] => g2[bon[u]] = g[bon[u]]
        BY <4>2, <3>1, <3>3, <2>4 DEF Joiner
      <4> QED BY <3>1, <4>1, <4>3 DEF Joiner
    <3>5. CASE JoinedBy(t, st, g) /\ u = p
      <4>1. state'[u] = st[u] \ {"T"} /\ event'[u] = "E_CHILDDEATH" /\ "T" \in st[u]
        BY <3>5, <2>1 DEF DetachParent, JoinedBy
      <4> QED BY <3>1, <4>1, <2>2, <3>5 DEF Joiner
    <3> QED BY <3>4, <3>5
  <2> QED BY <2>3, <2>4, <2>5, <2>8, <2>9
<1> QED BY <1>3, <1>4

(* A dead thread without a parent leaves the pool.                          *)
LEMMA Buried ==
  ASSUME NEW st, NEW g \in [Tids -> Tids \cup {NoTid}], NEW nc,
         NEW b \in [Tids -> Tids \cup {NoTid}], NEW ev, valid \in [Tids -> BOOLEAN],
         Family(valid, st, g, nc), Waiting(valid, st, g, b, ev, cont),
         NEW t \in Tids \ {Root, Idle}, "Z" \in st[t], g[t] = NoTid,
         valid' = [valid EXCEPT ![t] = FALSE]
  PROVE  Family(valid', st, g, nc) /\ Waiting(valid', st, g, b, ev, cont)
<1>1. NoTid \notin Tids /\ Root \in Tids /\ Idle \in Tids
  BY Constants DEF NoTid, Tids
<1>2. ~valid'[t] /\ \A u \in Tids \ {t} : valid'[u] = valid[u]
  OBVIOUS
<1>3. ASSUME NEW u \in Tids, valid'[u] PROVE nc[u] = Cardinality(KidsOf(valid', g, u))
  <2>1. u # t /\ valid[u]
    BY <1>2, <1>3
  <2>2. KidsOf(valid', g, u) = KidsOf(valid, g, u)
    BY <1>1, <1>2 DEF KidsOf
  <2> QED BY <2>1, <2>2 DEF Family
<1>4. ASSUME NEW u \in Tids \ {Root, Idle}, valid'[u]
      PROVE  g[u] # u /\ (g[u] # NoTid => valid'[g[u]] /\ "Z" \notin st[g[u]])
  <2>1. u # t /\ valid[u]
    BY <1>2, <1>4
  <2>2. g[u] # u /\ (g[u] # NoTid => g[u] \in Tids /\ valid[g[u]] /\ "Z" \notin st[g[u]])
    BY <2>1 DEF Family
  <2> QED BY <2>2, <1>2
<1>5. Family(valid', st, g, nc)
  BY <1>3, <1>4 DEF Family
<1>6. ASSUME NEW u \in Tids, valid'[u] PROVE Joiner(valid', st, g, b, ev, cont, u)
  <2>1. valid[u] /\ Joiner(valid, st, g, b, ev, cont, u)
    BY <1>2, <1>6 DEF Waiting
  <2>2. ASSUME "T" \in st[u] PROVE valid'[b[u]]
    <3>1. b[u] # NoTid /\ valid[b[u]] /\ g[b[u]] = u
      BY <2>1, <2>2 DEF Joiner
    <3>2. b[u] \in Tids
      BY <3>1
    <3>3. b[u] # t
      BY <3>1, <1>1
    <3> QED BY <3>1, <3>2, <3>3, <1>2
  <2> QED BY <2>1, <2>2 DEF Joiner
<1>7. Waiting(valid', st, g, b, ev, cont)
  BY <1>6 DEF Waiting
<1> QED BY <1>5, <1>7
-----------------------------------------------------------------------------
(* The steps, for clients that keep to Discipline and leave dead children   *)
(* alone (ReCancel = FALSE).                                                *)
LEMMA RunsReady ==
  ASSUME IInv, FInv, Caller
  PROVE  /\ active \in Tids /\ active \in Scheduled /\ valid[active] /\ active # Idle
         /\ state[active] = {} /\ cont[active] = "user"
BY UserIsScheduled DEF FInv, RunOK, Caller, InUser, Ready, Scheduled

(* Steps that leave the family alone.                                       *)
LEMMA SameFamily ==
  ASSUME IInv, FInv, UNCHANGED <<valid, gid, noChilds>>,
         \A u \in Tids : valid[u] =>
            /\ "Z" \notin state[u] => "Z" \notin state'[u]
            /\ Joiner(valid, state', gid, bon', event', cont', u),
         RunOK'
  PROVE  FInv'
<1>1. WaitOK'
  BY DEF WaitOK, Waiting
<1>2. gid \in [Tids -> Tids \cup {NoTid}]
  BY Parts DEF PoolTyped
<1>3. KinOK'
  BY <1>2 DEF FInv, KinOK, Family
<1> QED BY <1>1, <1>3 DEF FInv

LEMMA StillFamily ==
  ASSUME IInv, FInv, UNCHANGED <<tcb, cont>>, RunOK'
  PROVE  FInv'
<1>1. /\ UNCHANGED <<valid, state, gid, noChilds, bon, event>>
      /\ \A u \in Tids : valid[u] => Joiner(valid, state, gid, bon, event, cont, u)
  BY DEF FInv, WaitOK, Waiting, tcb
<1> QED BY <1>1, SameFamily

LEMMA FamilySleep == IInv /\ FInv /\ Sleep => FInv'
<1> SUFFICES ASSUME IInv, FInv, Sleep PROVE FInv'
  OBVIOUS
<1>1. /\ active \in Tids /\ state[active] = {} /\ cont[active] = "user"
      /\ state \in [Tids -> SUBSET Bits]
  BY RunsReady, Parts DEF Sleep, PoolTyped
<1>2. /\ state' = [state EXCEPT ![active] = @ \cup {"S"}]
      /\ phase' = "yield"
      /\ UNCHANGED <<valid, gid, noChilds, bon, event, cont>>
  BY DEF Sleep, EnterYield, local
<1>3. state'[active] = {"S"} /\ \A u \in Tids \ {active} : state'[u] = state[u]
  BY <1>1, <1>2
<1>4. ASSUME NEW u \in Tids, valid[u] PROVE Joiner(valid, state', gid, bon, event, cont, u)
  <2>1. Joiner(valid, state, gid, bon, event, cont, u)
    BY <1>4 DEF FInv, WaitOK, Waiting
  <2> QED BY <2>1, <1>1, <1>3 DEF Joiner
<1> QED BY <1>1, <1>2, <1>3, <1>4, SameFamily DEF RunOK

LEMMA FamilyJoinBlock == ASSUME NEW t \in Tids PROVE IInv /\ FInv /\ JoinBlock(t) => FInv'
<1> SUFFICES ASSUME IInv, FInv, JoinBlock(t) PROVE FInv'
  OBVIOUS
<1>1. /\ active \in Tids /\ state[active] = {} /\ PoolTyped
  BY RunsReady, Parts DEF JoinBlock
<1>2. /\ state' = [state EXCEPT ![active] = @ \cup {"T"}]
      /\ bon' = [bon EXCEPT ![active] = t]
      /\ cont' = [cont EXCEPT ![active] = "join"]
      /\ phase' = "yield" /\ gid[t] = active /\ valid[t]
      /\ UNCHANGED <<valid, gid, noChilds, event>>
  BY DEF JoinBlock, EnterYield
<1>3. /\ state'[active] = {"T"} /\ bon'[active] = t /\ cont'[active] = "join"
      /\ \A u \in Tids \ {active} : state'[u] = state[u] /\ bon'[u] = bon[u] /\ cont'[u] = cont[u]
  BY <1>1, <1>2 DEF PoolTyped
<1>4. t # NoTid
  BY DEF Tids, NoTid
<1>5. ASSUME NEW u \in Tids, valid[u] PROVE Joiner(valid, state', gid, bon', event, cont', u)
  <2>1. Joiner(valid, state, gid, bon, event, cont, u)
    BY <1>5 DEF FInv, WaitOK, Waiting
  <2>2. CASE u = active
    BY <2>2, <1>2, <1>3, <1>4 DEF Joiner
  <2>3. CASE u # active
    BY <2>1, <2>3, <1>3 DEF Joiner
  <2> QED BY <2>2, <2>3
<1> QED BY <1>1, <1>2, <1>3, <1>5, SameFamily DEF RunOK

LEMMA FamilyFinishes == IInv /\ FInv /\ (FinishJoin \/ FinishCreate) => FInv'
<1> SUFFICES ASSUME IInv, FInv, FinishJoin \/ FinishCreate PROVE FInv'
  OBVIOUS
<1>1. /\ cont' = [cont EXCEPT ![active] = "user"] /\ phase = "run"
      /\ UNCHANGED <<valid, state, gid, noChilds, bon, event, active, phase>>
  BY DEF FinishJoin, FinishCreate, tcb
<1>2. active \in Tids /\ state[active] = {} /\ cont \in [Tids -> {"user", "create", "join"}]
  BY <1>1, Parts DEF FInv, RunOK, Ready, PoolTyped
<1>3. cont'[active] = "user" /\ \A u \in Tids \ {active} : cont'[u] = cont[u]
  BY <1>1, <1>2
<1>4. ASSUME NEW u \in Tids, valid[u] PROVE Joiner(valid, state, gid, bon, event, cont', u)
  <2>1. Joiner(valid, state, gid, bon, event, cont, u)
    BY <1>4 DEF FInv, WaitOK, Waiting
  <2> QED BY <2>1, <1>2, <1>3 DEF Joiner
<1> QED BY <1>1, <1>4, SameFamily DEF RunOK, FInv

LEMMA FamilyStill ==
  IInv /\ FInv /\ (\/ Yield \/ YieldEvent \/ RootReturn \/ Dispatch \/ UNCHANGED vars
                   \/ \E p \in Prios : RefuseCreate(p)
                   \/ \E t \in Tids, p \in Prios : RefuseSetPrio(t, p)) => FInv'
<1> SUFFICES ASSUME IInv, FInv,
                    \/ Yield \/ YieldEvent \/ RootReturn \/ Dispatch \/ UNCHANGED vars
                    \/ \E p \in Prios : RefuseCreate(p)
                    \/ \E t \in Tids, p \in Prios : RefuseSetPrio(t, p)
             PROVE  FInv'
  OBVIOUS
<1>1. UNCHANGED <<tcb, cont>>
  BY DEF Yield, YieldEvent, RootReturn, Dispatch, RefuseCreate, RefuseSetPrio, local, vars
<1>2. CASE Dispatch
  <2>1. state[active'] = Ready /\ state' = state
    BY <1>2, <1>1, DispatchedIsHighest DEF tcb
  <2> QED BY <2>1, <1>1, StillFamily DEF RunOK
<1>3. CASE UNCHANGED vars
  BY <1>3, StillFamily DEF vars, tcb, local, RunOK, FInv
<1>4. CASE ~Dispatch /\ ~UNCHANGED vars
  <2>1. phase' \in {"yield", "exit"}
    BY <1>4 DEF Yield, YieldEvent, RootReturn, RefuseCreate, RefuseSetPrio, EnterYield, Stop
  <2> QED BY <2>1, <1>1, StillFamily DEF RunOK
<1> QED BY <1>2, <1>3, <1>4

LEMMA FamilySetPrio ==
  ASSUME NEW t \in Tids, NEW p \in Prios PROVE IInv /\ FInv /\ SetPrio(t, p) => FInv'
<1> SUFFICES ASSUME IInv, FInv, SetPrio(t, p) PROVE FInv'
  OBVIOUS
<1>1. /\ UNCHANGED <<valid, state, gid, noChilds, bon, event, active, cont>>
      /\ phase' = "yield" \/ phase' = phase
  BY DEF SetPrio, local, EnterYield
<1>2. \A u \in Tids : valid[u] => Joiner(valid, state, gid, bon, event, cont, u)
  BY DEF FInv, WaitOK, Waiting
<1>3. RunOK'
  BY <1>1 DEF RunOK, FInv
<1> QED BY <1>1, <1>2, <1>3, SameFamily
(* A thread that has just died, and the scan that finds it dead.            *)
LEMMA DeadLeaves ==
  ASSUME PoolTyped, NEW st \in [Tids -> SUBSET Bits], NEW g \in [Tids -> Tids \cup {NoTid}],
         NEW nc \in [Tids -> Int], NEW ev \in [Tids -> Events],
         Family(valid, st, g, nc), Waiting(valid, st, g, bon, ev, cont),
         NEW t \in Tids \ {Root, Idle}, valid[t], "Z" \in st[t],
         DetachParent(t, FALSE, st, g, nc, ev),
         IF LetGo(t, st, g) THEN Bury(t) ELSE Unburied,
         cont' = cont
  PROVE  KinOK' /\ WaitOK'
<1>1. /\ Family(valid, state', gid', noChilds')
      /\ Waiting(valid, state', gid', bon', event', cont)
      /\ LetGo(t, st, g) => gid'[t] = NoTid
      /\ "Z" \in state'[t]
  BY Detached
<1>2. /\ gid' \in [Tids -> Tids \cup {NoTid}] /\ bon' \in [Tids -> Tids \cup {NoTid}]
      /\ valid \in [Tids -> BOOLEAN]
  BY DetachKeeps DEF PoolTyped
<1>3. CASE LetGo(t, st, g)
  <2>1. valid' = [valid EXCEPT ![t] = FALSE] /\ gid'[t] = NoTid
    BY <1>1, <1>3 DEF Bury
  <2>2. /\ Family(valid', state', gid', noChilds')
        /\ Waiting(valid', state', gid', bon', event', cont)
    BY <1>1, <1>2, <2>1, Buried
  <2> QED BY <2>2 DEF KinOK, WaitOK
<1>4. CASE ~LetGo(t, st, g)
  <2>1. valid' = valid
    BY <1>4 DEF Unburied
  <2> QED BY <2>1, <1>1 DEF KinOK, WaitOK
<1> QED BY <1>3, <1>4

LEMMA FamilyDelete ==
  ASSUME NEW t \in Tids PROVE IInv /\ FInv /\ Discipline /\ DeleteThread(t) => FInv'
<1> SUFFICES ASSUME IInv, FInv, Discipline, DeleteThread(t) PROVE FInv'
  OBVIOUS
<1> DEFINE st == [state EXCEPT ![t] = {"Z"}]
<1>1. PoolTyped /\ t \in Tids \ {Root, Idle} /\ valid[t]
  BY Parts, Constants DEF DeleteThread, Discipline
<1>2. /\ st \in [Tids -> SUBSET Bits] /\ st[t] = {"Z"}
      /\ \A u \in Tids \ {t} : st[u] = state[u]
  BY <1>1 DEF PoolTyped, Bits
<1>3. /\ DetachParent(t, FALSE, st, GidWithout(t), NoChildsWithout(t), event)
      /\ IF LetGo(t, st, GidWithout(t)) THEN Bury(t) ELSE Unburied
      /\ AfterDelete(t) /\ Caller
      /\ cont' = cont /\ active' = active
  BY DEF DeleteThread, local
<1> HIDE DEF st
<1>4. /\ Family(valid, st, GidWithout(t), NoChildsWithout(t))
      /\ Waiting(valid, st, GidWithout(t), bon, event, cont)
  BY <1>1, <1>2, Orphaned DEF FInv
<1>5. /\ GidWithout(t) \in [Tids -> Tids \cup {NoTid}] /\ NoChildsWithout(t) \in [Tids -> Int]
      /\ event \in [Tids -> Events] /\ bon \in [Tids -> Tids \cup {NoTid}]
  BY <1>1, OrphansTyped DEF PoolTyped
<1>6. KinOK' /\ WaitOK'
  BY <1>1, <1>2, <1>3, <1>4, <1>5, DeadLeaves
<1>7. RunOK'
  <2>1. CASE t = active
    BY <2>1, <1>3 DEF AfterDelete, EnterYield, RunOK
  <2>2. CASE t # active
    <3>1. \A u \in Tids : state'[u] = st[u] \/ state'[u] = st[u] \ {"T"}
      BY <1>2, <1>3, <1>5, DetachKeeps
    <3>2. active \in Tids /\ state[active] = {}
      BY <1>3, RunsReady
    <3> QED BY <2>2, <3>1, <3>2, <1>2, <1>3 DEF RunOK, Ready
  <2> QED BY <2>1, <2>2
<1> QED BY <1>6, <1>7 DEF FInv

LEMMA FamilyDeleteZombie ==
  ASSUME NEW t \in Tids
  PROVE  IInv /\ FInv /\ Discipline /\ ~ReCancel /\ DeleteZombie(t) => FInv'
<1> SUFFICES ASSUME IInv, FInv, Discipline, ~ReCancel, DeleteZombie(t) PROVE FInv'
  OBVIOUS
<1>1. PoolTyped /\ t \in Tids \ {Root, Idle} /\ valid[t] /\ "Z" \in state[t] /\ gid[t] = NoTid
  BY Parts, Constants DEF DeleteZombie, Discipline
<1>2. /\ valid' = [valid EXCEPT ![t] = FALSE]
      /\ UNCHANGED <<state, gid, noChilds, bon, event, active, phase, cont>>
  BY DEF DeleteZombie, Bury, local
<1>3. /\ Family(valid', state, gid, noChilds)
      /\ Waiting(valid', state, gid, bon, event, cont)
  BY <1>1, <1>2, Buried DEF FInv, KinOK, WaitOK, PoolTyped
<1>4. KinOK' /\ WaitOK'
  BY <1>2, <1>3 DEF KinOK, WaitOK
<1> QED BY <1>2, <1>4 DEF FInv, RunOK

LEMMA FamilyJoinZombie ==
  ASSUME NEW t \in Tids PROVE IInv /\ FInv /\ JoinZombie(t) => FInv'
<1> SUFFICES ASSUME IInv, FInv, JoinZombie(t) PROVE FInv'
  OBVIOUS
<1>1. PoolTyped /\ t \in Tids \ {Root, Idle} /\ valid[t] /\ "Z" \in state[t]
  BY Parts, FixedUse DEF JoinZombie, Ready
<1>2. /\ DetachParent(t, TRUE, state, gid, noChilds, event)
      /\ UNCHANGED <<valid, active, phase, cont>> /\ Caller
  BY DEF JoinZombie, local
<1>3. /\ Family(valid, state', gid', noChilds')
      /\ Waiting(valid, state', gid', bon', event', cont)
  BY <1>1, <1>2, Detached DEF FInv, KinOK, WaitOK, PoolTyped
<1>4. KinOK' /\ WaitOK'
  BY <1>2, <1>3 DEF KinOK, WaitOK
<1>5. RunOK'
  <2>1. \A u \in Tids : state'[u] = state[u] \/ state'[u] = state[u] \ {"T"}
    BY <1>1, <1>2, DetachKeeps DEF PoolTyped
  <2>2. active \in Tids /\ state[active] = {}
    BY <1>2, RunsReady
  <2> QED BY <2>1, <2>2, <1>2 DEF RunOK, Ready
<1> QED BY <1>4, <1>5 DEF FInv

LEMMA FamilyReturn == IInv /\ FInv /\ Return => FInv'
<1> SUFFICES ASSUME IInv, FInv, Return PROVE FInv'
  OBVIOUS
<1>1. PoolTyped /\ active \in Tids \ {Root, Idle} /\ valid[active]
  BY Parts, RunsReady DEF Return
<1>2. /\ state' = [state EXCEPT ![active] = {"Z", "S"}]
      /\ gid' = GidWithout(active) /\ noChilds' = NoChildsWithout(active)
      /\ phase' = "yield" /\ UNCHANGED <<valid, bon, event, cont>>
  BY DEF Return, EnterYield, local
<1>3. state'[active] = {"Z", "S"} /\ \A u \in Tids \ {active} : state'[u] = state[u]
  BY <1>1, <1>2 DEF PoolTyped
<1>4. /\ Family(valid, state', GidWithout(active), NoChildsWithout(active))
      /\ Waiting(valid, state', GidWithout(active), bon, event, cont)
  BY <1>1, <1>3, Orphaned DEF FInv
<1>5. KinOK' /\ WaitOK'
  BY <1>2, <1>4 DEF KinOK, WaitOK
<1> QED BY <1>2, <1>5 DEF FInv, RunOK
LEMMA FamilyScan ==
  ASSUME NEW due \in BOOLEAN PROVE IInv /\ FInv /\ ScanStep(due) => FInv'
<1> SUFFICES ASSUME IInv, FInv, ScanStep(due) PROVE FInv'
  OBVIOUS
<1> DEFINE woken == due /\ valid[scan] /\ "S" \in state[scan]
           st == IF woken THEN [state EXCEPT ![scan] = @ \ {"S"}] ELSE state
           ev == IF woken THEN [event EXCEPT ![scan] = "E_TIMER"] ELSE event
<1>1. PoolTyped
  BY Parts
<1>2. PICK t \in Tids : t = scan
  BY <1>1, PoolAssumption DEF ScanStep, PoolTyped, Tids
<1>3. /\ st \in [Tids -> SUBSET Bits] /\ ev \in [Tids -> Events]
      /\ \A u \in Tids : st[u] = state[u] \/ (st[u] = state[u] \ {"S"} /\ "S" \in state[u])
      /\ \A u \in Tids : st[u] = state[u] => ev[u] = event[u]
  BY <1>1, <1>2 DEF PoolTyped, Bits, Events
<1>4. /\ phase' = "yield" /\ cont' = cont
      /\ IF valid[t] /\ "Z" \in st[t] /\ t # active
         THEN /\ DetachParent(t, FALSE, st, gid, noChilds, ev)
              /\ IF LetGo(t, st, gid) THEN Bury(t) ELSE Unburied
         ELSE /\ state' = st /\ event' = ev
              /\ UNCHANGED <<gid, noChilds, bon>>
              /\ Unburied
  BY <1>2 DEF ScanStep, local
<1> HIDE DEF st, ev
<1>5. \A u \in Tids : /\ "Z" \in st[u] <=> "Z" \in state[u]
                      /\ "T" \in st[u] <=> "T" \in state[u]
  BY <1>3
<1>6. Family(valid, st, gid, noChilds)
  BY <1>1, <1>5 DEF FInv, KinOK, Family, PoolTyped
<1>7. Waiting(valid, st, gid, bon, ev, cont)
  <2> SUFFICES ASSUME NEW u \in Tids, valid[u] PROVE Joiner(valid, st, gid, bon, ev, cont, u)
    BY DEF Waiting
  <2>1. Joiner(valid, state, gid, bon, event, cont, u)
    BY DEF FInv, WaitOK, Waiting
  <2> QED BY <2>1, <1>3, <1>5 DEF Joiner
<1>8. KinOK' /\ WaitOK'
  <2>1. CASE valid[t] /\ "Z" \in st[t] /\ t # active
    <3>1. t \in Tids \ {Root, Idle}
      BY <2>1, <1>5, FixedUse DEF Ready
    <3>2. noChilds \in [Tids -> Int] /\ gid \in [Tids -> Tids \cup {NoTid}]
      BY <1>1 DEF PoolTyped
    <3> QED BY <2>1, <3>1, <3>2, <1>1, <1>3, <1>4, <1>6, <1>7, DeadLeaves
  <2>2. CASE ~(valid[t] /\ "Z" \in st[t] /\ t # active)
    BY <2>2, <1>4, <1>6, <1>7 DEF KinOK, WaitOK, Unburied
  <2> QED BY <2>1, <2>2
<1> QED BY <1>4, <1>8 DEF FInv, RunOK

(* A slot that is free has neither children nor joiners: see CleanReuse.    *)
LEMMA FreeIsClean ==
  ASSUME IInv, FInv, NEW n \in Tids, ~valid[n], NEW t \in Tids, valid[t]
  PROVE  gid[t] # n /\ ("T" \in state[t] => bon[t] # n)
<1>1. gid[t] # n
  <2>1. CASE t \in {Root, Idle}
    BY <2>1, FixedUse DEF FInv, KinOK, Family
  <2>2. CASE t \notin {Root, Idle}
    <3>1. gid[t] # NoTid => valid[gid[t]]
      BY <2>2 DEF FInv, KinOK, Family
    <3>2. n # NoTid
      BY DEF Tids, NoTid
    <3> QED BY <3>1, <3>2
  <2> QED BY <2>1, <2>2
<1>2. "T" \in state[t] => valid[bon[t]]
  BY DEF FInv, WaitOK, Waiting, Joiner
<1> QED BY <1>1, <1>2

LEMMA FamilyCreate ==
  ASSUME NEW p \in Prios PROVE IInv /\ FInv /\ CreateThread(p) => FInv'
<1> SUFFICES ASSUME IInv, FInv, CreateThread(p) PROVE FInv'
  OBVIOUS
<1>1. PICK n \in Tids :
        /\ ~valid[n]
        /\ valid' = [valid EXCEPT ![n] = TRUE]
        /\ state' = [state EXCEPT ![n] = Ready]
        /\ bon' = [bon EXCEPT ![n] = NoTid]
        /\ gid' = [gid EXCEPT ![n] = active]
        /\ noChilds' = [noChilds EXCEPT ![n] = 0, ![active] = @ + 1]
        /\ event' = [event EXCEPT ![n] = "E_NONE"]
        /\ cont' = [cont EXCEPT ![n] = "user", ![active] = "create"]
        /\ phase' = "yield"
  BY DEF CreateThread, IsNextFree, EnterYield
<1>2. /\ active \in Tids /\ valid[active] /\ state[active] = {} /\ active # n
      /\ n \in Tids \ {Root, Idle} /\ Root \in Tids /\ Idle \in Tids /\ PoolTyped
  BY <1>1, RunsReady, FixedUse, Parts DEF CreateThread
<1>3. /\ valid'[n] /\ state'[n] = {} /\ gid'[n] = active /\ noChilds'[n] = 0
      /\ cont'[n] = "user" /\ cont'[active] = "create"
      /\ noChilds'[active] = noChilds[active] + 1
      /\ \A u \in Tids \ {n} : /\ valid'[u] = valid[u] /\ state'[u] = state[u]
                               /\ bon'[u] = bon[u] /\ gid'[u] = gid[u] /\ event'[u] = event[u]
      /\ \A u \in Tids \ {n, active} : noChilds'[u] = noChilds[u] /\ cont'[u] = cont[u]
  BY <1>1, <1>2 DEF PoolTyped, Ready
<1>4. \A u \in Tids : valid[u] => gid[u] # n /\ ("T" \in state[u] => bon[u] # n)
  BY <1>1, FreeIsClean
<1>5. ASSUME NEW u \in Tids, valid'[u] PROVE noChilds'[u] = Cardinality(KidsOf(valid', gid', u))
  <2>1. CASE u = n
    <3>1. KidsOf(valid', gid', n) = {}
      BY <1>3, <1>4, <1>2 DEF KidsOf
    <3> QED BY <2>1, <3>1, <1>3, FS_EmptySet
  <2>2. CASE u = active
    <3> DEFINE K == KidsOf(valid, gid, active)
    <3>1. KidsOf(valid', gid', active) = K \cup {n} /\ n \notin K
      BY <1>1, <1>2, <1>3 DEF KidsOf
    <3>2. IsFiniteSet(K) /\ noChilds[active] = Cardinality(K)
      BY <1>2, KidsFinite DEF FInv, KinOK, Family
    <3> HIDE DEF K
    <3>3. Cardinality(K \cup {n}) = Cardinality(K) + 1
      BY <3>1, <3>2, FS_AddElement
    <3> QED BY <2>2, <3>1, <3>2, <3>3, <1>3
  <2>3. CASE u # n /\ u # active
    <3>1. KidsOf(valid', gid', u) = KidsOf(valid, gid, u)
      BY <2>3, <1>1, <1>3 DEF KidsOf
    <3>2. valid[u] /\ noChilds'[u] = noChilds[u]
      BY <2>3, <1>3, <1>5
    <3> QED BY <3>1, <3>2 DEF FInv, KinOK, Family
  <2> QED BY <2>1, <2>2, <2>3
<1>6. ASSUME NEW u \in Tids \ {Root, Idle}, valid'[u]
      PROVE  gid'[u] # u /\ (gid'[u] # NoTid => valid'[gid'[u]] /\ "Z" \notin state'[gid'[u]])
  <2>1. CASE u = n
    BY <2>1, <1>2, <1>3
  <2>2. CASE u # n
    <3>1. /\ gid[u] # u /\ gid[u] # n /\ gid'[u] = gid[u] /\ gid[u] \in Tids \cup {NoTid}
          /\ gid[u] # NoTid => valid[gid[u]] /\ "Z" \notin state[gid[u]]
      BY <2>2, <1>2, <1>3, <1>4, <1>6 DEF FInv, KinOK, Family, PoolTyped
    <3> QED BY <3>1, <1>3
  <2> QED BY <2>1, <2>2
<1>7. KinOK'
  <2>1. gid'[Root] = Root /\ gid'[Idle] = Idle
    BY <1>2, <1>3 DEF FInv, KinOK, Family
  <2> QED BY <2>1, <1>5, <1>6 DEF KinOK, Family
<1>8. WaitOK'
  <2> SUFFICES ASSUME NEW u \in Tids, valid'[u]
               PROVE  Joiner(valid', state', gid', bon', event', cont', u)
    BY DEF WaitOK, Waiting
  <2>1. CASE u = n
    BY <2>1, <1>3 DEF Joiner
  <2>2. CASE u = active
    <3>1. state'[u] = {} /\ cont'[u] = "create"
      BY <2>2, <1>2, <1>3
    <3> QED BY <3>1 DEF Joiner
  <2>3. CASE u # n /\ u # active
    <3>1. /\ Joiner(valid, state, gid, bon, event, cont, u) /\ valid[u]
          /\ state'[u] = state[u] /\ bon'[u] = bon[u] /\ event'[u] = event[u] /\ cont'[u] = cont[u]
      BY <2>3, <1>3 DEF FInv, WaitOK, Waiting
    <3>2. ASSUME "T" \in state[u]
          PROVE  valid'[bon[u]] = valid[bon[u]] /\ gid'[bon[u]] = gid[bon[u]]
      <4>1. bon[u] \in Tids /\ bon[u] # n
        BY <3>1, <3>2, <1>2, <1>4 DEF Joiner, PoolTyped
      <4> QED BY <4>1, <1>3
    <3> QED BY <3>1, <3>2 DEF Joiner
  <2> QED BY <2>1, <2>2, <2>3
<1> QED BY <1>1, <1>7, <1>8 DEF FInv, RunOK

LEMMA FamilyInit == Init => FInv
<1> SUFFICES ASSUME Init PROVE FInv
  OBVIOUS
<1>1. /\ \A t \in Tids : /\ valid[t] <=> t \in {Root, Idle}
                         /\ state[t] = IF t \in {Root, Idle} THEN {} ELSE {"Z"}
                         /\ gid[t] = IF t = Idle THEN Idle ELSE 0
                         /\ noChilds[t] = 0 /\ cont[t] = "user"
      /\ active = Root /\ Root = 0
  BY DEF Init, Ready, Root
<1>2. ASSUME NEW t \in Tids PROVE KidsOf(valid, gid, t) = {}
  <2> SUFFICES ASSUME NEW c \in Tids, valid[c], gid[c] = t, c # t PROVE FALSE
    BY DEF KidsOf
  <2>1. c = Root \/ c = Idle
    BY <1>1
  <2> QED BY <2>1, <1>1
<1>3. KinOK
  BY <1>1, <1>2, Constants, FS_EmptySet DEF KinOK, Family
<1>4. WaitOK
  BY <1>1 DEF WaitOK, Waiting, Joiner
<1> QED BY <1>1, <1>3, <1>4, Constants DEF FInv, RunOK, Ready

LEMMA FamilyNext == IInv /\ FInv /\ Discipline /\ ~ReCancel /\ [Next]_vars => FInv'
<1> SUFFICES ASSUME IInv, FInv, Discipline, ~ReCancel, [Next]_vars PROVE FInv'
  OBVIOUS
<1>1. CASE FinishCreate \/ FinishJoin
  BY <1>1, FamilyFinishes
<1>2. CASE ScanStep(TRUE) \/ ScanStep(FALSE)
  BY <1>2, FamilyScan
<1>3. CASE Sleep
  BY <1>3, FamilySleep
<1>4. CASE Return
  BY <1>4, FamilyReturn
<1>5. CASE \E p \in Prios : CreateThread(p)
  BY <1>5, FamilyCreate
<1>6. ASSUME NEW t \in Tids, JoinZombie(t) \/ JoinBlock(t) \/ DeleteThread(t) \/ DeleteZombie(t)
      PROVE  FInv'
  BY <1>6, FamilyJoinZombie, FamilyJoinBlock, FamilyDelete, FamilyDeleteZombie
<1>7. CASE \E t \in Tids, p \in Prios : SetPrio(t, p)
  BY <1>7, FamilySetPrio
<1>8. CASE \/ Yield \/ YieldEvent \/ RootReturn \/ Dispatch \/ UNCHANGED vars
           \/ \E p \in Prios : RefuseCreate(p)
           \/ \E t \in Tids, p \in Prios : RefuseSetPrio(t, p)
  BY <1>8, FamilyStill
<1> QED BY <1>1, <1>2, <1>3, <1>4, <1>5, <1>6, <1>7, <1>8 DEF Next, Kernel

(* The inductive invariant of parents, children and joiners.                *)
THEOREM FamilyInvariance == ASSUME Discipline, ~ReCancel PROVE Spec => [](IInv /\ FInv)
<1>1. Init => IInv /\ FInv
  BY InitIInv, FamilyInit
<1>2. IInv /\ FInv /\ [Next]_vars => (IInv /\ FInv)'
  BY StepIInv, FamilyNext
<1> QED BY <1>1, <1>2, PTL DEF Spec

(* The family tree of the pool is sound: the parent of a living thread is   *)
(* alive, and _tk_detach_children, which stops when noChilds is used up,    *)
(* reaches every child.                                                     *)
THEOREM FamilySound == ASSUME Discipline, ~ReCancel PROVE Spec => []FamilyOK
<1>1. \A t \in Tids : Children(t) \ {t} = KidsOf(valid, gid, t)
  BY DEF Children, KidsOf
<1>2. IInv /\ FInv => FamilyOK
  BY <1>1 DEF FInv, KinOK, Family, FamilyOK
<1> QED BY <1>2, FamilyInvariance, PTL

(* A thread blocked in tk_join waits for a child that is still in the pool, *)
(* and the assert after the yield of tk_join, that it was woken by a        *)
(* child's death, never fails.                                              *)
THEOREM JoinSound == ASSUME Discipline, ~ReCancel PROVE Spec => []JoinOK
<1>1. ASSUME IInv, FInv PROVE JoinOK
  <2>1. \A t \in Tids : valid[t] => Joiner(valid, state, gid, bon, event, cont, t)
    BY <1>1 DEF FInv, WaitOK, Waiting
  <2>2. ASSUME phase = "run", cont[active] = "join"
        PROVE  event[active] = "E_CHILDDEATH"
    <3>1. active \in Tids /\ valid[active] /\ state[active] = {}
      BY <1>1, <2>2, Parts DEF ActiveOK, Scheduled, FInv, RunOK, Ready
    <3> QED BY <2>1, <2>2, <3>1 DEF Joiner
  <2> QED BY <2>1, <2>2 DEF JoinOK, Joiner
<1> QED BY <1>1, FamilyInvariance, PTL

(* tk_create_thread hands out a slot only when no thread of the pool has    *)
(* the slot's last owner for its parent or waits in tk_join for it.         *)
THEOREM CleanReuseHolds == ASSUME Discipline, ~ReCancel PROVE Spec => CleanReuse
<1>1. ASSUME IInv, FInv, [Next]_vars
      PROVE  [\A n \in Tids : ~valid[n] /\ valid'[n] =>
                \A t \in Tids \ {n} : valid[t] =>
                  gid[t] # n /\ ("T" \in state[t] => bon[t] # n)]_vars
  BY <1>1, FreeIsClean
<1> QED BY <1>1, FamilyInvariance, PTL DEF Spec, CleanReuse

(* The only one whom _tk_try_detach_parent wakes is the parent that waits   *)
(* for this very thread.                                                    *)
LEMMA DetachWakes ==
  ASSUME NEW st \in [Tids -> SUBSET Bits], NEW g \in [Tids -> Tids \cup {NoTid}],
         NEW nc, NEW ev, NEW force \in BOOLEAN, NEW t \in Tids, "Z" \in st[t],
         DetachParent(t, force, st, g, nc, ev),
         NEW p \in Tids, "T" \in st[p], "T" \notin state'[p]
  PROVE  bon[p] = t /\ "Z" \in state'[t]
<1>1. JoinedBy(t, st, g) /\ state' = [st EXCEPT ![g[t]] = @ \ {"T"}]
  BY DEF DetachParent
<1>2. g[t] \in Tids /\ bon[g[t]] = t
  BY <1>1 DEF JoinedBy
<1>3. p = g[t]
  BY <1>1, <1>2
<1>4. "Z" \in state'[t]
  BY <1>1, <1>2
<1> QED BY <1>2, <1>3, <1>4

LEMMA JoinerWakes ==
  ASSUME IInv, Next, NEW p \in Tids, valid[p], "T" \in state[p],
         valid'[p], "T" \notin state'[p], "Z" \notin state'[p]
  PROVE  "Z" \in state'[bon[p]]
<1>1. PoolTyped
  BY Parts
<1>2. ASSUME NEW due \in BOOLEAN, ScanStep(due) PROVE "Z" \in state'[bon[p]]
  <2> DEFINE woken == due /\ valid[scan] /\ "S" \in state[scan]
             st == IF woken THEN [state EXCEPT ![scan] = @ \ {"S"}] ELSE state
             ev == IF woken THEN [event EXCEPT ![scan] = "E_TIMER"] ELSE event
  <2>1. scan \in Tids
    BY <1>1, <1>2, PoolAssumption DEF ScanStep, PoolTyped, Tids
  <2>2. st \in [Tids -> SUBSET Bits] /\ "T" \in st[p]
    BY <1>1, <2>1 DEF PoolTyped, Bits
  <2>3. \/ DetachParent(scan, FALSE, st, gid, noChilds, ev) /\ "Z" \in st[scan]
        \/ state' = st
    BY <1>2 DEF ScanStep
  <2> HIDE DEF st, ev
  <2>4. gid \in [Tids -> Tids \cup {NoTid}]
    BY <1>1 DEF PoolTyped
  <2> QED BY <2>1, <2>2, <2>3, <2>4, DetachWakes
<1>3. ASSUME NEW t \in Tids, DeleteThread(t) PROVE "Z" \in state'[bon[p]]
  <2> DEFINE st == [state EXCEPT ![t] = {"Z"}]
  <2>1. st \in [Tids -> SUBSET Bits] /\ st[t] = {"Z"} /\ \A u \in Tids \ {t} : st[u] = state[u]
    BY <1>1 DEF PoolTyped, Bits
  <2>2. DetachParent(t, FALSE, st, GidWithout(t), NoChildsWithout(t), event)
    BY <1>3 DEF DeleteThread
  <2>3. GidWithout(t) \in [Tids -> Tids \cup {NoTid}] /\ NoChildsWithout(t) \in [Tids -> Int]
    BY <1>1, OrphansTyped DEF PoolTyped
  <2> HIDE DEF st
  <2>4. p # t
    <3>1. state' = st \/ \E q : state' = [st EXCEPT ![q] = @ \ {"T"}]
      BY <2>2 DEF DetachParent
    <3> QED BY <3>1, <2>1
  <2>5. "T" \in st[p] /\ "Z" \in st[t]
    BY <2>1, <2>4
  <2> DEFINE g == GidWithout(t)  nc == NoChildsWithout(t)
  <2>6. g \in [Tids -> Tids \cup {NoTid}] /\ DetachParent(t, FALSE, st, g, nc, event)
    BY <2>2, <2>3
  <2> HIDE DEF g, nc
  <2>7. t \in Tids /\ st \in [Tids -> SUBSET Bits]
    BY <2>1
  <2> QED BY <2>5, <2>6, <2>7, DetachWakes
<1>4. ASSUME NEW t \in Tids, JoinZombie(t) PROVE "Z" \in state'[bon[p]]
  <2>1. DetachParent(t, TRUE, state, gid, noChilds, event) /\ "Z" \in state[t]
    BY <1>4 DEF JoinZombie
  <2> QED BY <2>1, <1>1, DetachWakes DEF PoolTyped
<1>5. ASSUME NEW q \in Prios, CreateThread(q) PROVE FALSE
  <2>1. PICK n \in Tids : ~valid[n] /\ state' = [state EXCEPT ![n] = Ready]
    BY <1>5 DEF CreateThread, IsNextFree
  <2> QED BY <2>1, <1>1 DEF PoolTyped
<1>6. CASE Sleep \/ Return \/ \E t \in Tids : JoinBlock(t)
  <2>1. \E b \in SUBSET Bits : state' = [state EXCEPT ![active] = @ \cup b]
        \/ state' = [state EXCEPT ![active] = {"Z", "S"}]
    <3>1. {"S"} \in SUBSET Bits /\ {"T"} \in SUBSET Bits
      BY DEF Bits
    <3> QED BY <1>6, <3>1 DEF Sleep, Return, JoinBlock
  <2> QED BY <2>1, <1>1 DEF PoolTyped
<1>7. CASE \/ FinishCreate \/ FinishJoin \/ Dispatch
           \/ Yield \/ YieldEvent \/ RootReturn
           \/ \E q \in Prios : RefuseCreate(q)
           \/ \E u \in Tids : DeleteZombie(u)
           \/ \E u \in Tids, q \in Prios : SetPrio(u, q) \/ RefuseSetPrio(u, q)
  <2>1. state' = state
    BY <1>7 DEF FinishCreate, FinishJoin, Dispatch, Yield, YieldEvent, RootReturn,
                RefuseCreate, DeleteZombie, SetPrio, RefuseSetPrio, tcb
  <2> QED BY <2>1
<1> QED BY <1>2, <1>3, <1>4, <1>5, <1>6, <1>7 DEF Next, Kernel

(* A thread returns from tk_join only because the child it joined is dead,  *)
(* never because of another child, a timer or a cancelled neighbour.        *)
THEOREM JoinReturnsHolds == ASSUME Discipline PROVE Spec => JoinReturns
<1>1. ASSUME IInv, [Next]_vars
      PROVE  [\A p \in Tids :
                /\ valid[p] /\ "T" \in state[p]
                /\ valid'[p] /\ "T" \notin state'[p] /\ "Z" \notin state'[p]
                => "Z" \in state'[bon[p]]]_vars
  BY <1>1, JoinerWakes DEF vars
<1> QED BY <1>1, Invariance, PTL DEF Spec, JoinReturns

=============================================================================
