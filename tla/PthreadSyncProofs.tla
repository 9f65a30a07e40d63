------------------------- MODULE PthreadSyncProofs -------------------------
(****************************************************************************)
(* Lemmas about the primitives of pthread_sync.c, for any threads, mutexes  *)
(* and condition variables, and the theorems about threads that share one   *)
(* of each, for any number of threads of any priorities.                    *)
(****************************************************************************)
EXTENDS PthreadCond, SequenceTheorems, WellFoundedInduction, FiniteSetTheorems, TLAPS

LEMMA LeastNatural ==
  ASSUME NEW T \in SUBSET Nat, T # {}
  PROVE  \E x \in T : \A y \in T : x <= y
<1> DEFINE R == OpToRel(<, Nat)
<1>1. IsWellFoundedOn(R, Nat)
  BY NatLessThanWellFounded
<1>2. \A x, y \in Nat : <<x, y>> \in R <=> x < y
  BY DEF OpToRel
<1> HIDE DEF R
<1>3. PICK x \in T : \A y \in T : ~ (<<y, x>> \in R)
  BY <1>1, WFMin
<1>4. \A y \in T : ~(y < x)
  BY <1>2, <1>3
<1> QED BY <1>4

(* The choice of _mutex_unlock_primitive exists: the first of the most      *)
(* urgent.                                                                  *)
LEMMA FavouredIs ==
  ASSUME NEW b \in Seq(Threads), b # <<>>
  PROVE  Favoured(b) \in 1 .. Len(b)
<1> DEFINE P == {PrioOf[b[i]] : i \in 1 .. Len(b)}
<1>1. Len(b) \in Nat \ {0} /\ b \in [1 .. Len(b) -> Threads]
  BY EmptySeq, LenProperties
<1>2. P \in SUBSET Nat /\ P # {}
  BY <1>1, SyncAssumption
<1>3. PICK p \in P : \A q \in P : p <= q
  BY <1>2, LeastNatural
<1> DEFINE J == {i \in 1 .. Len(b) : PrioOf[b[i]] = p}
<1>4. J \in SUBSET Nat /\ J # {}
  BY <1>1, <1>3
<1>5. PICK j \in J : \A i \in J : j <= i
  BY <1>4, LeastNatural
<1>6. \A i \in 1 .. Len(b) : PrioOf[b[j]] < PrioOf[b[i]]
                             \/ (PrioOf[b[j]] = PrioOf[b[i]] /\ j <= i)
  <2> SUFFICES ASSUME NEW i \in 1 .. Len(b)
               PROVE  PrioOf[b[j]] < PrioOf[b[i]] \/ (PrioOf[b[j]] = PrioOf[b[i]] /\ j <= i)
    OBVIOUS
  <2>1. PrioOf[b[i]] \in P /\ p <= PrioOf[b[i]] /\ PrioOf[b[j]] = p
    BY <1>3, <1>5
  <2>2. p \in Nat /\ PrioOf[b[i]] \in Nat
    BY <1>2, <2>1
  <2>3. PrioOf[b[i]] = p => j <= i
    BY <1>5
  <2> QED BY <2>1, <2>2, <2>3
<1> QED BY <1>6 DEF Favoured

LEMMA RemoveAtIs ==
  ASSUME NEW S, NEW b \in Seq(S), NEW j \in 1 .. Len(b)
  PROVE  /\ RemoveAt(b, j) \in Seq(S) /\ Len(RemoveAt(b, j)) = Len(b) - 1
         /\ \A i \in 1 .. Len(b) - 1 :
              RemoveAt(b, j)[i] = IF i < j THEN b[i] ELSE b[i + 1]
<1> DEFINE front == SubSeq(b, 1, j - 1)  back == SubSeq(b, j + 1, Len(b))
<1>1. Len(b) \in Nat /\ b \in [1 .. Len(b) -> S]
  BY LenProperties
<1>2. /\ front \in Seq(S) /\ Len(front) = j - 1
      /\ \A i \in 1 .. j - 1 : front[i] = b[i]
  <2>1. j - 1 \in Int /\ 1 \in Int /\ \A i \in 1 .. j - 1 : b[i] \in S
    BY <1>1
  <2>2. /\ front \in Seq(S) /\ Len(front) = IF 1 <= j - 1 THEN j - 1 - 1 + 1 ELSE 0
        /\ \A i \in 1 .. (j - 1) - 1 + 1 : front[i] = b[1 + i - 1]
    BY <2>1, SubSeqProperties
  <2> HIDE DEF front
  <2> QED BY <2>2, <1>1
<1>3. /\ back \in Seq(S) /\ Len(back) = Len(b) - j
      /\ \A i \in 1 .. Len(b) - j : back[i] = b[j + i]
  <2>1. j + 1 \in Int /\ Len(b) \in Int /\ \A i \in j + 1 .. Len(b) : b[i] \in S
    BY <1>1
  <2>2. /\ back \in Seq(S) /\ Len(back) = IF j + 1 <= Len(b) THEN Len(b) - (j + 1) + 1 ELSE 0
        /\ \A i \in 1 .. Len(b) - (j + 1) + 1 : back[i] = b[(j + 1) + i - 1]
    BY <2>1, SubSeqProperties
  <2> HIDE DEF back
  <2>3. Len(back) = Len(b) - j
    <3>1. Len(b) \in Nat /\ j \in Nat /\ j <= Len(b)
      BY <1>1
    <3>2. CASE j + 1 <= Len(b)
      BY <2>2, <3>1, <3>2
    <3>3. CASE j = Len(b)
      BY <2>2, <3>1, <3>3
    <3> QED BY <3>1, <3>2, <3>3
  <2>4. \A i \in 1 .. Len(b) - j : back[i] = b[j + i]
    <3> SUFFICES ASSUME NEW i \in 1 .. Len(b) - j PROVE back[i] = b[j + i]
      OBVIOUS
    <3>1. i \in 1 .. Len(b) - (j + 1) + 1 /\ (j + 1) + i - 1 = j + i
      BY <1>1
    <3> QED BY <3>1, <2>2
  <2> QED BY <2>2, <2>3, <2>4
<1>4. RemoveAt(b, j) = front \o back
  BY DEF RemoveAt
<1> HIDE DEF front, back
<1>5. /\ front \o back \in Seq(S) /\ Len(front \o back) = Len(front) + Len(back)
      /\ \A i \in 1 .. Len(front) + Len(back) :
           (front \o back)[i] = IF i <= Len(front) THEN front[i] ELSE back[i - Len(front)]
  BY <1>2, <1>3, ConcatProperties
<1>6. \A i \in 1 .. Len(b) - 1 :
        (front \o back)[i] = IF i < j THEN b[i] ELSE b[i + 1]
  <2> SUFFICES ASSUME NEW i \in 1 .. Len(b) - 1
               PROVE  (front \o back)[i] = IF i < j THEN b[i] ELSE b[i + 1]
    OBVIOUS
  <2>1. CASE i < j
    BY <2>1, <1>1, <1>2, <1>3, <1>5
  <2>2. CASE ~(i < j)
    <3>1. i - (j - 1) \in 1 .. Len(b) - j /\ j + (i - (j - 1)) = i + 1
      BY <2>2, <1>1
    <3>2. back[i - (j - 1)] = b[i + 1]
      BY <3>1, <1>3
    <3> QED BY <2>2, <3>2, <1>1, <1>2, <1>3, <1>5
  <2> QED BY <2>1, <2>2
<1> QED BY <1>1, <1>2, <1>3, <1>4, <1>5, <1>6

-----------------------------------------------------------------------------
(* Lists without repetition, as sets.                                       *)
Distinct(b) == \A i, k \in 1 .. Len(b) : b[i] = b[k] => i = k

LEMMA ToSetIs ==
  ASSUME NEW S, NEW b \in Seq(S)
  PROVE  /\ ToSet(b) = {b[i] : i \in 1 .. Len(b)} /\ ToSet(b) \subseteq S
         /\ Len(b) \in Nat /\ (b = <<>> <=> ToSet(b) = {})
<1>1. Len(b) \in Nat /\ b \in [1 .. Len(b) -> S] /\ DOMAIN b = 1 .. Len(b)
  BY LenProperties
<1>2. b # <<>> => 1 \in 1 .. Len(b)
  BY EmptySeq, <1>1
<1>3. ToSet(<<>>) = {}
  BY DEF ToSet
<1> QED BY <1>1, <1>2, <1>3 DEF ToSet

LEMMA AppendDistinct ==
  ASSUME NEW S, NEW b \in Seq(S), NEW t \in S, Distinct(b), t \notin ToSet(b)
  PROVE  /\ Append(b, t) \in Seq(S) /\ Distinct(Append(b, t))
         /\ ToSet(Append(b, t)) = ToSet(b) \cup {t}
<1> DEFINE c == Append(b, t)
<1>1. /\ c \in Seq(S) /\ Len(c) = Len(b) + 1 /\ Len(b) \in Nat
      /\ \A i \in 1 .. Len(b) : c[i] = b[i]
      /\ c[Len(b) + 1] = t
  BY AppendProperties, LenProperties
<1> HIDE DEF c
<1>2. /\ ToSet(b) = {b[i] : i \in 1 .. Len(b)}
      /\ ToSet(c) = {c[i] : i \in 1 .. Len(c)}
  BY <1>1, ToSetIs
<1>3. Distinct(c)
  BY <1>1, <1>2 DEF Distinct
<1>4. ToSet(c) = ToSet(b) \cup {t}
  BY <1>1, <1>2
<1> QED BY <1>1, <1>3, <1>4 DEF c

LEMMA RemoveDistinct ==
  ASSUME NEW S, NEW b \in Seq(S), NEW j \in 1 .. Len(b), Distinct(b)
  PROVE  /\ RemoveAt(b, j) \in Seq(S) /\ Distinct(RemoveAt(b, j))
         /\ b[j] \in ToSet(b) /\ ToSet(RemoveAt(b, j)) = ToSet(b) \ {b[j]}
<1> DEFINE c == RemoveAt(b, j)
<1>1. /\ c \in Seq(S) /\ Len(c) = Len(b) - 1 /\ Len(b) \in Nat
      /\ \A i \in 1 .. Len(b) - 1 : c[i] = IF i < j THEN b[i] ELSE b[i + 1]
  BY RemoveAtIs, LenProperties
<1> HIDE DEF c
<1>2. /\ ToSet(b) = {b[i] : i \in 1 .. Len(b)}
      /\ ToSet(c) = {c[i] : i \in 1 .. Len(c)}
  BY <1>1, ToSetIs
<1>3. Distinct(c)
  <2> SUFFICES ASSUME NEW i \in 1 .. Len(c), NEW k \in 1 .. Len(c), c[i] = c[k] PROVE i = k
    BY DEF Distinct
  <2>1. \A x, y \in 1 .. Len(b) : b[x] = b[y] => x = y
    BY DEF Distinct
  <2> QED BY <2>1, <1>1
<1>4. ToSet(c) \subseteq ToSet(b) \ {b[j]}
  <2> SUFFICES ASSUME NEW i \in 1 .. Len(c) PROVE c[i] \in ToSet(b) \ {b[j]}
    BY <1>2
  <2>1. \A x, y \in 1 .. Len(b) : b[x] = b[y] => x = y
    BY DEF Distinct
  <2> QED BY <2>1, <1>1, <1>2
<1>5. ToSet(b) \ {b[j]} \subseteq ToSet(c)
  <2> SUFFICES ASSUME NEW i \in 1 .. Len(b), i # j PROVE b[i] \in ToSet(c)
    BY <1>2
  <2>1. CASE i < j
    <3>1. i \in 1 .. Len(c) /\ c[i] = b[i]
      BY <2>1, <1>1
    <3> QED BY <3>1, <1>2
  <2>2. CASE i > j
    <3>1. i - 1 \in 1 .. Len(c) /\ c[i - 1] = b[i]
      BY <2>2, <1>1
    <3> QED BY <3>1, <1>2
  <2> QED BY <2>1, <2>2
<1>6. b[j] \in ToSet(b)
  BY <1>2
<1> QED BY <1>1, <1>3, <1>4, <1>5, <1>6 DEF c

LEMMA DistinctCounts ==
  ASSUME NEW S, NEW b \in Seq(S), Distinct(b)
  PROVE  Cardinality(ToSet(b)) = Len(b)
<1>1. Len(b) \in Nat /\ b \in [1 .. Len(b) -> S]
  BY LenProperties
<1>2. ToSet(b) = {b[i] : i \in 1 .. Len(b)}
  BY ToSetIs
<1>3. b \in Bijection(1 .. Len(b), ToSet(b))
  BY <1>1, <1>2 DEF Distinct, Bijection, Injection, Surjection, IsInjective
<1> QED BY <1>1, <1>3, FS_CountingElements DEF ExistsBijection

-----------------------------------------------------------------------------
(* What holds of the lists on any value s of sync.                          *)
Muxes == Mutexes \cup Conds
Queue(s, m) == ToSet(s.mux[m].blocked)
MuxType == [owner : Threads \cup {NULL, One}, blocked : Seq(Threads)]
Value(mux, queued) == [mux |-> mux, queued |-> queued]

Typed(s) == s \in [mux : [Muxes -> MuxType], queued : SUBSET Threads]

Lists(s) ==
  /\ Typed(s)
  /\ \A m \in Muxes : /\ Distinct(s.mux[m].blocked)
                      /\ Queue(s, m) \subseteq s.queued
                      /\ IsFree(s, m) => Queue(s, m) = {}
  /\ \A t \in s.queued : \E m \in Muxes : t \in Queue(s, m)
  /\ \A m, n \in Muxes : \A t : t \in Queue(s, m) /\ t \in Queue(s, n) => m = n
  /\ \A m \in Mutexes : s.mux[m].owner \notin s.queued

LEMMA ListsSuffice ==
  ASSUME Lists(sync)
  PROVE  WaitersOK /\ \A m \in Muxes : IsFree(sync, m) => Blocked(m) = {}
<1>1. ASSUME NEW m \in Muxes
      PROVE  /\ Blocked(m) \subseteq sync.queued
             /\ Cardinality(Blocked(m)) = Len(sync.mux[m].blocked)
             /\ m \in Mutexes => sync.mux[m].owner \notin sync.queued
  <2>1. sync.mux[m].blocked \in Seq(Threads) /\ Distinct(sync.mux[m].blocked)
    BY DEF Lists, Typed, MuxType
  <2>2. Cardinality(Blocked(m)) = Len(sync.mux[m].blocked)
    BY <2>1, DistinctCounts DEF Blocked
  <2> QED BY <2>2 DEF Lists, Queue, Blocked
<1>2. ASSUME NEW t \in sync.queued
      PROVE  Cardinality({m \in Mutexes \cup Conds : t \in Blocked(m)}) = 1
  <2>1. PICK m \in Muxes : t \in Blocked(m)
    BY DEF Lists, Queue, Blocked
  <2>2. {n \in Mutexes \cup Conds : t \in Blocked(n)} = {m}
    BY <2>1 DEF Lists, Queue, Blocked, Muxes
  <2> QED BY <2>2, FS_Singleton
<1>3. WaitersOK
  BY <1>1, <1>2 DEF WaitersOK, Muxes
<1> QED BY <1>3 DEF Lists, Queue, Blocked

(* One mutex gets a new owner and a new list.                               *)
LEMMA PutIs ==
  ASSUME NEW s, Typed(s), NEW m \in Muxes, NEW new \in MuxType, NEW Q \in SUBSET Threads
  PROVE  LET r == Value([s.mux EXCEPT ![m] = new], Q)
         IN /\ Typed(r) /\ r.queued = Q /\ r.mux[m] = new
            /\ \A n \in Muxes \ {m} : r.mux[n] = s.mux[n]
BY DEF Typed, Value

(* The updates of one field, as such a pair.                                *)
LEMMA Fields ==
  ASSUME NEW s, Typed(s), NEW m \in Muxes
  PROVE  /\ s = Value(s.mux, s.queued)
         /\ s.mux[m] \in MuxType
         /\ \A o : [s.mux[m] EXCEPT !.owner = o]
                    = [owner |-> o, blocked |-> s.mux[m].blocked]
         /\ \A b : [s.mux[m] EXCEPT !.blocked = b]
                    = [owner |-> s.mux[m].owner, blocked |-> b]
<1>1. s.mux[m] \in MuxType /\ s = Value(s.mux, s.queued)
  BY DEF Typed, Value
<1> DEFINE e == s.mux[m]
<1>2. e = [owner |-> e.owner, blocked |-> e.blocked]
  <2> HIDE DEF e
  <2> QED BY <1>1 DEF MuxType, e
<1> HIDE DEF e
<1>3. \A o : [e EXCEPT !.owner = o] = [owner |-> o, blocked |-> e.blocked]
  BY <1>2
<1>4. \A b : [e EXCEPT !.blocked = b] = [owner |-> e.owner, blocked |-> b]
  BY <1>2
<1> QED BY <1>1, <1>3, <1>4 DEF e

OwnedBy(s, m, o) == [s EXCEPT !.mux[m].owner = o]

LEMMA SetOwner ==
  ASSUME NEW s, Typed(s), NEW m \in Muxes, NEW o
  PROVE  OwnedBy(s, m, o)
           = Value([s.mux EXCEPT ![m] = [owner |-> o, blocked |-> s.mux[m].blocked]], s.queued)
<1> DEFINE mux == s.mux  queued == s.queued  e == s.mux[m]
<1>1. s = Value(mux, queued) /\ [e EXCEPT !.owner = o] = [owner |-> o, blocked |-> e.blocked]
  BY Fields
<1>2. OwnedBy(s, m, o) = [s EXCEPT !.mux = [mux EXCEPT ![m] = [e EXCEPT !.owner = o]]]
  BY DEF OwnedBy
<1> HIDE DEF mux, queued, e
<1>3. [s EXCEPT !.mux = [mux EXCEPT ![m] = [e EXCEPT !.owner = o]]]
       = Value([mux EXCEPT ![m] = [owner |-> o, blocked |-> e.blocked]], queued)
  BY <1>1 DEF Value
<1> QED BY <1>2, <1>3 DEF mux, queued, e

BlockedAs(s, m, b, Q) == [s EXCEPT !.mux[m].blocked = b, !.queued = Q]

LEMMA SetBlocked ==
  ASSUME NEW s, Typed(s), NEW m \in Muxes, NEW b, NEW Q
  PROVE  BlockedAs(s, m, b, Q)
           = Value([s.mux EXCEPT ![m] = [owner |-> s.mux[m].owner, blocked |-> b]], Q)
<1> DEFINE mux == s.mux  queued == s.queued  e == s.mux[m]
<1>1. s = Value(mux, queued) /\ [e EXCEPT !.blocked = b] = [owner |-> e.owner, blocked |-> b]
  BY Fields
<1>2. BlockedAs(s, m, b, Q)
        = [s EXCEPT !.mux = [mux EXCEPT ![m] = [e EXCEPT !.blocked = b]], !.queued = Q]
  BY DEF BlockedAs
<1> HIDE DEF mux, queued, e
<1>3. ASSUME NEW M PROVE [s EXCEPT !.mux = M, !.queued = Q] = Value(M, Q)
  <2> DEFINE half == [s EXCEPT !.mux = M]
  <2>1. half = Value(M, queued)
    BY <1>1 DEF Value
  <2>2. [s EXCEPT !.mux = M, !.queued = Q] = [half EXCEPT !.queued = Q]
    OBVIOUS
  <2> HIDE DEF half
  <2>3. [half EXCEPT !.queued = Q] = Value(M, Q)
    BY <2>1 DEF Value
  <2> QED BY <2>2, <2>3
<1>4. [s EXCEPT !.mux = [mux EXCEPT ![m] = [e EXCEPT !.blocked = b]], !.queued = Q]
       = Value([mux EXCEPT ![m] = [owner |-> e.owner, blocked |-> b]], Q)
  BY <1>1, <1>3
<1> QED BY <1>2, <1>4 DEF mux, queued, e

LEMMA LockedKeeps ==
  ASSUME NEW s, Lists(s), NEW m \in Muxes, NEW t \in Threads \ s.queued,
         ~IsFree(s, m) => \A n \in Mutexes : s.mux[n].owner # t
  PROVE  LET r == Locked(s, m, t)
         IN /\ Lists(r) /\ \A n \in Muxes \ {m} : r.mux[n] = s.mux[n]
            /\ IsFree(s, m) => /\ r.queued = s.queued
                               /\ r.mux[m].owner = t /\ Queue(r, m) = {}
            /\ ~IsFree(s, m) => /\ r.queued = s.queued \cup {t}
                                /\ r.mux[m].owner = s.mux[m].owner
                                /\ Queue(r, m) = Queue(s, m) \cup {t}
<1> DEFINE r == Locked(s, m, t)
<1>1. Typed(s) /\ s.mux[m].blocked \in Seq(Threads) /\ Distinct(s.mux[m].blocked)
      /\ t \notin Queue(s, m) /\ s.queued \subseteq Threads /\ s.mux[m] \in MuxType
  BY DEF Lists, Typed, MuxType
<1>2. CASE IsFree(s, m)
  <2> DEFINE new == [owner |-> t, blocked |-> <<>>]
  <2>1. r = Value([s.mux EXCEPT ![m] = new], s.queued)
    BY <1>1, <1>2 DEF Locked, Value, Typed
  <2>2. new \in MuxType /\ new.owner = t /\ new.blocked = <<>>
    BY EmptySeq DEF MuxType
  <2> HIDE DEF new
  <2>3. /\ Typed(r) /\ r.queued = s.queued /\ r.mux[m] = new
        /\ \A n \in Muxes \ {m} : r.mux[n] = s.mux[n]
    BY <1>1, <2>1, <2>2, PutIs
  <2>4. ToSet(<<>>) = {} /\ Distinct(<<>>)
    BY DEF ToSet, Distinct
  <2> HIDE DEF r
  <2>5. Queue(r, m) = {} /\ \A n \in Muxes \ {m} : Queue(r, n) = Queue(s, n)
    BY <2>2, <2>3, <2>4 DEF Queue
  <2>6. Queue(s, m) = {}
    BY <1>2 DEF Lists
  <2>7. t # NULL
    BY SyncAssumption
  <2>8. Lists(r)
    BY <2>2, <2>3, <2>4, <2>5, <2>6, <2>7, <1>2 DEF Lists, IsFree, Muxes
  <2> QED BY <2>2, <2>3, <2>5, <2>8, <1>2 DEF r
<1>3. CASE ~IsFree(s, m)
  <2> DEFINE new == [owner |-> s.mux[m].owner, blocked |-> Append(s.mux[m].blocked, t)]
  <2>1. r = Value([s.mux EXCEPT ![m] = new], s.queued \cup {t})
    <3> DEFINE b == Append(s.mux[m].blocked, t)  Q == s.queued \cup {t}
    <3>1. r = BlockedAs(s, m, b, Q)
      BY <1>3 DEF Locked, BlockedAs
    <3> HIDE DEF r, b, Q
    <3>2. BlockedAs(s, m, b, Q)
            = Value([s.mux EXCEPT ![m] = [owner |-> s.mux[m].owner, blocked |-> b]], Q)
      BY <1>1, SetBlocked
    <3> QED BY <3>1, <3>2 DEF b, Q
  <2>2. /\ Append(s.mux[m].blocked, t) \in Seq(Threads)
        /\ Distinct(Append(s.mux[m].blocked, t))
        /\ ToSet(Append(s.mux[m].blocked, t)) = Queue(s, m) \cup {t}
    BY <1>1, AppendDistinct DEF Queue
  <2>3. /\ new \in MuxType /\ new.owner = s.mux[m].owner
        /\ new.blocked = Append(s.mux[m].blocked, t)
    BY <1>1, <2>2 DEF MuxType
  <2> HIDE DEF new
  <2>4. /\ Typed(r) /\ r.queued = s.queued \cup {t} /\ r.mux[m] = new
        /\ \A n \in Muxes \ {m} : r.mux[n] = s.mux[n]
    BY <1>1, <2>1, <2>3, PutIs
  <2> HIDE DEF r
  <2>5. /\ Queue(r, m) = Queue(s, m) \cup {t} /\ Distinct(r.mux[m].blocked)
        /\ \A n \in Muxes \ {m} : Queue(r, n) = Queue(s, n)
    BY <2>2, <2>3, <2>4 DEF Queue
  <2>6. \A n \in Muxes : t \notin Queue(s, n)
    BY DEF Lists
  <2>7. \A n \in Muxes : r.mux[n].owner = s.mux[n].owner
    BY <2>3, <2>4
  <2>8. Lists(r)
    BY <2>4, <2>5, <2>6, <2>7, <1>3 DEF Lists, IsFree, Muxes
  <2> QED BY <2>4, <2>5, <2>7, <2>8, <1>3 DEF r
<1> QED BY <1>2, <1>3

LEMMA UnlockedKeeps ==
  ASSUME NEW s, Lists(s), NEW m \in Muxes
  PROVE  LET r == Unlocked(s, m)
         IN /\ Lists(r) /\ \A n \in Muxes \ {m} : r.mux[n] = s.mux[n]
            /\ ~Wakes(s, m) => /\ r.queued = s.queued
                               /\ r.mux[m].owner = NULL
                               /\ Queue(r, m) = {} /\ Queue(s, m) = {}
            /\ Wakes(s, m) => \E u \in Queue(s, m) :
                 /\ r.queued = s.queued \ {u} /\ r.mux[m].owner = u
                 /\ Queue(r, m) = Queue(s, m) \ {u}
<1> DEFINE r == Unlocked(s, m)  b == s.mux[m].blocked
<1>1. Typed(s) /\ b \in Seq(Threads) /\ Distinct(b) /\ s.mux[m] \in MuxType
      /\ s.queued \subseteq Threads /\ Queue(s, m) \subseteq Threads
  BY DEF Lists, Typed, MuxType
<1>2. CASE ~Wakes(s, m)
  <2> DEFINE new == [owner |-> NULL, blocked |-> b]
  <2>1. r = Value([s.mux EXCEPT ![m] = new], s.queued)
    <3>1. r = OwnedBy(s, m, NULL)
      BY <1>2 DEF Unlocked, OwnedBy
    <3> QED BY <3>1, <1>1, SetOwner
  <2>2. new \in MuxType /\ new.owner = NULL /\ new.blocked = b
    BY <1>1 DEF MuxType
  <2> HIDE DEF new
  <2>3. /\ Typed(r) /\ r.queued = s.queued /\ r.mux[m] = new
        /\ \A n \in Muxes \ {m} : r.mux[n] = s.mux[n]
    BY <1>1, <2>1, <2>2, PutIs
  <2>4. Queue(s, m) = {}
    <3>1. CASE IsFree(s, m)
      BY <3>1 DEF Lists
    <3>2. CASE b = <<>>
      BY <3>2 DEF Queue, ToSet
    <3> QED BY <3>1, <3>2, <1>2 DEF Wakes
  <2> HIDE DEF r
  <2>5. \A n \in Muxes : Queue(r, n) = Queue(s, n) /\ Distinct(r.mux[n].blocked)
    BY <2>2, <2>3 DEF Queue, Lists
  <2>6. NULL \notin s.queued
    BY <1>1, SyncAssumption
  <2>7. Lists(r)
    BY <2>2, <2>3, <2>4, <2>5, <2>6 DEF Lists, IsFree, Muxes
  <2> QED BY <2>2, <2>3, <2>4, <2>5, <2>7, <1>2 DEF r
<1>3. CASE Wakes(s, m)
  <2> DEFINE j == Favoured(b)
             new == [owner |-> b[j], blocked |-> RemoveAt(b, j)]
  <2>1. j \in 1 .. Len(b)
    BY <1>1, <1>3, FavouredIs DEF Wakes
  <2>2. r = Value([s.mux EXCEPT ![m] = new], s.queued \ {b[j]})
    BY <1>3 DEF Unlocked, Value
  <2> HIDE DEF j
  <2>3. /\ RemoveAt(b, j) \in Seq(Threads) /\ Distinct(RemoveAt(b, j))
        /\ b[j] \in Queue(s, m) /\ ToSet(RemoveAt(b, j)) = Queue(s, m) \ {b[j]}
    BY <1>1, <2>1, RemoveDistinct DEF Queue
  <2>4. b[j] \in Threads
    BY <1>1, <2>3
  <2>5. new \in MuxType /\ new.owner = b[j] /\ new.blocked = RemoveAt(b, j)
    BY <2>3, <2>4 DEF MuxType
  <2> HIDE DEF new
  <2> DEFINE u == b[j]
  <2>6. /\ Typed(r) /\ r.queued = s.queued \ {u} /\ r.mux[m] = new
        /\ \A n \in Muxes \ {m} : r.mux[n] = s.mux[n]
    BY <1>1, <2>2, <2>5, PutIs
  <2> HIDE DEF r
  <2>7. /\ Queue(r, m) = Queue(s, m) \ {u} /\ Distinct(r.mux[m].blocked)
        /\ \A n \in Muxes \ {m} : Queue(r, n) = Queue(s, n)
    BY <2>3, <2>5, <2>6 DEF Queue
  <2>8. r.mux[m].owner = u /\ u \in Queue(s, m) /\ u # NULL
    BY <2>3, <2>4, <2>5, <2>6, SyncAssumption
  <2> HIDE DEF u
  <2>9. \A n \in Muxes \ {m} : u \notin Queue(s, n)
    BY <2>8 DEF Lists
  <2>10. Lists(r)
    BY <2>6, <2>7, <2>8, <2>9 DEF Lists, IsFree, Muxes
  <2> QED BY <2>6, <2>7, <2>8, <2>10, <1>3 DEF r
<1> QED BY <1>2, <1>3

LEMMA AllWokenKeeps ==
  ASSUME NEW s, Lists(s), NEW m \in Muxes
  PROVE  LET r == AllWoken(s, m)
         IN /\ Lists(r) /\ \A n \in Muxes \ {m} : r.mux[n] = s.mux[n]
            /\ r.queued = s.queued \ Queue(s, m) /\ Queue(r, m) = {}
<1> DEFINE r == AllWoken(s, m)  b == s.mux[m].blocked
<1>1. Typed(s) /\ b \in Seq(Threads) /\ Distinct(b) /\ s.mux[m] \in MuxType
      /\ s.queued \subseteq Threads
  BY DEF Lists, Typed, MuxType
<1>2. CASE ~Wakes(s, m)
  <2>1. r = Unlocked(s, m) /\ Queue(s, m) = {}
    BY <1>2, UnlockedKeeps DEF AllWoken, Unlocked
  <2> QED BY <2>1, <1>2, UnlockedKeeps
<1>3. CASE Wakes(s, m)
  <2> DEFINE new == [owner |-> s.mux[m].owner, blocked |-> <<>>]
  <2>1. r = Value([s.mux EXCEPT ![m] = new], s.queued \ Queue(s, m))
    <3>1. [s.mux[m] EXCEPT !.blocked = <<>>] = new
      BY <1>1, Fields
    <3>2. r = [mux |-> [s.mux EXCEPT ![m] = [s.mux[m] EXCEPT !.blocked = <<>>]],
               queued |-> s.queued \ Queue(s, m)]
      BY <1>3 DEF AllWoken, Queue
    <3> QED BY <3>1, <3>2 DEF Value
  <2>2. new \in MuxType /\ new.owner = s.mux[m].owner /\ new.blocked = <<>>
    BY <1>1, EmptySeq DEF MuxType
  <2> HIDE DEF new
  <2>3. /\ Typed(r) /\ r.queued = s.queued \ Queue(s, m) /\ r.mux[m] = new
        /\ \A n \in Muxes \ {m} : r.mux[n] = s.mux[n]
    BY <1>1, <2>1, <2>2, PutIs
  <2>4. ToSet(<<>>) = {} /\ Distinct(<<>>)
    BY DEF ToSet, Distinct
  <2> HIDE DEF r
  <2>5. Queue(r, m) = {} /\ \A n \in Muxes \ {m} : Queue(r, n) = Queue(s, n)
    BY <2>2, <2>3, <2>4 DEF Queue
  <2>6. \A n \in Muxes : r.mux[n].owner = s.mux[n].owner
    BY <2>2, <2>3
  <2>7. Lists(r)
    BY <2>2, <2>3, <2>4, <2>5, <2>6 DEF Lists, IsFree, Muxes
  <2> QED BY <2>3, <2>5, <2>7 DEF r
<1> QED BY <1>2, <1>3

(* A condition variable's mutex is made the dummy's again.                  *)
LEMMA OwnedKeeps ==
  ASSUME NEW s, Lists(s), NEW c \in Conds
  PROVE  LET r == OwnedBy(s, c, One)
         IN /\ Lists(r) /\ \A n \in Muxes \ {c} : r.mux[n] = s.mux[n]
            /\ r.queued = s.queued /\ r.mux[c].owner = One /\ Queue(r, c) = Queue(s, c)
<1> DEFINE r == OwnedBy(s, c, One)
           new == [owner |-> One, blocked |-> s.mux[c].blocked]
<1>1. Typed(s) /\ c \in Muxes /\ c \notin Mutexes /\ s.mux[c] \in MuxType
      /\ s.queued \subseteq Threads
  BY SyncAssumption DEF Lists, Typed, Muxes
<1>2. r = Value([s.mux EXCEPT ![c] = new], s.queued)
  BY <1>1, SetOwner
<1>3. new \in MuxType /\ new.owner = One /\ new.blocked = s.mux[c].blocked
  BY <1>1 DEF MuxType
<1> HIDE DEF new, r
<1>4. /\ Typed(r) /\ r.queued = s.queued /\ r.mux[c] = new
      /\ \A n \in Muxes \ {c} : r.mux[n] = s.mux[n]
  BY <1>1, <1>2, <1>3, PutIs
<1>5. \A n \in Muxes : Queue(r, n) = Queue(s, n) /\ r.mux[n].blocked = s.mux[n].blocked
  BY <1>3, <1>4 DEF Queue
<1>6. One # NULL
  BY SyncAssumption
<1>7. Lists(r)
  BY <1>1, <1>3, <1>4, <1>5, <1>6 DEF Lists, IsFree, Muxes
<1> QED BY <1>1, <1>3, <1>4, <1>5, <1>7 DEF r

(* Stacks of three.                                                         *)
LEMMA OfThree ==
  ASSUME NEW a, NEW b, NEW c
  PROVE  <<a, b>> \o <<c>> = <<a, b, c>> /\ SubSeq(<<a, b, c>>, 3, 3) = <<c>>
<1> DEFINE S == {a, b, c}  l == <<a, b>>  r == <<c>>  x == <<a, b, c>>
<1>1. /\ l \in Seq(S) /\ Len(l) = 2 /\ l[1] = a /\ l[2] = b
      /\ r \in Seq(S) /\ Len(r) = 1 /\ r[1] = c
      /\ x \in Seq(S) /\ Len(x) = 3 /\ x[1] = a /\ x[2] = b /\ x[3] = c
  OBVIOUS
<1> HIDE DEF l, r, x, S
<1>2. /\ l \o r \in Seq(S) /\ Len(l \o r) = Len(l) + Len(r)
      /\ \A i \in 1 .. Len(l) + Len(r) :
           (l \o r)[i] = IF i <= Len(l) THEN l[i] ELSE r[i - Len(l)]
  BY <1>1, ConcatProperties
<1>3. \A i \in 1 .. 3 : (l \o r)[i] = x[i]
  <2>1. (l \o r)[1] = a /\ (l \o r)[2] = b /\ (l \o r)[3] = c
    BY <1>1, <1>2
  <2>2. 1 .. 3 = {1, 2, 3}
    OBVIOUS
  <2> QED BY <2>1, <2>2, <1>1
<1>4. l \o r = x
  BY <1>1, <1>2, <1>3, SeqEqual
<1>5. /\ SubSeq(x, 3, 3) \in Seq(S) /\ Len(SubSeq(x, 3, 3)) = 1
      /\ SubSeq(x, 3, 3)[1] = c
  <2>1. \A i \in 3 .. 3 : x[i] \in S
    BY <1>1 DEF S
  <2>2. /\ SubSeq(x, 3, 3) \in Seq(S)
        /\ Len(SubSeq(x, 3, 3)) = IF 3 <= 3 THEN 3 - 3 + 1 ELSE 0
        /\ \A i \in 1 .. 3 - 3 + 1 : SubSeq(x, 3, 3)[i] = x[3 + i - 1]
    BY <2>1, SubSeqProperties
  <2> QED BY <2>2, <1>1
<1>6. SubSeq(x, 3, 3) = r
  <2>1. \A i \in 1 .. 1 : SubSeq(x, 3, 3)[i] = r[i]
    BY <1>1, <1>5
  <2> QED BY <2>1, <1>1, <1>5, SeqEqual
<1> QED BY <1>4, <1>6 DEF l, r, x

(* The lists of a next value, one conjunct of the invariant at a time.      *)
LEMMA NextLists ==
  ASSUME NEW r, Lists(r), sync' = r, \A c \in Conds : r.mux[c].owner # NULL
  PROVE  Lists(sync)' /\ \A c \in Conds : ~IsFree(sync, c)'
<1>1. Lists(sync')
  OBVIOUS
<1>2. Lists(sync)'
  BY <1>1 DEF Lists, Typed, MuxType, IsFree, Queue, ToSet, Distinct, Muxes
<1> QED BY <1>2 DEF IsFree

(* What the release of a mutex does, in whichever call.                     *)
LEMMA Released ==
  ASSUME NEW s, Lists(s), NEW m \in Muxes, NEW t \in Threads, t \notin s.queued
  PROVE  LET r == Unlocked(s, m)
         IN /\ Lists(r) /\ \A n \in Muxes \ {m} : r.mux[n] = s.mux[n]
            /\ t \notin r.queued /\ r.queued \subseteq s.queued /\ s.queued \subseteq Threads
            /\ ~Wakes(s, m) => r.queued = s.queued
            /\ Queue(r, m) \subseteq Queue(s, m)
            /\ \/ r.mux[m].owner = NULL /\ r.queued = s.queued
               \/ \E u \in Queue(s, m) : /\ r.mux[m].owner = u /\ u # t /\ u \in Threads
                                             /\ r.queued = s.queued \ {u}
<1> DEFINE r == Unlocked(s, m)
<1>1. /\ Lists(r) /\ \A n \in Muxes \ {m} : r.mux[n] = s.mux[n]
      /\ ~Wakes(s, m) => /\ r.queued = s.queued
                             /\ r.mux[m].owner = NULL
                             /\ Queue(r, m) = {} /\ Queue(s, m) = {}
      /\ Wakes(s, m) => \E u \in Queue(s, m) :
           /\ r.queued = s.queued \ {u} /\ r.mux[m].owner = u
           /\ Queue(r, m) = Queue(s, m) \ {u}
  BY UnlockedKeeps
<1>2. Queue(s, m) \subseteq s.queued
  BY DEF Lists
<1>3. s.queued \subseteq Threads
  BY DEF Lists, Typed
<1> HIDE DEF r
<1> QED BY <1>1, <1>2, <1>3 DEF r

(* The waking of one waiter of the condition variable.                      *)
LEMMA Signalled ==
  ASSUME NEW s, Lists(s), NEW c \in Conds, ~IsFree(s, c)
  PROVE  LET r == Rearmed(Unlocked(s, c), c)
         IN /\ Lists(r) /\ \A n \in Muxes \ {c} : r.mux[n] = s.mux[n]
            /\ r.mux[c].owner # NULL
            /\ r.queued \subseteq s.queued /\ s.queued \ r.queued \subseteq Queue(s, c)
            /\ Queue(r, c) \subseteq Queue(s, c)
<1>0. c \in Muxes /\ NULL \notin Threads /\ One # NULL
  BY SyncAssumption DEF Muxes
<1> DEFINE f == Unlocked(s, c)  r == Rearmed(Unlocked(s, c), c)
<1>1. /\ Lists(f) /\ \A n \in Muxes \ {c} : f.mux[n] = s.mux[n]
      /\ ~Wakes(s, c) => f.queued = s.queued /\ f.mux[c].owner = NULL
                            /\ Queue(f, c) = {} /\ Queue(s, c) = {}
      /\ Wakes(s, c) => \E u \in Queue(s, c) :
           /\ f.queued = s.queued \ {u} /\ f.mux[c].owner = u
           /\ Queue(f, c) = Queue(s, c) \ {u}
  BY <1>0, UnlockedKeeps
<1>2. Queue(s, c) \subseteq s.queued
  BY <1>0 DEF Lists
<1>3. s.queued \subseteq Threads
  BY DEF Lists, Typed
<1> HIDE DEF f
<1>4. CASE IsFree(f, c)
  <2>1. r = OwnedBy(f, c, One)
    BY <1>4 DEF Rearmed, OwnedBy, f
  <2>2. /\ Lists(r) /\ \A n \in Muxes \ {c} : r.mux[n] = f.mux[n]
        /\ r.queued = f.queued /\ r.mux[c].owner = One /\ Queue(r, c) = Queue(f, c)
    BY <2>1, <1>1, OwnedKeeps
  <2> HIDE DEF r
  <2> QED BY <2>2, <1>0, <1>1, <1>2 DEF r
<1>5. CASE ~IsFree(f, c)
  <2>1. r = f
    BY <1>5 DEF Rearmed, f
  <2> HIDE DEF r
  <2> QED BY <2>1, <1>1, <1>2, <1>5 DEF IsFree, r
<1> QED BY <1>4, <1>5

-----------------------------------------------------------------------------
(* Threads that share a mutex and a condition variable.                     *)
(* The stacks there are.                                                    *)
Within  == <<"in">>
Out == <<"out">>
Rel == <<"release", Cond, "out">>
Rlk == <<"relock", Cond, "in">>

CondKernel ==
  /\ active \in Threads /\ phase \in {"run", "yield"} /\ asleep \subseteq Threads
  /\ coop \in [Conds -> {NULL, Mutex}]
  /\ pc \in [Threads -> {Within, Out, Rel, Rlk}]

(* Whoever is in the second half of a call has made the condition variable  *)
(* and the mutex cooperate.                                                 *)
Cooperate == \A t \in Threads : pc[t] \in {Rel, Rlk} => coop[Cond] = Mutex

(* Who waits in which list is where it can be told from the stack.          *)
ListedAt ==
  /\ \A t \in Queue(sync, Mutex) : pc[t] = Within
  /\ \A t \in Queue(sync, Cond) : pc[t] = Rlk
  /\ \A m \in Muxes \ {Mutex, Cond} : Queue(sync, m) = {}

(* The mutex is owned by whoever is inside, and by nobody else.             *)
OwnsMutex(t) == (pc[t] = Within /\ t \notin sync.queued) \/ pc[t] = Rel
Owned ==
  /\ \A t \in Threads : OwnsMutex(t) => sync.mux[Mutex].owner = t
  /\ \A t \in Threads : sync.mux[Mutex].owner = t => pc[t] \in {Within, Rel}
  /\ \A m \in Mutexes \ {Mutex} : sync.mux[m].owner = NULL

CondInv ==
  /\ Lists(sync) /\ \A c \in Conds : ~IsFree(sync, c)
  /\ CondKernel /\ Cooperate /\ ListedAt /\ Owned
  /\ phase = "run" => active \notin sync.queued

-----------------------------------------------------------------------------
LEMMA StacksAre ==
  /\ Head(Within) = "in" /\ Head(Out) = "out" /\ Head(Rel) = "release" /\ Head(Rlk) = "relock"
  /\ Within # Out /\ Within # Rel /\ Within # Rlk /\ Out # Rel /\ Out # Rlk /\ Rel # Rlk
  /\ <<"release", Cond>> \o Out = Rel /\ <<"relock", Cond>> \o Within = Rlk
  /\ SubSeq(Rel, 3, Len(Rel)) = Out /\ SubSeq(Rlk, 3, Len(Rlk)) = Within
  /\ Rel[2] = Cond /\ Rlk[2] = Cond
<1>1. Head(Within) = "in" /\ Head(Out) = "out" /\ Head(Rel) = "release" /\ Head(Rlk) = "relock"
  BY DEF Within, Out, Rel, Rlk
<1>2. Within # Out /\ Within # Rel /\ Within # Rlk /\ Out # Rel /\ Out # Rlk /\ Rel # Rlk
  BY <1>1
<1>3. <<"release", Cond>> \o Out = Rel /\ <<"relock", Cond>> \o Within = Rlk
  BY OfThree DEF Within, Out, Rel, Rlk
<1>4. SubSeq(Rel, 3, Len(Rel)) = Out /\ SubSeq(Rlk, 3, Len(Rlk)) = Within
  <2>1. Len(Rel) = 3 /\ Len(Rlk) = 3
    BY DEF Rel, Rlk
  <2> QED BY <2>1, OfThree DEF Within, Out, Rel, Rlk
<1>5. Rel[2] = Cond /\ Rlk[2] = Cond
  BY DEF Rel, Rlk
<1> QED BY <1>1, <1>2, <1>3, <1>4, <1>5

LEMMA CondNames ==
  /\ Mutex \in Muxes /\ Cond \in Muxes /\ Mutex # Cond /\ Mutex \notin Conds
  /\ NULL \notin Threads /\ One \notin Threads /\ One # NULL
BY SyncAssumption, CondAssumption DEF Muxes

LEMMA CondPlaceIs ==
  ASSUME CondInv, NEW place, At(place)
  PROVE  /\ place = "in" => pc[active] = Within
         /\ place = "out" => pc[active] = Out
         /\ place = "release" => pc[active] = Rel
         /\ place = "relock" => pc[active] = Rlk
         /\ active \notin sync.queued
BY StacksAre DEF CondInv, CondKernel, At

(* pc after a call: only the caller's changes.                              *)
LEMMA GotoIs ==
  ASSUME CondKernel, NEW stack \in {Within, Out, Rel, Rlk}, Goto(stack)
  PROVE  /\ pc' \in [Threads -> {Within, Out, Rel, Rlk}] /\ pc'[active] = stack
         /\ \A t \in Threads \ {active} : pc'[t] = pc[t]
BY DEF CondKernel, Goto

-----------------------------------------------------------------------------
LEMMA LockStep ==
  ASSUME CondInv, phase = "run", pc[active] \in {Out, Rlk}, MutexLock(Mutex, Within)
  PROVE  CondInv'
<1> USE CondNames, StacksAre
<1> DEFINE s == sync  r == Locked(sync, Mutex, active)
<1>1. /\ Lists(s) /\ active \in Threads \ s.queued
      /\ \A n \in Mutexes : s.mux[n].owner # active
  BY DEF CondInv, Owned, CondKernel
<1>2. /\ Lists(r) /\ \A n \in Muxes \ {Mutex} : r.mux[n] = s.mux[n]
      /\ IsFree(s, Mutex) => /\ r.queued = s.queued
                             /\ r.mux[Mutex].owner = active /\ Queue(r, Mutex) = {}
      /\ ~IsFree(s, Mutex) => /\ r.queued = s.queued \cup {active}
                              /\ r.mux[Mutex].owner = s.mux[Mutex].owner
                              /\ Queue(r, Mutex) = Queue(s, Mutex) \cup {active}
  BY <1>1, LockedKeeps
<1> HIDE DEF r
<1>3. /\ sync' = r /\ UNCHANGED <<coop, active, asleep>>
      /\ phase' = IF ~IsFree(s, Mutex) THEN "yield" ELSE "run"
      /\ Goto(Within)
  BY DEF MutexLock, YieldIf, r
<1>4. /\ pc' \in [Threads -> {Within, Out, Rel, Rlk}] /\ pc'[active] = Within
      /\ \A t \in Threads \ {active} : pc'[t] = pc[t]
  BY <1>3, GotoIs DEF CondInv
<1>5. Lists(sync)' /\ \A c \in Conds : ~IsFree(sync, c)'
  <2>1. \A c \in Conds : r.mux[c].owner # NULL
    BY <1>2 DEF CondInv, IsFree, Muxes
  <2> QED BY <2>1, <1>2, <1>3, NextLists
<1>6. CondKernel' /\ Cooperate' /\ (phase' = "run" => active' \notin sync'.queued)
  BY <1>1, <1>2, <1>3, <1>4 DEF CondInv, CondKernel, Cooperate
<1>7. \A m \in Muxes \ {Mutex} : Queue(sync', m) = Queue(sync, m)
  BY <1>2, <1>3 DEF Queue
<1>8. Queue(sync, Cond) \subseteq sync.queued /\ sync.queued \subseteq Threads
      /\ Queue(sync, Mutex) \subseteq sync.queued
  BY DEF CondInv, Lists, Typed
<1>9. ListedAt'
  <2>1. ASSUME NEW t \in Queue(sync', Mutex) PROVE pc'[t] = Within
    <3>1. t \in Queue(sync, Mutex) \/ t = active
      BY <1>2, <1>3 DEF CondInv, Lists
    <3> QED BY <3>1, <1>1, <1>4, <1>8 DEF CondInv, ListedAt
  <2>2. \A t \in Queue(sync', Cond) : pc'[t] = Rlk
    BY <1>1, <1>4, <1>7, <1>8 DEF CondInv, ListedAt
  <2>3. \A m \in Muxes \ {Mutex, Cond} : Queue(sync', m) = {}
    BY <1>7 DEF CondInv, ListedAt
  <2> QED BY <2>1, <2>2, <2>3 DEF ListedAt, Queue
<1>10. Owned'
  <2>1. ASSUME NEW t \in Threads, OwnsMutex(t)' PROVE sync'.mux[Mutex].owner = t
    <3>1. CASE t = active
      <4>1. active \notin sync'.queued
        BY <2>1, <3>1, <1>3, <1>4 DEF OwnsMutex
      <4> QED BY <4>1, <3>1, <1>2, <1>3
    <3>2. CASE t # active
      <4>1. OwnsMutex(t)
        BY <2>1, <3>2, <1>2, <1>3, <1>4 DEF OwnsMutex
      <4>2. s.mux[Mutex].owner = t
        BY <4>1 DEF CondInv, Owned
      <4> QED BY <4>2, <1>2, <1>3 DEF IsFree
    <3> QED BY <3>1, <3>2
  <2>2. ASSUME NEW t \in Threads, sync'.mux[Mutex].owner = t PROVE pc'[t] \in {Within, Rel}
    <3>1. t = active \/ s.mux[Mutex].owner = t
      BY <2>2, <1>2, <1>3
    <3> QED BY <3>1, <1>4 DEF CondInv, Owned
  <2>3. \A m \in Mutexes \ {Mutex} : sync'.mux[m].owner = NULL
    BY <1>2, <1>3 DEF CondInv, Owned, Muxes
  <2> QED BY <2>1, <2>2, <2>3 DEF Owned
<1> QED BY <1>3, <1>5, <1>6, <1>9, <1>10 DEF CondInv

LEMMA UnlockStep ==
  ASSUME CondInv, phase = "run", pc[active] \in {Within, Rel}, MutexUnlock(Mutex, Out)
  PROVE  CondInv'
<1> USE CondNames, StacksAre
<1> DEFINE s == sync  r == Unlocked(sync, Mutex)
<1>1. Lists(s) /\ active \in Threads /\ active \notin s.queued
  BY DEF CondInv, CondKernel
<1>2. /\ Lists(r) /\ \A n \in Muxes \ {Mutex} : r.mux[n] = s.mux[n]
      /\ active \notin r.queued /\ r.queued \subseteq s.queued /\ s.queued \subseteq Threads
      /\ ~Wakes(s, Mutex) => r.queued = s.queued
      /\ Queue(r, Mutex) \subseteq Queue(s, Mutex)
      /\ \/ r.mux[Mutex].owner = NULL /\ r.queued = s.queued
         \/ \E u \in Queue(s, Mutex) : /\ r.mux[Mutex].owner = u /\ u # active /\ u \in Threads
                                       /\ r.queued = s.queued \ {u}
  BY <1>1, Released
<1> HIDE DEF r
<1>3. /\ sync' = r /\ UNCHANGED <<coop, active, asleep>>
      /\ phase' = IF Wakes(s, Mutex) THEN "yield" ELSE "run"
      /\ Goto(Out)
  BY DEF MutexUnlock, YieldIf, r
<1>4. /\ pc' \in [Threads -> {Within, Out, Rel, Rlk}] /\ pc'[active] = Out
      /\ \A t \in Threads \ {active} : pc'[t] = pc[t]
  BY <1>3, GotoIs DEF CondInv
<1>5. Lists(sync)' /\ \A c \in Conds : ~IsFree(sync, c)'
  <2>1. \A c \in Conds : r.mux[c].owner # NULL
    BY <1>2 DEF CondInv, IsFree, Muxes
  <2> QED BY <2>1, <1>2, <1>3, NextLists
<1>6. CondKernel' /\ Cooperate' /\ (phase' = "run" => active' \notin sync'.queued)
  BY <1>1, <1>2, <1>3, <1>4 DEF CondInv, CondKernel, Cooperate
<1>7. \A m \in Muxes \ {Mutex} : Queue(sync', m) = Queue(sync, m)
  BY <1>2, <1>3 DEF Queue
<1>8. Queue(sync, Cond) \subseteq sync.queued /\ Queue(sync, Mutex) \subseteq sync.queued
  BY DEF CondInv, Lists
<1>9. ListedAt'
  <2>1. \A t \in Queue(sync', Mutex) : t \in Queue(sync, Mutex) /\ t \in Threads \ {active}
    BY <1>1, <1>2, <1>3, <1>8
  <2>2. \A t \in Queue(sync', Cond) : t \in Queue(sync, Cond) /\ t \in Threads \ {active}
    BY <1>1, <1>2, <1>7, <1>8
  <2> QED BY <2>1, <2>2, <1>4, <1>7 DEF CondInv, ListedAt
<1>10. sync.mux[Mutex].owner = active
  BY <1>1 DEF CondInv, Owned, OwnsMutex
<1>11. \A u \in Queue(sync, Mutex) : pc[u] = Within
  BY DEF CondInv, ListedAt
<1>12. Owned'
  <2>1. ASSUME NEW t \in Threads, OwnsMutex(t)' PROVE sync'.mux[Mutex].owner = t
    <3>1. t # active /\ pc'[t] = pc[t]
      BY <2>1, <1>3, <1>4 DEF OwnsMutex
    <3>2. ~OwnsMutex(t)
      BY <3>1, <1>10 DEF CondInv, Owned
    <3>3. pc[t] = Within /\ t \in s.queued /\ t \notin r.queued
      BY <2>1, <3>1, <3>2, <1>3 DEF OwnsMutex
    <3> QED BY <3>3, <1>2, <1>3
  <2>2. ASSUME NEW t \in Threads, sync'.mux[Mutex].owner = t PROVE pc'[t] \in {Within, Rel}
    <3>1. r.mux[Mutex].owner = t /\ t # NULL
      BY <2>2, <1>3, SyncAssumption
    <3>2. t \in Queue(s, Mutex) /\ t # active
      BY <3>1, <1>2
    <3>3. pc'[t] = pc[t]
      BY <3>2, <1>4
    <3> QED BY <3>2, <3>3, <1>11
  <2>3. \A m \in Mutexes \ {Mutex} : sync'.mux[m].owner = NULL
    BY <1>2, <1>3 DEF CondInv, Owned, Muxes
  <2> QED BY <2>1, <2>2, <2>3 DEF Owned
<1> QED BY <1>3, <1>5, <1>6, <1>9, <1>12 DEF CondInv

LEMMA WaitStep ==
  ASSUME CondInv, phase = "run", pc[active] = Within, CondWait(Cond, Mutex, Within)
  PROVE  CondInv'
<1> USE CondNames, StacksAre
<1> DEFINE s == sync  f == Unlocked(sync, Mutex)  r == Locked(Unlocked(sync, Mutex), Cond, active)
<1>1. Lists(s) /\ active \in Threads /\ active \notin s.queued /\ ~IsFree(s, Cond)
      /\ Cond \in Conds /\ s.queued \subseteq Threads
  BY CondAssumption DEF CondInv, CondKernel, Lists, Typed
<1>2. /\ Lists(f) /\ \A n \in Muxes \ {Mutex} : f.mux[n] = s.mux[n]
      /\ active \notin f.queued /\ f.queued \subseteq s.queued
      /\ Queue(f, Mutex) \subseteq Queue(s, Mutex)
      /\ \/ f.mux[Mutex].owner = NULL /\ f.queued = s.queued
         \/ \E u \in Queue(s, Mutex) : /\ f.mux[Mutex].owner = u /\ u # active /\ u \in Threads
                                       /\ f.queued = s.queued \ {u}
  BY <1>1, Released
<1>3. \A n \in Mutexes : f.mux[n].owner # active
  <2>1. \A n \in Mutexes \ {Mutex} : f.mux[n].owner = NULL
    BY <1>2 DEF CondInv, Owned, Muxes
  <2>2. f.mux[Mutex].owner # active
    BY <1>1, <1>2
  <2> QED BY <2>1, <2>2, <1>1
<1> HIDE DEF f
<1>4. ~IsFree(f, Cond) /\ Queue(f, Cond) = Queue(s, Cond)
  BY <1>1, <1>2 DEF IsFree, Queue
<1>5. /\ Lists(r) /\ \A n \in Muxes \ {Cond} : r.mux[n] = f.mux[n]
      /\ r.queued = f.queued \cup {active} /\ r.mux[Cond].owner = f.mux[Cond].owner
      /\ Queue(r, Cond) = Queue(f, Cond) \cup {active}
  BY <1>1, <1>2, <1>3, <1>4, LockedKeeps DEF f
<1> HIDE DEF r
<1>6. /\ sync' = r /\ UNCHANGED <<active, asleep>> /\ phase' = "yield"
      /\ coop' = [coop EXCEPT ![Cond] = Mutex] /\ Goto(Rlk)
  BY DEF CondWait, r
<1>7. /\ pc' \in [Threads -> {Within, Out, Rel, Rlk}] /\ pc'[active] = Rlk
      /\ \A t \in Threads \ {active} : pc'[t] = pc[t]
  BY <1>6, GotoIs DEF CondInv
<1>8. Lists(sync)' /\ \A c \in Conds : ~IsFree(sync, c)'
  <2>1. ASSUME NEW c \in Conds PROVE r.mux[c].owner # NULL
    <3>1. c \in Muxes \ {Mutex} /\ s.mux[c].owner # NULL
      BY DEF CondInv, IsFree, Muxes
    <3>2. f.mux[c].owner # NULL
      BY <3>1, <1>2
    <3>3. r.mux[c].owner = f.mux[c].owner
      BY <3>1, <1>5
    <3> QED BY <3>2, <3>3
  <2> QED BY <2>1, <1>5, <1>6, NextLists
<1>9. CondKernel' /\ Cooperate'
  <2>1. coop' \in [Conds -> {NULL, Mutex}] /\ coop'[Cond] = Mutex
    BY <1>1, <1>6 DEF CondInv, CondKernel
  <2> QED BY <2>1, <1>1, <1>6, <1>7 DEF CondInv, CondKernel, Cooperate
<1>10. /\ Queue(sync', Mutex) \subseteq Queue(sync, Mutex)
       /\ Queue(sync', Cond) = Queue(sync, Cond) \cup {active}
       /\ \A m \in Muxes \ {Mutex, Cond} : Queue(sync', m) = Queue(sync, m)
  BY <1>2, <1>4, <1>5, <1>6 DEF Queue
<1>11. Queue(sync, Cond) \subseteq Threads /\ Queue(sync, Mutex) \subseteq sync.queued
  BY <1>1 DEF CondInv, Lists
<1>12. ListedAt'
  BY <1>1, <1>7, <1>10, <1>11 DEF CondInv, ListedAt
<1>13. sync.mux[Mutex].owner = active
  BY <1>1 DEF CondInv, Owned, OwnsMutex
<1>14. \A u \in Queue(sync, Mutex) : pc[u] = Within
  BY DEF CondInv, ListedAt
<1>15. Owned'
  <2>1. ASSUME NEW t \in Threads, OwnsMutex(t)' PROVE sync'.mux[Mutex].owner = t
    <3>1. t # active /\ pc'[t] = pc[t]
      BY <2>1, <1>7 DEF OwnsMutex
    <3>2. ~OwnsMutex(t)
      BY <3>1, <1>13 DEF CondInv, Owned
    <3>3. pc[t] = Within /\ t \in s.queued /\ t \notin f.queued
      BY <2>1, <3>1, <3>2, <1>5, <1>6 DEF OwnsMutex
    <3> QED BY <3>3, <1>2, <1>5, <1>6
  <2>2. ASSUME NEW t \in Threads, sync'.mux[Mutex].owner = t PROVE pc'[t] \in {Within, Rel}
    <3>1. t # NULL /\ f.mux[Mutex].owner = t
      BY <2>2, <1>5, <1>6
    <3>2. t \in Queue(s, Mutex) /\ t # active
      BY <3>1, <1>2
    <3>3. pc'[t] = pc[t] /\ pc[t] = Within
      BY <3>2, <1>7, <1>14
    <3> QED BY <3>3
  <2>3. \A m \in Mutexes \ {Mutex} : sync'.mux[m].owner = NULL
    <3>1. \A m \in Mutexes \ {Mutex} : m \in Muxes \ {Cond} /\ m \in Muxes \ {Mutex}
      BY SyncAssumption, CondAssumption DEF Muxes
    <3>2. \A m \in Mutexes \ {Mutex} : r.mux[m] = s.mux[m]
      BY <3>1, <1>2, <1>5
    <3> QED BY <3>2, <1>6 DEF CondInv, Owned
  <2> QED BY <2>1, <2>2, <2>3 DEF Owned
<1> QED BY <1>6, <1>8, <1>9, <1>12, <1>15 DEF CondInv

(* What the invariant says of the values of the synchronisation and of the  *)
(* stacks.                                                                  *)
LEMMA Unsynced ==
  ASSUME CondInv, UNCHANGED <<sync, coop, pc>>,
         active' \in Threads, phase' \in {"run", "yield"}, asleep' \subseteq Threads,
         phase' = "run" => active' \notin sync'.queued
  PROVE  CondInv'
<1>0. \A c \in Conds : sync.mux[c].owner # NULL
  BY DEF CondInv, IsFree
<1>1. Lists(sync)' /\ \A c \in Conds : ~IsFree(sync, c)'
  BY <1>0, NextLists DEF CondInv
<1>3. CondKernel' /\ Cooperate'
  BY DEF CondInv, CondKernel, Cooperate
<1>4. ListedAt'
  BY DEF CondInv, ListedAt, Queue, ToSet
<1>5. Owned'
  BY DEF CondInv, Owned, OwnsMutex
<1> QED BY <1>1, <1>3, <1>4, <1>5 DEF CondInv

(* A condition variable nobody has waited for yet.                          *)
LEMMA Uncooperative ==
  ASSUME CondInv, pc[active] = Within, coop[Cond] = NULL,
         Goto(After), UNCHANGED <<sync, phase, coop, active, asleep>>
  PROVE  CondInv'
<1>1. pc' = pc
  BY DEF CondInv, CondKernel, Goto, After, Within
<1> QED BY <1>1, Unsynced DEF CondInv, CondKernel

LEMMA SignalStep ==
  ASSUME CondInv, phase = "run", pc[active] = Within, CondSignal(Cond, After)
  PROVE  CondInv'
<1> USE CondNames, StacksAre
<1>1. CASE coop[Cond] = NULL
  BY <1>1, Uncooperative DEF CondSignal
<1>2. CASE coop[Cond] # NULL
  <2> DEFINE s == sync  r == Rearmed(Unlocked(sync, Cond), Cond)
  <2>1. Lists(s) /\ active \in Threads /\ active \notin s.queued /\ ~IsFree(s, Cond)
        /\ coop[Cond] = Mutex
    BY <1>2, CondAssumption DEF CondInv, CondKernel
  <2>2. /\ Lists(r) /\ \A n \in Muxes \ {Cond} : r.mux[n] = s.mux[n]
        /\ r.mux[Cond].owner # NULL
        /\ r.queued \subseteq s.queued /\ s.queued \ r.queued \subseteq Queue(s, Cond)
        /\ Queue(r, Cond) \subseteq Queue(s, Cond)
    BY <2>1, Signalled, CondAssumption
  <2> HIDE DEF r
  <2>3. /\ sync' = r /\ UNCHANGED <<coop, active, asleep>> /\ phase' \in {"run", "yield"}
        /\ Goto(Rel)
    BY <1>2, <2>1 DEF CondSignal, YieldIf, r, After, Out
  <2>4. /\ pc' \in [Threads -> {Within, Out, Rel, Rlk}] /\ pc'[active] = Rel
        /\ \A t \in Threads \ {active} : pc'[t] = pc[t]
    BY <2>3, GotoIs DEF CondInv
  <2>5. Lists(sync)' /\ \A c \in Conds : ~IsFree(sync, c)'
    <3>1. \A c \in Conds : r.mux[c].owner # NULL
      BY <2>2 DEF CondInv, IsFree, Muxes
    <3> QED BY <3>1, <2>2, <2>3, NextLists
  <2>6. CondKernel' /\ Cooperate' /\ (phase' = "run" => active' \notin sync'.queued)
    BY <2>1, <2>2, <2>3, <2>4 DEF CondInv, CondKernel, Cooperate
  <2>7. /\ Queue(sync', Cond) \subseteq Queue(sync, Cond)
        /\ \A m \in Muxes \ {Cond} : Queue(sync', m) = Queue(sync, m)
    BY <2>2, <2>3 DEF Queue
  <2>8. Queue(sync, Cond) \subseteq sync.queued /\ Queue(sync, Mutex) \subseteq sync.queued
        /\ sync.queued \subseteq Threads
    BY DEF CondInv, Lists, Typed
  <2>9. ListedAt'
    BY <2>1, <2>4, <2>7, <2>8 DEF CondInv, ListedAt
  <2>10. Owned'
    <3>1. sync'.mux[Mutex].owner = sync.mux[Mutex].owner /\ sync.mux[Mutex].owner = active
      BY <2>1, <2>2, <2>3 DEF CondInv, Owned, OwnsMutex
    <3>2. ASSUME NEW t \in Threads \ {active} PROVE ~OwnsMutex(t)'
      <4>1. ~OwnsMutex(t)
        BY <3>1 DEF CondInv, Owned
      <4>2. pc[t] = Within => t \in sync.queued /\ t \notin Queue(sync, Cond)
        BY <4>1 DEF OwnsMutex, CondInv, ListedAt
      <4> QED BY <4>1, <4>2, <2>2, <2>3, <2>4 DEF OwnsMutex
    <3>3. \A m \in Mutexes \ {Mutex} : sync'.mux[m].owner = NULL
      BY <2>2, <2>3, SyncAssumption, CondAssumption DEF CondInv, Owned, Muxes
    <3> QED BY <3>1, <3>2, <3>3, <2>4 DEF Owned
  <2> QED BY <2>3, <2>5, <2>6, <2>9, <2>10 DEF CondInv
<1> QED BY <1>1, <1>2

LEMMA BroadcastStep ==
  ASSUME CondInv, phase = "run", pc[active] = Within, CondBroadcast(Cond, After)
  PROVE  CondInv'
<1> USE CondNames, StacksAre
<1>1. CASE coop[Cond] = NULL
  BY <1>1, Uncooperative DEF CondBroadcast
<1>2. CASE coop[Cond] # NULL
  <2> DEFINE s == sync  w == AllWoken(sync, Cond)
             a == OwnedBy(AllWoken(sync, Cond), Cond, One)  r == Unlocked(a, Mutex)
  <2>1. Lists(s) /\ active \in Threads /\ active \notin s.queued /\ coop[Cond] = Mutex
        /\ Cond \in Conds
    BY <1>2, CondAssumption DEF CondInv, CondKernel
  <2>2. /\ Lists(w) /\ \A n \in Muxes \ {Cond} : w.mux[n] = s.mux[n]
        /\ w.queued = s.queued \ Queue(s, Cond) /\ Queue(w, Cond) = {}
    BY <2>1, AllWokenKeeps
  <2> HIDE DEF w
  <2>3. /\ Lists(a) /\ \A n \in Muxes \ {Cond} : a.mux[n] = w.mux[n]
        /\ a.queued = w.queued /\ a.mux[Cond].owner = One /\ Queue(a, Cond) = Queue(w, Cond)
    BY <2>1, <2>2, OwnedKeeps DEF w
  <2> HIDE DEF a
  <2>4. /\ Lists(r) /\ \A n \in Muxes \ {Mutex} : r.mux[n] = a.mux[n]
        /\ active \notin r.queued /\ r.queued \subseteq a.queued
        /\ Queue(r, Mutex) \subseteq Queue(a, Mutex)
        /\ \/ r.mux[Mutex].owner = NULL /\ r.queued = a.queued
           \/ \E u \in Queue(a, Mutex) : /\ r.mux[Mutex].owner = u /\ u # active /\ u \in Threads
                                         /\ r.queued = a.queued \ {u}
    <3>1. Lists(a) /\ active \notin a.queued
      BY <2>1, <2>2, <2>3
    <3> QED BY <3>1, <2>1, Released
  <2> HIDE DEF r
  <2>5. /\ sync' = r /\ UNCHANGED <<coop, active, asleep>> /\ phase' \in {"run", "yield"}
        /\ Goto(Out)
    BY <1>2, <2>1 DEF CondBroadcast, YieldIf, r, a, w, OwnedBy, After, Out
  <2>6. /\ pc' \in [Threads -> {Within, Out, Rel, Rlk}] /\ pc'[active] = Out
        /\ \A t \in Threads \ {active} : pc'[t] = pc[t]
    BY <2>5, GotoIs DEF CondInv
  <2>7. \A n \in Muxes \ {Mutex, Cond} : r.mux[n] = s.mux[n]
    BY <2>2, <2>3, <2>4
  <2>8. Lists(sync)' /\ \A c \in Conds : ~IsFree(sync, c)'
    <3>1. \A c \in Conds : r.mux[c].owner # NULL
      BY <2>3, <2>4, <2>7 DEF CondInv, IsFree, Muxes
    <3> QED BY <3>1, <2>4, <2>5, NextLists
  <2>9. CondKernel' /\ Cooperate' /\ (phase' = "run" => active' \notin sync'.queued)
    BY <2>1, <2>4, <2>5, <2>6 DEF CondInv, CondKernel, Cooperate
  <2>10. /\ Queue(a, Mutex) = Queue(sync, Mutex) /\ Queue(sync', Mutex) \subseteq Queue(sync, Mutex)
         /\ Queue(sync', Cond) = {}
         /\ \A m \in Muxes \ {Mutex, Cond} : Queue(sync', m) = Queue(sync, m)
    BY <2>2, <2>3, <2>4, <2>5, <2>7 DEF Queue
  <2>11. Queue(sync, Mutex) \subseteq sync.queued /\ sync.queued \subseteq Threads
    BY DEF CondInv, Lists, Typed
  <2>12. ListedAt'
    BY <2>1, <2>6, <2>10, <2>11 DEF CondInv, ListedAt
  <2>13. sync.mux[Mutex].owner = active
    BY <2>1 DEF CondInv, Owned, OwnsMutex
  <2>14. /\ \A u \in Queue(sync, Mutex) : pc[u] = Within
         /\ \A u \in Queue(sync, Cond) : pc[u] = Rlk
    BY DEF CondInv, ListedAt
  <2>15. Owned'
    <3>1. ASSUME NEW t \in Threads, OwnsMutex(t)' PROVE sync'.mux[Mutex].owner = t
      <4>1. t # active /\ pc'[t] = pc[t]
        BY <3>1, <2>6 DEF OwnsMutex
      <4>2. ~OwnsMutex(t)
        BY <4>1, <2>13 DEF CondInv, Owned
      <4>3. pc[t] = Within /\ t \in s.queued /\ t \notin r.queued
        BY <3>1, <4>1, <4>2, <2>5 DEF OwnsMutex
      <4>4. t \in a.queued
        BY <4>3, <2>2, <2>3, <2>14
      <4> QED BY <4>3, <4>4, <2>4, <2>5
    <3>2. ASSUME NEW t \in Threads, sync'.mux[Mutex].owner = t PROVE pc'[t] \in {Within, Rel}
      <4>1. r.mux[Mutex].owner = t
        BY <3>2, <2>5
      <4>2. t \in Queue(a, Mutex) /\ t # active
        BY <4>1, <2>4
      <4>3. pc'[t] = pc[t]
        BY <4>2, <2>6
      <4>4. pc[t] = Within
        BY <4>2, <2>10, <2>14
      <4> QED BY <4>3, <4>4
    <3>3. \A m \in Mutexes \ {Mutex} : sync'.mux[m].owner = NULL
      BY <2>5, <2>7, SyncAssumption, CondAssumption DEF CondInv, Owned, Muxes
    <3> QED BY <3>1, <3>2, <3>3 DEF Owned
  <2> QED BY <2>5, <2>8, <2>9, <2>12, <2>15 DEF CondInv
<1> QED BY <1>1, <1>2

-----------------------------------------------------------------------------
LEMMA InitCondInv == CondInit => CondInv
<1> SUFFICES ASSUME CondInit PROVE CondInv
  OBVIOUS
<1> USE CondNames, StacksAre
<1>1. /\ \A m \in Muxes : sync.mux[m] = [owner |-> IF m \in Conds THEN One ELSE NULL,
                                         blocked |-> <<>>]
      /\ sync.queued = {}
      /\ sync = [mux |-> [m \in Muxes |-> [owner |-> IF m \in Conds THEN One ELSE NULL,
                                           blocked |-> <<>>]], queued |-> {}]
  BY DEF CondInit, SyncInit, Muxes
<1>2. \A m \in Muxes : Queue(sync, m) = {} /\ Distinct(sync.mux[m].blocked)
  BY <1>1 DEF Queue, ToSet, Distinct
<1>3. Typed(sync)
  BY <1>1 DEF Typed, MuxType
<1>4. Lists(sync) /\ \A c \in Conds : ~IsFree(sync, c)
  BY <1>1, <1>2, <1>3, SyncAssumption DEF Lists, IsFree, Muxes
<1>5. CondKernel /\ pc = [t \in Threads |-> Out] /\ coop = [c \in Conds |-> NULL]
  BY DEF CondInit, SyncInit, CondKernel, Out
<1>6. Cooperate /\ ListedAt
  BY <1>2, <1>5 DEF Cooperate, ListedAt
<1>7. Owned
  BY <1>1, <1>5, SyncAssumption DEF Owned, OwnsMutex, Muxes
<1> QED BY <1>1, <1>4, <1>5, <1>6, <1>7 DEF CondInv

LEMMA NextCondInv == CondInv /\ [CondNext]_syncvars => CondInv'
<1> SUFFICES ASSUME CondInv, [CondNext]_syncvars PROVE CondInv'
  OBVIOUS
<1> USE StacksAre
<1>0. active \in Threads /\ phase \in {"run", "yield"} /\ asleep \subseteq Threads
  BY DEF CondInv, CondKernel
<1>1. CASE Lock
  BY <1>1, CondPlaceIs, LockStep DEF Lock, At, Within
<1>2. CASE Unlock
  BY <1>2, CondPlaceIs, UnlockStep DEF Unlock, At, Out
<1>3. CASE Wait
  BY <1>3, CondPlaceIs, WaitStep DEF Wait, At, Within
<1>4. CASE Signal
  BY <1>4, CondPlaceIs, SignalStep DEF Signal, At
<1>5. CASE Broadcast
  BY <1>5, CondPlaceIs, BroadcastStep DEF Broadcast, At
<1>6. CASE Release
  <2>1. phase = "run" /\ pc[active] = Rel
    BY <1>6, CondPlaceIs DEF Release, At
  <2>2. coop[Cond] = Mutex
    BY <2>1, <1>0 DEF CondInv, Cooperate
  <2>3. MutexUnlock(coop[pc[active][2]], SubSeq(pc[active], 3, Len(pc[active])))
    BY <1>6 DEF Release
  <2>4. MutexUnlock(Mutex, Out)
    BY <2>1, <2>2, <2>3
  <2> QED BY <2>1, <2>4, UnlockStep
<1>7. CASE Relock
  <2>1. phase = "run" /\ pc[active] = Rlk
    BY <1>7, CondPlaceIs DEF Relock, At
  <2>2. coop[Cond] = Mutex
    BY <2>1, <1>0 DEF CondInv, Cooperate
  <2>3. MutexLock(coop[pc[active][2]], SubSeq(pc[active], 3, Len(pc[active])))
    BY <1>7 DEF Relock
  <2>4. MutexLock(Mutex, Within)
    BY <2>1, <2>2, <2>3
  <2> QED BY <2>1, <2>4, LockStep
<1>8. CASE Yield({"in", "out"})
  BY <1>0, <1>8, Unsynced DEF Yield
<1>9. CASE Sleep({"in", "out"})
  <2>1. asleep' \subseteq Threads
    BY <1>0, <1>9 DEF Sleep
  <2> QED BY <2>1, <1>0, <1>9, Unsynced DEF Sleep
<1>10. CASE Dispatch
  BY <1>0, <1>10, Unsynced DEF Dispatch, IsMostUrgent, Ready
<1>11. CASE \E t \in Threads : Wake(t)
  BY <1>0, <1>11, Unsynced DEF Wake
<1>12. CASE UNCHANGED syncvars
  BY <1>0, <1>12, Unsynced DEF syncvars, CondInv
<1> QED BY <1>1, <1>2, <1>3, <1>4, <1>5, <1>6, <1>7, <1>8, <1>9, <1>10, <1>11, <1>12 DEF CondNext

-----------------------------------------------------------------------------
(* The strengthened invariant of pthread_mutex_lock, pthread_mutex_unlock,  *)
(* pthread_cond_wait, _signal and _broadcast: the lists of blocked threads  *)
(* are sound, each holds the threads in one place of one call, and the      *)
(* mutex is owned by exactly the thread that is inside.                     *)
THEOREM CondInvariance == CondSpec => []CondInv
BY InitCondInv, NextCondInv, PTL DEF CondSpec

(* The mutexes, the stacks of calls and the kernel's variables keep their   *)
(* types: a thread is inside, outside or in the second half of one call.    *)
THEOREM CondTypeCorrect == CondSpec => []CondTypeOK
<1>1. ASSUME CondInv PROVE CondTypeOK
  <2>1. SyncTypeOK
    <3>1. sync \in [mux : [Mutexes \cup Conds -> [owner : Threads \cup {NULL, One},
                                                  blocked : Seq(Threads)]],
                    queued : SUBSET Threads]
      BY <1>1 DEF CondInv, Lists, Typed, MuxType, Muxes
    <3> QED BY <1>1, <3>1, CondAssumption DEF CondInv, CondKernel, SyncTypeOK
  <2>2. ASSUME NEW t \in Threads
        PROVE  pc[t] \in {<<"in">>, <<"out">>}
                         \cup {<<"release", Cond>> \o s : s \in {<<"in">>, <<"out">>}}
                         \cup {<<"relock", Cond, "in">>}
    <3>1. <<"release", Cond>> \o <<"out">> = Rel
      BY StacksAre DEF Out
    <3>2. pc[t] \in {Within, Out, Rel, Rlk}
      BY <1>1 DEF CondInv, CondKernel
    <3> QED BY <3>1, <3>2 DEF Within, Out, Rlk
  <2> QED BY <1>1, <2>1, <2>2 DEF CondTypeOK, CondInv, CondKernel
<1> QED BY <1>1, CondInvariance, PTL

(* No waiter is lost or listed twice by _mutex_lock_primitive and           *)
(* _mutex_unlock_primitive, however the calls follow each other.            *)
THEOREM CondWaitersHold == CondSpec => []WaitersOK
<1>1. CondInv => WaitersOK
  BY ListsSuffice DEF CondInv
<1> QED BY <1>1, CondInvariance, PTL

(* Neither the assert(mutex->blocked.numb == 0) of the unlock primitive nor *)
(* the assert(y) of pthread_cond_wait can fail.                             *)
THEOREM AssertsHold == CondSpec => []SyncAsserts
<1>1. CondInv => SyncAsserts
  BY ListsSuffice DEF CondInv, SyncAsserts, Muxes
<1> QED BY <1>1, CondInvariance, PTL

(* Whoever has come back from pthread_mutex_lock or pthread_cond_wait owns  *)
(* the mutex: _mutex_unlock_primitive hands it over and nobody overtakes.   *)
THEOREM InsideOwnsHolds == CondSpec => []InsideOwns
<1>1. CondInv => InsideOwns
  BY DEF CondInv, Owned, OwnsMutex, InsideOwns, Inside, Within
<1> QED BY <1>1, CondInvariance, PTL
=============================================================================
