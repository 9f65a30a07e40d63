----------------------------- MODULE TkItcProofs -----------------------------
(****************************************************************************)
(* Proofs about the ITC objects: what the runs of TkItc, TkQueue and        *)
(* ItcDelete check on a few threads, for any number of threads of any       *)
(* priorities, any size of the ring of blocked threads and of the ring of   *)
(* messages.  The three share one inductive invariant (IInv): TkQueue and   *)
(* ItcDelete are compositions around TkItc.                                 *)
(****************************************************************************)
EXTENDS TkQueue, ItcDelete, SequenceTheorems, FiniteSetTheorems,
        WellFoundedInduction, TLAPS

(* A waiter with a time limit is more urgent than every other thread (so    *)
(* that there is at most one): see README for what happens otherwise.       *)
TimedFirst == \A t \in Timed : \A u \in Threads \ {t} : PrioOf[t] < PrioOf[u]

(* Where interrupt handlers signal and there is such a waiter, the ring     *)
(* (TK_MAX_BLOCKED_ON_Q) has room for one more: in a longer one a waiter    *)
(* can be lost, as the run itc_late shows.                                  *)
OneBeside == Handlers => Timed = {} \/ MaxBlocked <= 3

Rules == TimedFirst /\ OneBeside

-----------------------------------------------------------------------------
(* The ring as a line: its length, and its entries from out up to in.       *)
Objects == [token : Int, blocked : [Indices -> Threads \cup {None}],
            in : Indices, out : Indices, prior : BOOLEAN]

Length(x) == Gap(x.out, x.in)
SpotOf(x, k) == Wrap(x.out + k - 1)
EntryOf(x, k) == x.blocked[SpotOf(x, k)]
In(x, t) == \E k \in 1 .. Length(x) : EntryOf(x, k) = t

(* The counter and the ring agree, and nobody waits twice.                  *)
Sound(x) ==
  /\ x \in Objects
  /\ Length(x) = IF x.token < 0 THEN -x.token ELSE 0
  /\ \A k \in 1 .. Length(x) : EntryOf(x, k) \in Threads
  /\ \A j, k \in 1 .. Length(x) : EntryOf(x, j) = EntryOf(x, k) => j = k

(* y is x without its entry k.                                              *)
Closed(x, y, k) ==
  /\ Length(y) = Length(x) - 1
  /\ \A j \in 1 .. Length(x) - 1 :
       EntryOf(y, j) = IF j < k THEN EntryOf(x, j) ELSE EntryOf(x, j + 1)

LEMMA Sizes ==
  /\ MaxBlocked \in Nat /\ MaxBlocked >= 2 /\ None \notin Threads
  /\ \A i : i \in Indices <=> i \in Nat /\ i < MaxBlocked
BY ItcAssumption DEF Indices

LEMMA LengthIs ==
  ASSUME NEW x \in Objects
  PROVE  /\ Length(x) \in Nat /\ Length(x) < MaxBlocked
         /\ x.in \in Indices /\ x.out \in Indices /\ x.token \in Int
         /\ x.blocked \in [Indices -> Threads \cup {None}]
BY Sizes DEF Objects, Length, Gap

LEMMA SpotIs ==
  ASSUME NEW x \in Objects, NEW k \in Nat, 1 <= k, k <= Length(x) + 1
  PROVE  /\ SpotOf(x, k) \in Indices /\ Gap(x.out, SpotOf(x, k)) = k - 1
         /\ k = Length(x) + 1 => SpotOf(x, k) = x.in
         /\ k < Length(x) + 1 => Succ(SpotOf(x, k)) = SpotOf(x, k + 1)
         /\ Pred(Wrap(x.out + k)) = SpotOf(x, k)
         /\ EntryOf(x, k) \in Threads \cup {None}
<1>1. /\ Length(x) \in Nat /\ Length(x) < MaxBlocked
      /\ x.in \in Nat /\ x.in < MaxBlocked /\ x.out \in Nat /\ x.out < MaxBlocked
  BY LengthIs, Sizes
<1>2. Length(x) = IF x.out <= x.in THEN x.in - x.out ELSE MaxBlocked - x.out + x.in
  BY DEF Length, Gap
<1>3. SpotOf(x, k) = IF x.out + k - 1 >= MaxBlocked THEN x.out + k - 1 - MaxBlocked ELSE x.out + k - 1
  BY <1>1, Sizes DEF SpotOf, Wrap
<1>4. SpotOf(x, k) \in Indices
  BY <1>1, <1>3, Sizes
<1>5. Gap(x.out, SpotOf(x, k)) = k - 1
  BY <1>1, <1>3, Sizes DEF Gap
<1>6. k = Length(x) + 1 => SpotOf(x, k) = x.in
  BY <1>1, <1>2, <1>3, Sizes
<1>7. k < Length(x) + 1 => Succ(SpotOf(x, k)) = SpotOf(x, k + 1)
  BY <1>1, <1>3, Sizes DEF Succ, SpotOf, Wrap
<1>8. Pred(Wrap(x.out + k)) = SpotOf(x, k)
  BY <1>1, <1>3, Sizes DEF Pred, Wrap
<1>9. EntryOf(x, k) \in Threads \cup {None}
  BY <1>4, LengthIs DEF EntryOf
<1> QED BY <1>4, <1>5, <1>6, <1>7, <1>8, <1>9

LEMMA UsedIs ==
  ASSUME NEW x \in Objects
  PROVE  /\ \A k \in 1 .. Length(x) : SpotOf(x, k) \in Used(x)
         /\ \A i \in Used(x) : \E k \in 1 .. Length(x) : i = SpotOf(x, k)
         /\ \A j, k \in 1 .. Length(x) : SpotOf(x, j) = SpotOf(x, k) => j = k
<1>1. ASSUME NEW k \in 1 .. Length(x)
      PROVE  SpotOf(x, k) \in Indices /\ Gap(x.out, SpotOf(x, k)) = k - 1
  BY SpotIs, LengthIs
<1>2. ASSUME NEW k \in 1 .. Length(x) PROVE SpotOf(x, k) \in Used(x)
  BY <1>1, LengthIs DEF Used, Between, Length
<1>3. ASSUME NEW i \in Used(x) PROVE \E k \in 1 .. Length(x) : i = SpotOf(x, k)
  <2> DEFINE k == Gap(x.out, i) + 1
  <2>1. i \in Nat /\ i < MaxBlocked /\ x.out \in Nat /\ x.out < MaxBlocked
    BY LengthIs, Sizes DEF Used, Between
  <2>2. k \in 1 .. Length(x)
    BY <2>1, LengthIs, Sizes DEF Used, Between, Gap, Length
  <2>3. SpotOf(x, k) = i
    BY <2>1, Sizes DEF SpotOf, Wrap, Gap
  <2> QED BY <2>2, <2>3
<1> QED BY <1>1, <1>2, <1>3
(* Counting the ring: as many places in use as its length.                  *)
LEMMA UsedCounts ==
  ASSUME NEW x \in Objects
  PROVE  IsFiniteSet(Used(x)) /\ Cardinality(Used(x)) = Length(x)
<1> DEFINE n == Length(x)  f == [k \in 1 .. n |-> SpotOf(x, k)]
<1>1. n \in Nat
  BY LengthIs
<1>2. f \in Bijection(1 .. n, Used(x))
  <2>1. f \in Injection(1 .. n, Used(x))
    BY UsedIs DEF Injection, IsInjective
  <2>2. f \in Surjection(1 .. n, Used(x))
    BY UsedIs DEF Surjection
  <2> QED BY <2>1, <2>2 DEF Bijection
<1>3. IsFiniteSet(1 .. n) /\ Cardinality(1 .. n) = n
  <2>1. 1 \in Int /\ n \in Int
    BY <1>1
  <2> QED BY <2>1, <1>1, FS_Interval
<1>4. ExistsBijection(1 .. n, Used(x))
  BY <1>2 DEF ExistsBijection
<1> HIDE DEF n, f
<1> QED BY <1>3, <1>4, FS_Bijection DEF n

LEMMA InIs ==
  ASSUME NEW x \in Objects, NEW t
  PROVE  In(x, t) <=> \E i \in Used(x) : x.blocked[i] = t
BY UsedIs DEF In, EntryOf

(* What lock_stage does to the ring.                                        *)
LEMMA EnlistedIs ==
  ASSUME Sound(q), active \in Threads, MayBlock, ~In(q, active)
  PROVE  /\ Sound(Enlisted) /\ Length(Enlisted) = Length(q) + 1
         /\ \A k \in 1 .. Length(q) : EntryOf(Enlisted, k) = EntryOf(q, k)
         /\ EntryOf(Enlisted, Length(q) + 1) = active
         /\ Enlisted.out = q.out /\ Enlisted.in = Wrap(q.out + Length(q) + 1)
         /\ Enlisted.prior = q.prior /\ Enlisted.token = q.token - 1
         /\ Enlisted.token < 0
<1> DEFINE n == Length(q)
<1>1. q \in Objects /\ n \in Nat /\ q.token <= 0 /\ n = -q.token /\ n < MaxBlocked - 1
  BY LengthIs DEF Sound, MayBlock
<1>2. /\ q.in \in Indices /\ q.out \in Indices /\ q.token \in Int
      /\ q.blocked \in [Indices -> Threads \cup {None}] /\ q.prior \in BOOLEAN
      /\ q.in \in Nat /\ q.out \in Nat /\ q.in < MaxBlocked /\ q.out < MaxBlocked
  BY <1>1, LengthIs, Sizes DEF Objects
<1>3. Succ(q.in) \in Indices
  BY <1>2, Sizes DEF Succ, Wrap
<1>4. /\ Enlisted \in Objects
      /\ Enlisted.out = q.out /\ Enlisted.in = Succ(q.in) /\ Enlisted.token = q.token - 1
      /\ Enlisted.prior = q.prior
      /\ Enlisted.blocked = [q.blocked EXCEPT ![q.in] = active]
  <2>1. [q.blocked EXCEPT ![q.in] = active] \in [Indices -> Threads \cup {None}]
    BY <1>2
  <2>2. /\ Enlisted.out = q.out /\ Enlisted.in = Succ(q.in) /\ Enlisted.token = q.token - 1
        /\ Enlisted.prior = q.prior
        /\ Enlisted.blocked = [q.blocked EXCEPT ![q.in] = active]
    BY <1>1 DEF Enlisted, Objects
  <2>3. Enlisted \in Objects
    <3> DEFINE b == [q.blocked EXCEPT ![q.in] = active]
    <3>1. Enlisted = [[[q EXCEPT !.token = @ - 1] EXCEPT !.blocked = b] EXCEPT !.in = Succ(@)]
      BY <1>1 DEF Enlisted, Objects
    <3>2. b \in [Indices -> Threads \cup {None}]
      BY <2>1
    <3> HIDE DEF b
    <3>3. [q EXCEPT !.token = @ - 1] \in Objects
      BY <1>1 DEF Objects
    <3> QED BY <1>1, <1>2, <1>3, <3>1, <3>2, <3>3 DEF Objects
  <2> QED BY <2>2, <2>3
<1>5. n = IF q.out <= q.in THEN q.in - q.out ELSE MaxBlocked - q.out + q.in
  BY DEF Length, Gap
<1>6. Length(Enlisted) = n + 1
  BY <1>1, <1>2, <1>4, <1>5, Sizes DEF Length, Gap, Succ, Wrap
<1>7. Enlisted.in = Wrap(q.out + n + 1)
  BY <1>1, <1>2, <1>4, <1>5, Sizes DEF Succ, Wrap
<1>8. \A k \in 1 .. n + 1 : SpotOf(Enlisted, k) = SpotOf(q, k)
  BY <1>4 DEF SpotOf
<1>9. \A k \in 1 .. n : EntryOf(Enlisted, k) = EntryOf(q, k)
  <2> SUFFICES ASSUME NEW k \in 1 .. n PROVE EntryOf(Enlisted, k) = EntryOf(q, k)
    OBVIOUS
  <2>1. SpotOf(q, k) \in Indices /\ Gap(q.out, SpotOf(q, k)) = k - 1
    BY <1>1, SpotIs
  <2>2. Gap(q.out, q.in) = n
    BY DEF Length
  <2>3. SpotOf(q, k) # q.in
    BY <1>1, <2>1, <2>2
  <2> QED BY <1>1, <1>2, <1>4, <1>8, <2>1, <2>3 DEF EntryOf
<1>10. EntryOf(Enlisted, n + 1) = active
  <2>1. SpotOf(q, n + 1) = q.in
    BY <1>1, SpotIs
  <2> QED BY <1>1, <1>2, <1>4, <1>8, <2>1 DEF EntryOf
<1>11. Sound(Enlisted)
  <2>1. \A k \in 1 .. n : EntryOf(q, k) \in Threads /\ EntryOf(q, k) # active
    BY DEF Sound, In
  <2>2. \A j, k \in 1 .. n : EntryOf(q, j) = EntryOf(q, k) => j = k
    BY DEF Sound
  <2>3. \A k \in 1 .. n + 1 : k = n + 1 \/ k \in 1 .. n
    BY <1>1
  <2>4. \A k \in 1 .. n + 1 : EntryOf(Enlisted, k) \in Threads
    BY <2>1, <2>3, <1>9, <1>10
  <2>5. \A j, k \in 1 .. n + 1 : EntryOf(Enlisted, j) = EntryOf(Enlisted, k) => j = k
    BY <2>1, <2>2, <2>3, <1>9, <1>10
  <2> HIDE DEF n
  <2> QED BY <2>4, <2>5, <1>1, <1>2, <1>4, <1>6 DEF Sound
<1> QED BY <1>1, <1>2, <1>4, <1>6, <1>7, <1>9, <1>10, <1>11
(* Where the places of the ring lie to each other.                          *)
LEMMA SpotGap ==
  ASSUME NEW x \in Objects, NEW p \in 1 .. Length(x), NEW j \in 1 .. Length(x)
  PROVE  /\ SpotOf(x, j) \in Between(SpotOf(x, p), x.in) <=> p <= j
         /\ Pred(x.in) = SpotOf(x, Length(x))
         /\ x.out = SpotOf(x, 1)
<1> DEFINE n == Length(x)
<1>1. /\ n \in Nat /\ n < MaxBlocked /\ p \in Nat /\ j \in Nat /\ n >= 1
      /\ x.in \in Nat /\ x.in < MaxBlocked /\ x.out \in Nat /\ x.out < MaxBlocked
  BY LengthIs, Sizes
<1>2. n = IF x.out <= x.in THEN x.in - x.out ELSE MaxBlocked - x.out + x.in
  BY DEF Length, Gap
<1> HIDE DEF n
<1>3. \A k \in 1 .. n : SpotOf(x, k) = IF x.out + k - 1 >= MaxBlocked
                                       THEN x.out + k - 1 - MaxBlocked ELSE x.out + k - 1
  BY <1>1, Sizes DEF SpotOf, Wrap
<1>4. Pred(x.in) = SpotOf(x, n) /\ x.out = SpotOf(x, 1)
  BY <1>1, <1>2, <1>3, Sizes DEF Pred
<1>5. Gap(SpotOf(x, p), x.in) = n + 1 - p
  BY <1>1, <1>2, <1>3, Sizes DEF Gap, n
<1>6. Gap(SpotOf(x, p), SpotOf(x, j)) = IF p <= j THEN j - p ELSE MaxBlocked - (p - j)
  BY <1>1, <1>2, <1>3, Sizes DEF Gap, n
<1>7. SpotOf(x, j) \in Indices
  BY SpotIs, <1>1 DEF n
<1>8. SpotOf(x, j) \in Between(SpotOf(x, p), x.in) <=> p <= j
  BY <1>1, <1>5, <1>6, <1>7, Sizes DEF Between, n
<1> QED BY <1>4, <1>8 DEF n

(* _itc_removeBlocked takes one entry out, wherever it stands, and the      *)
(* others keep their order.                                                 *)
LEMMA RemovedIs ==
  ASSUME NEW x \in Objects, NEW p \in 1 .. Length(x),
         NEW y, y = RemoveBlocked(x, SpotOf(x, p))
  PROVE  /\ y \in Objects /\ Closed(x, y, p)
         /\ y.token = x.token + 1 /\ y.prior = x.prior
         /\ y.out = IF p = 1 THEN Succ(x.out) ELSE x.out
<1> DEFINE n == Length(x)  i == SpotOf(x, p)
<1>1. /\ n \in Nat /\ n < MaxBlocked /\ p \in Nat /\ p >= 1 /\ p <= n
      /\ x.in \in Indices /\ x.out \in Indices /\ x.token \in Int
      /\ x.blocked \in [Indices -> Threads \cup {None}]
      /\ x.in \in Nat /\ x.in < MaxBlocked /\ x.out \in Nat /\ x.out < MaxBlocked
  BY LengthIs, Sizes
<1>2. n = IF x.out <= x.in THEN x.in - x.out ELSE MaxBlocked - x.out + x.in
  BY DEF Length, Gap
<1>3. /\ i \in Indices /\ Succ(x.out) \in Indices /\ Pred(x.in) \in Indices
      /\ Pred(x.in) = SpotOf(x, n) /\ x.out = SpotOf(x, 1)
  BY <1>1, SpotIs, SpotGap, Sizes DEF Succ, Wrap, Pred
<1>4. \A j, k \in 1 .. n : SpotOf(x, j) = SpotOf(x, k) => j = k
  BY UsedIs
<1>5. \A j \in 1 .. n : SpotOf(x, j) \in Indices
  BY <1>1, SpotIs
<1> HIDE DEF n, i
<1>6. CASE x.out = i
  <2>1. p = 1
    BY <1>1, <1>3, <1>4, <1>6 DEF i
  <2> DEFINE b == [x.blocked EXCEPT ![i] = None]
  <2>2. y = [[[x EXCEPT !.token = @ + 1] EXCEPT !.blocked = b] EXCEPT !.out = Succ(@)]
    BY <1>6 DEF RemoveBlocked, Objects, i
  <2>3. b \in [Indices -> Threads \cup {None}] /\ \A k \in Indices \ {i} : b[k] = x.blocked[k]
    BY <1>1, <1>3
  <2> HIDE DEF b
  <2>4. [x EXCEPT !.token = @ + 1] \in Objects
    BY <1>1 DEF Objects
  <2>5. y \in Objects
    BY <1>3, <2>2, <2>3, <2>4 DEF Objects
  <2>6. /\ y.token = x.token + 1 /\ y.blocked = b /\ y.out = Succ(x.out) /\ y.in = x.in
        /\ y.prior = x.prior
    BY <2>2 DEF Objects
  <2>7. Length(y) = n - 1
    BY <1>1, <1>2, <2>6, Sizes DEF Length, Gap, Succ, Wrap
  <2>8. ASSUME NEW j \in 1 .. n - 1 PROVE EntryOf(y, j) = EntryOf(x, j + 1)
    <3>1. SpotOf(y, j) = SpotOf(x, j + 1)
      BY <1>1, <2>6, <2>8, Sizes DEF SpotOf, Succ, Wrap
    <3>2. j + 1 \in 1 .. n /\ j + 1 # p
      BY <1>1, <2>1
    <3>3. SpotOf(x, j + 1) # i /\ SpotOf(x, j + 1) \in Indices
      BY <1>1, <1>4, <1>5, <3>2 DEF i
    <3> QED BY <2>3, <2>6, <3>1, <3>3 DEF EntryOf
  <2>9. Closed(x, y, p)
    BY <2>1, <2>7, <2>8 DEF Closed, n
  <2> QED BY <2>1, <2>5, <2>6, <2>9
<1>7. CASE x.out # i /\ Pred(x.in) = i
  <2>1. p = n /\ p # 1
    <3>1. n \in 1 .. n /\ p \in 1 .. n
      BY <1>1
    <3>2. SpotOf(x, p) = SpotOf(x, n) /\ SpotOf(x, p) # SpotOf(x, 1)
      BY <1>3, <1>7 DEF i
    <3> QED BY <1>4, <3>1, <3>2
  <2> DEFINE b == [x.blocked EXCEPT ![i] = None]
  <2>2. y = [[[x EXCEPT !.token = @ + 1] EXCEPT !.blocked = b] EXCEPT !.in = Pred(@)]
    BY <1>7 DEF RemoveBlocked, Objects, i
  <2>3. b \in [Indices -> Threads \cup {None}] /\ \A k \in Indices \ {i} : b[k] = x.blocked[k]
    BY <1>1, <1>3
  <2> HIDE DEF b
  <2>4. [x EXCEPT !.token = @ + 1] \in Objects
    BY <1>1 DEF Objects
  <2>5. y \in Objects
    BY <1>3, <2>2, <2>3, <2>4 DEF Objects
  <2>6. /\ y.token = x.token + 1 /\ y.blocked = b /\ y.out = x.out /\ y.in = Pred(x.in)
        /\ y.prior = x.prior
    BY <2>2 DEF Objects
  <2>7. Length(y) = n - 1
    BY <1>1, <1>2, <2>6, Sizes DEF Length, Gap, Pred
  <2>8. ASSUME NEW j \in 1 .. n - 1 PROVE EntryOf(y, j) = EntryOf(x, j)
    <3>1. SpotOf(y, j) = SpotOf(x, j)
      BY <2>6 DEF SpotOf
    <3>2. j \in 1 .. n /\ j # p
      BY <1>1, <2>1
    <3>3. SpotOf(x, j) # i /\ SpotOf(x, j) \in Indices
      BY <1>1, <1>4, <1>5, <3>2 DEF i
    <3> QED BY <2>3, <2>6, <3>1, <3>3 DEF EntryOf
  <2>9. Closed(x, y, p)
    BY <1>1, <2>1, <2>7, <2>8 DEF Closed, n
  <2> QED BY <2>1, <2>5, <2>6, <2>9
<1>8. CASE x.out # i /\ Pred(x.in) # i
  <2>1. p # n /\ p # 1
    BY <1>1, <1>3, <1>8 DEF i
  <2> DEFINE b == [k \in Indices |-> IF k \in Between(i, x.in) THEN x.blocked[Succ(k)]
                                                               ELSE x.blocked[k]]
  <2>2. y = [[[x EXCEPT !.token = @ + 1] EXCEPT !.in = Pred(@)] EXCEPT !.blocked = b]
    BY <1>8 DEF RemoveBlocked, Objects, i
  <2>3. b \in [Indices -> Threads \cup {None}]
    <3>1. \A k \in Indices : Succ(k) \in Indices
      BY Sizes DEF Succ, Wrap
    <3> QED BY <1>1, <3>1
  <2>4. \A k \in Indices : b[k] = IF k \in Between(i, x.in) THEN x.blocked[Succ(k)]
                                                            ELSE x.blocked[k]
    OBVIOUS
  <2> HIDE DEF b
  <2>5. [x EXCEPT !.token = @ + 1] \in Objects
    BY <1>1 DEF Objects
  <2>6. y \in Objects
    BY <1>3, <2>2, <2>3, <2>5 DEF Objects
  <2>7. /\ y.token = x.token + 1 /\ y.blocked = b /\ y.out = x.out /\ y.in = Pred(x.in)
        /\ y.prior = x.prior
    BY <2>2 DEF Objects
  <2>8. Length(y) = n - 1
    BY <1>1, <1>2, <2>7, Sizes DEF Length, Gap, Pred
  <2>9. ASSUME NEW j \in 1 .. n - 1
        PROVE  EntryOf(y, j) = IF j < p THEN EntryOf(x, j) ELSE EntryOf(x, j + 1)
    <3>1. SpotOf(y, j) = SpotOf(x, j) /\ j \in 1 .. n /\ j \in Nat
      BY <1>1, <2>7 DEF SpotOf
    <3>2. SpotOf(x, j) \in Indices /\ Succ(SpotOf(x, j)) = SpotOf(x, j + 1)
      BY <1>1, <3>1, SpotIs DEF n
    <3>3. SpotOf(x, j) \in Between(i, x.in) <=> p <= j
      BY <3>1, SpotGap DEF i, n
    <3>4. CASE j < p
      BY <1>1, <2>4, <2>7, <3>1, <3>2, <3>3, <3>4 DEF EntryOf
    <3>5. CASE ~(j < p)
      BY <1>1, <2>4, <2>7, <3>1, <3>2, <3>3, <3>5 DEF EntryOf
    <3> QED BY <3>4, <3>5
  <2>10. Closed(x, y, p)
    BY <2>8, <2>9 DEF Closed, n
  <2> QED BY <2>1, <2>6, <2>7, <2>10
<1> QED BY <1>6, <1>7, <1>8

(* A signal in FIFO order takes the first entry.                            *)
LEMMA FirstTaken ==
  ASSUME NEW x \in Objects, 1 <= Length(x),
         NEW y, y = [x EXCEPT !.out = Wrap(@ + 1), !.token = @ + 1]
  PROVE  /\ y \in Objects /\ Closed(x, y, 1)
         /\ y.token = x.token + 1 /\ y.prior = x.prior /\ y.out = Succ(x.out)
<1> DEFINE n == Length(x)
<1>1. /\ n \in Nat /\ n < MaxBlocked
      /\ x.in \in Indices /\ x.out \in Indices /\ x.token \in Int
      /\ x.in \in Nat /\ x.in < MaxBlocked /\ x.out \in Nat /\ x.out < MaxBlocked
  BY LengthIs, Sizes
<1>2. n = IF x.out <= x.in THEN x.in - x.out ELSE MaxBlocked - x.out + x.in
  BY DEF Length, Gap
<1>3. Succ(x.out) \in Indices
  BY <1>1, Sizes DEF Succ, Wrap
<1>4. y \in Objects
  <2>1. y = [[x EXCEPT !.token = @ + 1] EXCEPT !.out = Succ(@)]
    BY DEF Objects, Succ
  <2>2. [x EXCEPT !.token = @ + 1] \in Objects
    BY <1>1 DEF Objects
  <2> QED BY <1>3, <2>1, <2>2 DEF Objects
<1>5. /\ y.token = x.token + 1 /\ y.blocked = x.blocked /\ y.out = Succ(x.out)
      /\ y.in = x.in /\ y.prior = x.prior
  BY DEF Objects, Succ
<1> HIDE DEF n
<1>6. Length(y) = n - 1
  BY <1>1, <1>2, <1>5, Sizes DEF Length, Gap, Succ, Wrap, n
<1>7. ASSUME NEW j \in 1 .. n - 1 PROVE EntryOf(y, j) = EntryOf(x, j + 1)
  <2>1. SpotOf(y, j) = SpotOf(x, j + 1)
    BY <1>1, <1>5, <1>7, Sizes DEF SpotOf, Succ, Wrap
  <2> QED BY <1>5, <2>1 DEF EntryOf
<1>8. Closed(x, y, 1)
  BY <1>1, <1>6, <1>7 DEF Closed, n
<1> QED BY <1>4, <1>5, <1>8

(* Taking an entry out keeps counter and ring in step.                      *)
LEMMA ClosedSound ==
  ASSUME NEW x, Sound(x), NEW y \in Objects, NEW p \in 1 .. Length(x), Closed(x, y, p),
         y.token = x.token + 1
  PROVE  /\ Sound(y) /\ x.token < 0
         /\ \A t : In(y, t) <=> In(x, t) /\ t # EntryOf(x, p)
<1> DEFINE n == Length(x)
<1>1. /\ n \in Nat /\ p \in Nat /\ 1 <= p /\ p <= n /\ x.token \in Int /\ x.token < 0
      /\ n = -x.token /\ Length(y) = n - 1
  BY LengthIs DEF Sound, Closed
<1>2. /\ \A k \in 1 .. n : EntryOf(x, k) \in Threads
      /\ \A j, k \in 1 .. n : EntryOf(x, j) = EntryOf(x, k) => j = k
      /\ \A j \in 1 .. n - 1 : EntryOf(y, j) = IF j < p THEN EntryOf(x, j) ELSE EntryOf(x, j + 1)
  BY DEF Sound, Closed
<1> HIDE DEF n
<1>3. \A j \in 1 .. n - 1 : j \in 1 .. n /\ j + 1 \in 1 .. n /\ j \in Nat
  BY <1>1
<1>4. \A j \in 1 .. n - 1 : EntryOf(y, j) \in Threads
  BY <1>2, <1>3
<1>5. \A j, k \in 1 .. n - 1 : EntryOf(y, j) = EntryOf(y, k) => j = k
  BY <1>1, <1>2, <1>3
<1>6. Sound(y)
  <2>1. Length(y) = IF y.token < 0 THEN -y.token ELSE 0
    BY <1>1
  <2> QED BY <2>1, <1>1, <1>4, <1>5 DEF Sound
<1>7. ASSUME NEW t, In(y, t) PROVE In(x, t) /\ t # EntryOf(x, p)
  <2>1. PICK j \in 1 .. n - 1 : EntryOf(y, j) = t
    BY <1>1, <1>7 DEF In
  <2>2. PICK k \in 1 .. n : k # p /\ EntryOf(x, k) = t
    BY <1>1, <1>2, <1>3, <2>1
  <2> QED BY <1>1, <1>2, <2>2 DEF In, n
<1>8. ASSUME NEW t, In(x, t), t # EntryOf(x, p) PROVE In(y, t)
  <2>1. PICK k \in 1 .. n : EntryOf(x, k) = t /\ k # p
    BY <1>8 DEF In, n
  <2>2. PICK j \in 1 .. n - 1 : k = IF j < p THEN j ELSE j + 1
    <3>1. k \in Nat
      OBVIOUS
    <3>2. CASE k < p
      BY <1>1, <2>1, <3>1, <3>2
    <3>3. CASE k > p
      <4>1. k - 1 \in 1 .. n - 1 /\ ~(k - 1 < p) /\ k - 1 + 1 = k
        BY <1>1, <2>1, <3>1, <3>3
      <4> QED BY <4>1
    <3> QED BY <1>1, <2>1, <3>1, <3>2, <3>3
  <2>3. EntryOf(y, j) = t
    BY <1>2, <2>1, <2>2
  <2> QED BY <1>1, <2>3 DEF In
<1> QED BY <1>1, <1>6, <1>7, <1>8
-----------------------------------------------------------------------------
(* The sweep at the end of a wait that has timed out finds nothing to do    *)
(* when no entry of the ring is late.                                       *)
LEMMA LeastNumber ==
  ASSUME NEW T \in SUBSET Nat, T # {}
  PROVE  \E x \in T : \A y \in T : x <= y
<1> DEFINE R == OpToRel(<, Nat)
<1>1. IsWellFoundedOn(R, Nat)
  BY NatLessThanWellFounded
<1>2. \A x, y \in Nat : <<x, y>> \in R <=> x < y
  BY DEF OpToRel
<1> HIDE DEF R
<1>3. PICK x \in T : \A y \in T : ~ (<<y, x>> \in R)
  BY <1>1, WFMin
<1>4. \A y \in T : ~(y < x)
  BY <1>2, <1>3
<1> QED BY <1>4

LEMMA MaxIsIn ==
  ASSUME NEW s \in SUBSET (1 .. MaxBlocked), s # {}
  PROVE  Max(s) \in s
<1> DEFINE T == {MaxBlocked - i : i \in s}
<1>1. \A i \in s : i \in Nat /\ i <= MaxBlocked
  BY Sizes
<1>2. T \in SUBSET Nat /\ T # {}
  <2>1. \A i \in s : MaxBlocked - i \in Nat
    BY <1>1, Sizes
  <2> QED BY <2>1
<1>3. PICK d \in T : \A e \in T : d <= e
  BY <1>2, LeastNumber
<1>4. PICK i \in s : d = MaxBlocked - i
  BY <1>3
<1>5. \A j \in s : i >= j
  <2> SUFFICES ASSUME NEW j \in s PROVE i >= j
    OBVIOUS
  <2>1. MaxBlocked - j \in T
    OBVIOUS
  <2>2. MaxBlocked - i <= MaxBlocked - j /\ i \in Nat /\ j \in Nat
    BY <1>1, <1>3, <1>4, <2>1
  <2> QED BY <2>2, Sizes
<1> QED BY <1>5 DEF Max

(* The sweep's state after n turns of its loop.                             *)
SweptAt(x, ev, n) ==
  [x |-> x, event |-> ev,
   at |-> Wrap(x.out + (IF n <= Length(x) THEN n ELSE Length(x))), done |-> n >= Length(x)]

LEMMA SweepTurn ==
  ASSUME NEW x \in Objects, 1 <= Length(x), x.token < 0, NEW ev,
         \A k \in 1 .. Length(x) :
            ~(EntryOf(x, k) # None /\ Ready(EntryOf(x, k)) /\ ev[EntryOf(x, k)] = "E_TIMER"),
         NEW n \in Nat
  PROVE  SweptAt(x, ev, n + 1) = IF SweptAt(x, ev, n).done THEN SweptAt(x, ev, n)
                                                           ELSE SweepOne(SweptAt(x, ev, n))
<1>1. Length(x) \in Nat /\ x.token \in Int
  BY LengthIs
<1>2. CASE n >= Length(x)
  <2>1. /\ (n >= Length(x)) = TRUE /\ (n + 1 >= Length(x)) = TRUE
        /\ (IF n <= Length(x) THEN n ELSE Length(x)) = Length(x)
        /\ (IF n + 1 <= Length(x) THEN n + 1 ELSE Length(x)) = Length(x)
    BY <1>1, <1>2
  <2> QED BY <2>1 DEF SweptAt
<1>3. CASE ~(n >= Length(x))
  <2>1. n + 1 \in 1 .. Length(x) /\ n <= Length(x) /\ n + 1 <= Length(x)
    BY <1>1, <1>3
  <2> DEFINE at == SpotOf(x, n + 1)
  <2>2. SweptAt(x, ev, n) = [x |-> x, event |-> ev, at |-> at, done |-> FALSE]
    <3>1. x.out + n = x.out + (n + 1) - 1
      BY LengthIs, Sizes
    <3>2. (n >= Length(x)) = FALSE /\ (IF n <= Length(x) THEN n ELSE Length(x)) = n
      BY <1>3, <2>1
    <3> QED BY <3>1, <3>2 DEF SweptAt, SpotOf
  <2>3. /\ Succ(at) = Wrap(x.out + (n + 1)) /\ at # x.in
        /\ Succ(at) = x.in <=> n + 1 = Length(x)
    <3>1. Gap(x.out, at) = n /\ Succ(at) = SpotOf(x, n + 2)
      BY <1>1, <2>1, SpotIs
    <3>2. Gap(x.out, x.in) = Length(x)
      BY DEF Length
    <3>3. at # x.in
      BY <1>1, <1>3, <3>1, <3>2
    <3>4. SpotOf(x, n + 2) = Wrap(x.out + (n + 1))
      <4>1. x.out + (n + 2) - 1 = x.out + (n + 1)
        BY LengthIs, Sizes
      <4> QED BY <4>1 DEF SpotOf
    <3>5. /\ n + 2 = Length(x) + 1 => SpotOf(x, n + 2) = x.in
          /\ Gap(x.out, SpotOf(x, n + 2)) = n + 1
      BY <1>1, <2>1, SpotIs
    <3>6. Succ(at) = x.in <=> n + 1 = Length(x)
      BY <1>1, <3>1, <3>2, <3>5
    <3> QED BY <3>1, <3>3, <3>4, <3>6
  <2>4. ~(x.blocked[at] # None /\ Ready(x.blocked[at]) /\ ev[x.blocked[at]] = "E_TIMER")
    BY <2>1 DEF EntryOf
  <2> HIDE DEF at
  <2>5. SweepOne([x |-> x, event |-> ev, at |-> at, done |-> FALSE])
        = [x |-> x, event |-> ev, at |-> Succ(at),
           done |-> at = x.in \/ x.token >= 0 \/ Succ(at) = x.in]
    BY <2>4 DEF SweepOne
  <2>6. SweptAt(x, ev, n + 1) = [x |-> x, event |-> ev, at |-> Wrap(x.out + (n + 1)),
                                 done |-> n + 1 = Length(x)]
    BY <1>1, <2>1 DEF SweptAt
  <2>7. (at = x.in \/ x.token >= 0 \/ Succ(at) = x.in) <=> n + 1 = Length(x)
    BY <1>1, <2>3
  <2> QED BY <2>2, <2>3, <2>5, <2>6, <2>7
<1> QED BY <1>2, <1>3

LEMMA SweepFindsNone ==
  ASSUME NEW x \in Objects, 1 <= Length(x), x.token < 0, NEW ev,
         \A k \in 1 .. Length(x) :
            ~(EntryOf(x, k) # None /\ Ready(EntryOf(x, k)) /\ ev[EntryOf(x, k)] = "E_TIMER")
  PROVE  Sweep(x, ev).x = x /\ Sweep(x, ev).event = ev
<1> DEFINE D == 1 .. MaxBlocked
           G(n) == SweptAt(x, ev, n)
           Turn(s, old) == IF s = {} THEN [x |-> x, event |-> ev, at |-> x.out, done |-> FALSE]
                           ELSE IF old.done THEN old ELSE SweepOne(old)
           IsLoop(f) == f = [s \in SUBSET D |-> Turn(s, f[s \ {Max(s)}])]
           g == [s \in SUBSET D |-> G(Cardinality(s))]
           f == CHOOSE h : IsLoop(h)
<1>1. Sweep(x, ev) = f[D]
  BY DEF Sweep, FoldLeft, MapThenFoldSet
<1>2. G(0) = [x |-> x, event |-> ev, at |-> x.out, done |-> FALSE]
  <2>1. Length(x) \in Nat /\ x.out \in Nat /\ x.out < MaxBlocked
    BY LengthIs, Sizes
  <2>2. /\ (0 >= Length(x)) = FALSE /\ (IF 0 <= Length(x) THEN 0 ELSE Length(x)) = 0
        /\ Wrap(x.out + 0) = x.out
    BY <2>1, Sizes DEF Wrap
  <2> QED BY <2>2 DEF SweptAt
<1>3. ASSUME NEW n \in Nat
      PROVE  G(n + 1) = IF G(n).done THEN G(n) ELSE SweepOne(G(n))
  BY SweepTurn
<1> HIDE DEF G
<1>4. IsFiniteSet(D) /\ D \in SUBSET D
  <2>1. 1 \in Int /\ MaxBlocked \in Int
    BY Sizes
  <2> QED BY <2>1, FS_Interval
<1>5. ASSUME NEW s \in SUBSET D, s # {}
      PROVE  /\ s \ {Max(s)} \in SUBSET D /\ IsFiniteSet(s)
             /\ Cardinality(s \ {Max(s)}) \in Nat
             /\ Cardinality(s) = Cardinality(s \ {Max(s)}) + 1
  <2>1. Max(s) \in s /\ IsFiniteSet(s)
    BY <1>4, <1>5, MaxIsIn, FS_Subset
  <2>2. Cardinality(s \ {Max(s)}) = Cardinality(s) - 1 /\ IsFiniteSet(s \ {Max(s)})
    BY <2>1, FS_RemoveElement
  <2>3. Cardinality(s) \in Nat /\ Cardinality(s \ {Max(s)}) \in Nat
    BY <2>1, <2>2, FS_CardinalityType
  <2> HIDE DEF D
  <2> QED BY <2>1, <2>2, <2>3
<1>6. ASSUME NEW s \in SUBSET D PROVE g[s] = Turn(s, g[s \ {Max(s)}])
  <2>1. CASE s = {}
    <3>1. g[s] = G(0)
      BY <2>1, FS_EmptySet
    <3> HIDE DEF g
    <3> QED BY <2>1, <3>1, <1>2
  <2>2. CASE s # {}
    <3> DEFINE n == Cardinality(s \ {Max(s)})
    <3>1. n \in Nat /\ g[s] = G(n + 1) /\ g[s \ {Max(s)}] = G(n)
      BY <2>2, <1>5
    <3> HIDE DEF n, g
    <3> QED BY <2>2, <3>1, <1>3
  <2> QED BY <2>1, <2>2
<1>7. IsLoop(g)
  BY <1>6
<1>8. IsLoop(f)
  <2> HIDE DEF IsLoop, g
  <2>1. \E h : IsLoop(h)
    BY <1>7
  <2> QED BY <2>1
<1> HIDE DEF f, g
<1>9. \A s \in SUBSET D : f[s] = Turn(s, f[s \ {Max(s)}])
  BY <1>8
<1>10. f[D] = g[D]
  <2> DEFINE T == {n \in Nat : \E s \in SUBSET D : Cardinality(s) = n /\ f[s] # g[s]}
  <2>1. T = {}
    <3> SUFFICES ASSUME T # {} PROVE FALSE
      OBVIOUS
    <3>1. PICK n \in T : \A m \in T : n <= m
      <4>1. T \in SUBSET Nat
        OBVIOUS
      <4> HIDE DEF T
      <4> QED BY <4>1, LeastNumber
    <3>2. PICK s \in SUBSET D : Cardinality(s) = n /\ f[s] # g[s]
      OBVIOUS
    <3>3. s # {}
      <4>1. s = {} => f[s] = g[s]
        BY <1>6, <1>9
      <4> QED BY <3>2, <4>1
    <3> DEFINE r == s \ {Max(s)}
    <3>4. r \in SUBSET D /\ Cardinality(r) \in Nat /\ n = Cardinality(r) + 1
      BY <1>5, <3>2, <3>3
    <3>5. f[r] = g[r]
      <4>1. Cardinality(r) \notin T
        <5>1. \A m \in T : m # Cardinality(r)
          <6> HIDE DEF T, r
          <6>1. \A m \in T : n <= m
            BY <3>1
          <6> QED BY <6>1, <3>4
        <5> QED BY <5>1
      <4> HIDE DEF r
      <4> QED BY <3>4, <4>1
    <3>6. f[s] = Turn(s, f[r]) /\ g[s] = Turn(s, g[r])
      BY <1>6, <1>9
    <3> QED BY <3>2, <3>5, <3>6
  <2>2. Cardinality(D) \in Nat
    BY <1>4, FS_CardinalityType
  <2> QED BY <1>4, <2>1, <2>2
<1>11. g[D] = G(Cardinality(D))
  BY <1>4 DEF g
<1>12. Sweep(x, ev) = SweptAt(x, ev, Cardinality(D))
  BY <1>1, <1>10, <1>11 DEF G
<1> QED BY <1>12 DEF SweptAt
-----------------------------------------------------------------------------
(* The inductive invariant.                                                 *)
Typed ==
  /\ state \in [Threads -> SUBSET {"Q", "S"}]
  /\ event \in [Threads -> {"E_NONE", "E_TIMER", "E_ITC", "E_ITC2"}]
  /\ active \in Threads /\ npreempt \in Nat
  /\ phase \in {"run", "yield"}
  /\ pc \in [Threads -> Places] /\ mark \in [Threads -> Indices]

(* Where a thread is in lock_stage, what its state says, and whether it is  *)
(* in the ring, at the place that it remembers.  A late waiter is, unless a *)
(* signal has passed over it, which has left nobody waiting.                *)
States(c) == IF c = "timed" THEN {{}, {"Q", "S"}}
             ELSE IF c = "blocked" THEN {{}, {"Q"}} ELSE {{}, {"S"}}
Seat(t) ==
  /\ pc[t] = "timed" => t \in Timed
  /\ state[t] \in States(pc[t])
  /\ "Q" \in state[t] => In(q, t)
  /\ In(q, t) => "Q" \in state[t] \/ Late(t)
  /\ Late(t) => In(q, t) \/ q.token >= 0
  /\ Late(t) => phase = "yield" \/ active = t
  /\ Pending(t) /\ ~In(q, t) => event[t] = "E_ITC" \/ Late(t)
  /\ pc[t] = "timed" => \A k \in 1 .. Length(q) :
                          EntryOf(q, k) = t => mark[t] = Wrap(q.out + k)

RunOK == phase = "run" => state[active] = {}

IInv == Typed /\ Sound(q) /\ RunOK /\ \A t \in Threads : Seat(t)

(* A thread that is not inside of a wait has no place in the ring.          *)
LEMMA OutIs ==
  ASSUME NEW t \in Threads, Seat(t), pc[t] \notin {"blocked", "timed"}
  PROVE  state[t] \in {{}, {"S"}} /\ ~In(q, t) /\ ~Late(t)
BY DEF Seat, States, Late

(* Whoever runs inside of a wait without being late has left the ring.      *)
LEMMA GoneIs ==
  ASSUME NEW t \in Threads, Seat(t), state[t] = {}, ~Late(t)
  PROVE  ~In(q, t)
BY DEF Seat

(* Nobody is late when a thread runs that is not.                           *)
LEMMA NobodyIsLate ==
  ASSUME IInv, phase = "run", ~Late(active)
  PROVE  \A t \in Threads : ~Late(t)
BY DEF IInv, Seat

LEMMA SeatSame ==
  ASSUME NEW t \in Threads, Seat(t), pc'[t] = pc[t], state'[t] = state[t],
         event'[t] = event[t], mark'[t] = mark[t], In(q', t) <=> In(q, t),
         pc[t] = "timed" /\ In(q, t) =>
            \A k \in 1 .. Length(q') : EntryOf(q', k) = t => mark[t] = Wrap(q'.out + k),
         Late(t) /\ ~In(q, t) => q'.token >= 0,
         Late(t) => phase' = "yield" \/ active' = t
  PROVE  Seat(t)'
<1>1. pc[t] = "timed" =>
        \A k \in 1 .. Length(q') : EntryOf(q', k) = t => mark'[t] = Wrap(q'.out + k)
  BY DEF In
<1>2. Late(t)' <=> Late(t)
  BY DEF Late
<1>3. Pending(t)' <=> Pending(t)
  BY DEF Pending
<1> QED BY <1>1, <1>2, <1>3 DEF Seat

LEMMA SeatOut ==
  ASSUME NEW t \in Threads, pc'[t] \notin {"blocked", "timed"},
         state'[t] \in {{}, {"S"}}, ~In(q', t)
  PROVE  Seat(t)'
BY DEF Seat, States, Late, Pending

(* Steps that leave the object alone: every thread stays where it is or     *)
(* moves between two places outside of a wait.                              *)
LEMMA QuietSteps ==
  ASSUME IInv, UNCHANGED <<q, event, mark>>, Typed',
         phase' = "run" => state'[active'] = {},
         \A t \in Threads :
           \/ /\ pc'[t] = pc[t] /\ state'[t] = state[t]
              /\ Late(t) => phase' = "yield" \/ active' = t
           \/ pc'[t] \notin {"blocked", "timed"} /\ state'[t] \in {{}, {"S"}} /\ ~In(q, t)
  PROVE  IInv'
<1>1. ASSUME NEW t \in Threads PROVE Seat(t)'
  <2>1. Seat(t)
    BY DEF IInv
  <2>2. CASE /\ pc'[t] = pc[t] /\ state'[t] = state[t]
             /\ Late(t) => phase' = "yield" \/ active' = t
    <3>1. pc[t] = "timed" => \A k \in 1 .. Length(q) : EntryOf(q, k) = t => mark[t] = Wrap(q.out + k)
      BY <2>1 DEF Seat
    <3>2. Late(t) /\ ~In(q, t) => q.token >= 0
      BY <2>1 DEF Seat
    <3> QED BY <2>1, <2>2, <3>1, <3>2, SeatSame
  <2>3. CASE pc'[t] \notin {"blocked", "timed"} /\ state'[t] \in {{}, {"S"}} /\ ~In(q, t)
    BY <2>3, SeatOut
  <2> QED BY <2>2, <2>3
<1> QED BY <1>1 DEF IInv, RunOK

LEMMA ResumeStep ==
  ASSUME IInv, Unblocked \/ InTime \/ Unlocked
  PROVE  IInv'
<1>1. /\ phase = "run" /\ UNCHANGED <<q, state, event, active, npreempt, phase, mark>>
      /\ \E c \in Places \ {"blocked", "timed"} : At(c)
      /\ ~Late(active) /\ active \in Threads
  BY DEF IInv, Typed, Unblocked, InTime, Unlocked, Running, Locked, Places, Late
<1>2. PICK c \in Places \ {"blocked", "timed"} : pc' = [pc EXCEPT ![active] = c]
  BY <1>1 DEF At
<1>3. Typed'
  BY <1>1, <1>2 DEF IInv, Typed
<1>4. state[active] = {} /\ ~In(q, active)
  BY <1>1, GoneIs DEF IInv, RunOK
<1>5. \A t \in Threads : ~Late(t)
  BY <1>1, NobodyIsLate
<1>6. pc'[active] = c /\ \A t \in Threads \ {active} : pc'[t] = pc[t]
  BY <1>1, <1>2 DEF IInv, Typed
<1> QED BY <1>1, <1>3, <1>4, <1>5, <1>6, QuietSteps

LEMMA YieldStep ==
  ASSUME IInv, Yield \/ Sleep
  PROVE  IInv'
<1>1. /\ phase = "run" /\ pc[active] = "user" /\ phase' = "yield" /\ active \in Threads
      /\ UNCHANGED <<q, event, active, npreempt, pc, mark>>
      /\ state' = state \/ state' = [state EXCEPT ![active] = @ \cup {"S"}]
  BY DEF IInv, Typed, Yield, Sleep, Running
<1>2. state[active] = {} /\ ~In(q, active)
  BY <1>1, OutIs DEF IInv, RunOK
<1>3. state'[active] \in {{}, {"S"}} /\ \A t \in Threads \ {active} : state'[t] = state[t]
  BY <1>1, <1>2 DEF IInv, Typed
<1>4. Typed'
  <2>1. state' \in [Threads -> SUBSET {"Q", "S"}]
    BY <1>1 DEF IInv, Typed
  <2> QED BY <1>1, <2>1 DEF IInv, Typed
<1> QED BY <1>1, <1>2, <1>3, <1>4, QuietSteps

(* The dispatcher runs the thread whose limited wait is over at once.       *)
LEMMA DispatchStep ==
  ASSUME IInv, TimedFirst, Dispatch
  PROVE  IInv'
<1>1. PICK n \in Threads : IsMostUrgent(n) /\ active' = n
  BY DEF Dispatch
<1>2. /\ UNCHANGED <<q, state, event, pc, mark>> /\ phase' = "run" /\ npreempt' = 0
      /\ state[n] = {}
  BY <1>1 DEF Dispatch, IsMostUrgent, Ready
<1>3. ASSUME NEW t \in Threads, Late(t) PROVE t = n
  <2>1. t \in Timed /\ Ready(t)
    BY <1>3 DEF IInv, Seat, Late, Ready
  <2>2. PrioOf[n] <= PrioOf[t] /\ PrioOf[n] \in Nat /\ PrioOf[t] \in Nat
    BY <1>1, <2>1, ItcAssumption DEF IsMostUrgent
  <2> QED BY <2>1, <2>2 DEF TimedFirst
<1>4. Typed'
  BY <1>1, <1>2 DEF IInv, Typed
<1> QED BY <1>1, <1>2, <1>3, <1>4, QuietSteps

(* A wait is over: the waiter is late, and still in the ring.               *)
LEMMA TimeoutStep ==
  ASSUME IInv, NEW u \in Threads, Timeout(u)
  PROVE  IInv'
<1>1. /\ phase = "yield" /\ "S" \in state[u]
      /\ state' = [state EXCEPT ![u] = {}] /\ event' = [event EXCEPT ![u] = "E_TIMER"]
      /\ UNCHANGED <<q, active, npreempt, phase, pc, mark>>
  BY DEF Timeout
<1>2. /\ state'[u] = {} /\ event'[u] = "E_TIMER"
      /\ \A t \in Threads \ {u} : state'[t] = state[t] /\ event'[t] = event[t]
  BY <1>1 DEF IInv, Typed
<1>3. Typed'
  BY <1>1 DEF IInv, Typed
<1>4. ASSUME NEW t \in Threads PROVE Seat(t)'
  <2>1. Seat(t)
    BY DEF IInv
  <2>2. pc[t] = "timed" => \A k \in 1 .. Length(q) : EntryOf(q, k) = t => mark[t] = Wrap(q.out + k)
    BY <2>1 DEF Seat
  <2>3. CASE t # u
    <3>1. Late(t) /\ ~In(q, t) => q.token >= 0
      BY <2>1 DEF Seat
    <3>2. Late(t) => phase' = "yield" \/ active' = t
      BY <1>1
    <3> QED BY <1>1, <1>2, <2>1, <2>2, <2>3, <3>1, <3>2, SeatSame
  <2>4. CASE t = u /\ pc[u] = "timed"
    <3>1. In(q, u)
      BY <1>1, <2>1, <2>4 DEF Seat, States
    <3> QED BY <1>1, <1>2, <2>1, <2>4, <3>1 DEF Seat, States, Late, Pending
  <2>5. CASE t = u /\ pc[u] # "timed"
    <3>1. pc[u] # "blocked"
      BY <1>1, <2>1, <2>5 DEF Seat, States
    <3>2. ~In(q, u)
      BY <2>1, <2>5, <3>1, OutIs
    <3> QED BY <1>1, <1>2, <2>5, <3>1, <3>2, SeatOut
  <2> QED BY <2>3, <2>4, <2>5
<1> QED BY <1>1, <1>3, <1>4 DEF IInv, RunOK
(* A counter that is not negative may change: the ring stays empty.         *)
LEMMA CounterMoves ==
  ASSUME NEW x, Sound(x), NEW n \in Nat, x.token >= 0,
         NEW y, y = [x EXCEPT !.token = n]
  PROVE  /\ Sound(y) /\ y.token = n /\ y.prior = x.prior
         /\ Length(x) = 0 /\ Length(y) = 0
         /\ \A t : ~In(x, t) /\ ~In(y, t)
<1>1. /\ x \in Objects /\ Length(x) \in Nat /\ x.token \in Int /\ Length(x) = 0
  BY LengthIs DEF Sound
<1>2. /\ y \in Objects /\ y.in = x.in /\ y.out = x.out /\ y.token = n /\ y.prior = x.prior
  BY <1>1 DEF Objects
<1>3. Length(y) = 0
  BY <1>1, <1>2 DEF Length
<1>4. Sound(y)
  BY <1>2, <1>3 DEF Sound
<1>5. \A t : ~In(x, t) /\ ~In(y, t)
  BY <1>1, <1>3 DEF In
<1> QED BY <1>1, <1>2, <1>3, <1>4, <1>5

LEMMA CallerIs ==
  ASSUME IInv, Running("user")
  PROVE  /\ active \in Threads /\ phase = "run" /\ pc[active] = "user"
         /\ state[active] = {} /\ ~In(q, active) /\ ~Late(active)
         /\ \A t \in Threads : ~Late(t)
<1>1. /\ active \in Threads /\ phase = "run" /\ pc[active] = "user" /\ state[active] = {}
  BY DEF IInv, Typed, RunOK, Running
<1>2. ~In(q, active) /\ ~Late(active)
  BY <1>1, OutIs DEF IInv
<1> QED BY <1>1, <1>2, NobodyIsLate

LEMMA LockFreeStep ==
  ASSUME IInv, LockFree
  PROVE  IInv'
<1>1. /\ active \in Threads /\ phase = "run" /\ state[active] = {}
      /\ \A t \in Threads : ~Late(t)
  BY CallerIs DEF LockFree, Calling
<1>2. PICK c \in Places \ {"blocked", "timed"} : pc' = [pc EXCEPT ![active] = c]
  <2>1. Locked \in Places \ {"blocked", "timed"}
    BY DEF Locked, Places
  <2> QED BY <2>1 DEF LockFree, At
<1>3. /\ q.token > 0 /\ q' = [q EXCEPT !.token = @ - 1]
      /\ UNCHANGED <<state, event, active, npreempt, phase, mark>>
  BY DEF LockFree
<1>4. Sound(q') /\ Length(q') = 0 /\ \A t : ~In(q, t) /\ ~In(q', t)
  <2>1. q.token \in Int /\ Sound(q)
    BY LengthIs DEF IInv, Sound
  <2> DEFINE n == q.token - 1
  <2>2. n \in Nat /\ q.token >= 0 /\ q' = [q EXCEPT !.token = n]
    BY <1>3, <2>1
  <2> HIDE DEF n
  <2> QED BY <2>1, <2>2, CounterMoves
<1>5. pc'[active] = c /\ \A t \in Threads \ {active} : pc'[t] = pc[t]
  BY <1>1, <1>2 DEF IInv, Typed
<1>6. ASSUME NEW t \in Threads PROVE Seat(t)'
  <2>1. CASE t = active
    BY <2>1, <1>1, <1>3, <1>4, <1>5, SeatOut
  <2>2. CASE t # active
    BY <2>2, <1>1, <1>3, <1>4, <1>5, SeatSame DEF IInv
  <2> QED BY <2>1, <2>2
<1>7. Typed'
  BY <1>2, <1>3 DEF IInv, Typed
<1> QED BY <1>1, <1>3, <1>4, <1>6, <1>7 DEF IInv, RunOK

(* A thread joins the ring's end, with or without a limit.                  *)
LEMMA BlockStep ==
  ASSUME IInv, LockForever \/ LockTimed
  PROVE  IInv'
<1> DEFINE n == Length(q)
<1>1. /\ active \in Threads /\ phase = "run" /\ pc[active] = "user"
      /\ state[active] = {} /\ ~In(q, active)
      /\ \A t \in Threads : ~Late(t)
  BY CallerIs DEF LockForever, LockTimed, Calling
<1>2. /\ MayBlock /\ q' = Enlisted /\ phase' = "yield" /\ UNCHANGED <<active, npreempt>>
  BY DEF LockForever, LockTimed
<1>3. /\ Sound(q') /\ Length(q') = n + 1 /\ n \in Nat
      /\ \A k \in 1 .. n : EntryOf(q', k) = EntryOf(q, k)
      /\ EntryOf(q', n + 1) = active
      /\ q'.out = q.out /\ q'.in = Wrap(q.out + n + 1) /\ q'.in \in Indices
  <2>1. Sound(q) /\ n \in Nat
    BY LengthIs DEF IInv, Sound
  <2>2. /\ Sound(q') /\ Length(q') = n + 1
        /\ \A k \in 1 .. n : EntryOf(q', k) = EntryOf(q, k)
        /\ EntryOf(q', n + 1) = active
        /\ q'.out = q.out /\ q'.in = Wrap(q.out + n + 1)
    BY <1>1, <1>2, <2>1, EnlistedIs
  <2> QED BY <2>1, <2>2, LengthIs DEF Sound
<1> HIDE DEF n
<1>4. \A k \in 1 .. n + 1 : k = n + 1 \/ k \in 1 .. n
  BY <1>3
<1>5. \A t \in Threads \ {active} : In(q', t) <=> In(q, t)
  BY <1>3, <1>4 DEF In, n
<1>6. In(q', active)
  BY <1>3 DEF In
<1>7. \/ /\ pc' = [pc EXCEPT ![active] = "blocked"]
         /\ state' = [state EXCEPT ![active] = @ \cup {"Q"}]
         /\ event' = [event EXCEPT ![active] = "E_NONE"] /\ mark' = mark
      \/ /\ pc' = [pc EXCEPT ![active] = "timed"] /\ active \in Timed
         /\ state' = [state EXCEPT ![active] = @ \cup {"Q", "S"}]
         /\ event' = event /\ mark' = [mark EXCEPT ![active] = q'.in]
  BY DEF LockForever, LockTimed, At
<1>8. ASSUME NEW t \in Threads \ {active} PROVE Seat(t)'
  <2>1. /\ pc'[t] = pc[t] /\ state'[t] = state[t] /\ event'[t] = event[t]
        /\ mark'[t] = mark[t]
    BY <1>7 DEF IInv, Typed
  <2>2. Seat(t)
    BY DEF IInv
  <2>3. \A k \in 1 .. n : pc[t] = "timed" /\ EntryOf(q, k) = t => mark[t] = Wrap(q.out + k)
    BY <2>2 DEF Seat, n
  <2>4. pc[t] = "timed" => \A k \in 1 .. Length(q') : EntryOf(q', k) = t => mark[t] = Wrap(q'.out + k)
    BY <2>3, <1>3, <1>4
  <2> QED BY <1>1, <1>5, <2>1, <2>2, <2>4, SeatSame
<1>9. Seat(active)'
  <2>1. \A k \in 1 .. Length(q') : EntryOf(q', k) = active => k = n + 1
    <3>1. \A k \in 1 .. n : EntryOf(q, k) # active
      BY <1>1 DEF In, n
    <3> QED BY <3>1, <1>3, <1>4
  <2>2. CASE pc' = [pc EXCEPT ![active] = "blocked"]
    <3>1. pc'[active] = "blocked" /\ state'[active] = {"Q"}
      BY <1>1, <1>7, <2>2 DEF IInv, Typed
    <3>2. state'[active] \in States(pc'[active]) /\ "Q" \in state'[active]
      BY <3>1 DEF States
    <3> QED BY <1>2, <1>6, <3>1, <3>2 DEF Seat, Late
  <2>3. CASE pc' # [pc EXCEPT ![active] = "blocked"]
    <3>1. /\ pc'[active] = "timed" /\ state'[active] = {"Q", "S"} /\ active \in Timed
          /\ mark'[active] = q'.in
      BY <1>1, <1>7, <2>3 DEF IInv, Typed
    <3>2. \A k \in 1 .. Length(q') : EntryOf(q', k) = active => mark'[active] = Wrap(q'.out + k)
      <4>1. q.out + n + 1 = q.out + (n + 1)
        BY <1>3, LengthIs, Sizes DEF IInv, Sound
      <4> QED BY <1>3, <2>1, <3>1, <4>1
    <3> QED BY <1>2, <1>6, <3>1, <3>2 DEF Seat, States, Late, Pending
  <2> QED BY <2>2, <2>3
<1>10. Typed'
  <2>1. "blocked" \in Places /\ "timed" \in Places
    BY DEF Places
  <2>2. pc' \in [Threads -> Places] /\ mark' \in [Threads -> Indices]
    BY <1>3, <1>7, <2>1 DEF IInv, Typed
  <2>3. /\ state' \in [Threads -> SUBSET {"Q", "S"}]
        /\ event' \in [Threads -> {"E_NONE", "E_TIMER", "E_ITC", "E_ITC2"}]
    BY <1>7 DEF IInv, Typed
  <2> QED BY <1>2, <2>2, <2>3 DEF IInv, Typed
<1>11. RunOK'
  BY <1>2 DEF RunOK
<1> QED BY <1>2, <1>3, <1>8, <1>9, <1>10, <1>11 DEF IInv
(* A waiter that a signal lets go.                                          *)
LEMMA GrantedKeeps ==
  ASSUME IInv, \A t \in Threads : Late(t) => phase' = "yield" \/ active' = t,
         NEW p \in 1 .. Length(q), q' \in Objects, Closed(q, q', p),
         q'.token = q.token + 1, Grant(EntryOf(q, p)),
         \/ p = 1 /\ q'.out = Succ(q.out)
         \/ \A t \in Timed : In(q, t) => t = EntryOf(q, p),
         mark' = mark
  PROVE  /\ Sound(q') /\ q.token < 0
         /\ \A t \in Threads : pc'[t] = pc[t] => Seat(t)'
         /\ \A t \in Threads : pc[t] \notin {"blocked", "timed"} =>
              state'[t] = state[t] /\ ~In(q', t)
         /\ \A t \in Threads : state[t] = {} => state'[t] = {}
         /\ state' \in [Threads -> SUBSET {"Q", "S"}]
         /\ event' \in [Threads -> {"E_NONE", "E_TIMER", "E_ITC", "E_ITC2"}]
<1> DEFINE n == Length(q)  g == EntryOf(q, p)
<1>1. /\ Sound(q') /\ q.token < 0 /\ n \in Nat /\ Length(q') = n - 1
      /\ \A t : In(q', t) <=> In(q, t) /\ t # g
      /\ \A j \in 1 .. n - 1 : EntryOf(q', j) = IF j < p THEN EntryOf(q, j) ELSE EntryOf(q, j + 1)
  BY ClosedSound, LengthIs DEF IInv, Sound, Closed
<1>2. g \in Threads /\ In(q, g)
  BY DEF IInv, Sound, In
<1> HIDE DEF n, g
<1>3. /\ state' = [state EXCEPT ![g] = {}] /\ event' = [event EXCEPT ![g] = "E_ITC"]
  BY DEF Grant, g
<1>4. /\ state'[g] = {} /\ event'[g] = "E_ITC"
      /\ \A t \in Threads \ {g} : state'[t] = state[t] /\ event'[t] = event[t]
  BY <1>2, <1>3 DEF IInv, Typed
<1>5. /\ state' \in [Threads -> SUBSET {"Q", "S"}]
      /\ event' \in [Threads -> {"E_NONE", "E_TIMER", "E_ITC", "E_ITC2"}]
  BY <1>3 DEF IInv, Typed
<1>6. ASSUME NEW t \in Threads, pc[t] \notin {"blocked", "timed"}
      PROVE  state'[t] = state[t] /\ ~In(q', t) /\ t # g
  <2>1. ~In(q, t)
    BY <1>6, OutIs DEF IInv
  <2> QED BY <1>1, <1>2, <1>4, <2>1
<1>7. ASSUME NEW t \in Threads, pc'[t] = pc[t] PROVE Seat(t)'
  <2>1. Seat(t)
    BY DEF IInv
  <2>2. CASE t = g
    <3>1. pc[t] \in {"blocked", "timed"} /\ ~In(q', t)
      BY <1>1, <1>6, <2>2
    <3>2. \A k \in 1 .. Length(q') : EntryOf(q', k) # t
      BY <3>1 DEF In
    <3>3. state'[t] \in States(pc'[t])
      BY <1>4, <2>2 DEF States
    <3> QED BY <1>4, <1>7, <2>1, <2>2, <3>1, <3>2, <3>3 DEF Seat, Late
  <2>3. CASE t # g
    <3>1. state'[t] = state[t] /\ event'[t] = event[t] /\ (In(q', t) <=> In(q, t))
      BY <1>1, <1>4, <2>3
    <3>2. ASSUME pc[t] = "timed", In(q, t), NEW k \in 1 .. Length(q'), EntryOf(q', k) = t
          PROVE  mark[t] = Wrap(q'.out + k)
      <4>1. t \in Timed
        BY <2>1, <3>2 DEF Seat
      <4>2. p = 1 /\ q'.out = Succ(q.out)
        BY <2>3, <3>2, <4>1 DEF g
      <4>3. k + 1 \in 1 .. n /\ k \in Nat /\ ~(k < 1)
        BY <1>1
      <4>4. EntryOf(q, k + 1) = t
        BY <1>1, <3>2, <4>2, <4>3
      <4>5. mark[t] = Wrap(q.out + (k + 1))
        BY <2>1, <3>2, <4>3, <4>4 DEF Seat, n
      <4>6. Wrap(q.out + (k + 1)) = Wrap(Succ(q.out) + k)
        <5>1. q.out \in Nat /\ q.out < MaxBlocked /\ n \in Nat /\ n < MaxBlocked
          BY LengthIs, Sizes DEF IInv, Sound, n
        <5>2. k \in Nat /\ k + 1 <= n
          BY <4>3, <5>1
        <5> HIDE DEF n
        <5>3. CASE q.out + 1 >= MaxBlocked
          <6>1. Succ(q.out) = 0 /\ q.out + (k + 1) = MaxBlocked + k
            BY <5>1, <5>2, <5>3, Sizes DEF Succ, Wrap
          <6>2. Wrap(0 + k) = k /\ Wrap(MaxBlocked + k) = k
            BY <5>1, <5>2, Sizes DEF Wrap
          <6> QED BY <6>1, <6>2
        <5>4. CASE ~(q.out + 1 >= MaxBlocked)
          <6>1. Succ(q.out) + k = q.out + (k + 1)
            BY <5>1, <5>2, <5>4, Sizes DEF Succ, Wrap
          <6> QED BY <6>1
        <5> QED BY <5>3, <5>4
      <4> QED BY <4>2, <4>5, <4>6
    <3>3. pc[t] = "timed" /\ In(q, t) =>
            \A k \in 1 .. Length(q') : EntryOf(q', k) = t => mark[t] = Wrap(q'.out + k)
      BY <3>2
    <3>4. mark'[t] = mark[t]
      OBVIOUS
    <3>5. ~(Late(t) /\ ~In(q, t))
      <4>1. q.token \in Int
        BY LengthIs DEF IInv, Sound
      <4> QED BY <1>1, <2>1, <4>1 DEF Seat
    <3> QED BY <1>7, <2>1, <3>1, <3>3, <3>4, <3>5, SeatSame
  <2> QED BY <2>2, <2>3
<1>8. \A t \in Threads : state[t] = {} => state'[t] = {}
  BY <1>4
<1> QED BY <1>1, <1>5, <1>6, <1>7, <1>8

(* When a signal comes, nobody is late, or the ring is a short one.         *)
Calm == (\A t \in Threads : ~Late(t)) \/ MaxBlocked <= 3

(* An entry that does not wait any more is late.                            *)
LEMMA EntriesWait ==
  ASSUME IInv, NEW k \in 1 .. Length(q)
  PROVE  /\ EntryOf(q, k) \in Threads /\ In(q, EntryOf(q, k))
         /\ StillWaits(EntryOf(q, k)) \/ Late(EntryOf(q, k))
<1>1. EntryOf(q, k) \in Threads /\ In(q, EntryOf(q, k))
  BY DEF IInv, Sound, In
<1> QED BY <1>1 DEF IInv, Seat, StillWaits

(* A FIFO signal takes the first entry, or passes over it and serves the    *)
(* only other one.                                                          *)
FirstServed ==
  /\ 1 \in 1 .. Length(q) /\ q' \in Objects /\ Closed(q, q', 1)
  /\ q'.token = q.token + 1 /\ q'.prior = q.prior /\ q'.out = Succ(q.out)
  /\ Grant(EntryOf(q, 1))
  /\ Length(q) = 1 \/ StillWaits(EntryOf(q, 1))
SecondServed ==
  /\ Length(q) = 2 /\ Late(EntryOf(q, 1))
  /\ q' \in Objects /\ Sound(q') /\ q.token < 0 /\ q'.token = 0 /\ q'.prior = q.prior
  /\ Length(q') = 0 /\ \A t : ~In(q', t)
  /\ Grant(EntryOf(q, 2))

(* Taking two entries is taking one twice.                                  *)
LEMMA TwoTaken ==
  ASSUME NEW x, Sound(x), Length(x) = 2,
         NEW y, y = [x EXCEPT !.out = Wrap(@ + 2), !.token = @ + 2]
  PROVE  /\ y \in Objects /\ Sound(y) /\ x.token < 0 /\ y.token = 0 /\ y.prior = x.prior
         /\ Length(y) = 0 /\ \A t : ~In(y, t)
<1> DEFINE z == [x EXCEPT !.out = Wrap(@ + 1), !.token = @ + 1]
<1>1. x \in Objects /\ x.token \in Int /\ x.token = -2
  BY LengthIs DEF Sound
<1>2. /\ z \in Objects /\ Closed(x, z, 1) /\ z.token = x.token + 1
      /\ z.prior = x.prior /\ z.out = Succ(x.out)
  <2>1. 1 <= Length(x)
    OBVIOUS
  <2> QED BY <1>1, <2>1, FirstTaken
<1>3. Sound(z) /\ Length(z) = 1
  <2>1. Length(z) = 1
    BY <1>2 DEF Closed
  <2>2. 1 \in 1 .. Length(x)
    OBVIOUS
  <2> HIDE DEF z
  <2> QED BY <1>2, <2>1, <2>2, ClosedSound
<1>4. y = [z EXCEPT !.out = Wrap(@ + 1), !.token = @ + 1]
  <2>1. Wrap(Wrap(x.out + 1) + 1) = Wrap(x.out + 2)
    <3>1. /\ x.out \in Nat /\ x.out < MaxBlocked /\ MaxBlocked \in Nat /\ MaxBlocked >= 2
          /\ Length(x) < MaxBlocked
      BY <1>1, LengthIs, Sizes
    <3> QED BY <3>1 DEF Wrap
  <2>2. (x.token + 1) + 1 = x.token + 2
    BY <1>1
  <2> QED BY <1>1, <2>1, <2>2 DEF Objects
<1> HIDE DEF z
<1>5. /\ y \in Objects /\ Closed(z, y, 1) /\ y.token = z.token + 1 /\ y.prior = z.prior
  <2>1. 1 <= Length(z)
    BY <1>3
  <2> QED BY <1>2, <1>4, <2>1, FirstTaken
<1>6. Sound(y) /\ Length(y) = 0
  <2>1. Length(y) = 0
    BY <1>3, <1>5 DEF Closed
  <2>2. 1 \in 1 .. Length(z)
    BY <1>3
  <2> QED BY <1>3, <1>5, <2>1, <2>2, ClosedSound
<1>7. \A t : ~In(y, t)
  BY <1>6 DEF In
<1> QED BY <1>1, <1>2, <1>5, <1>6, <1>7

LEMMA FifoServes ==
  ASSUME IInv, Calm, SignalFifo
  PROVE  ~q.prior /\ (FirstServed \/ SecondServed)
<1> DEFINE n == Length(q)
<1>1. /\ q \in Objects /\ n \in Nat /\ q.token \in Int /\ n < MaxBlocked
      /\ n = IF q.token < 0 THEN -q.token ELSE 0
  BY LengthIs DEF IInv, Sound
<1> HIDE DEF n
<1>2. PICK k \in 1 .. -q.token :
        /\ IsTaken(k)
        /\ q' = [q EXCEPT !.out = Wrap(@ + k), !.token = @ + k]
        /\ Grant(Entry(k))
  BY DEF SignalFifo
<1>3. n = -q.token /\ k \in Nat /\ 1 <= k /\ k <= n /\ q.token < 0
  BY <1>1, <1>2 DEF SignalFifo
<1>4. \A i : Entry(i) = EntryOf(q, i)
  BY DEF Entry, EntryOf, SpotOf
<1>5. CASE k = 1
  <2>1. /\ q' \in Objects /\ Closed(q, q', 1) /\ q'.token = q.token + 1
        /\ q'.prior = q.prior /\ q'.out = Succ(q.out)
    BY <1>1, <1>2, <1>3, <1>5, FirstTaken DEF n
  <2>2. Grant(EntryOf(q, 1)) /\ (n = 1 \/ StillWaits(EntryOf(q, 1)))
    BY <1>2, <1>3, <1>4, <1>5 DEF IsTaken
  <2>3. 1 \in 1 .. n
    BY <1>3
  <2> QED BY <2>1, <2>2, <2>3 DEF FirstServed, SignalFifo, n
<1>6. CASE k # 1
  <2>1. 1 \in 1 .. k - 1 /\ 1 \in 1 .. n
    BY <1>3, <1>6
  <2>2. Late(EntryOf(q, 1)) /\ EntryOf(q, 1) \in Threads
    BY <1>2, <1>4, <2>1, EntriesWait DEF IsTaken, n
  <2>3. n = 2 /\ k = 2
    <3>1. MaxBlocked <= 3
      BY <2>2 DEF Calm
    <3> QED BY <1>1, <1>3, <1>6, <3>1, Sizes
  <2>4. /\ q' \in Objects /\ Sound(q') /\ q'.token = 0 /\ q'.prior = q.prior
        /\ Length(q') = 0 /\ \A t : ~In(q', t)
    BY <1>2, <2>3, TwoTaken DEF IInv, n
  <2>5. Grant(EntryOf(q, 2))
    BY <1>2, <1>4, <2>3
  <2> QED BY <1>3, <2>2, <2>3, <2>4, <2>5 DEF SecondServed, SignalFifo, n
<1> QED BY <1>5, <1>6

(* The waiter that was passed over is late, and the ring is empty.          *)
LEMMA SecondKeeps ==
  ASSUME IInv, \A t \in Threads : Late(t) => phase' = "yield" \/ active' = t,
         SecondServed, mark' = mark
  PROVE  /\ \A t \in Threads : pc'[t] = pc[t] => Seat(t)'
         /\ \A t \in Threads : pc[t] \notin {"blocked", "timed"} =>
              state'[t] = state[t] /\ ~In(q', t)
         /\ \A t \in Threads : state[t] = {} => state'[t] = {}
         /\ state' \in [Threads -> SUBSET {"Q", "S"}]
         /\ event' \in [Threads -> {"E_NONE", "E_TIMER", "E_ITC", "E_ITC2"}]
<1> DEFINE g == EntryOf(q, 2)
<1>1. /\ g \in Threads /\ In(q, g) /\ Length(q) = 2 /\ Length(q') = 0
      /\ q'.token = 0 /\ \A t : ~In(q', t)
  BY EntriesWait DEF SecondServed
<1>2. ASSUME NEW t \in Threads, In(q, t), t # g PROVE Late(t)
  <2>1. PICK j \in 1 .. 2 : EntryOf(q, j) = t
    BY <1>1, <1>2 DEF In
  <2>2. j = 1
    BY <1>2, <2>1
  <2> QED BY <2>1, <2>2 DEF SecondServed
<1> HIDE DEF g
<1>3. state' = [state EXCEPT ![g] = {}] /\ event' = [event EXCEPT ![g] = "E_ITC"]
  BY DEF SecondServed, Grant, g
<1>4. /\ state'[g] = {} /\ event'[g] = "E_ITC"
      /\ \A t \in Threads \ {g} : state'[t] = state[t] /\ event'[t] = event[t]
  BY <1>1, <1>3 DEF IInv, Typed
<1>5. /\ state' \in [Threads -> SUBSET {"Q", "S"}]
      /\ event' \in [Threads -> {"E_NONE", "E_TIMER", "E_ITC", "E_ITC2"}]
  BY <1>3 DEF IInv, Typed
<1>6. ASSUME NEW t \in Threads, pc[t] \notin {"blocked", "timed"}
      PROVE  state'[t] = state[t] /\ t # g
  <2>1. ~In(q, t)
    BY <1>6, OutIs DEF IInv
  <2> QED BY <1>1, <1>4, <2>1
<1>7. ASSUME NEW t \in Threads, pc'[t] = pc[t] PROVE Seat(t)'
  <2>1. Seat(t)
    BY DEF IInv
  <2>2. \A k \in 1 .. Length(q') : EntryOf(q', k) # t
    BY <1>1 DEF In
  <2>3. CASE t = g
    <3>1. state'[t] \in States(pc'[t])
      BY <1>4, <2>3 DEF States
    <3> QED BY <1>1, <1>4, <1>7, <2>1, <2>2, <2>3, <3>1 DEF Seat, Late
  <2>4. CASE t # g
    <3>1. state'[t] = state[t] /\ event'[t] = event[t]
      BY <1>4, <2>4
    <3>2. "Q" \notin state[t]
      <4>1. In(q, t) => Late(t)
        BY <1>2, <2>4
      <4> QED BY <2>1, <4>1 DEF Seat, Late
    <3>3. Late(t)' <=> Late(t)
      BY <1>7, <3>1 DEF Late
    <3>4. Pending(t)' => event'[t] = "E_ITC" \/ Late(t)'
      <4>1. In(q, t) => Late(t)
        BY <1>2, <2>4
      <4> QED BY <1>7, <2>1, <3>1, <3>3, <4>1 DEF Seat, Pending
    <3>5. Late(t)' => phase' = "yield" \/ active' = t
      BY <3>3
    <3>6. /\ pc'[t] = "timed" => t \in Timed
          /\ state'[t] \in States(pc'[t])
      BY <1>7, <2>1, <3>1 DEF Seat
    <3> QED BY <1>1, <2>2, <3>1, <3>2, <3>4, <3>5, <3>6 DEF Seat
  <2> QED BY <2>3, <2>4
<1>8. \A t \in Threads : state[t] = {} => state'[t] = {}
  BY <1>4
<1> QED BY <1>1, <1>5, <1>6, <1>7, <1>8

(* A signal by priority takes the first of the most urgent entries.         *)
LEMMA PriorServes ==
  ASSUME IInv, SignalPrior
  PROVE  \E p \in 1 .. Length(q) :
           /\ q' \in Objects /\ Closed(q, q', p)
           /\ q'.token = q.token + 1 /\ q'.prior = q.prior /\ q.prior
           /\ Grant(EntryOf(q, p))
           /\ \A j \in 1 .. Length(q) :
                \/ PrioOf[EntryOf(q, p)] < PrioOf[EntryOf(q, j)]
                \/ PrioOf[EntryOf(q, p)] = PrioOf[EntryOf(q, j)] /\ p <= j
<1>1. q \in Objects /\ Length(q) \in Nat
  BY LengthIs DEF IInv, Sound
<1>2. PICK i \in Used(q) :
        IsNextServed(i) /\ q' = RemoveBlocked(q, i) /\ Grant(q.blocked[i])
  BY DEF SignalPrior
<1>3. PICK p \in 1 .. Length(q) : i = SpotOf(q, p)
  BY <1>1, UsedIs
<1>4. /\ q' \in Objects /\ Closed(q, q', p) /\ q'.token = q.token + 1
      /\ q'.prior = q.prior
  BY <1>1, <1>2, <1>3, RemovedIs
<1>5. q.blocked[i] = EntryOf(q, p)
  BY <1>3 DEF EntryOf
<1>6. ASSUME NEW j \in 1 .. Length(q)
      PROVE  \/ PrioOf[EntryOf(q, p)] < PrioOf[EntryOf(q, j)]
             \/ PrioOf[EntryOf(q, p)] = PrioOf[EntryOf(q, j)] /\ p <= j
  <2>1. SpotOf(q, j) \in Used(q) /\ q.blocked[SpotOf(q, j)] = EntryOf(q, j)
    BY <1>1, UsedIs DEF EntryOf
  <2>2. Gap(q.out, i) = p - 1 /\ Gap(q.out, SpotOf(q, j)) = j - 1
    BY <1>1, <1>3, SpotIs
  <2>3. p - 1 <= j - 1 <=> p <= j
    BY <1>1
  <2> QED BY <1>2, <1>5, <2>1, <2>2, <2>3 DEF IsNextServed
<1> QED BY <1>2, <1>4, <1>5, <1>6 DEF SignalPrior

(* A signal keeps every thread in its seat, whoever makes it: of two        *)
(* entries the one with a time limit is the more urgent.                    *)
LEMMA SignalKeeps ==
  ASSUME IInv, TimedFirst, Calm, Signal, mark' = mark,
         \A t \in Threads : Late(t) => phase' = "yield" \/ active' = t
  PROVE  /\ Sound(q')
         /\ \A t \in Threads : pc'[t] = pc[t] => Seat(t)'
         /\ \A t \in Threads : pc[t] \notin {"blocked", "timed"} =>
              state'[t] = state[t] /\ ~In(q', t)
         /\ \A t \in Threads : state[t] = {} => state'[t] = {}
         /\ state' \in [Threads -> SUBSET {"Q", "S"}]
         /\ event' \in [Threads -> {"E_NONE", "E_TIMER", "E_ITC", "E_ITC2"}]
<1>1. Sound(q) /\ q \in Objects /\ Length(q) \in Nat /\ q.token \in Int
  BY LengthIs DEF IInv, Sound
<1>2. CASE SignalFree
  <2>1. q.token >= 0 /\ q' = [q EXCEPT !.token = @ + 1] /\ UNCHANGED <<state, event>>
    BY <1>2 DEF SignalFree
  <2>2. Sound(q') /\ Length(q') = 0 /\ \A t : ~In(q, t) /\ ~In(q', t)
    <3> DEFINE m == q.token + 1
    <3>1. m \in Nat /\ q' = [q EXCEPT !.token = m]
      BY <1>1, <2>1
    <3> HIDE DEF m
    <3> QED BY <1>1, <2>1, <3>1, CounterMoves
  <2>3. q'.token = q.token + 1
    BY <1>1, <2>1 DEF Objects
  <2>4. ASSUME NEW t \in Threads, pc'[t] = pc[t] PROVE Seat(t)'
    <3>1. q'.token >= 0
      BY <1>1, <2>1, <2>3
    <3> QED BY <2>1, <2>2, <2>4, <3>1, SeatSame DEF IInv
  <2> QED BY <2>1, <2>2, <2>4 DEF IInv, Typed
<1>3. CASE SignalFifo
  <2>1. CASE FirstServed
    <3>1. /\ 1 \in 1 .. Length(q) /\ q' \in Objects /\ Closed(q, q', 1)
          /\ q'.token = q.token + 1 /\ q'.out = Succ(q.out) /\ Grant(EntryOf(q, 1))
      BY <2>1 DEF FirstServed
    <3> QED BY <3>1, GrantedKeeps
  <2>2. CASE SecondServed
    <3>1. Sound(q') /\ \A t : ~In(q', t)
      BY <2>2 DEF SecondServed
    <3> QED BY <2>2, <3>1, SecondKeeps
  <2> QED BY <1>3, <2>1, <2>2, FifoServes
<1>4. CASE SignalPrior
  <2>1. PICK p \in 1 .. Length(q) :
          /\ q' \in Objects /\ Closed(q, q', p) /\ q'.token = q.token + 1
          /\ Grant(EntryOf(q, p))
          /\ \A j \in 1 .. Length(q) :
               PrioOf[EntryOf(q, p)] < PrioOf[EntryOf(q, j)]
                 \/ PrioOf[EntryOf(q, p)] = PrioOf[EntryOf(q, j)]
    BY <1>4, PriorServes
  <2>2. ASSUME NEW t \in Timed, In(q, t) PROVE t = EntryOf(q, p)
    <3>1. PICK j \in 1 .. Length(q) : EntryOf(q, j) = t
      BY <2>2 DEF In
    <3>2. t \in Threads /\ EntryOf(q, p) \in Threads
      BY <1>1, ItcAssumption DEF Sound
    <3>3. PrioOf[t] \in Nat /\ PrioOf[EntryOf(q, p)] \in Nat
      BY <3>2, ItcAssumption
    <3>4. PrioOf[EntryOf(q, p)] <= PrioOf[t]
      BY <2>1, <3>1, <3>3
    <3> QED BY <3>2, <3>3, <3>4 DEF TimedFirst
  <2> QED BY <2>1, <2>2, GrantedKeeps
<1> QED BY <1>2, <1>3, <1>4 DEF Signal

LEMMA UnlockStep ==
  ASSUME IInv, TimedFirst, Unlock
  PROVE  IInv'
<1>1. /\ phase = "run" /\ active \in Threads /\ state[active] = {}
      /\ pc[active] \notin {"blocked", "timed"}
      /\ Signal /\ UNCHANGED <<active, npreempt, mark>>
  BY DEF IInv, Typed, RunOK, Unlock, Running, Signals
<1>2. \A t \in Threads : ~Late(t)
  <2>1. ~Late(active)
    BY <1>1 DEF Late
  <2> QED BY <1>1, <2>1, NobodyIsLate
<1>3. PICK c \in Places \ {"blocked", "timed"} :
        pc' = [pc EXCEPT ![active] = c] /\ phase' \in {"run", "yield"}
  <2>1. CASE Wakes
    BY <1>1, <2>1 DEF Unlock, At, Places
  <2>2. CASE ~Wakes
    BY <1>1, <2>2 DEF Unlock, At, Places
  <2> QED BY <2>1, <2>2
<1>4. pc'[active] = c /\ \A t \in Threads \ {active} : pc'[t] = pc[t]
  BY <1>1, <1>3 DEF IInv, Typed
<1>5. /\ Sound(q') /\ \A t \in Threads \ {active} : Seat(t)'
      /\ state'[active] = {} /\ ~In(q', active)
      /\ state' \in [Threads -> SUBSET {"Q", "S"}]
      /\ event' \in [Threads -> {"E_NONE", "E_TIMER", "E_ITC", "E_ITC2"}]
  BY <1>1, <1>2, <1>4, SignalKeeps DEF Calm
<1>6. Seat(active)'
  BY <1>1, <1>3, <1>4, <1>5, SeatOut
<1>7. Typed'
  BY <1>1, <1>3, <1>5 DEF IInv, Typed
<1> QED BY <1>1, <1>5, <1>6, <1>7 DEF IInv, RunOK

(* A handler comes at any time: between the end of a limited wait and the   *)
(* waiter's next step as well, in a ring short enough.                      *)
LEMMA HandlersCalm ==
  ASSUME IInv, OneBeside, Handlers
  PROVE  Calm
<1>1. \A t \in Threads : Late(t) => t \in Timed
  BY DEF IInv, Seat, Late
<1> QED BY <1>1 DEF OneBeside, Calm

LEMMA HandlerStep ==
  ASSUME IInv, Rules, FromHandler
  PROVE  IInv'
<1>1. /\ Signal /\ UNCHANGED <<active, phase, pc, mark>> /\ npreempt' \in Nat
      /\ Calm /\ TimedFirst
      /\ \A t \in Threads : Late(t) => phase' = "yield" \/ active' = t
  <2>1. Calm /\ TimedFirst
    BY HandlersCalm DEF FromHandler, Rules
  <2>2. Signal /\ UNCHANGED <<active, phase, pc, mark>> /\ npreempt' \in Nat
    BY DEF IInv, Typed, FromHandler
  <2>3. \A t \in Threads : Late(t) => phase = "yield" \/ active = t
    BY DEF IInv, Seat
  <2> QED BY <2>1, <2>2, <2>3
<1>2. /\ Sound(q') /\ \A t \in Threads : Seat(t)'
      /\ \A t \in Threads : state[t] = {} => state'[t] = {}
      /\ state' \in [Threads -> SUBSET {"Q", "S"}]
      /\ event' \in [Threads -> {"E_NONE", "E_TIMER", "E_ITC", "E_ITC2"}]
  BY <1>1, SignalKeeps
<1>3. Typed'
  BY <1>1, <1>2 DEF IInv, Typed
<1> QED BY <1>1, <1>2, <1>3 DEF IInv, Typed, RunOK

(* The late waiter takes itself out, at the index it remembers, and there   *)
(* is nobody else to sweep away.                                            *)
LEMMA TimedOutLeaves ==
  ASSUME IInv, TimedOut, In(q, active)
  PROVE  /\ phase = "run" /\ active \in Timed /\ active \in Threads
         /\ pc[active] = "timed" /\ Late(active)
         /\ event' = event /\ Sound(q') /\ q' \in Objects
         /\ q'.token = q.token + 1 /\ q'.prior = q.prior
         /\ \E p \in 1 .. Length(q) : EntryOf(q, p) = active /\ Closed(q, q', p)
<1>1. /\ phase = "run" /\ active \in Threads /\ pc[active] = "timed" /\ Late(active)
      /\ active \in Timed
  BY ItcAssumption DEF IInv, Typed, RunOK, Seat, Late, TimedOut, Running
<1>2. q \in Objects /\ Sound(q) /\ Length(q) \in Nat /\ q.token \in Int
  BY LengthIs DEF IInv, Sound
<1>3. PICK p \in 1 .. Length(q) : EntryOf(q, p) = active
  BY <1>1 DEF In
<1> DEFINE x == RemoveBlocked(q, Pred(mark[active]))
<1>4. x = RemoveBlocked(q, SpotOf(q, p))
  <2>1. mark[active] = Wrap(q.out + p)
    BY <1>1, <1>3 DEF IInv, Seat
  <2>2. p \in Nat /\ 1 <= p /\ p <= Length(q) + 1
    BY <1>2
  <2>3. Pred(Wrap(q.out + p)) = SpotOf(q, p)
    BY <1>2, <2>2, SpotIs
  <2> QED BY <2>1, <2>3
<1>5. x \in Objects /\ Closed(q, x, p) /\ x.token = q.token + 1 /\ x.prior = q.prior
  BY <1>2, <1>4, RemovedIs
<1>6. Sound(x) /\ q.token < 0 /\ \A t : In(x, t) <=> In(q, t) /\ t # active
  <2> HIDE DEF x
  <2> QED BY <1>2, <1>3, <1>5, ClosedSound
<1>7. q' = x /\ event' = event
  <2>1. CASE x.token >= 0
    BY <1>2, <1>6, <2>1 DEF TimedOut
  <2>2. CASE ~(x.token >= 0)
    <3> HIDE DEF x
    <3>1. x.token \in Int /\ Length(x) = -x.token /\ 1 <= Length(x) /\ x.token < 0
      BY <1>2, <1>5, <1>6, <2>2 DEF Sound
    <3>2. ASSUME NEW k \in 1 .. Length(x) PROVE ~Ready(EntryOf(x, k))
      <4>1. EntryOf(x, k) \in Threads /\ In(x, EntryOf(x, k))
        BY <1>6 DEF Sound, In
      <4>2. In(q, EntryOf(x, k)) /\ EntryOf(x, k) # active
        BY <1>6, <4>1
      <4> QED BY <1>1, <4>1, <4>2 DEF IInv, Seat, Ready
    <3>3. Sweep(x, event).x = x /\ Sweep(x, event).event = event
      BY <1>5, <3>1, <3>2, SweepFindsNone
    <3>4. /\ ~(q.token >= 0)
          /\ q' = Sweep(x, event).x /\ event' = Sweep(x, event).event
      BY <1>2, <1>6, <2>2 DEF TimedOut, x
    <3> QED BY <3>3, <3>4
  <2> QED BY <2>1, <2>2
<1> QED BY <1>1, <1>3, <1>5, <1>6, <1>7

(* A waiter that was passed over finds nobody waiting, and changes nothing. *)
LEMMA TimedOutGone ==
  ASSUME IInv, TimedOut, ~In(q, active)
  PROVE  /\ phase = "run" /\ active \in Timed /\ active \in Threads
         /\ pc[active] = "timed" /\ Late(active)
         /\ q' = q /\ event' = event
<1>1. /\ phase = "run" /\ active \in Threads /\ pc[active] = "timed" /\ Late(active)
      /\ active \in Timed
  BY ItcAssumption DEF IInv, Typed, RunOK, Seat, Late, TimedOut, Running
<1>2. q.token >= 0
  BY <1>1 DEF IInv, Seat
<1>3. q' = q /\ event' = event
  BY <1>2 DEF TimedOut
<1> QED BY <1>1, <1>3

LEMMA TimedOutEither ==
  ASSUME IInv, TimedOut
  PROVE  /\ phase = "run" /\ active \in Timed /\ active \in Threads
         /\ pc[active] = "timed" /\ Late(active)
         /\ event' = event /\ Sound(q')
         /\ q' = q \/ q'.token = q.token + 1
         /\ \A t : In(q', t) <=> In(q, t) /\ t # active
<1>1. CASE In(q, active)
  <2>1. PICK p \in 1 .. Length(q) : EntryOf(q, p) = active /\ Closed(q, q', p)
    BY <1>1, TimedOutLeaves
  <2>2. q' \in Objects /\ q'.token = q.token + 1
    BY <1>1, TimedOutLeaves
  <2>3. \A t : In(q', t) <=> In(q, t) /\ t # active
    BY <2>1, <2>2, ClosedSound DEF IInv
  <2> QED BY <1>1, <2>3, TimedOutLeaves
<1>2. CASE ~In(q, active)
  BY <1>2, TimedOutGone DEF IInv
<1> QED BY <1>1, <1>2

LEMMA TimedOutStep ==
  ASSUME IInv, TimedFirst, TimedOut
  PROVE  IInv'
<1>1. /\ phase = "run" /\ active \in Threads /\ pc[active] = "timed" /\ Late(active)
      /\ active \in Timed /\ event' = event /\ Sound(q')
  BY TimedOutEither
<1>2. \A t : In(q', t) <=> In(q, t) /\ t # active
  BY TimedOutEither
<1>3. /\ state[active] = {}
      /\ UNCHANGED <<state, active, npreempt, phase, mark>>
      /\ pc' = [pc EXCEPT ![active] = "user"]
  BY <1>1 DEF Late, TimedOut, At
<1>4. pc'[active] = "user" /\ \A t \in Threads \ {active} : pc'[t] = pc[t]
  BY <1>1, <1>3 DEF IInv, Typed
<1>5. ASSUME NEW t \in Threads PROVE Seat(t)'
  <2>1. CASE t = active
    BY <1>2, <1>3, <1>4, <2>1, SeatOut
  <2>2. CASE t # active
    <3>1. t \notin Timed
      <4>1. PrioOf[t] \in Nat /\ PrioOf[active] \in Nat
        BY <1>1, ItcAssumption
      <4> QED BY <1>1, <2>2, <4>1 DEF TimedFirst
    <3>2. Seat(t) /\ ~Late(t) /\ pc[t] # "timed"
      BY <1>1, <2>2, <3>1 DEF IInv, Seat
    <3>3. In(q', t) <=> In(q, t)
      BY <1>2, <2>2
    <3> QED BY <1>1, <1>3, <1>4, <2>2, <3>2, <3>3, SeatSame
  <2> QED BY <2>1, <2>2
<1>6. Typed'
  <2>1. pc' \in [Threads -> Places]
    BY <1>1, <1>3 DEF IInv, Typed, Places
  <2> QED BY <1>1, <1>3, <2>1 DEF IInv, Typed
<1> QED BY <1>1, <1>3, <1>5, <1>6 DEF IInv, RunOK

LEMMA InitSeats == Init => IInv
<1> SUFFICES ASSUME Init PROVE IInv
  OBVIOUS
<1>1. PICK flag \in Priors :
        q = [token |-> Count, blocked |-> [i \in Indices |-> None],
             in |-> 0, out |-> 0, prior |-> flag]
  BY DEF Init
<1>2. /\ q \in Objects /\ Length(q) = 0 /\ q.token \in Nat
  <2>1. 0 \in Indices /\ Count \in Nat /\ flag \in BOOLEAN
    BY Sizes, ItcAssumption
  <2>2. Gap(0, 0) = 0
    BY DEF Gap
  <2> QED BY <1>1, <2>1, <2>2 DEF Objects, Length
<1>3. Sound(q) /\ \A t : ~In(q, t)
  BY <1>2 DEF Sound, In
<1>4. /\ state = [t \in Threads |-> {}] /\ event = [t \in Threads |-> "E_NONE"]
      /\ active \in Threads /\ npreempt = 0 /\ phase = "run"
      /\ pc = [t \in Threads |-> "user"] /\ mark = [t \in Threads |-> 0]
  BY DEF Init
<1>5. Typed
  BY <1>4, Sizes DEF Typed, Places
<1>6. ASSUME NEW t \in Threads PROVE Seat(t)
  BY <1>3, <1>4, <1>6 DEF Seat, States, Late, Pending
<1> QED BY <1>3, <1>4, <1>5, <1>6 DEF IInv, RunOK

LEMMA NextSeats == IInv /\ Rules /\ [Next]_vars => IInv'
<1> SUFFICES ASSUME IInv, Rules, [Next]_vars PROVE IInv'
  OBVIOUS
<1>1. CASE LockFree
  BY <1>1, LockFreeStep
<1>2. CASE LockForever \/ LockTimed
  BY <1>2, BlockStep
<1>3. CASE Unlock
  BY <1>3, UnlockStep DEF Rules
<1>4. CASE Yield \/ Sleep
  BY <1>4, YieldStep
<1>5. CASE Resume
  BY <1>5, ResumeStep, TimedOutStep DEF Resume, Rules
<1>6. CASE Dispatch
  BY <1>6, DispatchStep DEF Rules
<1>7. CASE \E t \in Threads : Timeout(t)
  BY <1>7, TimeoutStep
<1>8. CASE FromHandler
  BY <1>8, HandlerStep
<1>9. CASE UNCHANGED vars
  BY <1>9 DEF vars, IInv, Typed, RunOK, Seat, Late, Pending, In, Length, EntryOf, SpotOf, Sound
<1> QED BY <1>1, <1>2, <1>3, <1>4, <1>5, <1>6, <1>7, <1>8, <1>9 DEF Next, Core, Kernel

-----------------------------------------------------------------------------
(* The theorems.                                                            *)

\* Every thread is where the ring and its state say that it is.
THEOREM Invariance == Rules /\ Spec => []IInv
<1>1. Init => IInv
  BY InitSeats
<1>2. Rules /\ IInv /\ [Next]_vars => IInv'
  BY NextSeats
<1>3. ASSUME Rules PROVE Spec => []IInv
  <2>1. IInv /\ [Next]_vars => IInv'
    BY <1>2, <1>3
  <2> QED BY <1>1, <2>1, PTL DEF Spec
<1> QED BY <1>3

\* The object and the pool keep their types: no index leaves the ring.
THEOREM TypeCorrect == Rules /\ Spec => []TypeOK
<1>1. IInv => TypeOK
  BY DEF IInv, Typed, Sound, Objects, TypeOK
<1> QED BY <1>1, Invariance, PTL

LEMMA WaitersCounted == IInv => WaitersOK
<1> SUFFICES ASSUME IInv PROVE WaitersOK
  OBVIOUS
<1>1. Sound(q) /\ q \in Objects
  BY DEF IInv, Sound
<1>2. Cardinality(Used(q)) = IF q.token < 0 THEN -q.token ELSE 0
  BY <1>1, UsedCounts DEF Sound
<1>3. ASSUME NEW i \in Used(q) PROVE q.blocked[i] # None /\ Pending(q.blocked[i])
  <2>1. PICK k \in 1 .. Length(q) : i = SpotOf(q, k)
    BY <1>1, UsedIs
  <2>2. q.blocked[i] \in Threads /\ In(q, q.blocked[i])
    BY <1>1, <2>1 DEF Sound, EntryOf, In
  <2>3. pc[q.blocked[i]] \in {"blocked", "timed"}
    BY <2>2, OutIs DEF IInv
  <2> QED BY <2>2, <2>3, Sizes DEF Pending
<1>4. ASSUME NEW i \in Used(q), NEW j \in Used(q), q.blocked[i] = q.blocked[j] PROVE i = j
  <2>1. PICK k \in 1 .. Length(q) : i = SpotOf(q, k)
    BY <1>1, UsedIs
  <2>2. PICK l \in 1 .. Length(q) : j = SpotOf(q, l)
    BY <1>1, UsedIs
  <2> QED BY <1>1, <1>4, <2>1, <2>2 DEF Sound, EntryOf
<1>5. ASSUME NEW t \in Threads, "Q" \in state[t] PROVE InRing(t)
  BY <1>1, <1>5, InIs DEF IInv, Seat, InRing
<1> QED BY <1>2, <1>3, <1>4, <1>5 DEF WaitersOK

\* lock_stage and unlock_stage lose no waiter and count none twice.
THEOREM WaitersHold == Rules /\ Spec => []WaitersOK
BY WaitersCounted, Invariance, PTL

-----------------------------------------------------------------------------
(* That lock_stage and unlock_stage implement Semaphore.                    *)
Value == IF q.token > 0 THEN q.token ELSE 0
Outcome == [t \in Threads |-> OutcomeOf(t)]
LineOf(x) == [k \in 1 .. Length(x) |-> EntryOf(x, k)]

LEMMA LineIs == Line = LineOf(q) /\ Line' = LineOf(q')
BY DEF Line, LineOf, Entry, EntryOf, SpotOf, Length

LEMMA LineOfIs ==
  ASSUME NEW x, Sound(x)
  PROVE  /\ LineOf(x) \in Seq(Threads) /\ Len(LineOf(x)) = Length(x) /\ Length(x) \in Nat
         /\ \A k \in 1 .. Length(x) : LineOf(x)[k] = EntryOf(x, k)
<1>1. Length(x) \in Nat /\ \A k \in 1 .. Length(x) : EntryOf(x, k) \in Threads
  BY LengthIs DEF Sound
<1> QED BY <1>1 DEF LineOf

LEMMA RemoveAtIs ==
  ASSUME NEW S, NEW s \in Seq(S), NEW p \in 1 .. Len(s)
  PROVE  RemoveAt(s, p) = [i \in 1 .. Len(s) - 1 |-> IF i < p THEN s[i] ELSE s[i + 1]]
<1> DEFINE a == SubSeq(s, 1, p - 1)  b == SubSeq(s, p + 1, Len(s))
<1>1. Len(s) \in Nat /\ p \in Nat /\ 1 <= p /\ p <= Len(s)
  OBVIOUS
<1>2. a \in Seq(S) /\ Len(a) = p - 1 /\ \A i \in 1 .. p - 1 : a[i] = s[i]
  BY <1>1
<1>3. b \in Seq(S) /\ Len(b) = Len(s) - p /\ \A i \in 1 .. Len(s) - p : b[i] = s[i + p]
  BY <1>1
<1> HIDE DEF a, b
<1>4. /\ a \o b \in Seq(S) /\ Len(a \o b) = Len(a) + Len(b)
      /\ \A i \in 1 .. Len(a) + Len(b) : (a \o b)[i] = IF i <= Len(a) THEN a[i] ELSE b[i - Len(a)]
  BY <1>2, <1>3, ConcatProperties
<1>5. Len(a) + Len(b) = Len(s) - 1
  BY <1>1, <1>2, <1>3
<1>6. ASSUME NEW i \in 1 .. Len(s) - 1
      PROVE  (a \o b)[i] = IF i < p THEN s[i] ELSE s[i + 1]
  <2>1. i \in Nat /\ 1 <= i /\ i <= Len(s) - 1 /\ i \in 1 .. Len(a) + Len(b)
    BY <1>1, <1>5
  <2>2. CASE i < p
    <3>1. i <= Len(a) /\ i \in 1 .. p - 1
      BY <1>1, <1>2, <2>1, <2>2
    <3> QED BY <1>2, <1>4, <2>1, <2>2, <3>1
  <2>3. CASE ~(i < p)
    <3>1. ~(i <= Len(a)) /\ i - Len(a) \in 1 .. Len(s) - p /\ i - Len(a) + p = i + 1
      BY <1>1, <1>2, <2>1, <2>3
    <3> QED BY <1>3, <1>4, <2>1, <2>3, <3>1
  <2> QED BY <2>2, <2>3
<1>7. a \o b = [i \in 1 .. Len(s) - 1 |-> (a \o b)[i]]
  BY <1>4, <1>5, LenProperties
<1>8. RemoveAt(s, p) = a \o b
  BY DEF RemoveAt, a, b
<1> QED BY <1>6, <1>7, <1>8

(* Taking an entry out of the ring takes it out of the line.                *)
LEMMA LineClosed ==
  ASSUME NEW x, Sound(x), NEW y, Sound(y), NEW p \in 1 .. Length(x), Closed(x, y, p)
  PROVE  /\ LineOf(y) = RemoveAt(LineOf(x), p) /\ LineOf(x)[p] = EntryOf(x, p)
         /\ p = 1 => /\ LineOf(y) = Tail(LineOf(x)) /\ LineOf(x) # <<>>
                     /\ Head(LineOf(x)) = EntryOf(x, 1)
<1> DEFINE n == Length(x)  s == LineOf(x)
<1>1. /\ s \in Seq(Threads) /\ Len(s) = n /\ n \in Nat
      /\ \A k \in 1 .. n : s[k] = EntryOf(x, k)
      /\ LineOf(y) \in Seq(Threads) /\ Len(LineOf(y)) = n - 1
      /\ \A k \in 1 .. n - 1 : LineOf(y)[k] = EntryOf(y, k)
  BY LineOfIs DEF Closed
<1>2. \A k \in 1 .. n - 1 : EntryOf(y, k) = IF k < p THEN EntryOf(x, k) ELSE EntryOf(x, k + 1)
  BY DEF Closed
<1>3. p \in Nat /\ 1 <= p /\ p <= n /\ \A k \in 1 .. n - 1 : k \in 1 .. n /\ k + 1 \in 1 .. n
  BY <1>1
<1> HIDE DEF n, s
<1>4. \A k \in 1 .. n - 1 : LineOf(y)[k] = IF k < p THEN s[k] ELSE s[k + 1]
  BY <1>1, <1>2, <1>3
<1>5. LineOf(y) = [k \in 1 .. n - 1 |-> LineOf(y)[k]]
  BY <1>1
<1>6. LineOf(y) = [k \in 1 .. n - 1 |-> IF k < p THEN s[k] ELSE s[k + 1]]
  BY <1>4, <1>5
<1>7. LineOf(y) = RemoveAt(s, p)
  <2>1. s \in Seq(Threads) /\ Len(s) = n /\ p \in 1 .. Len(s)
    BY <1>1, <1>3
  <2>2. RemoveAt(s, p) = [k \in 1 .. Len(s) - 1 |-> IF k < p THEN s[k] ELSE s[k + 1]]
    BY <2>1, RemoveAtIs
  <2> QED BY <1>6, <2>1, <2>2
<1>8. ASSUME p = 1 PROVE LineOf(y) = Tail(s) /\ s # <<>> /\ Head(s) = EntryOf(x, 1)
  <2>1. s # <<>> /\ Head(s) = s[1] /\ 1 \in 1 .. n
    BY <1>1, <1>3
  <2>2. Tail(s) \in Seq(Threads) /\ Len(Tail(s)) = n - 1 /\ \A k \in 1 .. n - 1 : Tail(s)[k] = s[k + 1]
    BY <1>1, <2>1
  <2>3. \A k \in 1 .. n - 1 : ~(k < p)
    BY <1>8
  <2>4. LineOf(y) = Tail(s)
    <3>1. \A k \in 1 .. n - 1 : LineOf(y)[k] = Tail(s)[k]
      BY <1>4, <2>2, <2>3
    <3> QED BY <1>1, <2>2, <3>1, SeqEqual
  <2> QED BY <1>1, <2>1, <2>4
<1> QED BY <1>1, <1>7, <1>8 DEF s, n

(* What is visible of a thread's call.                                      *)
LEMMA OutcomeNow ==
  ASSUME IInv, NEW t \in Threads
  PROVE  OutcomeOf(t) = IF pc[t] \notin {"blocked", "timed"} THEN "none"
                        ELSE IF Late(t) THEN "late"
                        ELSE IF In(q, t) THEN "waiting" ELSE "served"
<1>1. q \in Objects /\ Seat(t)
  BY DEF IInv, Sound
<1>2. InRing(t) <=> In(q, t)
  BY <1>1, InIs DEF InRing
<1> QED BY <1>1, <1>2 DEF Seat, OutcomeOf, Pending

LEMMA OutcomeNext ==
  ASSUME IInv', NEW t \in Threads
  PROVE  OutcomeOf(t)' = IF pc'[t] \notin {"blocked", "timed"} THEN "none"
                         ELSE IF Late(t)' THEN "late"
                         ELSE IF In(q', t) THEN "waiting" ELSE "served"
<1>1. q' \in Objects /\ Seat(t)'
  BY DEF IInv, Sound
<1>2. InRing(t)' <=> In(q', t)
  BY <1>1, InIs DEF InRing
<1> QED BY <1>1, <1>2 DEF Seat, OutcomeOf, Pending

LEMMA OutcomeMoves ==
  ASSUME NEW a \in Threads, NEW v, OutcomeOf(a)' = v,
         \A t \in Threads \ {a} : OutcomeOf(t)' = OutcomeOf(t)
  PROVE  Outcome' = [Outcome EXCEPT ![a] = v]
BY DEF Outcome

(* What happens to others does not show.                                    *)
LEMMA OutcomeSame ==
  ASSUME IInv, IInv', NEW t \in Threads,
         \/ /\ pc'[t] = pc[t] /\ state'[t] = state[t] /\ event'[t] = event[t]
            /\ Late(t) \/ (In(q', t) <=> In(q, t))
         \/ {pc[t], pc'[t]} \cap {"blocked", "timed"} = {}
  PROVE  OutcomeOf(t)' = OutcomeOf(t)
<1>1. CASE {pc[t], pc'[t]} \cap {"blocked", "timed"} = {}
  BY <1>1, OutcomeNow, OutcomeNext
<1>2. CASE /\ pc'[t] = pc[t] /\ state'[t] = state[t] /\ event'[t] = event[t]
           /\ Late(t) \/ (In(q', t) <=> In(q, t))
  <2>1. Late(t)' <=> Late(t)
    BY <1>2 DEF Late
  <2> QED BY <1>2, <2>1, OutcomeNow, OutcomeNext
<1> QED BY <1>1, <1>2

LEMMA Stutters ==
  ASSUME q' = q, \A t \in Threads : OutcomeOf(t)' = OutcomeOf(t)
  PROVE  UNCHANGED Sem!semaphore
<1>1. Value' = Value /\ Line' = Line /\ Outcome' = Outcome
  BY LineIs DEF Value, Outcome
<1> QED BY <1>1 DEF Sem!semaphore, Value, Outcome

LEMMA LockFreeTakes ==
  ASSUME IInv, IInv', LockFree
  PROVE  Sem!Next
<1>1. /\ active \in Threads /\ pc[active] = "user" /\ q.token > 0
      /\ q' = [q EXCEPT !.token = @ - 1] /\ q \in Objects /\ q.token \in Int
  BY CallerIs, LengthIs DEF LockFree, Calling, IInv, Sound
<1>2. /\ q'.token = q.token - 1 /\ q'.prior = q.prior /\ q.token - 1 \in Nat
      /\ Length(q) = 0 /\ Length(q') = 0 /\ \A t : ~In(q, t) /\ ~In(q', t)
  <2> DEFINE n == q.token - 1
  <2>1. n \in Nat /\ q.token >= 0 /\ q' = [q EXCEPT !.token = n]
    BY <1>1
  <2> HIDE DEF n
  <2> QED BY <2>1, CounterMoves DEF IInv, n
<1>3. pc'[active] \notin {"blocked", "timed"} /\ \A t \in Threads \ {active} : pc'[t] = pc[t]
  <2>1. Locked \notin {"blocked", "timed"}
    BY DEF Locked
  <2> QED BY <1>1, <2>1 DEF IInv, Typed, LockFree, At
<1>4. Outcome' = Outcome
  <2>1. UNCHANGED <<state, event>>
    BY DEF LockFree
  <2>2. \A t \in Threads : OutcomeOf(t)' = OutcomeOf(t)
    BY <1>1, <1>2, <1>3, <2>1, OutcomeSame
  <2> QED BY <2>2 DEF Outcome
<1>5. Line' = Line
  BY <1>2, LineIs DEF LineOf
<1>6. Value > 0 /\ Value' = Value - 1
  BY <1>1, <1>2 DEF Value
<1>7. Sem!Take
  BY <1>4, <1>5, <1>6 DEF Sem!Take, Value, Outcome
<1> QED BY <1>2, <1>7 DEF Sem!Next

LEMMA BlockingWaits ==
  ASSUME IInv, IInv', LockForever \/ LockTimed
  PROVE  Sem!Next
<1> DEFINE n == Length(q)
<1>1. /\ active \in Threads /\ pc[active] = "user" /\ ~In(q, active)
      /\ MayBlock /\ q' = Enlisted /\ Sound(q)
  BY CallerIs DEF LockForever, LockTimed, Calling, IInv
<1>2. /\ Sound(q') /\ Length(q') = n + 1 /\ n \in Nat
      /\ \A k \in 1 .. n : EntryOf(q', k) = EntryOf(q, k)
      /\ EntryOf(q', n + 1) = active
      /\ q'.prior = q.prior /\ q'.token < 0 /\ q.token \in Int /\ q.token <= 0
  BY <1>1, EnlistedIs, LengthIs DEF Sound, MayBlock
<1>3. \A k \in 1 .. n + 1 : k = n + 1 \/ k \in 1 .. n
  BY <1>2
<1>4. LineOf(q') = Append(LineOf(q), active)
  <2>1. /\ LineOf(q) \in Seq(Threads) /\ Len(LineOf(q)) = n
        /\ \A k \in 1 .. n : LineOf(q)[k] = EntryOf(q, k)
        /\ LineOf(q') \in Seq(Threads) /\ Len(LineOf(q')) = n + 1
        /\ \A k \in 1 .. n + 1 : LineOf(q')[k] = EntryOf(q', k)
    BY <1>1, <1>2, LineOfIs
  <2> DEFINE s == LineOf(q)  r == LineOf(q')
  <2> HIDE DEF n, s, r
  <2>2. /\ Append(s, active) \in Seq(Threads) /\ Len(Append(s, active)) = n + 1
        /\ \A k \in 1 .. n + 1 : Append(s, active)[k] = IF k = n + 1 THEN active ELSE s[k]
    BY <1>1, <1>2, <1>3, <2>1 DEF s
  <2>3. \A k \in 1 .. n + 1 : r[k] = Append(s, active)[k]
    BY <1>2, <1>3, <2>1, <2>2 DEF r, s
  <2>4. r = Append(s, active)
    BY <2>1, <2>2, <2>3, SeqEqual DEF r
  <2> QED BY <2>4 DEF r, s
<1>5. In(q', active) /\ \A t \in Threads \ {active} : In(q', t) <=> In(q, t)
  BY <1>2, <1>3 DEF In
<1>6. /\ pc'[active] \in {"blocked", "timed"} /\ active' = active
      /\ \A t \in Threads \ {active} : pc'[t] = pc[t]
  BY <1>1 DEF IInv, Typed, LockForever, LockTimed, At
<1>7. OutcomeOf(active) = "none" /\ Outcome' = [Outcome EXCEPT ![active] = "waiting"]
  <2>1. /\ "Q" \in state'[active]
        /\ \A t \in Threads \ {active} : state'[t] = state[t] /\ event'[t] = event[t]
    BY <1>1 DEF IInv, Typed, LockForever, LockTimed
  <2>2. ~Late(active)'
    BY <1>6, <2>1 DEF Late
  <2>3. OutcomeOf(active) = "none" /\ OutcomeOf(active)' = "waiting"
    BY <1>1, <1>5, <1>6, <2>2, OutcomeNow, OutcomeNext
  <2>4. \A t \in Threads \ {active} : OutcomeOf(t)' = OutcomeOf(t)
    BY <1>5, <1>6, <2>1, OutcomeSame
  <2> QED BY <1>1, <1>6, <2>3, <2>4, OutcomeMoves
<1>8. Value = 0 /\ Value' = Value /\ Line' = Append(Line, active)
  BY <1>2, <1>4, LineIs, LengthIs DEF Value, Sound
<1>9. Outcome[active] = "none"
  BY <1>1, <1>7 DEF Outcome
<1>10. Sem!Wait(active)
  BY <1>7, <1>8, <1>9 DEF Sem!Wait, Value, Outcome
<1> QED BY <1>1, <1>2, <1>10 DEF Sem!Next

LEMMA ReturnLeaves ==
  ASSUME IInv, IInv', Unblocked \/ InTime
  PROVE  Sem!Next
<1>1. /\ active \in Threads /\ pc[active] \in {"blocked", "timed"} /\ q' = q
      /\ state[active] = {} /\ ~Late(active) /\ active' = active
  BY DEF IInv, Typed, RunOK, Unblocked, InTime, Running, Late
<1>2. ~In(q, active)
  BY <1>1, GoneIs DEF IInv
<1>3. pc'[active] \notin {"blocked", "timed"} /\ \A t \in Threads \ {active} : pc'[t] = pc[t]
  <2>1. Locked \notin {"blocked", "timed"}
    BY DEF Locked
  <2> QED BY <1>1, <2>1 DEF IInv, Typed, Unblocked, InTime, At
<1>4. OutcomeOf(active) = "served" /\ Outcome' = [Outcome EXCEPT ![active] = "none"]
  <2>1. OutcomeOf(active) = "served" /\ OutcomeOf(active)' = "none"
    BY <1>1, <1>2, <1>3, OutcomeNow, OutcomeNext
  <2>2. UNCHANGED <<state, event>>
    BY DEF Unblocked, InTime
  <2>3. \A t \in Threads \ {active} : OutcomeOf(t)' = OutcomeOf(t)
    BY <1>1, <1>3, <2>2, OutcomeSame
  <2> QED BY <1>1, <2>1, <2>3, OutcomeMoves
<1>5. Value' = Value /\ Line' = Line /\ Outcome[active] = "served"
  BY <1>1, <1>4, LineIs DEF Value, Outcome
<1>6. Sem!Leave(active)
  BY <1>4, <1>5 DEF Sem!Leave, Value, Outcome
<1> QED BY <1>1, <1>6 DEF Sem!Next

(* Giving a signal to the first, or to the most urgent, entry of the ring.  *)
LEMMA GrantServes ==
  ASSUME IInv, IInv', NEW p \in 1 .. Length(q), Closed(q, q', p),
         q'.token = q.token + 1, q'.prior = q.prior, Grant(EntryOf(q, p)),
         \A t \in Threads : \/ pc'[t] = pc[t]
                            \/ {pc[t], pc'[t]} \cap {"blocked", "timed"} = {}
  PROVE  /\ q.token < 0 /\ Value' = Value /\ Line' = RemoveAt(Line, p) /\ Line[p] = EntryOf(q, p)
         /\ Len(Line) = Length(q) /\ \A k \in 1 .. Length(q) : Line[k] = EntryOf(q, k)
         /\ Outcome' = [Outcome EXCEPT ![EntryOf(q, p)] = "served"]
         /\ p = 1 => Line' = Tail(Line) /\ Line # <<>> /\ Head(Line) = EntryOf(q, 1)
<1>1. Sound(q) /\ Sound(q') /\ q' \in Objects
  BY DEF IInv, Sound
<1>0. PICK g \in Threads : g = EntryOf(q, p)
  BY <1>1 DEF Sound
<1>2. q.token < 0 /\ \A t : In(q', t) <=> In(q, t) /\ t # g
  BY <1>0, <1>1, ClosedSound
<1>3. Value' = Value
  <2>1. q.token \in Int
    BY <1>1, LengthIs DEF Sound
  <2> QED BY <1>2, <2>1 DEF Value
<1>4. /\ Line' = RemoveAt(Line, p) /\ Line[p] = EntryOf(q, p)
      /\ Len(Line) = Length(q) /\ \A k \in 1 .. Length(q) : Line[k] = EntryOf(q, k)
      /\ p = 1 => Line' = Tail(Line) /\ Line # <<>> /\ Head(Line) = EntryOf(q, 1)
  BY <1>1, LineIs, LineOfIs, LineClosed
<1>5. In(q, g)
  BY <1>0 DEF In
<1>6. pc[g] \in {"blocked", "timed"} /\ pc'[g] = pc[g]
  BY <1>5, OutIs DEF IInv
<1>7. /\ event'[g] = "E_ITC"
      /\ \A t \in Threads \ {g} : state'[t] = state[t] /\ event'[t] = event[t]
  BY <1>0 DEF Grant, IInv, Typed
<1>8. OutcomeOf(g)' = "served"
  <2>1. ~Late(g)'
    BY <1>7 DEF Late
  <2> QED BY <1>2, <1>5, <1>6, <2>1, OutcomeNext
<1>9. \A t \in Threads \ {g} : OutcomeOf(t)' = OutcomeOf(t)
  BY <1>2, <1>7, OutcomeSame
<1>10. Outcome' = [Outcome EXCEPT ![g] = "served"]
  BY <1>5, <1>8, <1>9, OutcomeMoves
<1> QED BY <1>0, <1>2, <1>3, <1>4, <1>10

(* A signal that passes over the late waiter: it stays late.                *)
LEMMA SecondServes ==
  ASSUME IInv, IInv', SecondServed, ~q.prior,
         \A t \in Threads : \/ pc'[t] = pc[t]
                            \/ {pc[t], pc'[t]} \cap {"blocked", "timed"} = {}
  PROVE  Sem!Next
<1>1. Sound(q) /\ Sound(q') /\ Length(q) = 2 /\ Length(q') = 0 /\ q.token < 0 /\ q'.token = 0
      /\ q'.prior = q.prior /\ \A t : ~In(q', t)
  BY DEF IInv, SecondServed
<1>0. PICK f \in Threads, g \in Threads : f = EntryOf(q, 1) /\ g = EntryOf(q, 2)
  <2>1. 1 \in 1 .. Length(q) /\ 2 \in 1 .. Length(q)
    BY <1>1
  <2> QED BY <1>1, <2>1 DEF Sound
<1>2. /\ Line \in Seq(Threads) /\ Len(Line) = 2 /\ Line[1] = f /\ Line[2] = g
  <2>1. /\ LineOf(q) \in Seq(Threads) /\ Len(LineOf(q)) = 2
        /\ \A k \in 1 .. 2 : LineOf(q)[k] = EntryOf(q, k)
    BY <1>1, LineOfIs
  <2>2. 1 \in 1 .. 2 /\ 2 \in 1 .. 2
    OBVIOUS
  <2> QED BY <1>0, <2>1, <2>2, LineIs
<1>3. Line' = <<>>
  <2>1. LineOf(q') \in Seq(Threads) /\ Len(LineOf(q')) = 0
    BY <1>1, LineOfIs
  <2> QED BY <2>1, LineIs, EmptySeq
<1>4. In(q, g) /\ f # g
  <2>1. 1 \in 1 .. Length(q) /\ 2 \in 1 .. Length(q)
    BY <1>1
  <2> QED BY <1>0, <1>1, <2>1 DEF Sound, In
<1>5. Late(f) /\ Grant(g)
  BY <1>0 DEF SecondServed
<1>6. ASSUME NEW t \in Threads, In(q, t) PROVE t = f \/ t = g
  <2>1. PICK j \in 1 .. 2 : EntryOf(q, j) = t
    BY <1>1, <1>6 DEF In
  <2>2. j = 1 \/ j = 2
    BY <2>1
  <2> QED BY <1>0, <2>1, <2>2
<1>7. pc[g] \in {"blocked", "timed"} /\ pc'[g] = pc[g]
  BY <1>4, OutIs DEF IInv
<1>8. /\ event'[g] = "E_ITC"
      /\ \A t \in Threads \ {g} : state'[t] = state[t] /\ event'[t] = event[t]
  BY <1>4, <1>5 DEF Grant, IInv, Typed
<1>9. OutcomeOf(g)' = "served"
  <2>1. ~Late(g)'
    BY <1>8 DEF Late
  <2> QED BY <1>1, <1>4, <1>7, <2>1, OutcomeNext
<1>10. ASSUME NEW t \in Threads \ {g} PROVE OutcomeOf(t)' = OutcomeOf(t)
  <2>1. Late(t) \/ (In(q', t) <=> In(q, t))
    BY <1>1, <1>5, <1>6
  <2> QED BY <1>8, <2>1, OutcomeSame
<1>11. Outcome' = [Outcome EXCEPT ![g] = "served"]
  BY <1>4, <1>9, <1>10, OutcomeMoves
<1>12. OutcomeOf(f) = "late" /\ Outcome[f] = "late"
  <2>1. pc[f] \in {"blocked", "timed"}
    BY <1>5 DEF Late
  <2> QED BY <1>4, <1>5, <2>1, OutcomeNow DEF Outcome
<1>13. Value = 0 /\ Value' = 0
  BY <1>1, LengthIs DEF Value, Sound
<1>14. Sem!ServeFirst
  <2>1. 2 \in 1 .. Len(Line) /\ 2 = Len(Line)
    BY <1>2
  <2>2. \A i \in 1 .. 2 - 1 : Outcome[Line[i]] = "late"
    <3>1. \A i \in 1 .. 2 - 1 : i = 1
      OBVIOUS
    <3> QED BY <1>2, <1>12, <3>1
  <2>3. Line' = SubSeq(Line, 2 + 1, Len(Line))
    <3>1. SubSeq(Line, 3, 2) = <<>>
      BY <1>2
    <3> QED BY <1>2, <1>3, <3>1
  <2>4. Outcome' = [Outcome EXCEPT ![Line[2]] = "served"]
    BY <1>2, <1>11
  <2>5. Value' = Value
    BY <1>13
  <2> QED BY <2>1, <2>2, <2>3, <2>4, <2>5 DEF Sem!ServeFirst, Value, Outcome
<1> QED BY <1>1, <1>14 DEF Sem!Next, Sem!Serve

LEMMA SignalServes ==
  ASSUME IInv, IInv', Calm, Signal,
         \A t \in Threads : \/ pc'[t] = pc[t]
                            \/ {pc[t], pc'[t]} \cap {"blocked", "timed"} = {}
  PROVE  Sem!Next
<1>1. q \in Objects /\ Sound(q) /\ q.token \in Int /\ Length(q) \in Nat
  BY LengthIs DEF IInv, Sound
<1>2. CASE SignalFree
  <2>1. q.token >= 0 /\ q' = [q EXCEPT !.token = @ + 1]
    BY <1>2 DEF SignalFree
  <2>2. /\ q'.token = q.token + 1 /\ q'.prior = q.prior
        /\ Length(q) = 0 /\ Length(q') = 0 /\ \A t : ~In(q, t) /\ ~In(q', t)
    <3> DEFINE m == q.token + 1
    <3>1. m \in Nat /\ q' = [q EXCEPT !.token = m]
      BY <1>1, <2>1
    <3> HIDE DEF m
    <3> QED BY <1>1, <2>1, <3>1, CounterMoves DEF m
  <2>3. Outcome' = Outcome
    <3>1. UNCHANGED <<state, event>>
      BY <1>2 DEF SignalFree
    <3>2. \A t \in Threads : OutcomeOf(t)' = OutcomeOf(t)
      BY <2>2, <3>1, OutcomeSame
    <3> QED BY <3>2 DEF Outcome
  <2>4. Line = <<>> /\ Line' = Line /\ Value' = Value + 1
    <3>1. Len(Line) = 0 /\ Line \in Seq(Threads)
      BY <1>1, <2>2, LineIs, LineOfIs
    <3>2. Line = <<>> /\ Line' = Line
      BY <2>2, <3>1, LineIs, EmptySeq DEF LineOf
    <3> QED BY <1>1, <2>1, <2>2, <3>2 DEF Value
  <2>5. Sem!Deposit
    BY <2>3, <2>4 DEF Sem!Deposit, Value, Outcome
  <2> QED BY <2>2, <2>5 DEF Sem!Next
<1>3. CASE SignalFifo
  <2>1. ~q.prior /\ (FirstServed \/ SecondServed)
    BY <1>3, FifoServes
  <2>2. CASE SecondServed
    BY <2>1, <2>2, SecondServes
  <2>3. CASE FirstServed
    <3>1. /\ 1 \in 1 .. Length(q) /\ Closed(q, q', 1)
          /\ q'.token = q.token + 1 /\ q'.prior = q.prior /\ Grant(EntryOf(q, 1))
          /\ Length(q) = 1 \/ StillWaits(EntryOf(q, 1))
      BY <2>3 DEF FirstServed
    <3>2. /\ Value' = Value /\ Line' = Tail(Line) /\ Line # <<>> /\ Line[1] = EntryOf(q, 1)
          /\ Len(Line) = Length(q)
          /\ Outcome' = [Outcome EXCEPT ![EntryOf(q, 1)] = "served"]
      BY <3>1, GrantServes
    <3>3. Line' = SubSeq(Line, 1 + 1, Len(Line))
      <4>1. Line \in Seq(Threads)
        BY <1>1, LineIs, LineOfIs
      <4> QED BY <3>2, <4>1
    <3>4. Outcome[Line[1]] = "waiting" \/ 1 = Len(Line)
      <4>1. CASE StillWaits(EntryOf(q, 1))
        <5>1. EntryOf(q, 1) \in Threads /\ In(q, EntryOf(q, 1))
          BY <3>1, EntriesWait
        <5>2. ~Late(EntryOf(q, 1)) /\ pc[EntryOf(q, 1)] \in {"blocked", "timed"}
          BY <4>1, <5>1, OutIs DEF Late, StillWaits, IInv
        <5>3. OutcomeOf(EntryOf(q, 1)) = "waiting"
          BY <5>1, <5>2, OutcomeNow
        <5> QED BY <3>2, <5>1, <5>3 DEF Outcome
      <4> QED BY <3>1, <3>2, <4>1
    <3>5. 1 \in 1 .. Len(Line)
      BY <3>1, <3>2
    <3>6. Sem!ServeFirst
      <4>1. \A i \in 1 .. 1 - 1 : FALSE
        OBVIOUS
      <4>2. Outcome' = [Outcome EXCEPT ![Line[1]] = "served"]
        BY <3>2
      <4> QED BY <3>2, <3>3, <3>4, <3>5, <4>1, <4>2 DEF Sem!ServeFirst, Value, Outcome
    <3> QED BY <2>1, <3>1, <3>6 DEF Sem!Next, Sem!Serve
  <2> QED BY <2>1, <2>2, <2>3
<1>4. CASE SignalPrior
  <2>1. PICK p \in 1 .. Length(q) :
          /\ Closed(q, q', p) /\ q'.token = q.token + 1 /\ q'.prior = q.prior /\ q.prior
          /\ Grant(EntryOf(q, p))
          /\ \A j \in 1 .. Length(q) :
               \/ PrioOf[EntryOf(q, p)] < PrioOf[EntryOf(q, j)]
               \/ PrioOf[EntryOf(q, p)] = PrioOf[EntryOf(q, j)] /\ p <= j
    BY <1>4, PriorServes
  <2>2. /\ Value' = Value /\ Line' = RemoveAt(Line, p) /\ Line[p] = EntryOf(q, p)
        /\ Len(Line) = Length(q) /\ \A k \in 1 .. Length(q) : Line[k] = EntryOf(q, k)
        /\ Outcome' = [Outcome EXCEPT ![Line[p]] = "served"]
    BY <2>1, GrantServes
  <2>3. \A i \in 1 .. Len(Line) : \/ PrioOf[Line[p]] < PrioOf[Line[i]]
                                  \/ PrioOf[Line[p]] = PrioOf[Line[i]] /\ p <= i
    BY <2>1, <2>2
  <2>4. Sem!ServeMostUrgent
    <3>1. p \in 1 .. Len(Line)
      BY <2>2
    <3> QED BY <2>2, <2>3, <3>1 DEF Sem!ServeMostUrgent, Sem!RemoveAt, RemoveAt, Value, Outcome
  <2> QED BY <2>1, <2>4 DEF Sem!Next, Sem!Serve
<1> QED BY <1>2, <1>3, <1>4 DEF Signal

LEMMA TimedOutGivesUp ==
  ASSUME IInv, IInv', TimedOut
  PROVE  Sem!Next
<1>1. /\ active \in Threads /\ pc[active] = "timed" /\ Late(active) /\ active' = active
      /\ event' = event /\ state' = state /\ Sound(q) /\ Sound(q')
      /\ \A t : In(q', t) <=> In(q, t) /\ t # active
  BY TimedOutEither DEF TimedOut, IInv
<1>2. pc'[active] = "user" /\ \A t \in Threads \ {active} : pc'[t] = pc[t]
  BY <1>1 DEF IInv, Typed, TimedOut, At
<1>3. Outcome' = [Outcome EXCEPT ![active] = "none"]
  <2>1. OutcomeOf(active)' = "none"
    BY <1>1, <1>2, OutcomeNext
  <2>2. \A t \in Threads \ {active} : OutcomeOf(t)' = OutcomeOf(t)
    BY <1>1, <1>2, OutcomeSame
  <2> QED BY <1>1, <2>1, <2>2, OutcomeMoves
<1>4. Outcome[active] = "late"
  BY <1>1, OutcomeNow DEF Outcome
<1>5. CASE In(q, active)
  <2>1. q'.token = q.token + 1 /\ q'.prior = q.prior /\ q' \in Objects
    BY <1>5, TimedOutLeaves
  <2>2. PICK p \in 1 .. Length(q) : EntryOf(q, p) = active /\ Closed(q, q', p)
    BY <1>5, TimedOutLeaves
  <2>3. q.token < 0
    BY <1>1, <2>1, <2>2, ClosedSound
  <2>4. Value' = Value
    BY <1>1, <2>1, <2>3, LengthIs DEF Value, Sound
  <2>5. Line' = RemoveAt(Line, p) /\ Line[p] = active /\ Len(Line) = Length(q)
    BY <1>1, <2>2, LineIs, LineOfIs, LineClosed
  <2>6. Sem!StepsOut(active)
    <3>1. p \in 1 .. Len(Line)
      BY <2>5
    <3> QED BY <2>5, <3>1 DEF Sem!StepsOut, Sem!RemoveAt, RemoveAt
  <2>7. Sem!GiveUp(active)
    BY <1>3, <1>4, <2>4, <2>6 DEF Sem!GiveUp, Value, Outcome
  <2> QED BY <1>1, <2>1, <2>7 DEF Sem!Next
<1>6. CASE ~In(q, active)
  <2>1. q' = q
    BY <1>6, TimedOutGone
  <2>2. Value' = Value /\ Line' = Line
    BY <2>1, LineIs DEF Value
  <2>3. \A k \in 1 .. Len(Line) : Line[k] # active
    <3>1. Len(Line) = Length(q) /\ \A k \in 1 .. Length(q) : Line[k] = EntryOf(q, k)
      BY <1>1, LineIs, LineOfIs
    <3> QED BY <1>6, <3>1 DEF In
  <2>4. Sem!PassedOver(active)
    BY <2>2, <2>3 DEF Sem!PassedOver
  <2>5. Sem!GiveUp(active)
    BY <1>3, <1>4, <2>2, <2>4 DEF Sem!GiveUp, Value, Outcome
  <2> QED BY <1>1, <2>1, <2>5 DEF Sem!Next
<1> QED BY <1>5, <1>6

(* The end of a limited wait is seen as such.                               *)
LEMMA TimeoutShows ==
  ASSUME IInv, IInv', NEW u \in Threads, Timeout(u)
  PROVE  [Sem!Next]_(Sem!semaphore)
<1>1. /\ "S" \in state[u] /\ UNCHANGED <<q, pc>>
      /\ state' = [state EXCEPT ![u] = {}] /\ event' = [event EXCEPT ![u] = "E_TIMER"]
  BY DEF Timeout
<1>2. /\ state'[u] = {} /\ event'[u] = "E_TIMER"
      /\ \A t \in Threads \ {u} : state'[t] = state[t] /\ event'[t] = event[t]
  BY <1>1 DEF IInv, Typed
<1>3. \A t \in Threads \ {u} : OutcomeOf(t)' = OutcomeOf(t)
  BY <1>1, <1>2, OutcomeSame
<1>4. Value' = Value /\ Line' = Line /\ q'.prior = q.prior
  BY <1>1, LineIs DEF Value
<1>5. Seat(u)
  BY DEF IInv
<1>6. CASE pc[u] = "timed"
  <2>1. In(q, u) /\ ~Late(u) /\ u \in Timed
    BY <1>1, <1>5, <1>6 DEF Seat, States, Late
  <2>2. Late(u)'
    BY <1>1, <1>2, <1>6 DEF Late
  <2>3. OutcomeOf(u) = "waiting" /\ OutcomeOf(u)' = "late"
    BY <1>1, <1>6, <2>1, <2>2, OutcomeNow, OutcomeNext
  <2>4. Outcome' = [Outcome EXCEPT ![u] = "late"] /\ Outcome[u] = "waiting"
    <3>1. Outcome' = [Outcome EXCEPT ![u] = "late"]
      BY <1>3, <2>3, OutcomeMoves
    <3> QED BY <2>3, <3>1 DEF Outcome
  <2>5. Sem!TimeUp(u)
    BY <1>4, <2>1, <2>4 DEF Sem!TimeUp, Value, Outcome
  <2> QED BY <1>4, <2>5 DEF Sem!Next
<1>7. CASE pc[u] # "timed"
  <2>1. pc[u] # "blocked"
    BY <1>1, <1>5, <1>7 DEF Seat, States
  <2>2. OutcomeOf(u)' = OutcomeOf(u)
    BY <1>1, <1>7, <2>1, OutcomeSame
  <2> QED BY <1>1, <1>3, <2>2, Stutters
<1> QED BY <1>6, <1>7

LEMMA OthersStutter ==
  ASSUME IInv, IInv', Unlocked \/ Yield \/ Sleep \/ Dispatch \/ UNCHANGED vars
  PROVE  UNCHANGED Sem!semaphore
<1>1. q' = q
  BY DEF Unlocked, Yield, Sleep, Dispatch, vars
<1>2. ASSUME NEW t \in Threads PROVE OutcomeOf(t)' = OutcomeOf(t)
  <2>1. \/ pc'[t] = pc[t] /\ state'[t] = state[t] /\ event'[t] = event[t]
        \/ {pc[t], pc'[t]} \cap {"blocked", "timed"} = {}
    BY DEF IInv, Typed, Unlocked, Running, At, Yield, Sleep, Dispatch, vars
  <2> QED BY <1>1, <2>1, OutcomeSame
<1> QED BY <1>1, <1>2, Stutters

LEMMA InitImplements == Init => Sem!Init
<1> SUFFICES ASSUME Init PROVE Sem!Init
  OBVIOUS
<1>1. IInv
  BY InitSeats
<1>2. /\ q.token = Count /\ Count \in Nat /\ q.prior \in BOOLEAN
      /\ pc = [t \in Threads |-> "user"]
  BY ItcAssumption DEF Init
<1>3. Value = Count
  BY <1>2 DEF Value
<1>4. Line = <<>>
  <2>1. Sound(q) /\ Length(q) = 0
    BY <1>1, <1>2 DEF IInv, Sound
  <2> QED BY <2>1, LineIs, LineOfIs, EmptySeq
<1>5. Outcome = [t \in Threads |-> "none"]
  BY <1>1, <1>2, OutcomeNow DEF Outcome
<1> QED BY <1>2, <1>3, <1>4, <1>5 DEF Sem!Init, Value, Outcome

LEMMA StepImplements ==
  ASSUME IInv, IInv', OneBeside, [Next]_vars
  PROVE  [Sem!Next]_(Sem!semaphore)
<1>1. CASE LockFree
  BY <1>1, LockFreeTakes
<1>2. CASE LockForever \/ LockTimed
  BY <1>2, BlockingWaits
<1>3. CASE Unlock
  <2>1. /\ active \in Threads /\ phase = "run" /\ Signal
        /\ pc[active] \notin {"blocked", "timed"}
        /\ \E c \in {"user", "wake"} : pc' = [pc EXCEPT ![active] = c]
    BY <1>3 DEF IInv, Typed, Unlock, Running, Signals, At
  <2>2. \A t \in Threads : ~Late(t)
    BY <2>1, NobodyIsLate DEF Late
  <2>3. \A t \in Threads : \/ pc'[t] = pc[t]
                           \/ {pc[t], pc'[t]} \cap {"blocked", "timed"} = {}
    BY <2>1 DEF IInv, Typed
  <2> QED BY <2>1, <2>2, <2>3, SignalServes DEF Calm
<1>4. CASE Resume
  BY <1>4, ReturnLeaves, TimedOutGivesUp, OthersStutter DEF Resume
<1>5. CASE Yield \/ Sleep \/ Dispatch \/ UNCHANGED vars
  BY <1>5, OthersStutter
<1>6. CASE FromHandler
  <2>1. Signal /\ pc' = pc /\ Calm
    BY <1>6, HandlersCalm DEF FromHandler
  <2> QED BY <2>1, SignalServes
<1>7. CASE \E t \in Threads : Timeout(t)
  BY <1>7, TimeoutShows
<1> QED BY <1>1, <1>2, <1>3, <1>4, <1>5, <1>6, <1>7 DEF Next, Core, Kernel

\* lock_stage and unlock_stage are a counting semaphore: each of their steps
\* is one of Semaphore's, or is not to be seen from outside.
THEOREM Implements == Rules /\ Spec => IsSemaphore
<1>1. Init => Sem!Init
  BY InitImplements
<1>2. Rules /\ IInv /\ IInv' /\ [Next]_vars => [Sem!Next]_(Sem!semaphore)
  BY StepImplements DEF Rules
<1>3. ASSUME Rules PROVE Spec => IsSemaphore
  <2>1. IInv /\ IInv' /\ [Next]_vars => [Sem!Next]_(Sem!semaphore)
    BY <1>2, <1>3
  <2>2. Spec => []IInv
    BY <1>3, Invariance
  <2> QED BY <1>1, <2>1, <2>2, PTL DEF Spec, IsSemaphore, Sem!Spec
<1> QED BY <1>3

-----------------------------------------------------------------------------
(* ItcDelete: the slot of an object that is deleted and created again.      *)

(* A thread that was served and has yet to return.                          *)
Spent(t) == Pending(t) /\ state[t] = {} /\ event[t] = "E_ITC"

DInv ==
  /\ IInv
  /\ stale \subseteq Threads /\ \A t \in stale : Spent(t)
  /\ ~exists => q.token >= 0

LEMMA SpentStays ==
  ASSUME IInv, [Next]_vars, NEW t \in Threads, Spent(t), ~(Resume /\ active = t)
  PROVE  Spent(t)'
<1>1. pc[t] \in {"blocked", "timed"} /\ state[t] = {} /\ event[t] = "E_ITC"
  BY DEF Spent, Pending
<1>2. ASSUME Signal PROVE state'[t] = {} /\ event'[t] = "E_ITC"
  <2>1. CASE SignalFree
    BY <1>1, <2>1 DEF SignalFree
  <2>2. ASSUME NEW g, Grant(g) PROVE state'[t] = {} /\ event'[t] = "E_ITC"
    BY <1>1, <2>2 DEF Grant, IInv, Typed
  <2> QED BY <1>2, <2>1, <2>2 DEF Signal, SignalFifo, SignalPrior
<1>3. CASE LockFree \/ LockForever \/ LockTimed \/ Unlock \/ Yield \/ Sleep
  <2>1. active # t
    BY <1>1, <1>3 DEF LockFree, LockForever, LockTimed, Unlock, Yield, Sleep, Calling,
                      Running, Signals
  <2>2. pc'[t] = pc[t]
    BY <1>3, <2>1 DEF IInv, Typed, LockFree, LockForever, LockTimed, Unlock, Yield, Sleep, At
  <2>3. state'[t] = {} /\ event'[t] = "E_ITC"
    BY <1>1, <1>2, <1>3, <2>1
       DEF IInv, Typed, LockFree, LockForever, LockTimed, Unlock, Yield, Sleep
  <2> QED BY <1>1, <2>2, <2>3 DEF Spent, Pending
<1>4. CASE Resume
  <2>1. active # t /\ state' = state /\ event' = event
    BY <1>4, TimedOutEither DEF Resume, Unblocked, InTime, TimedOut, Unlocked
  <2>2. pc'[t] = pc[t]
    BY <1>4, <2>1 DEF IInv, Typed, Resume, Unblocked, InTime, TimedOut, Unlocked, At
  <2> QED BY <1>1, <2>1, <2>2 DEF Spent, Pending
<1>5. CASE Dispatch \/ UNCHANGED vars
  BY <1>1, <1>5 DEF Dispatch, vars, Spent, Pending
<1>6. CASE \E u \in Threads : Timeout(u)
  BY <1>1, <1>6 DEF IInv, Typed, Timeout, Spent, Pending
<1>7. CASE FromHandler
  BY <1>1, <1>2, <1>7 DEF FromHandler, Spent, Pending
<1> QED BY <1>3, <1>4, <1>5, <1>6, <1>7 DEF Next, Core, Kernel

(* An object without waiters may change places with another.                *)
LEMMA EmptyRing ==
  ASSUME IInv, q.token >= 0, \A t \in Threads : ~Late(t)
  PROVE  /\ Length(q) = 0 /\ \A t : ~In(q, t)
         /\ \A t \in Threads : Pending(t) => Spent(t)
<1>1. Length(q) = 0 /\ \A t : ~In(q, t)
  <2>1. q.token \in Int /\ Length(q) \in Nat /\ Length(q) = 0
    BY LengthIs DEF IInv, Sound
  <2> QED BY <2>1 DEF In
<1> QED BY <1>1 DEF IInv, Seat, States, Pending, Spent

LEMMA CreateKeeps ==
  ASSUME IInv, ~exists => q.token >= 0, sm_create
  PROVE  IInv' /\ q'.token >= 0 /\ Length(q') = 0
<1>1. PICK flag \in Priors : q' = Fresh(flag)
  BY DEF sm_create
<1>2. /\ q' \in Objects /\ Length(q') = 0 /\ q'.token \in Nat
  <2>1. 0 \in Indices /\ Count \in Nat /\ flag \in BOOLEAN
    BY Sizes, ItcAssumption
  <2>2. Gap(0, 0) = 0
    BY DEF Gap
  <2> QED BY <1>1, <2>1, <2>2 DEF Objects, Length, Fresh
<1>3. Sound(q') /\ \A t : ~In(q', t)
  BY <1>2 DEF Sound, In
<1>4. \A t \in Threads : ~In(q, t) /\ ~Late(t)
  BY EmptyRing, CallerIs DEF sm_create
<1>5. ASSUME NEW t \in Threads PROVE Seat(t)'
  BY <1>3, <1>4, SeatSame DEF IInv, sm_create
<1> QED BY <1>2, <1>3, <1>5 DEF IInv, Typed, RunOK, sm_create

LEMMA DeleteKeeps == DInv /\ Rules /\ [DNext]_dvars => DInv'
<1> SUFFICES ASSUME DInv, Rules, [DNext]_dvars PROVE DInv'
  OBVIOUS
<1>1. /\ IInv /\ stale \subseteq Threads /\ \A t \in stale : Spent(t)
      /\ ~exists => q.token >= 0
  BY DEF DInv
<1>2. CASE Call
  <2>1. Next /\ UNCHANGED <<exists, stale>> /\ exists
    BY <1>2 DEF Call, Next, Core
  <2>2. ~Resume
    <3> SUFFICES ASSUME Resume PROVE FALSE
      OBVIOUS
    <3>1. pc[active] \in {"blocked", "timed", "wake"} /\ pc'[active] \in {"user", "fetch"}
      BY <1>1 DEF IInv, Typed, Resume, Unblocked, InTime, TimedOut, Unlocked, Running, At, Locked
    <3>2. CASE FromHandler
      BY <3>1, <3>2 DEF FromHandler
    <3>3. CASE LockFree \/ LockForever \/ LockTimed \/ Unlock
      BY <3>1, <3>3 DEF LockFree, LockForever, LockTimed, Unlock, Calling, Running, Signals
    <3> QED BY <1>2, <3>2, <3>3 DEF Call
  <2> QED BY <1>1, <2>1, <2>2, NextSeats, SpentStays DEF DInv
<1>3. CASE Return
  <2>1. Next /\ Resume /\ stale' = stale \ {active} /\ exists' = exists
    BY <1>3 DEF Return, Next, Core, Kernel
  <2>2. ~exists' => q'.token >= 0
    <3>1. q' = q \/ q'.token = q.token + 1
      BY <1>1, <2>1, TimedOutEither DEF Resume, Unblocked, InTime, Unlocked
    <3>2. q.token \in Int
      BY <1>1, LengthIs DEF IInv, Sound
    <3> QED BY <1>1, <2>1, <3>1, <3>2
  <2> QED BY <1>1, <2>1, <2>2, NextSeats, SpentStays DEF DInv
<1>4. CASE Around
  <2>1. Next /\ UNCHANGED <<q, exists, stale>>
    BY <1>4 DEF Around, Next, Core, Kernel, Yield, Sleep, Dispatch, Timeout
  <2>2. \A t \in stale : Spent(t)'
    <3> SUFFICES ASSUME NEW t \in stale PROVE Spent(t)'
      OBVIOUS
    <3>1. pc[t] \in {"blocked", "timed"} /\ state[t] = {} /\ event[t] = "E_ITC" /\ t \in Threads
      BY <1>1 DEF Spent, Pending
    <3> QED BY <1>1, <1>4, <3>1
        DEF Around, Yield, Sleep, Dispatch, Timeout, Spent, Pending, Running, IInv, Typed
  <2> QED BY <1>1, <2>1, <2>2, NextSeats DEF DInv
<1>5. CASE sm_delete
  <2>1. /\ q.token >= 0 /\ UNCHANGED vars
        /\ stale' = stale \cup {t \in Threads : Pending(t)}
    BY <1>5 DEF sm_delete, Unused
  <2>2. IInv' /\ q' = q
    BY <1>1, <2>1, NextSeats DEF vars
  <2>3. \A t \in stale' : t \in Threads /\ Spent(t)
    <3>1. \A t \in Threads : ~Late(t)
      BY <1>1, <1>5, CallerIs DEF sm_delete
    <3> QED BY <1>1, <2>1, <3>1, EmptyRing
  <2>4. \A t \in stale' : Spent(t)'
    BY <2>1, <2>3 DEF Spent, Pending, vars
  <2> QED BY <2>1, <2>2, <2>3, <2>4 DEF DInv
<1>6. CASE sm_create
  <2>1. IInv' /\ q'.token >= 0
    BY <1>1, <1>6, CreateKeeps
  <2>2. UNCHANGED <<state, event, pc, stale>>
    BY <1>6 DEF sm_create
  <2> QED BY <1>1, <2>1, <2>2 DEF DInv, Spent, Pending
<1>7. CASE UNCHANGED dvars
  <2>1. UNCHANGED vars /\ UNCHANGED <<exists, stale>>
    BY <1>7 DEF dvars
  <2>2. IInv'
    BY <1>1, <2>1, NextSeats
  <2> QED BY <1>1, <2>1, <2>2 DEF DInv, vars, Spent, Pending
<1> QED BY <1>2, <1>3, <1>4, <1>5, <1>6, <1>7 DEF DNext

\* Objects that come and go in one slot: whoever still is inside of a call on
\* one that is gone has been served.
THEOREM DeleteInvariance == Rules /\ DSpec => []DInv
<1>1. DInit => DInv
  BY InitSeats DEF DInit, DInv
<1>2. Rules /\ DInv /\ [DNext]_dvars => DInv'
  BY DeleteKeeps
<1>3. ASSUME Rules PROVE DSpec => []DInv
  <2>1. DInv /\ [DNext]_dvars => DInv'
    BY <1>2, <1>3
  <2> QED BY <1>1, <2>1, PTL DEF DSpec
<1> QED BY <1>3

\* sm_delete of an object on which nobody is counted as waiting: nobody reads
\* the slot again after a time-out (tk_itc.c:70), and the new object's ring and
\* counter are in order whatever the calls on the old one have left to do.
THEOREM NeverStaleHolds == Rules /\ DSpec => [](NeverStale /\ WaitersOK)
<1>1. DInv => NeverStale /\ WaitersOK
  BY WaitersCounted DEF DInv, NeverStale, Spent
<1> QED BY <1>1, DeleteInvariance, PTL

\* The slot holds a semaphore that sm_create, and nothing else, starts over.
THEOREM Renews == Rules /\ DSpec => IsRenewable
<1>1. DInit => Sem!Init
  BY InitImplements DEF DInit
<1>2. Rules /\ DInv /\ DInv' /\ [DNext]_dvars =>
        [Sem!Next \/ (~exists /\ exists' /\ Sem!Renew)]_(Sem!semaphore)
  <2> SUFFICES ASSUME Rules, DInv, DInv', [DNext]_dvars
               PROVE  [Sem!Next \/ (~exists /\ exists' /\ Sem!Renew)]_(Sem!semaphore)
    OBVIOUS
  <2>1. IInv /\ IInv'
    BY DEF DInv
  <2>2. CASE Call \/ Return \/ Around \/ sm_delete \/ UNCHANGED dvars
    <3>1. [Next]_vars
      BY <2>2 DEF Call, Return, Around, sm_delete, dvars, Next, Core, Kernel
    <3> QED BY <2>1, <3>1, StepImplements DEF Rules
  <2>3. CASE sm_create
    <3>1. /\ Length(q) = 0 /\ Length(q') = 0 /\ \A t : ~In(q, t) /\ ~In(q', t)
          /\ Sound(q)
      <4>1. Length(q) = 0 /\ \A t : ~In(q, t)
        BY <2>1, <2>3, EmptyRing, CallerIs DEF DInv, sm_create
      <4>2. Length(q') = 0
        BY <2>1, <2>3, CreateKeeps DEF DInv
      <4>3. \A t : ~In(q', t)
        BY <4>2 DEF In
      <4> QED BY <2>1, <4>1, <4>2, <4>3 DEF IInv
    <3>2. Line = <<>> /\ Line' = Line
      <4>1. Len(LineOf(q)) = 0 /\ LineOf(q) \in Seq(Threads)
        BY <3>1, LineOfIs
      <4> QED BY <3>1, <4>1, LineIs, EmptySeq DEF LineOf
    <3>3. Outcome' = Outcome
      <4>1. \A t \in Threads : OutcomeOf(t)' = OutcomeOf(t)
        BY <2>1, <2>3, <3>1, OutcomeSame DEF sm_create
      <4> QED BY <4>1 DEF Outcome
    <3>4. Value' = Count /\ q'.prior \in BOOLEAN /\ ~exists /\ exists'
      <4>1. Count \in Nat /\ Priors \subseteq BOOLEAN
        BY ItcAssumption
      <4> QED BY <2>3, <4>1 DEF sm_create, Fresh, Value
    <3> QED BY <3>2, <3>3, <3>4 DEF Sem!Renew, Value, Outcome
  <2> QED BY <2>2, <2>3 DEF DNext
<1>3. ASSUME Rules PROVE DSpec => IsRenewable
  <2>1. DInv /\ DInv' /\ [DNext]_dvars =>
          [Sem!Next \/ (~exists /\ exists' /\ Sem!Renew)]_(Sem!semaphore)
    BY <1>2, <1>3
  <2>2. DSpec => []DInv
    BY <1>3, DeleteInvariance
  <2> QED BY <1>1, <2>1, <2>2, PTL DEF DSpec, IsRenewable
<1> QED BY <1>3

-----------------------------------------------------------------------------
(* TkQueue: the ring of messages around lock_stage and unlock_stage.        *)

(* A thread that copies, counts or fetches a message is in no wait.         *)
LEMMA CopyStep ==
  ASSUME IInv, Fetch \/ Advance \/ \E m \in Msgs : Send(m)
  PROVE  IInv'
<1>1. /\ phase = "run" /\ pc[active] \in {"user", "copied", "fetch"} /\ active \in Threads
      /\ UNCHANGED <<q, state, event, active, npreempt, phase, mark>>
      /\ \E c \in {"user", "copied", "post"} : pc' = [pc EXCEPT ![active] = c]
  BY DEF IInv, Typed, Fetch, Advance, Send, Running, At
<1>2. state[active] = {} /\ ~In(q, active) /\ ~Late(active)
  BY <1>1, OutIs DEF IInv, RunOK
<1>3. \A t \in Threads : ~Late(t)
  BY <1>1, <1>2, NobodyIsLate
<1>4. /\ pc'[active] \notin {"blocked", "timed"}
      /\ \A t \in Threads \ {active} : pc'[t] = pc[t]
  BY <1>1 DEF IInv, Typed
<1>5. Typed'
  BY <1>1 DEF IInv, Typed, Places
<1> QED BY <1>1, <1>2, <1>3, <1>4, <1>5, QuietSteps

LEMMA QNextSeats == IInv /\ Rules /\ [QNext]_qvars => IInv'
<1> SUFFICES ASSUME IInv, Rules, [QNext]_qvars PROVE IInv'
  OBVIOUS
<1>1. CASE Core \/ UNCHANGED qvars
  BY <1>1, NextSeats DEF Next, qvars
<1>2. CASE Fetch \/ Advance \/ \E m \in Msgs : Send(m)
  BY <1>2, CopyStep
<1>3. CASE \E m \in Msgs : SendFromHandler(m)
  BY <1>3, HandlerStep DEF SendFromHandler
<1> QED BY <1>1, <1>2, <1>3 DEF QNext

\* The invariant holds when the object is a queue's, too.
THEOREM QueueInvariance == Rules /\ QSpec => []IInv
<1>1. QInit => IInv
  BY InitSeats DEF QInit
<1>2. Rules /\ IInv /\ [QNext]_qvars => IInv'
  BY QNextSeats
<1>3. ASSUME Rules PROVE QSpec => []IInv
  <2>1. IInv /\ [QNext]_qvars => IInv'
    BY <1>2, <1>3
  <2> QED BY <1>1, <2>1, PTL DEF QSpec
<1> QED BY <1>3

LEMMA CountedIs ==
  ASSUME NEW x, Sound(x), NEW T, T = Used(x)
  PROVE  x.token > 0 \/ Cardinality(T) = -x.token
<1>1. x \in Objects /\ x.token \in Int
  BY LengthIs DEF Sound
<1>2. Cardinality(T) = Length(x)
  BY <1>1, UsedCounts
<1> QED BY <1>1, <1>2 DEF Sound

\* assert(_itc_proveConcistency(qid)) holds wherever the queue calls evaluate
\* it: every place of the ring that the counter stands for has a thread that
\* waits, or one whose time is up.
THEOREM ConsistencyAsserted == Rules /\ QSpec => ConsistencyAssert
<1>1. IInv' => Consistent'
  <2> SUFFICES ASSUME IInv' PROVE Consistent'
    OBVIOUS
  <2>1. Sound(q') /\ q' \in Objects
    BY DEF IInv, Sound
  <2>2. ASSUME NEW i \in Used(q')
        PROVE  "Q" \in state'[q'.blocked[i]] \/ state'[q'.blocked[i]] = {}
    <3>1. PICK k \in 1 .. Length(q') : i = SpotOf(q', k)
      BY <2>1, UsedIs
    <3>2. q'.blocked[i] \in Threads /\ In(q', q'.blocked[i])
      BY <2>1, <3>1 DEF Sound, EntryOf, In
    <3> QED BY <3>2 DEF IInv, Seat, Late
  <2>3. {i \in Used(q) : StillWaits(q.blocked[i]) \/ Ready(q.blocked[i])}' = Used(q')
    BY <2>2 DEF StillWaits, Ready
  <2> QED BY <2>1, <2>3, CountedIs DEF Consistent
<1>2. IInv' => [(LockFree \/ Resume \/ Unlock) /\ phase' = "run" => Consistent']_vars
  BY <1>1
<1> QED BY <1>2, QueueInvariance, PTL DEF QSpec, ConsistencyAssert

-----------------------------------------------------------------------------
(* That the ring of messages is a bounded first-in, first-out buffer.       *)

(* Who may use a queue in this way: see README.  A thread either sends or   *)
(* receives, the receivers are the more urgent; where handlers send, they   *)
(* wait for a free cell, and threads do not send.                           *)
QueueRules ==
  /\ TimedFirst
  /\ \A r \in Lockers, s \in Senders : PrioOf[r] < PrioOf[s]
  /\ Handlers => Paced /\ Senders = {} /\ Timed = {}

CellAt(o, k) == (o + k) % Size
BufferOf(r, o, n) == [k \in 1 .. n |-> r[(o + k - 1) % Size]]

LEMMA CellIs ==
  ASSUME NEW o \in Cells, NEW k \in Nat, k <= Size
  PROVE  /\ CellAt(o, k) = IF o + k >= Size THEN o + k - Size ELSE o + k
         /\ CellAt(o, k) \in Cells
         /\ k < Size => /\ NextCell(CellAt(o, k)) = CellAt(o, k + 1)
                        /\ CellAt(NextCell(o), k) = CellAt(o, k + 1)
                        /\ NextCell(o) \in Cells
         /\ \A j \in Nat : j < k /\ k < Size => CellAt(o, j) # CellAt(o, k)
         /\ CellAt(o, 0) = o
<1>1. Size \in Nat /\ Size >= 1
  BY QueueAssumption
<1>2. ASSUME NEW i \in Nat, i < 2 * Size PROVE i % Size = IF i >= Size THEN i - Size ELSE i
  BY <1>1, <1>2
<1>3. ASSUME NEW c \in Cells, NEW j \in Nat, j <= Size
      PROVE  CellAt(c, j) = IF c + j >= Size THEN c + j - Size ELSE c + j
  BY <1>1, <1>2, <1>3 DEF CellAt, Cells
<1>4. o \in Nat /\ o < Size
  BY <1>1 DEF Cells
<1>5. CellAt(o, k) \in Cells
  BY <1>1, <1>3, <1>4 DEF Cells
<1>6. ASSUME k < Size
      PROVE  /\ NextCell(CellAt(o, k)) = CellAt(o, k + 1)
             /\ CellAt(NextCell(o), k) = CellAt(o, k + 1)
             /\ NextCell(o) \in Cells
  <2>1. NextCell(o) \in Cells
    BY <1>1, <1>4 DEF NextCell, Cells
  <2>2. CellAt(o, k + 1) = IF o + (k + 1) >= Size THEN o + (k + 1) - Size ELSE o + (k + 1)
    BY <1>1, <1>3, <1>6
  <2>3. NextCell(CellAt(o, k)) = CellAt(o, k + 1)
    BY <1>1, <1>3, <1>4, <1>6, <2>2 DEF NextCell
  <2>4. CellAt(NextCell(o), k) = CellAt(o, k + 1)
    <3>1. CellAt(NextCell(o), k) = IF NextCell(o) + k >= Size THEN NextCell(o) + k - Size
                                                              ELSE NextCell(o) + k
      BY <1>3, <2>1
    <3> QED BY <1>1, <1>4, <1>6, <2>2, <3>1 DEF NextCell
  <2> QED BY <2>1, <2>3, <2>4
<1>7. ASSUME NEW j \in Nat, j < k, k < Size PROVE CellAt(o, j) # CellAt(o, k)
  <2>1. CellAt(o, j) = IF o + j >= Size THEN o + j - Size ELSE o + j
    BY <1>1, <1>3, <1>7
  <2> QED BY <1>1, <1>3, <1>4, <1>7, <2>1
<1>8. CellAt(o, 0) = o
  BY <1>1, <1>3, <1>4
<1> QED BY <1>3, <1>5, <1>6, <1>7, <1>8

LEMMA BufferIs ==
  ASSUME NEW S, NEW r \in [Cells -> S], NEW o \in Cells, NEW n \in Nat, n <= Size
  PROVE  /\ BufferOf(r, o, n) \in Seq(S) /\ Len(BufferOf(r, o, n)) = n
         /\ \A k \in 1 .. n : BufferOf(r, o, n)[k] = r[CellAt(o, k - 1)]
<1>1. ASSUME NEW k \in 1 .. n
      PROVE  /\ (o + k - 1) % Size = CellAt(o, k - 1) /\ CellAt(o, k - 1) \in Cells
             /\ r[(o + k - 1) % Size] \in S
  <2>1. k - 1 \in Nat /\ k - 1 <= Size /\ Size \in Nat
    BY QueueAssumption
  <2>2. CellAt(o, k - 1) \in Cells
    BY <2>1, CellIs
  <2>3. o + k - 1 = o + (k - 1)
    BY QueueAssumption DEF Cells
  <2> QED BY <2>2, <2>3 DEF CellAt
<1>2. BufferOf(r, o, n) \in Seq(S)
  BY <1>1 DEF BufferOf
<1> QED BY <1>1, <1>2 DEF BufferOf

(* A message goes to the end of the buffer.                                 *)
LEMMA PutAtEnd ==
  ASSUME NEW S, NEW r \in [Cells -> S], NEW o \in Cells, NEW n \in Nat, n < Size,
         NEW m \in S
  PROVE  BufferOf([r EXCEPT ![CellAt(o, n)] = m], o, n + 1) = Append(BufferOf(r, o, n), m)
<1> DEFINE r2 == [r EXCEPT ![CellAt(o, n)] = m]
           b == BufferOf(r, o, n)  c == BufferOf(r2, o, n + 1)
<1>1. Size \in Nat /\ n <= Size /\ n + 1 \in Nat /\ n + 1 <= Size /\ CellAt(o, n) \in Cells
  <2>1. Size \in Nat /\ n <= Size /\ n + 1 \in Nat /\ n + 1 <= Size
    BY QueueAssumption
  <2> QED BY <2>1, CellIs
<1>2. r2 \in [Cells -> S] /\ r2[CellAt(o, n)] = m
      /\ \A i \in Cells : i # CellAt(o, n) => r2[i] = r[i]
  BY <1>1
<1> HIDE DEF r2
<1>3. b \in Seq(S) /\ Len(b) = n /\ \A k \in 1 .. n : b[k] = r[CellAt(o, k - 1)]
  <2>1. n <= Size
    BY <1>1
  <2> QED BY <2>1, BufferIs
<1> HIDE DEF b
<1>4. c \in Seq(S) /\ Len(c) = n + 1 /\ \A k \in 1 .. n + 1 : c[k] = r2[CellAt(o, k - 1)]
  <2>1. n + 1 \in Nat /\ n + 1 <= Size /\ r2 \in [Cells -> S]
    BY <1>1, <1>2
  <2> QED BY <2>1, BufferIs
<1> HIDE DEF c
<1>5. /\ Append(b, m) \in Seq(S) /\ Len(Append(b, m)) = n + 1
      /\ \A k \in 1 .. n + 1 : Append(b, m)[k] = IF k = n + 1 THEN m ELSE b[k]
  BY <1>3
<1>6. ASSUME NEW k \in 1 .. n + 1 PROVE c[k] = Append(b, m)[k]
  <2>1. CASE k = n + 1
    <3>1. k - 1 = n
      BY <2>1
    <3>2. c[n + 1] = r2[CellAt(o, n)] /\ Append(b, m)[n + 1] = m
      BY <1>1, <1>4, <1>5, <3>1, <2>1
    <3> QED BY <1>2, <2>1, <3>2
  <2>2. CASE k # n + 1
    <3>1. k \in 1 .. n /\ k - 1 \in Nat /\ k - 1 < n /\ k - 1 <= Size
      BY <1>1, <2>2
    <3>2. CellAt(o, k - 1) # CellAt(o, n) /\ CellAt(o, k - 1) \in Cells
      BY <1>1, <3>1, CellIs
    <3>3. k \in 1 .. n + 1 /\ c[k] = r2[CellAt(o, k - 1)]
      BY <1>4
    <3>4. Append(b, m)[k] = r[CellAt(o, k - 1)]
      BY <1>3, <1>5, <2>2, <3>1
    <3> QED BY <1>2, <3>2, <3>3, <3>4
  <2> QED BY <2>1, <2>2
<1>7. c = Append(b, m)
  <2> DEFINE d == Append(b, m)
  <2>1. d \in Seq(S) /\ Len(d) = Len(c) /\ \A k \in 1 .. Len(c) : c[k] = d[k]
    BY <1>4, <1>5, <1>6
  <2> HIDE DEF d
  <2>2. c = d
    BY <1>4, <2>1, SeqEqual
  <2> QED BY <2>2 DEF d
<1> QED BY <1>7 DEF c, b, r2

(* ... and leaves at its front.                                             *)
LEMMA TakenFromFront ==
  ASSUME NEW S, NEW r \in [Cells -> S], NEW o \in Cells, NEW n \in Nat, 1 <= n, n <= Size
  PROVE  /\ BufferOf(r, NextCell(o), n - 1) = Tail(BufferOf(r, o, n))
         /\ BufferOf(r, o, n) # <<>> /\ Head(BufferOf(r, o, n)) = r[o]
<1> DEFINE b == BufferOf(r, o, n)  c == BufferOf(r, NextCell(o), n - 1)
<1>1. /\ Size \in Nat /\ Size >= 1 /\ n - 1 \in Nat /\ n - 1 <= Size
      /\ NextCell(o) \in Cells /\ CellAt(o, 0) = o
  <2>1. Size \in Nat /\ Size >= 1 /\ 0 \in Nat /\ 0 <= Size /\ 0 < Size
    BY QueueAssumption
  <2> QED BY <2>1, CellIs
<1>2. b \in Seq(S) /\ Len(b) = n /\ \A k \in 1 .. n : b[k] = r[CellAt(o, k - 1)]
  BY BufferIs
<1>3. c \in Seq(S) /\ Len(c) = n - 1 /\ \A k \in 1 .. n - 1 : c[k] = r[CellAt(NextCell(o), k - 1)]
  <2>1. n - 1 \in Nat /\ n - 1 <= Size /\ NextCell(o) \in Cells
    BY <1>1
  <2> QED BY <2>1, BufferIs
<1> HIDE DEF b, c
<1>4. b # <<>> /\ Head(b) = b[1] /\ 1 \in 1 .. n
  BY <1>2
<1>5. Tail(b) \in Seq(S) /\ Len(Tail(b)) = n - 1 /\ \A k \in 1 .. n - 1 : Tail(b)[k] = b[k + 1]
  BY <1>2, <1>4
<1>6. ASSUME NEW k \in 1 .. n - 1 PROVE c[k] = Tail(b)[k]
  <2>1. k - 1 \in Nat /\ k - 1 < Size /\ k - 1 <= Size /\ k - 1 + 1 = k /\ k + 1 - 1 = k
        /\ k + 1 \in 1 .. n
    BY <1>1
  <2>2. CellAt(NextCell(o), k - 1) = CellAt(o, k)
    BY <2>1, CellIs
  <2>3. c[k] = r[CellAt(o, k)]
    BY <1>3, <2>2
  <2>4. Tail(b)[k] = b[k + 1] /\ b[k + 1] = r[CellAt(o, k)]
    BY <1>2, <1>5, <2>1
  <2> QED BY <2>3, <2>4
<1>7. c = Tail(b)
  <2> DEFINE d == Tail(b)
  <2>1. d \in Seq(S) /\ Len(d) = Len(c) /\ \A k \in 1 .. Len(c) : c[k] = d[k]
    BY <1>3, <1>5, <1>6
  <2> HIDE DEF d
  <2>2. c = d
    BY <1>3, <2>1, SeqEqual
  <2> QED BY <2>2 DEF d
<1>8. Head(b) = r[o]
  <2>1. 1 - 1 = 0
    OBVIOUS
  <2> QED BY <1>1, <1>2, <1>4, <2>1
<1> QED BY <1>4, <1>7, <1>8 DEF b, c

(* The messages in the ring: counted by token, promised, posted.            *)
LEMMA CountsAre ==
  /\ IsFiniteSet(Promised) /\ IsFiniteSet(Posted)
  /\ Cardinality(Promised) \in Nat /\ Cardinality(Posted) \in Nat
  /\ Unfetched = Value + Cardinality(Promised) + Cardinality(Posted)
<1>1. IsFiniteSet(Promised) /\ IsFiniteSet(Posted)
  <2>1. Promised \subseteq Threads /\ Posted \subseteq Threads /\ IsFiniteSet(Threads)
    BY ItcAssumption DEF Promised, Posted
  <2> QED BY <2>1, FS_Subset
<1>2. Cardinality(Promised) \in Nat /\ Cardinality(Posted) \in Nat
  BY <1>1, FS_CardinalityType
<1> QED BY <1>1, <1>2 DEF Unfetched, Value

LEMMA CountsThen ==
  Unfetched' = Value' + Cardinality(Promised') + Cardinality(Posted')
BY DEF Unfetched, Value

(* By these rules no signal passes over a late receiver.                    *)
LateWaits == \A t \in Threads : Late(t) => In(q, t)

(* Steps that leave the ring alone, and make nobody late.                   *)
LEMMA LateStays ==
  ASSUME LateWaits, q' = q, \A t \in Threads : Late(t)' => Late(t)
  PROVE  LateWaits'
BY DEF LateWaits, In

LEMMA LateCore ==
  ASSUME IInv, LateWaits, Core
  PROVE  LateWaits'
<1>1. CASE LockFree \/ LockForever \/ LockTimed
  <2>1. /\ active \in Threads /\ \A t \in Threads : ~Late(t)
    BY <1>1, CallerIs DEF LockFree, LockForever, LockTimed, Calling
  <2>2. \A t \in Threads \ {active} :
           pc'[t] = pc[t] /\ state'[t] = state[t] /\ event'[t] = event[t]
    BY <1>1, <2>1 DEF LockFree, LockForever, LockTimed, At, IInv, Typed
  <2>3. CASE LockFree
    <3>1. pc' = [pc EXCEPT ![active] = Locked] /\ Locked # "timed"
      BY <2>3 DEF LockFree, At, Locked
    <3>2. pc'[active] # "timed"
      BY <2>1, <3>1 DEF IInv, Typed
    <3>3. \A t \in Threads : ~Late(t)'
      BY <2>1, <2>2, <3>2 DEF Late
    <3> QED BY <3>3 DEF LateWaits
  <2>4. CASE LockForever \/ LockTimed
    <3>1. "Q" \in state'[active]
      BY <2>1, <2>4 DEF LockForever, LockTimed, IInv, Typed
    <3>2. \A t \in Threads : ~Late(t)'
      <4> SUFFICES ASSUME NEW t \in Threads, Late(t)' PROVE FALSE
        OBVIOUS
      <4>1. t # active
        BY <3>1 DEF Late
      <4> QED BY <2>1, <2>2, <4>1 DEF Late
    <3> QED BY <3>2 DEF LateWaits
  <2> QED BY <1>1, <2>3, <2>4
<1>2. CASE Unlock
  <2>1. active \in Threads /\ phase = "run" /\ pc[active] \in {"user", "post"}
    BY <1>2 DEF Unlock, Running, Signals, IInv, Typed
  <2>2. \A t \in Threads : ~Late(t)
    BY <2>1, NobodyIsLate DEF Late
  <2>3. pc' \in {[pc EXCEPT ![active] = c] : c \in {"user", "wake"}}
    BY <1>2 DEF Unlock, At
  <2>4. \/ UNCHANGED <<state, event>>
        \/ \E g : Grant(g)
    BY <1>2 DEF Unlock, Signal, SignalFree, SignalFifo, SignalPrior
  <2>5. ASSUME NEW t \in Threads PROVE ~Late(t)'
    <3>1. pc'[t] = "timed" => pc[t] = "timed"
      BY <2>1, <2>3 DEF IInv, Typed
    <3>2. CASE UNCHANGED <<state, event>>
      BY <2>2, <3>1, <3>2 DEF Late
    <3>3. CASE \E g : Grant(g)
      <4>1. PICK g : Grant(g)
        BY <3>3
      <4>2. CASE g = t
        <5>1. event'[t] = "E_ITC"
          BY <4>1, <4>2 DEF Grant, IInv, Typed
        <5> QED BY <5>1 DEF Late
      <4>3. CASE g # t
        <5>1. event'[t] = event[t] /\ state'[t] = state[t]
          BY <4>1, <4>3 DEF Grant, IInv, Typed
        <5> QED BY <2>2, <3>1, <5>1 DEF Late
      <4> QED BY <4>2, <4>3
    <3> QED BY <2>4, <3>2, <3>3
  <2> QED BY <2>5 DEF LateWaits
<1>3. CASE TimedOut
  <2>1. /\ active \in Threads /\ event' = event /\ state' = state
        /\ \A t : In(q', t) <=> In(q, t) /\ t # active
    BY <1>3, TimedOutEither DEF TimedOut
  <2>2. pc'[active] = "user" /\ \A t \in Threads \ {active} : pc'[t] = pc[t]
    BY <1>3, <2>1 DEF IInv, Typed, TimedOut, At
  <2> QED BY <2>1, <2>2 DEF LateWaits, Late
<1>4. CASE Unblocked \/ InTime \/ Unlocked \/ Yield \/ Sleep \/ Dispatch
  <2>1. /\ q' = q /\ event' = event
        /\ \A t \in Threads : state'[t] = {} => state[t] = {}
    BY <1>4 DEF Unblocked, InTime, Unlocked, Yield, Sleep, Dispatch, IInv, Typed
  <2>2. \A t \in Threads : pc'[t] = "timed" => pc[t] = "timed"
    BY <1>4 DEF Unblocked, InTime, Unlocked, Yield, Sleep, Dispatch, At, Locked, IInv, Typed
  <2> QED BY <2>1, <2>2, LateStays DEF Late
<1>5. CASE \E u \in Threads : Timeout(u)
  <2>1. PICK u \in Threads : Timeout(u)
    BY <1>5
  <2>2. /\ "S" \in state[u] /\ q' = q /\ pc' = pc
        /\ \A t \in Threads \ {u} : state'[t] = state[t] /\ event'[t] = event[t]
    BY <2>1 DEF Timeout, IInv, Typed
  <2>3. \A t \in Threads \ {u} : Late(t)' => Late(t)
    BY <2>2 DEF Late
  <2>4. pc[u] = "timed" => In(q, u)
    BY <2>2 DEF IInv, Seat, States
  <2> QED BY <2>2, <2>3, <2>4 DEF LateWaits, Late, In
<1> QED BY <1>1, <1>2, <1>3, <1>4, <1>5 DEF Core, Kernel, Resume

LEMMA LateNext ==
  ASSUME IInv, IInv', LateWaits, QueueRules, [QNext]_qvars
  PROVE  LateWaits'
<1>1. CASE Core
  BY <1>1, LateCore
<1>2. CASE Fetch \/ Advance \/ (\E m \in Msgs : Send(m)) \/ UNCHANGED qvars
  <2>1. UNCHANGED <<q, state, event>>
    BY <1>2 DEF Fetch, Advance, Send, qvars, vars
  <2>2. \A t \in Threads : pc'[t] = "timed" => pc[t] = "timed"
    BY <1>2 DEF Fetch, Advance, Send, qvars, vars, At, IInv, Typed
  <2> QED BY <2>1, <2>2, LateStays DEF Late
<1>3. CASE \E m \in Msgs : SendFromHandler(m)
  <2>1. Timed = {}
    BY <1>3 DEF SendFromHandler, FromHandler, QueueRules
  <2> QED BY <2>1 DEF IInv, Seat, Late, LateWaits
<1> QED BY <1>1, <1>2, <1>3 DEF QNext

LEMMA PromisedNow ==
  ASSUME IInv, LateWaits, NEW t \in Threads
  PROVE  t \in Promised <=> pc[t] = "fetch" \/ (pc[t] \in {"blocked", "timed"} /\ ~In(q, t))
BY OutcomeNow DEF Promised, LateWaits

LEMMA PromisedNext ==
  ASSUME IInv', LateWaits', NEW t \in Threads
  PROVE  t \in Promised' <=> pc'[t] = "fetch" \/ (pc'[t] \in {"blocked", "timed"} /\ ~In(q', t))
<1>1. t \in Promised' <=> pc'[t] = "fetch" \/ OutcomeOf(t)' = "served"
  BY DEF Promised
<1> QED BY <1>1, OutcomeNext DEF LateWaits

(* Where the messages are, and who runs while one is under way.             *)
Copied == pc[active] = "copied"

Moving ==
  /\ \A t \in Threads :
       /\ pc[t] \in {"copied", "post"} => t \in Senders
       /\ pc[t] \in {"copied", "post", "fetch"} => t = active /\ phase = "run"
       /\ pc[t] \in {"blocked", "timed", "fetch"} => t \in Lockers
  /\ Promised # {} => phase = "yield" \/ active \notin Senders

Ringed ==
  /\ ring \in [Cells -> Msgs \cup {None}]
  /\ moutIdx \in Cells /\ Unfetched <= Size
  /\ minIdx = CellAt(moutIdx, IF Copied THEN Unfetched - 1 ELSE Unfetched)

QInv == Kind = "S_QUEUE" /\ IInv /\ LateWaits /\ Moving /\ Ringed

(* A step of a call that gives, takes and promises no message.              *)
LEMMA QuietCounts ==
  ASSUME IInv, IInv', LateWaits, LateWaits', Value' = Value,
         \A t \in Threads : \/ pc'[t] = pc[t] /\ (In(q', t) <=> In(q, t))
                            \/ /\ {pc[t], pc'[t]} \cap {"copied", "post"} = {}
                               /\ pc[t] = "fetch" \/ (pc[t] \in {"blocked", "timed"} /\ ~In(q, t))
                                  <=> pc'[t] = "fetch" \/ (pc'[t] \in {"blocked", "timed"} /\ ~In(q', t))
  PROVE  Unfetched' = Unfetched /\ Promised' = Promised
<1>1. Promised' = Promised
  <2>1. \A t \in Threads : t \in Promised' <=> t \in Promised
    BY PromisedNow, PromisedNext
  <2> QED BY <2>1 DEF Promised
<1>2. Posted' = Posted
  BY DEF Posted
<1> QED BY <1>1, <1>2, CountsAre, CountsThen

(* One more thread to which a message is promised, or which has posted one. *)
LEMMA OneMore ==
  ASSUME NEW A, NEW B, NEW a, IsFiniteSet(A), a \notin A, B = A \cup {a}
  PROVE  Cardinality(B) = Cardinality(A) + 1
BY FS_AddElement

LEMMA OneLess ==
  ASSUME NEW A, NEW B, NEW a, IsFiniteSet(A), a \in A, B = A \ {a}
  PROVE  Cardinality(B) = Cardinality(A) - 1
BY FS_RemoveElement

LEMMA LockFreePromises ==
  ASSUME Kind = "S_QUEUE", IInv, IInv', LateWaits, LateWaits', Moving, QueueRules, LockFree
  PROVE  Moving' /\ Unfetched' = Unfetched /\ ~Copied /\ ~Copied'
<1>1. /\ active \in Threads /\ phase = "run" /\ pc[active] = "user" /\ active \in Lockers
      /\ q.token > 0 /\ q' = [q EXCEPT !.token = @ - 1] /\ q \in Objects /\ q.token \in Int
      /\ UNCHANGED <<active, phase>> /\ pc' = [pc EXCEPT ![active] = "fetch"]
  BY CallerIs, LengthIs DEF LockFree, Calling, IInv, Sound, Locked, At
<1>2. /\ q'.token = q.token - 1 /\ \A t : ~In(q, t) /\ ~In(q', t)
  <2> DEFINE n == q.token - 1
  <2>1. n \in Nat /\ q.token >= 0 /\ q' = [q EXCEPT !.token = n]
    BY <1>1
  <2> HIDE DEF n
  <2> QED BY <2>1, CounterMoves DEF IInv, n
<1>3. pc'[active] = "fetch" /\ \A t \in Threads \ {active} : pc'[t] = pc[t]
  BY <1>1 DEF IInv, Typed
<1>4. Value > 0 /\ Value' = Value - 1 /\ Value \in Int
  BY <1>1, <1>2 DEF Value
<1>5. Posted' = Posted
  BY <1>1, <1>3 DEF Posted
<1>6. active \notin Promised /\ Promised' = Promised \cup {active}
  <2>1. \A t \in Threads : t \in Promised' <=> t \in Promised \/ t = active
    BY <1>1, <1>2, <1>3, PromisedNow, PromisedNext
  <2>2. active \notin Promised
    BY <1>1, PromisedNow
  <2> QED BY <1>1, <2>1, <2>2 DEF Promised
<1>7. Cardinality(Promised') = Cardinality(Promised) + 1
  BY <1>6, CountsAre, OneMore
<1>8. Unfetched' = Unfetched
  BY <1>4, <1>5, <1>7, CountsAre, CountsThen
<1>9. active \notin Senders
  <2>1. PrioOf[active] \in Nat
    BY <1>1, ItcAssumption
  <2> QED BY <1>1, <2>1 DEF QueueRules
<1> QED BY <1>1, <1>3, <1>8, <1>9 DEF Moving, Copied

LEMMA SignalPromises ==
  ASSUME IInv, IInv', LateWaits, LateWaits', \A t \in Threads : ~Late(t), Signal,
         \A t \in Threads : \/ pc'[t] = pc[t]
                            \/ {pc[t], pc'[t]} \cap {"blocked", "timed", "fetch"} = {}
  PROVE  /\ Value' + Cardinality(Promised') = Value + Cardinality(Promised) + 1
         /\ Value' \in Nat /\ Cardinality(Promised') \in Nat
         /\ ~Wakes => Promised' = Promised
<1>1. q \in Objects /\ Sound(q) /\ q.token \in Int /\ Length(q) \in Nat
  BY LengthIs DEF IInv, Sound
<1>2. CASE SignalFree
  <2>1. q.token >= 0 /\ q' = [q EXCEPT !.token = @ + 1]
    BY <1>2 DEF SignalFree
  <2>2. q'.token = q.token + 1 /\ \A t : ~In(q, t) /\ ~In(q', t)
    <3> DEFINE m == q.token + 1
    <3>1. m \in Nat /\ q' = [q EXCEPT !.token = m]
      BY <1>1, <2>1
    <3> HIDE DEF m
    <3> QED BY <1>1, <2>1, <3>1, CounterMoves DEF m
  <2>3. Promised' = Promised
    <3>1. \A t \in Threads : t \in Promised' <=> t \in Promised
      BY <2>2, PromisedNow, PromisedNext
    <3> QED BY <3>1 DEF Promised
  <2>4. Value' = Value + 1 /\ Value \in Nat
    BY <1>1, <2>1, <2>2 DEF Value
  <2> QED BY <2>3, <2>4, CountsAre
<1>3. CASE SignalFifo \/ SignalPrior
  <2>1. PICK p \in 1 .. Length(q) :
          q' \in Objects /\ Closed(q, q', p) /\ q'.token = q.token + 1
    <3>1. CASE SignalFifo
      <4>1. FirstServed \/ SecondServed
        BY <3>1, FifoServes DEF Calm
      <4>2. ~SecondServed
        <5> SUFFICES ASSUME SecondServed PROVE FALSE
          OBVIOUS
        <5>1. 1 \in 1 .. Length(q) /\ Late(EntryOf(q, 1))
          BY DEF SecondServed
        <5> QED BY <5>1, EntriesWait
      <4> QED BY <4>1, <4>2 DEF FirstServed
    <3>2. CASE SignalPrior
      BY <3>2, PriorServes
    <3> QED BY <1>3, <3>1, <3>2
  <2> DEFINE g == EntryOf(q, p)
  <2>2. q.token < 0 /\ \A t : In(q', t) <=> In(q, t) /\ t # g
    BY <1>1, <2>1, ClosedSound
  <2>3. g \in Threads /\ In(q, g)
    BY <1>1 DEF Sound, In
  <2> HIDE DEF g
  <2>4. pc[g] \in {"blocked", "timed"}
    BY <2>3, OutIs DEF IInv
  <2>5. g \notin Promised /\ Promised' = Promised \cup {g}
    <3>1. g \notin Promised
      BY <2>3, <2>4, PromisedNow
    <3>2. \A t \in Threads : t \in Promised' <=> t \in Promised \/ t = g
      BY <2>2, <2>3, <2>4, PromisedNow, PromisedNext
    <3> QED BY <2>3, <3>1, <3>2 DEF Promised
  <2>6. Cardinality(Promised') = Cardinality(Promised) + 1
    BY <2>5, CountsAre, OneMore
  <2>7. Value' = 0 /\ Value = 0
    BY <1>1, <2>1, <2>2 DEF Value
  <2> QED BY <2>2, <2>6, <2>7, CountsAre DEF Wakes
<1> QED BY <1>2, <1>3 DEF Signal

LEMMA UnlockPromises ==
  ASSUME Kind = "S_QUEUE", IInv, IInv', LateWaits, LateWaits', Moving, QueueRules, Unlock
  PROVE  Moving' /\ Unfetched' = Unfetched /\ ~Copied /\ ~Copied'
<1>1. /\ active \in Threads /\ phase = "run" /\ pc[active] = "post" /\ Signal
      /\ active' = active
      /\ IF Wakes THEN pc' = [pc EXCEPT ![active] = "wake"] /\ phase' = "yield"
                  ELSE pc' = [pc EXCEPT ![active] = "user"] /\ phase' = phase
  BY DEF IInv, Typed, Unlock, Running, Signals, At
<1>2. \A t \in Threads : ~Late(t)
  BY <1>1, NobodyIsLate DEF Late
<1>3. pc'[active] \in {"wake", "user"} /\ \A t \in Threads \ {active} : pc'[t] = pc[t]
  BY <1>1 DEF IInv, Typed
<1>4. /\ Value' + Cardinality(Promised') = Value + Cardinality(Promised) + 1
      /\ Value' \in Nat /\ Cardinality(Promised') \in Nat
      /\ ~Wakes => Promised' = Promised
  BY <1>1, <1>2, <1>3, SignalPromises
<1>5. active \in Posted /\ Posted' = Posted \ {active}
  BY <1>1, <1>3 DEF Posted
<1>6. Cardinality(Posted') = Cardinality(Posted) - 1
  BY <1>5, CountsAre, OneLess
<1>7. Unfetched' = Unfetched
  <2>1. Value \in Nat
    BY LengthIs DEF Value, IInv, Sound
  <2> HIDE DEF Value
  <2> QED BY <1>4, <1>6, <2>1, CountsAre, CountsThen
<1>8. Moving'
  <2>1. active \in Senders /\ Promised = {}
    BY <1>1 DEF Moving
  <2>2. CASE Wakes
    BY <1>1, <1>3, <2>2 DEF Moving
  <2>3. CASE ~Wakes
    BY <1>1, <1>3, <1>4, <2>1, <2>3 DEF Moving
  <2> QED BY <2>2, <2>3
<1> QED BY <1>1, <1>3, <1>7, <1>8 DEF Copied

(* A wait begins, or is over without a message.                             *)
LEMMA BlockingPromises ==
  ASSUME IInv, IInv', LateWaits, LateWaits', Moving, LockForever \/ LockTimed
  PROVE  Moving' /\ Unfetched' = Unfetched /\ ~Copied /\ ~Copied'
<1> DEFINE n == Length(q)
<1>1. /\ active \in Threads /\ pc[active] = "user" /\ ~In(q, active) /\ active \in Lockers
      /\ MayBlock /\ q' = Enlisted /\ Sound(q) /\ phase' = "yield" /\ active' = active
      /\ phase = "run"
  BY CallerIs DEF LockForever, LockTimed, Calling, IInv
<1>2. /\ Length(q') = n + 1 /\ n \in Nat
      /\ \A k \in 1 .. n : EntryOf(q', k) = EntryOf(q, k)
      /\ EntryOf(q', n + 1) = active
      /\ q'.token < 0 /\ q.token \in Int /\ q.token <= 0 /\ q'.token = q.token - 1
  BY <1>1, EnlistedIs, LengthIs DEF Sound, MayBlock
<1>3. \A k \in 1 .. n + 1 : k = n + 1 \/ k \in 1 .. n
  BY <1>2
<1>4. In(q', active) /\ \A t \in Threads \ {active} : In(q', t) <=> In(q, t)
  BY <1>2, <1>3 DEF In
<1>5. /\ pc'[active] \in {"blocked", "timed"}
      /\ \A t \in Threads \ {active} : pc'[t] = pc[t]
  BY <1>1 DEF IInv, Typed, LockForever, LockTimed, At
<1>6. Value' = Value
  BY <1>2 DEF Value
<1>7. Unfetched' = Unfetched
  BY <1>1, <1>4, <1>5, <1>6, QuietCounts
<1>8. Moving'
  BY <1>1, <1>5 DEF Moving
<1> QED BY <1>1, <1>5, <1>7, <1>8 DEF Copied

LEMMA ReturnPromises ==
  ASSUME Kind = "S_QUEUE", IInv, IInv', LateWaits, LateWaits', Moving, Resume
  PROVE  Moving' /\ Unfetched' = Unfetched /\ ~Copied /\ ~Copied'
<1>1. /\ active \in Threads /\ phase = "run" /\ active' = active /\ phase' = phase
      /\ state[active] = {} /\ pc[active] \in {"blocked", "timed", "wake"}
  BY DEF IInv, Typed, RunOK, Resume, Unblocked, InTime, TimedOut, Unlocked, Running
<1>2. CASE Unblocked \/ InTime
  <2>1. pc[active] \in {"blocked", "timed"} /\ q' = q /\ ~In(q, active)
    <3>1. pc[active] \in {"blocked", "timed"} /\ q' = q /\ ~Late(active)
      BY <1>2 DEF Unblocked, InTime, Running, Late
    <3> QED BY <1>1, <3>1, GoneIs DEF IInv
  <2>2. event[active] = "E_ITC"
    <3>1. ~Late(active)
      BY <1>2 DEF Unblocked, InTime, Running, Late
    <3> QED BY <1>1, <2>1, <3>1 DEF IInv, Seat, Pending
  <2>3. pc' = [pc EXCEPT ![active] = "fetch"]
    BY <1>2, <2>2 DEF Unblocked, InTime, Locked, At
  <2>4. pc'[active] = "fetch" /\ \A t \in Threads \ {active} : pc'[t] = pc[t]
    BY <1>1, <2>3 DEF IInv, Typed
  <2>5. Unfetched' = Unfetched /\ Promised' = Promised
    BY <2>1, <2>4, QuietCounts DEF Value
  <2>6. active \in Promised
    BY <1>1, <2>1, PromisedNow
  <2>7. Moving'
    BY <1>1, <2>1, <2>4, <2>5, <2>6 DEF Moving
  <2> QED BY <1>1, <2>4, <2>5, <2>7 DEF Copied
<1>3. CASE TimedOut \/ Unlocked
  <2>1. pc'[active] = "user" /\ \A t \in Threads \ {active} : pc'[t] = pc[t]
    BY <1>1, <1>3 DEF IInv, Typed, TimedOut, Unlocked, At
  <2>2. /\ Value' = Value /\ \A t \in Threads \ {active} : In(q', t) <=> In(q, t)
        /\ pc[active] = "wake" \/ In(q, active)
    <3>1. CASE TimedOut
      <4> In(q, active)
        BY <3>1, TimedOutEither DEF LateWaits
      <4>1. /\ q'.token = q.token + 1 /\ q' \in Objects /\ Sound(q) /\ In(q, active)
        BY <3>1, TimedOutLeaves DEF IInv
      <4>2. PICK p \in 1 .. Length(q) : EntryOf(q, p) = active /\ Closed(q, q', p)
        BY <3>1, TimedOutLeaves
      <4>3. q.token < 0 /\ \A t : In(q', t) <=> In(q, t) /\ t # active
        BY <4>1, <4>2, ClosedSound
      <4>4. Value' = Value
        BY <4>1, <4>3, LengthIs DEF Value, Sound
      <4> QED BY <4>1, <4>3, <4>4
    <3>2. CASE Unlocked
      BY <3>2 DEF Unlocked, Running, Value
    <3> QED BY <1>3, <3>1, <3>2
  <2>3. Unfetched' = Unfetched /\ Promised' = Promised
    BY <1>1, <2>1, <2>2, QuietCounts
  <2>4. Moving'
    BY <1>1, <2>1, <2>3 DEF Moving
  <2> QED BY <1>1, <2>1, <2>3, <2>4 DEF Copied
<1> QED BY <1>2, <1>3 DEF Resume

(* Whoever is dispatched, a sender runs only when no message is promised.   *)
LEMMA KernelPromises ==
  ASSUME IInv, IInv', LateWaits, LateWaits', Moving, QueueRules,
         Yield \/ Sleep \/ Dispatch \/ \E t \in Threads : Timeout(t)
  PROVE  Moving' /\ Unfetched' = Unfetched /\ ~Copied /\ ~Copied'
<1>1. q' = q /\ pc' = pc
  BY DEF Yield, Sleep, Dispatch, Timeout
<1>2. Unfetched' = Unfetched /\ Promised' = Promised
  BY <1>1, QuietCounts DEF Value
<1>3. \A t \in Threads : pc[t] \notin {"copied", "post", "fetch"}
  BY DEF Moving, IInv, Typed, Yield, Sleep, Dispatch, Timeout, Running
<1>4. ASSUME Yield \/ Sleep \/ \E t \in Threads : Timeout(t) PROVE Moving'
  <2>1. phase' = "yield"
    BY <1>4 DEF Yield, Sleep, Timeout
  <2> QED BY <1>1, <1>3, <2>1 DEF Moving
<1>5. ASSUME Dispatch PROVE Moving'
  <2>1. PICK n \in Threads : IsMostUrgent(n) /\ active' = n
    BY <1>5 DEF Dispatch
  <2>2. ASSUME NEW t \in Promised PROVE n \notin Senders
    <3>1. t \in Threads
      BY DEF Promised
    <3>2. pc[t] \in {"blocked", "timed"} /\ ~In(q, t)
      BY <1>3, <3>1, PromisedNow
    <3>3. t \in Lockers /\ Ready(t)
      BY <3>1, <3>2 DEF Moving, IInv, Seat, States, Ready
    <3>4. PrioOf[n] <= PrioOf[t] /\ PrioOf[n] \in Nat /\ PrioOf[t] \in Nat
      BY <2>1, <3>1, <3>3, ItcAssumption DEF IsMostUrgent
    <3> QED BY <3>3, <3>4 DEF QueueRules
  <2>3. Promised' # {} => active' \notin Senders
    BY <1>2, <2>1, <2>2
  <2> QED BY <1>1, <1>3, <2>3 DEF Moving
<1>6. ~Copied /\ ~Copied'
  BY <1>1, <1>3 DEF Copied, IInv, Typed
<1> QED BY <1>2, <1>4, <1>5, <1>6

LEMMA CorePromises ==
  ASSUME Kind = "S_QUEUE", IInv, IInv', LateWaits, LateWaits', Moving, QueueRules, Core
  PROVE  Moving' /\ Unfetched' = Unfetched /\ ~Copied /\ ~Copied'
BY LockFreePromises, UnlockPromises, BlockingPromises, ReturnPromises, KernelPromises
   DEF Core, Kernel

(* The buffer as it is seen from outside.                                   *)
LEMMA BufferNow == Buffer = BufferOf(ring, moutIdx, Unfetched)
                   /\ Buffer' = BufferOf(ring', moutIdx', Unfetched')
BY DEF Buffer, BufferOf

LEMMA CoreQueue ==
  ASSUME QInv, IInv', LateWaits', QueueRules, Core, UNCHANGED messages
  PROVE  QInv' /\ UNCHANGED <<Buffer, put, got>>
<1>1. Moving' /\ Unfetched' = Unfetched /\ ~Copied /\ ~Copied'
  BY CorePromises DEF QInv
<1>2. UNCHANGED <<ring, minIdx, moutIdx, put, got>>
  BY DEF messages
<1>3. Ringed'
  BY <1>1, <1>2 DEF QInv, Ringed
<1>4. Buffer' = Buffer
  BY <1>1, <1>2, BufferNow
<1> QED BY <1>1, <1>2, <1>3, <1>4 DEF QInv

(* While a sender is about to copy, nothing is promised and nothing posted, *)
(* so that token alone says how full the ring is.                           *)
LEMMA SenderSees ==
  ASSUME IInv, Moving, active \in Senders, phase = "run", pc[active] = "user"
  PROVE  Promised = {} /\ Posted = {} /\ Unfetched = Value
<1>1. Promised = {} /\ Posted = {}
  BY DEF Moving, Posted
<1>2. Value \in Nat
  BY LengthIs DEF IInv, Sound, Value
<1>3. Cardinality(Promised) = 0 /\ Cardinality(Posted) = 0
  BY <1>1, FS_EmptySet
<1> HIDE DEF Value
<1> QED BY <1>1, <1>2, <1>3, CountsAre

LEMMA HasRoom == IInv /\ ~Full => Value < Size
BY LengthIs, QueueAssumption DEF IInv, Sound, Full, Value

LEMMA PutStep ==
  ASSUME QInv, IInv', LateWaits', QueueRules, NEW m \in Msgs, Send(m)
  PROVE  QInv' /\ Fifo!Put(m)
<1> DEFINE n == Unfetched
<1>1. /\ phase = "run" /\ pc[active] = "user" /\ active \in Senders /\ active \in Threads
      /\ ring' = [ring EXCEPT ![minIdx] = m] /\ put' = m /\ got' = got
      /\ minIdx' = minIdx /\ moutIdx' = moutIdx
      /\ UNCHANGED <<q, phase, active>> /\ pc' = [pc EXCEPT ![active] = "copied"] /\ ~Full
  BY DEF Send, Running, At, QInv, IInv, Typed
<1>2. pc'[active] = "copied" /\ \A t \in Threads \ {active} : pc'[t] = pc[t]
  BY <1>1 DEF QInv, IInv, Typed
<1>3. Promised = {} /\ Posted = {} /\ n = Value /\ n < Size /\ n \in Nat
  <2>1. Value \in Nat
    BY LengthIs DEF QInv, IInv, Sound, Value
  <2> QED BY <1>1, <2>1, SenderSees, HasRoom DEF QInv
<1>4. Promised' = {}
  <2>1. \A t \in Threads : t \in Promised' <=> t \in Promised
    <3> SUFFICES ASSUME NEW t \in Threads PROVE t \in Promised' <=> t \in Promised
      OBVIOUS
    <3>1. In(q', t) <=> In(q, t)
      BY <1>1 DEF In
    <3> QED BY <1>1, <1>2, <3>1, PromisedNow, PromisedNext DEF QInv
  <2> QED BY <1>3, <2>1 DEF Promised
<1>5. Posted' = {active}
  <2>1. \A t \in Threads : t \in Posted' <=> t = active
    BY <1>2, <1>3 DEF Posted
  <2> QED BY <1>1, <2>1 DEF Posted
<1>6. Unfetched' = n + 1
  <2>1. Cardinality(Promised') = 0 /\ Cardinality(Posted') = 1
    BY <1>4, <1>5, FS_EmptySet, FS_Singleton
  <2>2. Value' = Value
    BY <1>1 DEF Value
  <2> QED BY <1>3, <2>1, <2>2, CountsThen
<1> HIDE DEF n
<1>7. ring \in [Cells -> Msgs \cup {None}] /\ moutIdx \in Cells /\ minIdx = CellAt(moutIdx, n)
  BY <1>1 DEF QInv, Ringed, Copied, n
<1>8. Moving'
  BY <1>1, <1>2, <1>4 DEF QInv, Moving
<1>9. Ringed'
  <2>1. ring' \in [Cells -> Msgs \cup {None}]
    BY <1>1, <1>7
  <2>2. minIdx' = CellAt(moutIdx', Unfetched' - 1) /\ Unfetched' <= Size
    BY <1>1, <1>3, <1>6, <1>7, QueueAssumption
  <2>3. Copied'
    BY <1>1, <1>2 DEF Copied
  <2> QED BY <1>1, <1>7, <2>1, <2>2, <2>3 DEF Ringed
<1>10. Buffer' = Append(Buffer, m) /\ Len(Buffer) = n
  <2>1. Buffer = BufferOf(ring, moutIdx, n)
        /\ Buffer' = BufferOf([ring EXCEPT ![CellAt(moutIdx, n)] = m], moutIdx, n + 1)
    BY <1>1, <1>6, <1>7, BufferNow DEF n
  <2>2. n <= Size /\ m \in Msgs \cup {None}
    BY <1>3, QueueAssumption
  <2>3. Len(BufferOf(ring, moutIdx, n)) = n
    BY <1>3, <1>7, <2>2, BufferIs
  <2>4. n \in Nat /\ n < Size /\ ring \in [Cells -> Msgs \cup {None}] /\ moutIdx \in Cells
    BY <1>3, <1>7
  <2>5. BufferOf([ring EXCEPT ![CellAt(moutIdx, n)] = m], moutIdx, n + 1)
        = Append(BufferOf(ring, moutIdx, n), m)
    BY <2>2, <2>4, PutAtEnd
  <2> QED BY <2>1, <2>3, <2>5
<1> QED BY <1>1, <1>3, <1>8, <1>9, <1>10 DEF QInv, Fifo!Put

LEMMA AdvanceStep ==
  ASSUME QInv, IInv', LateWaits', Advance
  PROVE  QInv' /\ UNCHANGED <<Buffer, put, got>>
<1> DEFINE n == Unfetched
<1>1. /\ phase = "run" /\ pc[active] = "copied" /\ active \in Threads
      /\ minIdx' = NextCell(minIdx) /\ UNCHANGED <<ring, moutIdx, put, got, q, phase, active>>
      /\ pc' = [pc EXCEPT ![active] = "post"]
  BY DEF Advance, Running, At, QInv, IInv, Typed
<1>2. pc'[active] = "post" /\ \A t \in Threads \ {active} : pc'[t] = pc[t]
  BY <1>1 DEF QInv, IInv, Typed
<1>3. Promised' = Promised
  <2>1. \A t \in Threads : t \in Promised' <=> t \in Promised
    <3> SUFFICES ASSUME NEW t \in Threads PROVE t \in Promised' <=> t \in Promised
      OBVIOUS
    <3>1. In(q', t) <=> In(q, t)
      BY <1>1 DEF In
    <3> QED BY <1>1, <1>2, <3>1, PromisedNow, PromisedNext DEF QInv
  <2> QED BY <2>1 DEF Promised
<1>4. Posted' = Posted /\ active \in Posted
  <2>1. \A t \in Threads : t \in Posted' <=> t \in Posted
    BY <1>1, <1>2 DEF Posted
  <2> QED BY <1>1, <2>1 DEF Posted
<1>5. Unfetched' = n
  <2>1. Value' = Value
    BY <1>1 DEF Value
  <2> QED BY <1>3, <1>4, <2>1, CountsAre, CountsThen
<1>6. n \in Nat /\ n >= 1 /\ n <= Size
  <2>1. Value \in Nat
    BY LengthIs DEF QInv, IInv, Sound, Value
  <2>2. Cardinality(Posted) # 0
    BY <1>4, CountsAre, FS_EmptySet
  <2> HIDE DEF Value
  <2> QED BY <2>1, <2>2, CountsAre DEF QInv, Ringed
<1> HIDE DEF n
<1>7. /\ ring \in [Cells -> Msgs \cup {None}] /\ moutIdx \in Cells
      /\ minIdx = CellAt(moutIdx, n - 1)
  BY <1>1 DEF QInv, Ringed, Copied, n
<1>8. minIdx' = CellAt(moutIdx, n)
  <2>1. n - 1 \in Nat /\ n - 1 <= Size /\ n - 1 < Size /\ n - 1 + 1 = n
    BY <1>6, QueueAssumption
  <2> QED BY <1>1, <1>7, <2>1, CellIs
<1>9. Moving'
  BY <1>1, <1>2, <1>3 DEF QInv, Moving
<1>10. ~Copied'
  BY <1>1, <1>2 DEF Copied
<1>11. Ringed'
  BY <1>1, <1>5, <1>6, <1>7, <1>8, <1>10 DEF Ringed
<1>12. Buffer' = Buffer
  BY <1>1, <1>5, BufferNow DEF n
<1> QED BY <1>1, <1>9, <1>11, <1>12 DEF QInv

LEMMA GetStep ==
  ASSUME QInv, IInv', LateWaits', QueueRules, Fetch
  PROVE  QInv' /\ Fifo!Get(active) /\ active \in Threads
<1> DEFINE n == Unfetched
<1>1. /\ phase = "run" /\ pc[active] = "fetch" /\ active \in Threads
      /\ got' = [got EXCEPT ![active] = ring[moutIdx]]
      /\ moutIdx' = NextCell(moutIdx) /\ UNCHANGED <<ring, minIdx, put, q, phase, active>>
      /\ pc' = [pc EXCEPT ![active] = "user"]
  BY DEF Fetch, Running, At, QInv, IInv, Typed
<1>2. pc'[active] = "user" /\ \A t \in Threads \ {active} : pc'[t] = pc[t]
  BY <1>1 DEF QInv, IInv, Typed
<1>3. active \in Promised /\ Promised' = Promised \ {active}
  <2>1. \A t \in Threads : t \in Promised' <=> t \in Promised /\ t # active
    <3> SUFFICES ASSUME NEW t \in Threads PROVE t \in Promised' <=> t \in Promised /\ t # active
      OBVIOUS
    <3>1. In(q', t) <=> In(q, t)
      BY <1>1 DEF In
    <3> QED BY <1>1, <1>2, <3>1, PromisedNow, PromisedNext DEF QInv
  <2>2. active \in Promised
    BY <1>1, PromisedNow DEF QInv
  <2> QED BY <2>1, <2>2 DEF Promised
<1>4. Posted' = Posted
  <2>1. \A t \in Threads : t \in Posted' <=> t \in Posted
    BY <1>1, <1>2 DEF Posted
  <2> QED BY <2>1 DEF Posted
<1>5. Unfetched' = n - 1 /\ n \in Nat /\ n >= 1 /\ n <= Size
  <2>1. Value \in Nat /\ Value' = Value
    BY <1>1, LengthIs DEF QInv, IInv, Sound, Value
  <2>2. Cardinality(Promised') = Cardinality(Promised) - 1
    BY <1>3, CountsAre, OneLess
  <2>3. Cardinality(Promised) # 0
    BY <1>3, CountsAre, FS_EmptySet
  <2> HIDE DEF Value
  <2> QED BY <1>4, <2>1, <2>2, <2>3, CountsAre, CountsThen DEF QInv, Ringed
<1> HIDE DEF n
<1>6. ring \in [Cells -> Msgs \cup {None}] /\ moutIdx \in Cells /\ minIdx = CellAt(moutIdx, n)
  BY <1>1 DEF QInv, Ringed, Copied, n
<1>7. moutIdx' \in Cells /\ minIdx' = CellAt(moutIdx', n - 1)
  <2>1. n - 1 \in Nat /\ n - 1 <= Size /\ n - 1 < Size /\ n - 1 + 1 = n
    BY <1>5, QueueAssumption
  <2> QED BY <1>1, <1>6, <2>1, CellIs
<1>8. Moving'
  BY <1>1, <1>2, <1>3 DEF QInv, Moving
<1>9. ~Copied'
  BY <1>1, <1>2 DEF Copied
<1>10. Ringed'
  BY <1>1, <1>5, <1>6, <1>7, <1>9, QueueAssumption DEF Ringed
<1>11. Buffer' = Tail(Buffer) /\ Buffer # <<>> /\ Head(Buffer) = ring[moutIdx]
  <2>1. Buffer = BufferOf(ring, moutIdx, n) /\ Buffer' = BufferOf(ring, NextCell(moutIdx), n - 1)
    BY <1>1, <1>5, BufferNow DEF n
  <2> QED BY <1>5, <1>6, <2>1, TakenFromFront
<1> QED BY <1>1, <1>8, <1>10, <1>11 DEF QInv, Fifo!Get

LEMMA HandlerPutStep ==
  ASSUME QInv, IInv', LateWaits', QueueRules, NEW m \in Msgs, SendFromHandler(m)
  PROVE  QInv' /\ Fifo!Put(m)
<1> DEFINE n == Unfetched
<1>1. /\ Senders = {} /\ n < Size /\ Timed = {} /\ Signal
      /\ ring' = [ring EXCEPT ![minIdx] = m] /\ put' = m /\ got' = got
      /\ minIdx' = NextCell(minIdx) /\ moutIdx' = moutIdx
      /\ UNCHANGED <<phase, active, pc>>
  BY DEF SendFromHandler, FromHandler, QueueRules
<1>2. \A t \in Threads : ~Late(t)
  BY <1>1 DEF QInv, IInv, Seat, Late
<1>3. /\ Value' + Cardinality(Promised') = Value + Cardinality(Promised) + 1
      /\ Value' \in Nat /\ Cardinality(Promised') \in Nat
  BY <1>1, <1>2, SignalPromises DEF QInv
<1>4. Posted' = Posted
  BY <1>1 DEF Posted
<1>5. Unfetched' = n + 1 /\ n \in Nat
  <2>1. Value \in Nat
    BY LengthIs DEF QInv, IInv, Sound, Value
  <2> HIDE DEF Value
  <2> QED BY <1>3, <1>4, <2>1, CountsAre, CountsThen
<1> HIDE DEF n
<1>6. ~Copied /\ ~Copied'
  BY <1>1 DEF Copied, QInv, Moving, IInv, Typed
<1>7. ring \in [Cells -> Msgs \cup {None}] /\ moutIdx \in Cells /\ minIdx = CellAt(moutIdx, n)
  BY <1>6 DEF QInv, Ringed, n
<1>8. Moving'
  BY <1>1 DEF QInv, Moving
<1>9. Ringed'
  <2>1. ring' \in [Cells -> Msgs \cup {None}]
    BY <1>1, <1>7
  <2>2. n <= Size /\ Unfetched' <= Size
    BY <1>1, <1>5, QueueAssumption DEF n
  <2>3. minIdx' = CellAt(moutIdx', Unfetched')
    BY <1>1, <1>5, <1>7, <2>2, CellIs DEF n
  <2> QED BY <1>1, <1>6, <1>7, <2>1, <2>2, <2>3 DEF Ringed
<1>10. Buffer' = Append(Buffer, m) /\ Len(Buffer) = n /\ n < Size
  <2>1. Buffer = BufferOf(ring, moutIdx, n)
        /\ Buffer' = BufferOf([ring EXCEPT ![CellAt(moutIdx, n)] = m], moutIdx, n + 1)
    BY <1>1, <1>5, <1>7, BufferNow DEF n
  <2>2. n < Size /\ n <= Size /\ m \in Msgs \cup {None}
    BY <1>1, <1>5, QueueAssumption DEF n
  <2>3. Len(BufferOf(ring, moutIdx, n)) = n
    BY <1>5, <1>7, <2>2, BufferIs
  <2> QED BY <1>5, <1>7, <2>1, <2>2, <2>3, PutAtEnd
<1> QED BY <1>1, <1>8, <1>9, <1>10 DEF QInv, Fifo!Put

LEMMA QInitRing == QInit => QInv /\ Fifo!Init
<1> SUFFICES ASSUME QInit PROVE QInv /\ Fifo!Init
  OBVIOUS
<1>1. IInv /\ LateWaits
  BY InitSeats DEF QInit, Init, LateWaits, Late
<1>2. \A t \in Threads : pc[t] = "user"
  BY DEF QInit, Init
<1>3. Promised = {} /\ Posted = {}
  <2>1. \A t \in Threads : t \notin Promised
    BY <1>1, <1>2, PromisedNow
  <2> QED BY <1>2, <2>1 DEF Promised, Posted
<1>4. Unfetched = 0
  <2>1. Value = 0
    BY DEF QInit, Value
  <2>2. Cardinality(Promised) = 0 /\ Cardinality(Posted) = 0
    BY <1>3, FS_EmptySet
  <2> QED BY <2>1, <2>2, CountsAre
<1>5. Moving
  BY <1>2, <1>3 DEF Moving
<1>6. /\ Size \in Nat /\ Size >= 1 /\ 0 \in Cells /\ CellAt(0, 0) = 0
  <2>1. Size \in Nat /\ Size >= 1 /\ 0 \in Cells
    BY QueueAssumption DEF Cells
  <2> QED BY <2>1, CellIs
<1>7. ~Copied
  BY <1>1, <1>2 DEF Copied, IInv, Typed
<1>8. Ringed
  BY <1>4, <1>6, <1>7 DEF Ringed, QInit
<1>9. Buffer = <<>>
  BY <1>4 DEF Buffer
<1> QED BY <1>1, <1>5, <1>8, <1>9 DEF QInv, Fifo!Init, QInit

LEMMA QStep ==
  ASSUME QInv, QueueRules, [QNext]_qvars
  PROVE  QInv' /\ [Fifo!Next]_<<Buffer, put, got>>
<1>1. IInv' /\ LateWaits'
  <2>1. Rules
    BY DEF QueueRules, Rules, OneBeside
  <2>2. IInv'
    BY <2>1, QNextSeats DEF QInv
  <2> QED BY <2>2, LateNext DEF QInv
<1>2. CASE Core /\ UNCHANGED messages
  BY <1>1, <1>2, CoreQueue
<1>3. CASE Fetch
  BY <1>1, <1>3, GetStep DEF Fifo!Next
<1>4. CASE Advance
  BY <1>1, <1>4, AdvanceStep
<1>5. CASE \E m \in Msgs : Send(m)
  BY <1>1, <1>5, PutStep DEF Fifo!Next
<1>6. CASE \E m \in Msgs : SendFromHandler(m)
  BY <1>1, <1>6, HandlerPutStep DEF Fifo!Next
<1>7. CASE UNCHANGED qvars
  <2>1. /\ UNCHANGED <<ring, minIdx, moutIdx, put, got, q, state, event, active, npreempt, phase,
                       pc, mark>>
    BY <1>7 DEF qvars, vars, messages
  <2>2. Promised' = Promised /\ Posted' = Posted
    <3>1. \A t \in Threads : t \in Promised' <=> t \in Promised
      <4> SUFFICES ASSUME NEW t \in Threads PROVE t \in Promised' <=> t \in Promised
        OBVIOUS
      <4>1. In(q', t) <=> In(q, t)
        BY <2>1 DEF In
      <4> QED BY <1>1, <2>1, <4>1, PromisedNow, PromisedNext DEF QInv
    <3> QED BY <2>1, <3>1 DEF Promised, Posted
  <2>3. Unfetched' = Unfetched
    <3>1. Value' = Value
      BY <2>1 DEF Value
    <3> QED BY <2>2, <3>1, CountsAre, CountsThen
  <2>4. Moving' /\ Ringed'
    BY <2>1, <2>2, <2>3 DEF QInv, Moving, Ringed, Copied
  <2>5. Buffer' = Buffer
    BY <2>1, <2>3, BufferNow
  <2> QED BY <1>1, <2>1, <2>4, <2>5 DEF QInv
<1> QED BY <1>2, <1>3, <1>4, <1>5, <1>6, <1>7 DEF QNext

\* The write index is always as far ahead of the read index as there are
\* messages that nobody has fetched, so that no message is overwritten and
\* none is read twice: whatever handlers, time limits and the order of
\* dispatch do between a copy, its index and its signal.
THEOREM RingSound == QueueRules /\ QSpec => []QInv
<1>1. ASSUME QueueRules PROVE QSpec => []QInv
  <2>1. QInit => QInv
    BY QInitRing
  <2>2. QInv /\ [QNext]_qvars => QInv'
    BY <1>1, QStep
  <2> QED BY <2>1, <2>2, PTL DEF QSpec
<1> QED BY <1>1

\* A queue used by these rules is a bounded first-in, first-out buffer:
\* every message that q_send accepts is received once, in order.
THEOREM QueueImplements == QueueRules /\ QSpec => IsFifo
<1>1. ASSUME QueueRules PROVE QSpec => IsFifo
  <2>1. QInit => Fifo!Init
    BY QInitRing
  <2>2. QInv /\ [QNext]_qvars => [Fifo!Next]_<<Buffer, put, got>>
    BY <1>1, QStep
  <2>3. QSpec => []QInv
    BY <1>1, RingSound
  <2> QED BY <2>1, <2>2, <2>3, PTL DEF QSpec, IsFifo, Fifo!Spec
<1> QED BY <1>1

\* The ring, its indices and the buffers keep their types: what a receiver
\* finds in its buffer is a message that was sent, or nothing yet.
THEOREM QTypeCorrect == QueueRules /\ QSpec => []QTypeOK
<1> DEFINE Buffers == put \in Msgs \cup {None} /\ got \in [Threads -> Msgs \cup {None}]
<1>1. QInit => Buffers
  BY DEF QInit
<1>2. ASSUME QInv, Buffers, [QNext]_qvars PROVE Buffers'
  <2>1. CASE Fetch
    <3>1. ring[moutIdx] \in Msgs \cup {None}
      BY <1>2 DEF QInv, Ringed
    <3>2. put' = put /\ got' = [got EXCEPT ![active] = ring[moutIdx]]
      BY <2>1 DEF Fetch
    <3> QED BY <1>2, <3>1, <3>2
  <2>2. CASE \E m \in Msgs : Send(m)
    BY <1>2, <2>2 DEF Send
  <2>3. CASE \E m \in Msgs : SendFromHandler(m)
    BY <1>2, <2>3 DEF SendFromHandler
  <2>4. CASE Advance
    BY <1>2, <2>4 DEF Advance
  <2>5. CASE UNCHANGED messages
    BY <1>2, <2>5 DEF messages
  <2>6. CASE UNCHANGED qvars
    BY <1>2, <2>5, <2>6 DEF qvars
  <2> QED BY <1>2, <2>1, <2>2, <2>3, <2>4, <2>5, <2>6 DEF QNext
<1>3. QInv /\ Buffers => QTypeOK
  <2> SUFFICES ASSUME QInv, Buffers PROVE QTypeOK
    OBVIOUS
  <2>1. TypeOK
    BY DEF QInv, IInv, Typed, Sound, Objects, TypeOK
  <2>2. moutIdx \in Cells /\ Unfetched <= Size /\ Unfetched \in Nat
    <3>1. Value \in Nat
      BY LengthIs DEF QInv, IInv, Sound, Value
    <3> HIDE DEF Value
    <3> QED BY <3>1, CountsAre DEF QInv, Ringed
  <2>3. Copied => Unfetched - 1 \in Nat
    <3> SUFFICES ASSUME Copied PROVE Unfetched # 0
      BY <2>2
    <3>1. active \in Posted
      BY DEF Copied, Posted, QInv, IInv, Typed
    <3>2. Value \in Nat
      BY LengthIs DEF QInv, IInv, Sound, Value
    <3>3. Cardinality(Posted) # 0
      BY <3>1, CountsAre, FS_EmptySet
    <3> HIDE DEF Value
    <3> QED BY <3>2, <3>3, CountsAre
  <2>4. minIdx \in Cells
    <3>1. CASE Copied
      <4>1. minIdx = CellAt(moutIdx, Unfetched - 1)
        BY <3>1 DEF QInv, Ringed
      <4>2. Unfetched - 1 \in Nat /\ Unfetched - 1 <= Size
        BY <2>2, <2>3, <3>1, QueueAssumption
      <4> QED BY <2>2, <4>1, <4>2, CellIs
    <3>2. CASE ~Copied
      <4>1. minIdx = CellAt(moutIdx, Unfetched)
        BY <3>2 DEF QInv, Ringed
      <4> QED BY <2>2, <4>1, CellIs
    <3> QED BY <3>1, <3>2
  <2> QED BY <2>1, <2>2, <2>4 DEF QInv, Ringed, QTypeOK
<1> HIDE DEF Buffers
<1>4. ASSUME QueueRules PROVE QSpec => []QTypeOK
  <2>1. QSpec => []QInv
    BY <1>4, RingSound
  <2> QED BY <1>1, <1>2, <1>3, <2>1, PTL DEF QSpec
<1> QED BY <1>4
=============================================================================
