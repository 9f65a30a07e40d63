----------------------------- MODULE KmemProofs -----------------------------
(****************************************************************************)
(* Proofs about the heaps: what Kmem's run checks on two heaps of at most   *)
(* three blocks, for any number of heaps, blocks, threads and areas.        *)
(****************************************************************************)
EXTENDS Kmem, FiniteSetTheorems, TLAPS

Marks(h) == {b \in BlocksOf(h) : Head(h, b) = 1}

(* The counter is exact, as a statement that keeps the set's finiteness.    *)
Counts == \A h \in Heaps : Live(h) => header_pool[h].blocks = Cardinality(Marks(h))

(* No two heaps lie in the same region.                                     *)
Disjoint ==
  \A g, h \in Heaps :
    Live(g) /\ Live(h) /\ header_pool[g].heap = header_pool[h].heap => g = h

(* Marks in an area are those of a heap that lies in it: a heap is given up *)
(* only when its counter, which is exact, is zero.                          *)
Blank ==
  \A r \in Areas, b \in Blocks :
    \/ header[r][b] = 0
    \/ \E h \in Heaps : header_pool[h].heap = r /\ b \in BlocksOf(h)

IsMarked(h, b) == h \in Heaps /\ Live(h) /\ b \in BlocksOf(h) /\ Head(h, b) = 1

(* Blocks that are out or on their way back are marked, each held once.     *)
OutMarked == \A h \in Heaps, b \in Blocks : <<h, b>> \in out => IsMarked(h, b)
BackMarked ==
  \A t \in Threads : pc[t] = "free" =>
    /\ arg[t] \in Blocks /\ IsMarked(at[t], arg[t])
    /\ <<at[t], arg[t]>> \notin out
HeldOnce ==
  \A t, u \in Threads :
    pc[t] = "free" /\ pc[u] = "free" /\ at[t] = at[u] /\ arg[t] = arg[u] => t = u

(* Whoever has passed the test of malloct is the heap's one allocator, so   *)
(* that the room it saw can only grow.                                      *)
RoomKept ==
  \A t \in Threads : pc[t] = "malloct" =>
    /\ at[t] \in Heaps /\ Live(at[t])
    /\ header_pool[at[t]].hooks /\ header_pool[at[t]].user = t
    /\ header_pool[at[t]].blocks < header_pool[at[t]].maxnum

IInv ==
  /\ TypeOK /\ HeapsCounted /\ Counts /\ Disjoint /\ Blank
  /\ OutMarked /\ BackMarked /\ HeldOnce /\ RoomKept

-----------------------------------------------------------------------------
LEMMA Constants ==
  /\ NHeaps \in Nat \ {0} /\ MaxNum \in Nat /\ Sizes \subseteq 0 .. MaxNum
  /\ None \notin Threads /\ None \notin Regions /\ Areas \cap Heaps = {}
  /\ Heaps \subseteq Nat /\ Heaps \subseteq Regions /\ Areas \subseteq Regions
BY KmemAssumption DEF Heaps, Regions

(* The blocks of a heap are a finite set of as many as the heap says.       *)
LEMMA BlocksFinite ==
  ASSUME TypeOK, NEW h \in Heaps
  PROVE  /\ header_pool[h].maxnum \in Nat /\ header_pool[h].blocks \in Int
         /\ BlocksOf(h) \subseteq Blocks
         /\ IsFiniteSet(BlocksOf(h)) /\ Cardinality(BlocksOf(h)) = header_pool[h].maxnum
         /\ IsFiniteSet(Marks(h)) /\ Cardinality(Marks(h)) \in Nat
         /\ Cardinality(Marks(h)) <= header_pool[h].maxnum
         /\ Cardinality(Marks(h)) = header_pool[h].maxnum => Marks(h) = BlocksOf(h)
<1> DEFINE n == header_pool[h].maxnum
<1>1. n \in 0 .. MaxNum /\ n \in Nat /\ header_pool[h].blocks \in Int
  BY Constants DEF TypeOK
<1>2. BlocksOf(h) = 0 .. n - 1 /\ BlocksOf(h) \subseteq Blocks
  BY <1>1, Constants DEF BlocksOf, Blocks
<1>3. IsFiniteSet(0 .. n - 1) /\ Cardinality(0 .. n - 1) = n
  <2>1. 0 \in Int /\ n - 1 \in Int /\ (IF 0 > n - 1 THEN 0 ELSE n - 1 - 0 + 1) = n
    BY <1>1
  <2> HIDE DEF n
  <2>2. /\ IsFiniteSet(0 .. n - 1)
        /\ Cardinality(0 .. n - 1) = IF 0 > n - 1 THEN 0 ELSE n - 1 - 0 + 1
    BY <2>1, FS_Interval
  <2> QED BY <2>1, <2>2
<1>4. Marks(h) \in SUBSET BlocksOf(h)
  BY DEF Marks
<1>5. /\ IsFiniteSet(Marks(h)) /\ Cardinality(Marks(h)) <= Cardinality(BlocksOf(h))
      /\ Cardinality(BlocksOf(h)) = Cardinality(Marks(h)) => BlocksOf(h) = Marks(h)
  BY <1>2, <1>3, <1>4, FS_Subset
<1>6. Cardinality(Marks(h)) \in Nat
  BY <1>5, FS_CardinalityType
<1> QED BY <1>1, <1>2, <1>3, <1>5, <1>6

(* A heap whose blocks are neither all marked nor miscounted has a block    *)
(* that is not marked.                                                      *)
LEMMA RoomIsFree ==
  ASSUME TypeOK, Counts, NEW h \in Heaps, Live(h),
         header_pool[h].blocks < header_pool[h].maxnum
  PROVE  \E b \in BlocksOf(h) : Head(h, b) = 0
<1>1. Marks(h) # BlocksOf(h)
  BY BlocksFinite DEF Counts
<1>2. PICK b \in BlocksOf(h) : Head(h, b) # 1
  BY <1>1 DEF Marks
<1>3. b \in Blocks /\ header_pool[h].heap \in Regions
  BY BlocksFinite DEF TypeOK, Live
<1>4. Head(h, b) \in {0, 1}
  BY <1>3 DEF Head, TypeOK
<1> QED BY <1>2, <1>4

-----------------------------------------------------------------------------
(* What each change of the pool leaves, pointwise.                          *)

SameShape ==     \* of all heaps: everything but the counters
  \A g \in Heaps :
    /\ header_pool'[g].heap = header_pool[g].heap
    /\ header_pool'[g].maxnum = header_pool[g].maxnum
    /\ header_pool'[g].hooks = header_pool[g].hooks
    /\ header_pool'[g].user = header_pool[g].user

PoolTyped == header_pool \in [Heaps -> [heap : Regions \cup {None}, maxnum : 0 .. MaxNum,
                                        blocks : Int, indx : Nat, hooks : BOOLEAN,
                                        user : Threads \cup {None}]]
HeaderTyped == header \in [Regions -> [Blocks -> {0, 1}]]

LEMMA TakeChanges ==
  ASSUME TypeOK, NEW h \in Heaps, NEW b, Live(h), Take(h, b)
  PROVE  /\ PoolTyped' /\ HeaderTyped' /\ SameShape
         /\ b \in BlocksOf(h) /\ Head(h, b) = 0
         /\ \A g \in Heaps : header_pool'[g].blocks
              = IF g = h THEN header_pool[g].blocks + 1 ELSE header_pool[g].blocks
         /\ \A r \in Regions, c \in Blocks : header'[r][c]
              = IF r = header_pool[h].heap /\ c = b THEN 1 ELSE header[r][c]
         /\ out' = out \cup {<<h, b>>} /\ UNCHANGED <<cheap_idx, nheaps>>
<1>1. b \in BlocksOf(h) /\ Head(h, b) = 0 /\ b \in Blocks
  BY BlocksFinite DEF Take, IsNextBlock
<1>2. header_pool[h].heap \in Regions
  BY DEF TypeOK, Live
<1>3. b \in Nat /\ header_pool[h].maxnum \in Nat
  BY <1>1, BlocksFinite, Constants DEF Blocks
<1>4. Turn(b, header_pool[h].maxnum) \in Nat
  BY <1>3 DEF Turn
<1>5. header_pool' = [header_pool EXCEPT ![h].blocks = @ + 1,
                                          ![h].indx = Turn(b, header_pool[h].maxnum)]
  BY DEF Take
<1>6. PoolTyped' /\ SameShape
      /\ \A g \in Heaps : header_pool'[g].blocks
           = IF g = h THEN header_pool[g].blocks + 1 ELSE header_pool[g].blocks
  <2> DEFINE next == Turn(b, header_pool[h].maxnum)
             old  == header_pool[h]
             mid  == [old EXCEPT !.blocks = @ + 1]
             new  == [mid EXCEPT !.indx = next]
             Type == [heap : Regions \cup {None}, maxnum : 0 .. MaxNum, blocks : Int,
                      indx : Nat, hooks : BOOLEAN, user : Threads \cup {None}]
  <2>1. PoolTyped /\ next \in Nat
    BY <1>4 DEF TypeOK, PoolTyped
  <2>2. header_pool' = [header_pool EXCEPT ![h] = new]
    BY <1>5, <2>1 DEF PoolTyped
  <2>3. old \in Type
    BY <2>1 DEF PoolTyped
  <2>4. /\ mid \in Type /\ mid.heap = old.heap /\ mid.maxnum = old.maxnum
        /\ mid.blocks = old.blocks + 1 /\ mid.hooks = old.hooks /\ mid.user = old.user
    <3> HIDE DEF old
    <3> QED BY <2>3
  <2>5. /\ new \in Type /\ new.heap = mid.heap /\ new.maxnum = mid.maxnum
        /\ new.blocks = mid.blocks /\ new.hooks = mid.hooks /\ new.user = mid.user
    <3> HIDE DEF mid, next
    <3> QED BY <2>1, <2>4
  <2> HIDE DEF new, mid
  <2> QED BY <2>1, <2>2, <2>4, <2>5 DEF PoolTyped, SameShape
<1>7. header' = [header EXCEPT ![header_pool[h].heap][b] = 1]
  BY DEF Take
<1>8. HeaderTyped' /\ \A r \in Regions, c \in Blocks : header'[r][c]
        = IF r = header_pool[h].heap /\ c = b THEN 1 ELSE header[r][c]
  BY <1>1, <1>2, <1>7 DEF TypeOK, HeaderTyped
<1> QED BY <1>1, <1>6, <1>8 DEF Take

LEMMA GiveBackChanges ==
  ASSUME TypeOK, NEW h \in Heaps, NEW b \in Blocks, Live(h), GiveBack(h, b)
  PROVE  /\ PoolTyped' /\ HeaderTyped' /\ SameShape
         /\ \A g \in Heaps : header_pool'[g].blocks
              = IF g = h THEN header_pool[g].blocks - 1 ELSE header_pool[g].blocks
         /\ \A r \in Regions, c \in Blocks : header'[r][c]
              = IF r = header_pool[h].heap /\ c = b THEN 0 ELSE header[r][c]
         /\ UNCHANGED <<cheap_idx, nheaps>>
<1>1. header_pool[h].heap \in Regions
  BY DEF TypeOK, Live
<1>2. header_pool' = [header_pool EXCEPT ![h].blocks = @ - 1]
  BY DEF GiveBack
<1>3. PoolTyped' /\ SameShape
      /\ \A g \in Heaps : header_pool'[g].blocks
           = IF g = h THEN header_pool[g].blocks - 1 ELSE header_pool[g].blocks
  BY <1>2 DEF TypeOK, PoolTyped, SameShape
<1>4. header' = [header EXCEPT ![header_pool[h].heap][b] = 0]
  BY DEF GiveBack
<1>5. HeaderTyped' /\ \A r \in Regions, c \in Blocks : header'[r][c]
        = IF r = header_pool[h].heap /\ c = b THEN 0 ELSE header[r][c]
  BY <1>1, <1>4 DEF TypeOK, HeaderTyped
<1> QED BY <1>3, <1>5 DEF GiveBack

-----------------------------------------------------------------------------
(* The parts of the invariant about the heaps.                              *)
HeapsOK == HeapsCounted /\ Counts /\ Disjoint /\ Blank

LEMMA ShapeKept ==
  ASSUME SameShape, NEW g \in Heaps
  PROVE  Live(g)' = Live(g) /\ BlocksOf(g)' = BlocksOf(g)
BY DEF SameShape, Live, BlocksOf

LEMMA CountKept ==
  ASSUME HeapsCounted, SameShape, nheaps' = nheaps
  PROVE  HeapsCounted'
<1>1. {h \in Heaps : Live(h)}' = {h \in Heaps : Live(h)}
  BY ShapeKept
<1> QED BY <1>1 DEF HeapsCounted

LEMMA DisjointKept ==
  ASSUME Disjoint, SameShape
  PROVE  Disjoint'
BY DEF Disjoint, SameShape, Live

(* A block is marked, and nothing else happens to any mark.                 *)
LEMMA TakeKeeps ==
  ASSUME TypeOK, HeapsOK, NEW h \in Heaps, NEW b, Live(h), Take(h, b)
  PROVE  /\ HeapsOK' /\ IsMarked(h, b)' /\ ~IsMarked(h, b)
         /\ \A g \in Heaps, c \in Blocks : IsMarked(g, c) => IsMarked(g, c)'
         /\ \A g \in Heaps, c \in Blocks : IsMarked(g, c)' => IsMarked(g, c) \/ (g = h /\ c = b)
<1>1. /\ SameShape /\ b \in BlocksOf(h) /\ Head(h, b) = 0
      /\ \A g \in Heaps : header_pool'[g].blocks
           = IF g = h THEN header_pool[g].blocks + 1 ELSE header_pool[g].blocks
      /\ \A r \in Regions, c \in Blocks : header'[r][c]
           = IF r = header_pool[h].heap /\ c = b THEN 1 ELSE header[r][c]
      /\ UNCHANGED nheaps
  BY TakeChanges
<1>2. \A g \in Heaps : BlocksOf(g) \subseteq Blocks
  BY BlocksFinite
<1>3. \A g \in Heaps : Live(g) => header_pool[g].heap \in Regions
  BY DEF TypeOK, Live
<1>4. ASSUME NEW g \in Heaps, Live(g), NEW c \in Blocks
      PROVE  Head(g, c)' = IF g = h /\ c = b THEN 1 ELSE Head(g, c)
  <2>1. header_pool[g].heap = header_pool[h].heap => g = h
    BY <1>4 DEF HeapsOK, Disjoint
  <2> QED BY <1>1, <1>3, <1>4, <2>1 DEF Head, SameShape
<1>5. ASSUME NEW g \in Heaps, Live(g)
      PROVE  Marks(g)' = IF g = h THEN Marks(g) \cup {b} ELSE Marks(g)
  BY <1>1, <1>2, <1>4, <1>5, ShapeKept DEF Marks
<1>6. b \notin Marks(h)
  BY <1>1 DEF Marks
<1>7. Counts'
  <2> SUFFICES ASSUME NEW g \in Heaps, Live(g)
               PROVE  header_pool'[g].blocks = Cardinality(Marks(g)')
    BY <1>1, ShapeKept DEF Counts
  <2>1. header_pool[g].blocks = Cardinality(Marks(g)) /\ IsFiniteSet(Marks(g))
    BY BlocksFinite DEF HeapsOK, Counts
  <2>2. b \notin Marks(g) => Cardinality(Marks(g) \cup {b}) = Cardinality(Marks(g)) + 1
    BY <2>1, FS_AddElement
  <2> QED BY <2>1, <2>2, <1>1, <1>5, <1>6
<1>8. Blank'
  <2> SUFFICES ASSUME NEW r \in Areas, NEW c \in Blocks, header'[r][c] # 0
               PROVE  \E g \in Heaps : header_pool'[g].heap = r /\ c \in BlocksOf(g)'
    BY DEF Blank
  <2>1. r \in Regions /\ (header[r][c] # 0 \/ (r = header_pool[h].heap /\ c = b))
    BY <1>1, Constants
  <2>2. PICK g \in Heaps : header_pool[g].heap = r /\ c \in BlocksOf(g)
    BY <1>1, <2>1 DEF HeapsOK, Blank
  <2> QED BY <2>2, <1>1, ShapeKept DEF SameShape
<1>9. HeapsOK'
  BY <1>1, <1>7, <1>8, CountKept, DisjointKept DEF HeapsOK
<1>10. ASSUME NEW g \in Heaps, NEW c \in Blocks
       PROVE  IsMarked(g, c)' <=> IsMarked(g, c) \/ (g = h /\ c = b)
  BY <1>1, <1>4, ShapeKept DEF IsMarked
<1>11. b \in Blocks /\ ~IsMarked(h, b)
  BY <1>1, <1>2 DEF IsMarked
<1> QED BY <1>9, <1>10, <1>11

(* A marked block is unmarked, and nothing else happens to any mark.        *)
LEMMA GiveBackKeeps ==
  ASSUME TypeOK, HeapsOK, NEW h \in Heaps, NEW b \in Blocks, IsMarked(h, b), GiveBack(h, b)
  PROVE  /\ HeapsOK' /\ ~IsMarked(h, b)'
         /\ \A g \in Heaps, c \in Blocks : IsMarked(g, c)' => IsMarked(g, c)
         /\ \A g \in Heaps, c \in Blocks : IsMarked(g, c) => IsMarked(g, c)' \/ (g = h /\ c = b)
<1>0. Live(h) /\ b \in BlocksOf(h) /\ Head(h, b) = 1
  BY DEF IsMarked
<1>1. /\ SameShape
      /\ \A g \in Heaps : header_pool'[g].blocks
           = IF g = h THEN header_pool[g].blocks - 1 ELSE header_pool[g].blocks
      /\ \A r \in Regions, c \in Blocks : header'[r][c]
           = IF r = header_pool[h].heap /\ c = b THEN 0 ELSE header[r][c]
      /\ UNCHANGED nheaps
  BY <1>0, GiveBackChanges
<1>2. \A g \in Heaps : BlocksOf(g) \subseteq Blocks
  BY BlocksFinite
<1>3. \A g \in Heaps : Live(g) => header_pool[g].heap \in Regions
  BY DEF TypeOK, Live
<1>4. ASSUME NEW g \in Heaps, Live(g), NEW c \in Blocks
      PROVE  Head(g, c)' = IF g = h /\ c = b THEN 0 ELSE Head(g, c)
  <2>1. header_pool[g].heap = header_pool[h].heap => g = h
    BY <1>0, <1>4 DEF HeapsOK, Disjoint
  <2> QED BY <1>1, <1>3, <1>4, <2>1 DEF Head, SameShape
<1>5. ASSUME NEW g \in Heaps, Live(g)
      PROVE  Marks(g)' = IF g = h THEN Marks(g) \ {b} ELSE Marks(g)
  BY <1>1, <1>2, <1>4, <1>5, ShapeKept DEF Marks
<1>6. b \in Marks(h)
  BY <1>0 DEF Marks
<1>7. Counts'
  <2> SUFFICES ASSUME NEW g \in Heaps, Live(g)
               PROVE  header_pool'[g].blocks = Cardinality(Marks(g)')
    BY <1>1, ShapeKept DEF Counts
  <2>1. header_pool[g].blocks = Cardinality(Marks(g)) /\ IsFiniteSet(Marks(g))
    BY BlocksFinite DEF HeapsOK, Counts
  <2>2. b \in Marks(g) => Cardinality(Marks(g) \ {b}) = Cardinality(Marks(g)) - 1
    BY <2>1, FS_RemoveElement
  <2> QED BY <2>1, <2>2, <1>1, <1>5, <1>6
<1>8. Blank'
  <2> SUFFICES ASSUME NEW r \in Areas, NEW c \in Blocks, header'[r][c] # 0
               PROVE  \E g \in Heaps : header_pool'[g].heap = r /\ c \in BlocksOf(g)'
    BY DEF Blank
  <2>1. r \in Regions /\ (header[r][c] # 0 \/ (r = header_pool[h].heap /\ c = b))
    BY <1>1, Constants
  <2>2. PICK g \in Heaps : header_pool[g].heap = r /\ c \in BlocksOf(g)
    BY <1>0, <1>1, <2>1 DEF HeapsOK, Blank
  <2> QED BY <2>2, <1>1, ShapeKept DEF SameShape
<1>9. HeapsOK'
  BY <1>1, <1>7, <1>8, CountKept, DisjointKept DEF HeapsOK
<1>10. ASSUME NEW g \in Heaps, NEW c \in Blocks
       PROVE  IsMarked(g, c)' <=> IsMarked(g, c) /\ ~(g = h /\ c = b)
  BY <1>1, <1>4, ShapeKept DEF IsMarked
<1> QED BY <1>9, <1>10

-----------------------------------------------------------------------------
(* tk_create_heap adds a live heap without marks, in a region of its own.   *)
LEMMA CreateChanges ==
  ASSUME TypeOK, Blank, NEW t \in Threads, NEW r \in Regions, NEW n \in Sizes,
         NEW keep \in BOOLEAN, NEW hooks \in BOOLEAN, Create(t, r, n, keep, hooks)
  PROVE  \E h \in Heaps :
           /\ ~Live(h) /\ cheap_idx' \in Heaps
           /\ PoolTyped' /\ HeaderTyped'
           /\ header_pool'[h].heap = r /\ header_pool'[h].maxnum = n
           /\ header_pool'[h].blocks = 0
           /\ \A g \in Heaps \ {h} : header_pool'[g] = header_pool[g]
           /\ \A b \in Blocks : (b < n \/ r \in Areas) => header'[r][b] = 0
           /\ \A q \in Regions \ {r} : header'[q] = header[q]
           /\ \A g \in Heaps : header_pool[g].heap # r
           /\ nheaps' = nheaps + 1 /\ UNCHANGED <<pc, at, arg, out>>
<1> DEFINE new == [heap |-> r, maxnum |-> n, hooks |-> hooks,
                   user |-> IF hooks THEN t ELSE None,
                   blocks |-> IF keep THEN Counted(r, n) ELSE 0,
                   indx |-> IF keep THEN LastFree(r, n) ELSE 0]
<1>1. PICK h \in Heaps : Found(h) /\ header_pool' = [header_pool EXCEPT ![h] = new]
  BY DEF Create
<1>2. /\ \A g \in Heaps : header_pool[g].heap # r
      /\ header' = IF keep THEN header
                   ELSE [header EXCEPT ![r] = [b \in Blocks |-> IF b < n THEN 0 ELSE @[b]]]
      /\ keep => r \in Areas
      /\ nheaps' = nheaps + 1 /\ UNCHANGED <<pc, at, arg, out>>
  BY DEF Create
<1>3. n \in 0 .. MaxNum /\ n \in Nat
  BY Constants
<1>4. ~Live(h) /\ cheap_idx' = Turn(h, NHeaps)
  BY <1>1 DEF Found, IsFound
<1>5. cheap_idx' \in Heaps
  BY <1>4, Constants DEF Turn, Heaps
<1>6. \A b \in Blocks : r \in Areas => header[r][b] = 0
  BY <1>2 DEF Blank
<1>7. Counted(r, n) = 0 \/ ~keep
  <2>1. n > 0 => 0 \in Blocks
    BY <1>3, Constants DEF Blocks
  <2> QED BY <1>2, <1>6, <2>1 DEF Counted
<1>8. LastFree(r, n) \in Nat
  BY <1>3 DEF LastFree
<1>9. /\ new \in [heap : Regions \cup {None}, maxnum : 0 .. MaxNum, blocks : Int,
                  indx : Nat, hooks : BOOLEAN, user : Threads \cup {None}]
      /\ new.heap = r /\ new.maxnum = n /\ new.blocks = 0
  BY <1>3, <1>7, <1>8
<1>10. /\ PoolTyped' /\ header_pool'[h] = new
       /\ \A g \in Heaps \ {h} : header_pool'[g] = header_pool[g]
  <2> HIDE DEF new
  <2> QED BY <1>1, <1>9 DEF TypeOK, PoolTyped
<1>11. /\ HeaderTyped'
       /\ \A b \in Blocks : (b < n \/ r \in Areas) => header'[r][b] = 0
       /\ \A q \in Regions \ {r} : header'[q] = header[q]
  <2>1. CASE keep
    BY <2>1, <1>2, <1>6 DEF TypeOK, HeaderTyped
  <2>2. CASE ~keep
    <3> DEFINE row == [b \in Blocks |-> IF b < n THEN 0 ELSE header[r][b]]
    <3>1. row \in [Blocks -> {0, 1}]
      BY DEF TypeOK
    <3>2. \A b \in Blocks : (b < n \/ r \in Areas) => row[b] = 0
      BY <1>6
    <3>3. header' = [header EXCEPT ![r] = row]
      BY <2>2, <1>2
    <3> HIDE DEF row
    <3> QED BY <3>1, <3>2, <3>3 DEF TypeOK, HeaderTyped
  <2> QED BY <2>1, <2>2
<1> HIDE DEF new
<1> QED BY <1>1, <1>2, <1>4, <1>5, <1>9, <1>10, <1>11

LEMMA LiveFinite ==
  IsFiniteSet({g \in Heaps : Live(g)})
<1>1. IsFiniteSet(Heaps)
  <2>1. NHeaps - 1 \in Int
    BY Constants
  <2> QED BY <2>1, FS_Interval DEF Heaps
<1>2. {g \in Heaps : Live(g)} \in SUBSET Heaps
  OBVIOUS
<1> QED BY <1>1, <1>2, FS_Subset

LEMMA CreateKeeps ==
  ASSUME TypeOK, HeapsOK, NEW t \in Threads, NEW r \in Regions, NEW n \in Sizes,
         NEW keep \in BOOLEAN, NEW hooks \in BOOLEAN, Create(t, r, n, keep, hooks)
  PROVE  /\ TypeOK' /\ HeapsOK' /\ UNCHANGED <<pc, at, arg, out>>
         /\ \A g \in Heaps : Live(g) => Live(g)' /\ header_pool'[g] = header_pool[g]
         /\ \E h \in Heaps :
              ~Live(h) /\ \A g \in Heaps \ {h} : header_pool'[g] = header_pool[g]
         /\ \A g \in Heaps, c \in Blocks : IsMarked(g, c) <=> IsMarked(g, c)'
<1>1. PICK h \in Heaps :
        /\ ~Live(h) /\ cheap_idx' \in Heaps
        /\ PoolTyped' /\ HeaderTyped'
        /\ header_pool'[h].heap = r /\ header_pool'[h].maxnum = n
        /\ header_pool'[h].blocks = 0
        /\ \A g \in Heaps \ {h} : header_pool'[g] = header_pool[g]
        /\ \A b \in Blocks : (b < n \/ r \in Areas) => header'[r][b] = 0
        /\ \A q \in Regions \ {r} : header'[q] = header[q]
        /\ \A g \in Heaps : header_pool[g].heap # r
        /\ nheaps' = nheaps + 1 /\ UNCHANGED <<pc, at, arg, out>>
  BY CreateChanges DEF HeapsOK
<1>2. TypeOK'
  BY <1>1 DEF TypeOK, PoolTyped, HeaderTyped
<1>3. n \in Nat /\ 0 .. n - 1 \subseteq Blocks
  BY Constants DEF Blocks
<1>4. \A g \in Heaps : Live(g)' <=> Live(g) \/ g = h
  BY <1>1, Constants DEF Live
<1>5. \A g \in Heaps \ {h} : Live(g) =>
        /\ BlocksOf(g)' = BlocksOf(g)
        /\ \A c \in Blocks : Head(g, c)' = Head(g, c)
  <2> SUFFICES ASSUME NEW g \in Heaps \ {h}, Live(g), NEW c \in Blocks
               PROVE  BlocksOf(g)' = BlocksOf(g) /\ Head(g, c)' = Head(g, c)
    BY <1>1 DEF BlocksOf
  <2>1. header_pool[g].heap \in Regions \ {r}
    BY <1>1 DEF TypeOK, Live
  <2> QED BY <1>1, <2>1 DEF BlocksOf, Head
<1>6. BlocksOf(h)' = 0 .. n - 1 /\ \A c \in BlocksOf(h)' : Head(h, c)' = 0
  BY <1>1, <1>3 DEF BlocksOf, Head
<1>7. HeapsCounted'
  <2>1. {g \in Heaps : Live(g)}' = {g \in Heaps : Live(g)} \cup {h}
    BY <1>4
  <2>2. h \notin {g \in Heaps : Live(g)}
    BY <1>1
  <2>3. Cardinality({g \in Heaps : Live(g)} \cup {h}) = Cardinality({g \in Heaps : Live(g)}) + 1
    BY <2>2, LiveFinite, FS_AddElement
  <2> QED BY <2>1, <2>3, <1>1 DEF HeapsOK, HeapsCounted
<1>8. Counts'
  <2> SUFFICES ASSUME NEW g \in Heaps, Live(g)'
               PROVE  header_pool'[g].blocks = Cardinality(Marks(g)')
    BY DEF Counts
  <2>1. CASE g = h
    <3>1. Marks(g)' = {}
      BY <2>1, <1>6 DEF Marks
    <3> QED BY <3>1, <2>1, <1>1, FS_EmptySet
  <2>2. CASE g # h
    <3>1. Live(g) /\ BlocksOf(g) \subseteq Blocks
      BY <2>2, <1>4, BlocksFinite
    <3>2. Marks(g)' = Marks(g)
      BY <2>2, <3>1, <1>5 DEF Marks
    <3> QED BY <2>2, <3>1, <3>2, <1>1 DEF HeapsOK, Counts
  <2> QED BY <2>1, <2>2
<1>9. Disjoint'
  BY <1>1, <1>4 DEF HeapsOK, Disjoint
<1>10. Blank'
  <2> SUFFICES ASSUME NEW q \in Areas, NEW c \in Blocks, header'[q][c] # 0
               PROVE  \E g \in Heaps : header_pool'[g].heap = q /\ c \in BlocksOf(g)'
    BY DEF Blank
  <2>1. q # r /\ q \in Regions
    BY <1>1, Constants
  <2>2. PICK g \in Heaps : header_pool[g].heap = q /\ c \in BlocksOf(g)
    BY <2>1, <1>1 DEF HeapsOK, Blank
  <2>3. Live(g)
    BY <2>1, <2>2, Constants DEF Live
  <2> QED BY <2>2, <2>3, <1>1, <1>5
<1>11. \A g \in Heaps, c \in Blocks : IsMarked(g, c) <=> IsMarked(g, c)'
  <2> SUFFICES ASSUME NEW g \in Heaps, NEW c \in Blocks
               PROVE  IsMarked(g, c) <=> IsMarked(g, c)'
    OBVIOUS
  <2>1. CASE g = h
    BY <2>1, <1>1, <1>6 DEF IsMarked
  <2>2. CASE g # h /\ Live(g)
    BY <2>2, <1>4, <1>5 DEF IsMarked
  <2>3. CASE g # h /\ ~Live(g)
    BY <2>3, <1>4 DEF IsMarked
  <2> QED BY <2>1, <2>2, <2>3
<1> QED BY <1>1, <1>2, <1>4, <1>7, <1>8, <1>9, <1>10, <1>11 DEF HeapsOK

(* tk_destroy_heap takes away a heap of which no block is marked.           *)
LEMMA DestroyKeeps ==
  ASSUME TypeOK, HeapsOK, NEW t \in Threads, NEW h \in Heaps, Destroy(t, h)
  PROVE  /\ TypeOK' /\ HeapsOK' /\ UNCHANGED <<pc, at, arg, out>>
         /\ \A g \in Heaps \ {h} : Live(g) <=> Live(g)'
         /\ \A g \in Heaps \ {h} : header_pool'[g] = header_pool[g]
         /\ ~Live(h)' /\ \A c \in Blocks : ~IsMarked(h, c)
         /\ \A g \in Heaps, c \in Blocks : IsMarked(g, c) <=> IsMarked(g, c)'
<1>1. /\ Live(h) /\ header_pool[h].blocks = 0
      /\ header_pool' = [header_pool EXCEPT ![h] = Unused]
      /\ nheaps' = nheaps - 1 /\ UNCHANGED <<cheap_idx, header, pc, at, arg, out>>
  BY DEF Destroy, Idle
<1>2. Unused \in [heap : Regions \cup {None}, maxnum : 0 .. MaxNum, blocks : Int,
                  indx : Nat, hooks : BOOLEAN, user : Threads \cup {None}]
  BY Constants DEF Unused
<1>3. /\ PoolTyped' /\ header_pool'[h] = Unused
      /\ \A g \in Heaps \ {h} : header_pool'[g] = header_pool[g]
  BY <1>1, <1>2 DEF TypeOK, PoolTyped
<1>4. TypeOK'
  BY <1>1, <1>3 DEF TypeOK, PoolTyped
<1>5. ~Live(h)' /\ \A g \in Heaps \ {h} : Live(g)' <=> Live(g)
  BY <1>3 DEF Live, Unused
<1>6. \A g \in Heaps \ {h} :
        /\ BlocksOf(g)' = BlocksOf(g)
        /\ \A c \in Blocks : Head(g, c)' = Head(g, c)
  BY <1>1, <1>3 DEF BlocksOf, Head
<1>7. Marks(h) = {} /\ BlocksOf(h) \subseteq Blocks
  BY <1>1, BlocksFinite, FS_EmptySet DEF HeapsOK, Counts
<1>8. \A c \in BlocksOf(h) : Head(h, c) = 0
  <2> SUFFICES ASSUME NEW c \in BlocksOf(h) PROVE Head(h, c) = 0
    OBVIOUS
  <2>1. header_pool[h].heap \in Regions /\ c \in Blocks
    BY <1>1, <1>7 DEF TypeOK, Live
  <2>2. Head(h, c) \in {0, 1}
    BY <2>1 DEF TypeOK, Head
  <2> QED BY <2>2, <1>7 DEF Marks
<1>9. HeapsCounted'
  <2>1. {g \in Heaps : Live(g)}' = {g \in Heaps : Live(g)} \ {h}
    BY <1>5
  <2>2. h \in {g \in Heaps : Live(g)}
    BY <1>1
  <2>3. Cardinality({g \in Heaps : Live(g)} \ {h}) = Cardinality({g \in Heaps : Live(g)}) - 1
    BY <2>2, LiveFinite, FS_RemoveElement
  <2> QED BY <2>1, <2>3, <1>1 DEF HeapsOK, HeapsCounted
<1>10. Counts'
  <2> SUFFICES ASSUME NEW g \in Heaps, Live(g)'
               PROVE  header_pool'[g].blocks = Cardinality(Marks(g)')
    BY DEF Counts
  <2>1. g # h /\ Live(g) /\ BlocksOf(g) \subseteq Blocks
    BY <1>5, BlocksFinite
  <2>2. Marks(g)' = Marks(g)
    BY <2>1, <1>6 DEF Marks
  <2> QED BY <2>1, <2>2, <1>3 DEF HeapsOK, Counts
<1>11. Disjoint'
  BY <1>3, <1>5 DEF HeapsOK, Disjoint
<1>12. Blank'
  <2> SUFFICES ASSUME NEW q \in Areas, NEW c \in Blocks, header[q][c] # 0
               PROVE  \E g \in Heaps : header_pool'[g].heap = q /\ c \in BlocksOf(g)'
    BY <1>1 DEF Blank
  <2>1. PICK g \in Heaps : header_pool[g].heap = q /\ c \in BlocksOf(g)
    BY DEF HeapsOK, Blank
  <2>2. g # h
    BY <2>1, <1>8 DEF Head
  <2> QED BY <2>1, <2>2, <1>3, <1>6
<1>13. \A g \in Heaps, c \in Blocks : IsMarked(g, c) <=> IsMarked(g, c)'
  BY <1>5, <1>6, <1>8 DEF IsMarked
<1>14. \A c \in Blocks : ~IsMarked(h, c)
  BY <1>8 DEF IsMarked
<1> QED BY <1>1, <1>3, <1>4, <1>5, <1>9, <1>10, <1>11, <1>12, <1>13, <1>14 DEF HeapsOK

-----------------------------------------------------------------------------
(* The invariant.                                                           *)
InUse == OutMarked /\ BackMarked /\ HeldOnce

(* A step that leaves the marks and the clients alone.                      *)
LEMMA InUseKept ==
  ASSUME InUse, UNCHANGED <<pc, at, arg, out>>,
         \A g \in Heaps, c \in Blocks : IsMarked(g, c) => IsMarked(g, c)'
  PROVE  InUse'
BY DEF InUse, OutMarked, BackMarked, HeldOnce, IsMarked

LEMMA TakeStep ==
  ASSUME IInv, NEW t \in Threads, NEW h \in Heaps, NEW b \in Blocks,
         Live(h), Take(h, b), UNCHANGED arg,
         \/ UNCHANGED <<pc, at>> /\ ~header_pool[h].hooks
         \/ /\ pc[t] = "malloct" /\ at[t] = h
            /\ pc' = [pc EXCEPT ![t] = "user"] /\ at' = [at EXCEPT ![t] = None]
  PROVE  IInv'
<1>1. /\ HeapsOK' /\ IsMarked(h, b)' /\ ~IsMarked(h, b)
      /\ \A g \in Heaps, c \in Blocks : IsMarked(g, c) => IsMarked(g, c)'
  BY TakeKeeps DEF IInv, HeapsOK
<1>2. /\ PoolTyped' /\ HeaderTyped' /\ SameShape
      /\ \A g \in Heaps : header_pool'[g].blocks
           = IF g = h THEN header_pool[g].blocks + 1 ELSE header_pool[g].blocks
      /\ out' = out \cup {<<h, b>>} /\ UNCHANGED <<cheap_idx, nheaps>>
  BY TakeChanges DEF IInv
<1>3. /\ pc' \in [Threads -> {"user", "malloct", "free"}]
      /\ at' \in [Threads -> Heaps \cup {None}]
      /\ \A u \in Threads : /\ pc'[u] = "free" => pc[u] = "free" /\ at'[u] = at[u]
                            /\ pc'[u] = "malloct" => pc[u] = "malloct" /\ at'[u] = at[u]
      /\ \A u \in Threads : pc'[u] = "malloct" => at[u] # h
  BY DEF IInv, TypeOK, RoomKept
<1>4. TypeOK'
  BY <1>2, <1>3 DEF IInv, TypeOK, PoolTyped, HeaderTyped
<1>5. OutMarked'
  BY <1>1, <1>2 DEF IInv, OutMarked
<1>6. BackMarked'
  <2> SUFFICES ASSUME NEW u \in Threads, pc'[u] = "free"
               PROVE  /\ arg'[u] \in Blocks /\ IsMarked(at[u], arg[u])'
                      /\ <<at'[u], arg'[u]>> \notin out'
    BY DEF BackMarked
  <2>1. PICK g \in Heaps, c \in Blocks :
          /\ g = at[u] /\ c = arg[u] /\ g = at'[u] /\ c = arg'[u]
          /\ IsMarked(g, c) /\ <<g, c>> \notin out
    BY <1>3 DEF IInv, BackMarked, IsMarked
  <2>2. ~(g = h /\ c = b) /\ IsMarked(g, c)'
    BY <2>1, <1>1
  <2>3. <<g, c>> \notin out'
    BY <2>1, <2>2, <1>2
  <2>4. IsMarked(at[u], arg[u])'
    BY <2>1, <2>2 DEF IsMarked
  <2> QED BY <2>1, <2>3, <2>4
<1>7. HeldOnce'
  BY <1>3 DEF IInv, HeldOnce
<1>8. RoomKept'
  BY <1>2, <1>3, ShapeKept DEF IInv, RoomKept, SameShape, Live
<1> QED BY <1>1, <1>4, <1>5, <1>6, <1>7, <1>8 DEF IInv, HeapsOK

LEMMA GiveStep ==
  ASSUME IInv, NEW t \in Threads, NEW h \in Heaps, NEW b \in Blocks,
         IsMarked(h, b), GiveBack(h, b),
         \/ <<h, b>> \in out /\ out' = out \ {<<h, b>>} /\ UNCHANGED <<pc, at, arg>>
         \/ /\ pc[t] = "free" /\ at[t] = h /\ arg[t] = b /\ out' = out
            /\ pc' = [pc EXCEPT ![t] = "user"]
            /\ at' = [at EXCEPT ![t] = None] /\ arg' = [arg EXCEPT ![t] = None]
  PROVE  IInv'
<1>1. /\ HeapsOK' /\ ~IsMarked(h, b)'
      /\ \A g \in Heaps, c \in Blocks :
           IsMarked(g, c) => IsMarked(g, c)' \/ (g = h /\ c = b)
  BY GiveBackKeeps DEF IInv, HeapsOK
<1>2. /\ PoolTyped' /\ HeaderTyped' /\ SameShape
      /\ \A g \in Heaps : header_pool'[g].blocks
           = IF g = h THEN header_pool[g].blocks - 1 ELSE header_pool[g].blocks
      /\ UNCHANGED <<cheap_idx, nheaps>>
  BY GiveBackChanges DEF IInv, IsMarked
<1>3. /\ pc' \in [Threads -> {"user", "malloct", "free"}]
      /\ at' \in [Threads -> Heaps \cup {None}] /\ arg' \in [Threads -> Blocks \cup {None}]
      /\ \A u \in Threads :
           /\ pc'[u] = "free" => pc[u] = "free" /\ at'[u] = at[u] /\ arg'[u] = arg[u]
           /\ pc'[u] = "malloct" => pc[u] = "malloct" /\ at'[u] = at[u]
      /\ out' \subseteq out
  BY DEF IInv, TypeOK
<1>4. TypeOK'
  BY <1>2, <1>3 DEF IInv, TypeOK, PoolTyped, HeaderTyped
<1>5. <<h, b>> \notin out'
  BY DEF IInv, BackMarked
<1>6. OutMarked'
  <2> SUFFICES ASSUME NEW g \in Heaps, NEW c \in Blocks, <<g, c>> \in out'
               PROVE  IsMarked(g, c)'
    BY DEF OutMarked
  <2>1. IsMarked(g, c) /\ ~(g = h /\ c = b)
    BY <1>3, <1>5 DEF IInv, OutMarked
  <2> QED BY <2>1, <1>1
<1>7. \A u \in Threads : pc'[u] = "free" => ~(at[u] = h /\ arg[u] = b)
  BY DEF IInv, TypeOK, BackMarked, HeldOnce
<1>8. BackMarked'
  <2> SUFFICES ASSUME NEW u \in Threads, pc'[u] = "free"
               PROVE  /\ arg'[u] \in Blocks /\ IsMarked(at[u], arg[u])'
                      /\ <<at'[u], arg'[u]>> \notin out'
    BY DEF BackMarked
  <2>1. PICK g \in Heaps, c \in Blocks :
          /\ g = at[u] /\ c = arg[u] /\ g = at'[u] /\ c = arg'[u]
          /\ IsMarked(g, c) /\ <<g, c>> \notin out
    BY <1>3 DEF IInv, BackMarked, IsMarked
  <2>2. IsMarked(g, c)' /\ <<g, c>> \notin out'
    BY <2>1, <1>1, <1>3, <1>7
  <2>3. IsMarked(at[u], arg[u])'
    BY <2>1, <2>2 DEF IsMarked
  <2> QED BY <2>1, <2>2, <2>3
<1>9. HeldOnce'
  BY <1>3 DEF IInv, HeldOnce
<1>10. RoomKept'
  <2> SUFFICES ASSUME NEW u \in Threads, pc'[u] = "malloct"
               PROVE  /\ at'[u] \in Heaps /\ Live(at[u])'
                      /\ header_pool'[at'[u]].hooks /\ header_pool'[at'[u]].user = u
                      /\ header_pool'[at'[u]].blocks < header_pool'[at'[u]].maxnum
    BY DEF RoomKept
  <2>1. PICK g \in Heaps :
          /\ g = at[u] /\ g = at'[u] /\ Live(g)
          /\ header_pool[g].hooks /\ header_pool[g].user = u
          /\ header_pool[g].blocks < header_pool[g].maxnum
    BY <1>3 DEF IInv, RoomKept
  <2>2. header_pool[g].blocks \in Int /\ header_pool[g].maxnum \in Nat
    BY BlocksFinite DEF IInv
  <2>3. /\ header_pool'[g].hooks /\ header_pool'[g].user = u
        /\ header_pool'[g].blocks < header_pool'[g].maxnum
    BY <2>1, <2>2, <1>2 DEF SameShape
  <2>4. Live(at[u])'
    BY <2>1, <1>2 DEF SameShape, Live
  <2> QED BY <2>1, <2>3, <2>4
<1> QED BY <1>1, <1>4, <1>6, <1>8, <1>9, <1>10 DEF IInv, HeapsOK

(* The whole invariant at steps that create, destroy or only test a heap.   *)
LEMMA CreateStep ==
  ASSUME IInv, NEW t \in Threads, NEW r \in Regions, NEW n \in Sizes,
         NEW keep \in BOOLEAN, NEW hooks \in BOOLEAN, Create(t, r, n, keep, hooks)
  PROVE  IInv'
<1>1. /\ TypeOK' /\ HeapsOK' /\ UNCHANGED <<pc, at, arg, out>>
      /\ \A g \in Heaps : Live(g) => Live(g)' /\ header_pool'[g] = header_pool[g]
      /\ \A g \in Heaps, c \in Blocks : IsMarked(g, c) => IsMarked(g, c)'
  BY CreateKeeps DEF IInv, HeapsOK
<1>2. InUse'
  BY <1>1, InUseKept DEF IInv, InUse
<1>3. RoomKept'
  BY <1>1 DEF IInv, RoomKept, Live
<1> QED BY <1>1, <1>2, <1>3 DEF IInv, HeapsOK, InUse

LEMMA DestroyStep ==
  ASSUME IInv, NEW t \in Threads, NEW h \in Heaps, Destroy(t, h)
  PROVE  IInv'
<1>1. /\ TypeOK' /\ HeapsOK' /\ UNCHANGED <<pc, at, arg, out>>
      /\ \A g \in Heaps \ {h} : Live(g) <=> Live(g)'
      /\ \A g \in Heaps \ {h} : header_pool'[g] = header_pool[g]
      /\ \A g \in Heaps, c \in Blocks : IsMarked(g, c) => IsMarked(g, c)'
  BY DestroyKeeps DEF IInv, HeapsOK
<1>2. InUse'
  BY <1>1, InUseKept DEF IInv, InUse
<1>3. \A u \in Threads : pc[u] = "malloct" => at[u] # h
  BY DEF IInv, RoomKept, Destroy
<1>4. RoomKept'
  BY <1>1, <1>3 DEF IInv, RoomKept, Live
<1> QED BY <1>1, <1>2, <1>4 DEF IInv, HeapsOK, InUse

(* Steps that touch neither the pool nor the headers.                       *)
LEMMA HeapsKept ==
  ASSUME HeapsOK, UNCHANGED <<header_pool, nheaps, header>>
  PROVE  /\ HeapsOK'
         /\ \A g \in Heaps, c \in Blocks : IsMarked(g, c) <=> IsMarked(g, c)'
BY DEF HeapsOK, HeapsCounted, Counts, Marks, Disjoint, Blank, IsMarked, Live, BlocksOf, Head

LEMMA CreateFailsStep ==
  ASSUME IInv, CreateFails
  PROVE  IInv'
<1>1. PICK h \in Heaps : cheap_idx' = Turn(h, NHeaps)
  BY DEF CreateFails, Found
<1>2. cheap_idx' \in Heaps
  BY <1>1, Constants DEF Turn, Heaps
<1>3. UNCHANGED <<header_pool, nheaps, header, pc, at, arg, out>>
  BY DEF CreateFails
<1>4. HeapsOK' /\ InUse'
  BY <1>3, HeapsKept, InUseKept DEF IInv, HeapsOK, InUse
<1>5. TypeOK' /\ RoomKept'
  BY <1>2, <1>3 DEF IInv, TypeOK, RoomKept, Live
<1> QED BY <1>4, <1>5 DEF IInv, HeapsOK, InUse

LEMMA MalloctTestStep ==
  ASSUME IInv, NEW t \in Threads, NEW h \in Heaps, MalloctTest(t, h)
  PROVE  IInv'
<1>1. /\ UNCHANGED <<header_pool, cheap_idx, nheaps, header, arg, out>>
      /\ pc[t] = "user" /\ Live(h)
      /\ header_pool[h].hooks /\ header_pool[h].user = t
      /\ header_pool[h].blocks < header_pool[h].maxnum
  BY DEF MalloctTest, HasRoom, MayTake
<1>2. /\ pc' \in [Threads -> {"user", "malloct", "free"}]
      /\ at' \in [Threads -> Heaps \cup {None}]
      /\ pc'[t] = "malloct" /\ at'[t] = h
      /\ \A u \in Threads \ {t} : pc'[u] = pc[u] /\ at'[u] = at[u]
  BY DEF MalloctTest, IInv, TypeOK
<1>3. TypeOK'
  BY <1>1, <1>2 DEF IInv, TypeOK
<1>4. HeapsOK' /\ \A g \in Heaps, c \in Blocks : IsMarked(g, c) <=> IsMarked(g, c)'
  BY <1>1, HeapsKept DEF IInv, HeapsOK
<1>5. OutMarked'
  BY <1>1, <1>4 DEF IInv, OutMarked
<1>6. \A u \in Threads : pc'[u] = "free" =>
        pc[u] = "free" /\ at'[u] = at[u] /\ arg'[u] = arg[u]
  BY <1>1, <1>2
<1>7. BackMarked'
  <2> SUFFICES ASSUME NEW u \in Threads, pc'[u] = "free"
               PROVE  /\ arg'[u] \in Blocks /\ IsMarked(at[u], arg[u])'
                      /\ <<at'[u], arg'[u]>> \notin out'
    BY DEF BackMarked
  <2>1. PICK g \in Heaps, c \in Blocks :
          /\ g = at[u] /\ c = arg[u] /\ g = at'[u] /\ c = arg'[u]
          /\ IsMarked(g, c) /\ <<g, c>> \notin out
    BY <1>6 DEF IInv, BackMarked, IsMarked
  <2>2. IsMarked(g, c)'
    BY <2>1, <1>4
  <2>3. IsMarked(at[u], arg[u])'
    BY <2>1, <2>2 DEF IsMarked
  <2> QED BY <2>1, <2>3, <1>1
<1>8. HeldOnce'
  BY <1>6 DEF IInv, HeldOnce
<1>9. RoomKept'
  BY <1>1, <1>2 DEF IInv, RoomKept, Live
<1> QED BY <1>3, <1>4, <1>5, <1>7, <1>8, <1>9 DEF IInv, HeapsOK

LEMMA FreeTestStep ==
  ASSUME IInv, NEW t \in Threads, NEW h \in Heaps, NEW b \in Blocks, FreeTest(t, h, b)
  PROVE  IInv'
<1>1. /\ UNCHANGED <<header_pool, cheap_idx, nheaps, header>>
      /\ pc[t] = "user" /\ <<h, b>> \in out /\ out' = out \ {<<h, b>>}
  BY DEF FreeTest
<1>2. /\ pc' \in [Threads -> {"user", "malloct", "free"}]
      /\ at' \in [Threads -> Heaps \cup {None}] /\ arg' \in [Threads -> Blocks \cup {None}]
      /\ pc'[t] = "free" /\ at'[t] = h /\ arg'[t] = b
      /\ \A u \in Threads \ {t} : pc'[u] = pc[u] /\ at'[u] = at[u] /\ arg'[u] = arg[u]
  BY DEF FreeTest, IInv, TypeOK
<1>3. TypeOK'
  BY <1>1, <1>2 DEF IInv, TypeOK
<1>4. HeapsOK' /\ \A g \in Heaps, c \in Blocks : IsMarked(g, c) <=> IsMarked(g, c)'
  BY <1>1, HeapsKept DEF IInv, HeapsOK
<1>5. OutMarked' /\ IsMarked(h, b)'
  BY <1>1, <1>4 DEF IInv, OutMarked
<1>6. \A u \in Threads : pc[u] = "free" => ~(at[u] = h /\ arg[u] = b)
  BY <1>1 DEF IInv, BackMarked
<1>7. BackMarked'
  <2> SUFFICES ASSUME NEW u \in Threads, pc'[u] = "free"
               PROVE  /\ arg'[u] \in Blocks /\ IsMarked(at[u], arg[u])'
                      /\ <<at'[u], arg'[u]>> \notin out'
    BY DEF BackMarked
  <2>1. CASE u = t
    BY <2>1, <1>1, <1>2, <1>5 DEF IsMarked
  <2>2. CASE u # t
    <3>1. PICK g \in Heaps, c \in Blocks :
            /\ g = at[u] /\ c = arg[u] /\ g = at'[u] /\ c = arg'[u]
            /\ IsMarked(g, c) /\ <<g, c>> \notin out
      BY <2>2, <1>2 DEF IInv, BackMarked, IsMarked
    <3>2. IsMarked(g, c)'
      BY <3>1, <1>4
    <3>3. IsMarked(at[u], arg[u])'
      BY <3>1, <3>2 DEF IsMarked
    <3> QED BY <3>1, <3>3, <1>1
  <2> QED BY <2>1, <2>2
<1>8. HeldOnce'
  BY <1>2, <1>6 DEF IInv, HeldOnce
<1>9. RoomKept'
  BY <1>1, <1>2 DEF IInv, RoomKept, Live
<1> QED BY <1>3, <1>4, <1>5, <1>7, <1>8, <1>9 DEF IInv, HeapsOK

LEMMA FreeRefusedStep ==
  ASSUME IInv, NEW t \in Threads, NEW h \in Heaps, NEW b \in Blocks, FreeRefused(t, h, b)
  PROVE  IInv'
<1>1. /\ UNCHANGED <<header_pool, cheap_idx, nheaps, header, pc, at, arg>>
      /\ out' \subseteq out
  BY DEF FreeRefused
<1>2. HeapsOK' /\ \A g \in Heaps, c \in Blocks : IsMarked(g, c) <=> IsMarked(g, c)'
  BY <1>1, HeapsKept DEF IInv, HeapsOK
<1>3. TypeOK' /\ RoomKept' /\ HeldOnce'
  BY <1>1 DEF IInv, TypeOK, RoomKept, Live, HeldOnce
<1>4. OutMarked' /\ BackMarked'
  BY <1>1, <1>2 DEF IInv, OutMarked, BackMarked, IsMarked
<1> QED BY <1>2, <1>3, <1>4 DEF IInv, HeapsOK

-----------------------------------------------------------------------------
LEMMA InitIInv == ASSUME Init PROVE IInv
<1>1. \A h \in Heaps : ~Live(h)
  BY DEF Init, Live, Unused
<1>2. TypeOK
  <2>1. Unused \in [heap : Regions \cup {None}, maxnum : 0 .. MaxNum, blocks : Int,
                    indx : Nat, hooks : BOOLEAN, user : Threads \cup {None}]
    BY Constants DEF Unused
  <2>2. 0 \in Heaps
    BY Constants DEF Heaps
  <2> QED BY <2>1, <2>2 DEF Init, TypeOK
<1>3. HeapsCounted
  <2>1. {h \in Heaps : Live(h)} = {}
    BY <1>1
  <2> QED BY <2>1, FS_EmptySet DEF Init, HeapsCounted
<1>4. Counts /\ Disjoint /\ OutMarked /\ BackMarked /\ HeldOnce /\ RoomKept
  BY <1>1 DEF Init, Counts, Disjoint, OutMarked, BackMarked, HeldOnce, RoomKept
<1>5. Blank
  BY Constants DEF Init, Blank
<1> QED BY <1>2, <1>3, <1>4, <1>5 DEF IInv

LEMMA NextIInv == ASSUME IInv, [Next]_vars PROVE IInv'
<1>1. CASE CreateFails
  BY <1>1, CreateFailsStep
<1>2. ASSUME NEW t \in Threads, NEW r \in Regions, NEW n \in Sizes,
             NEW keep \in BOOLEAN, NEW hooks \in BOOLEAN, Create(t, r, n, keep, hooks)
      PROVE  IInv'
  BY <1>2, CreateStep
<1>3. ASSUME NEW t \in Threads, NEW h \in Heaps, Destroy(t, h)
      PROVE  IInv'
  BY <1>3, DestroyStep
<1>4. ASSUME NEW t \in Threads, NEW h \in Heaps, Malloct(t, h)
      PROVE  IInv'
  <2>1. Live(h) /\ ~header_pool[h].hooks /\ UNCHANGED <<pc, at, arg>>
    BY <1>4 DEF Malloct, HasRoom
  <2>2. PICK b \in Blocks : Take(h, b)
    BY <1>4 DEF Malloct
  <2> QED BY <2>1, <2>2, TakeStep
<1>5. ASSUME NEW t \in Threads, NEW h \in Heaps, MalloctTest(t, h)
      PROVE  IInv'
  BY <1>5, MalloctTestStep
<1>6. ASSUME NEW t \in Threads, MalloctLocked(t)
      PROVE  IInv'
  <2>1. /\ pc[t] = "malloct" /\ pc' = [pc EXCEPT ![t] = "user"]
        /\ at' = [at EXCEPT ![t] = None] /\ UNCHANGED arg
    BY <1>6 DEF MalloctLocked
  <2>2. PICK h \in Heaps : h = at[t] /\ Live(h)
    BY <2>1 DEF IInv, RoomKept
  <2>3. PICK b \in Blocks : Take(h, b)
    BY <1>6, <2>2 DEF MalloctLocked
  <2> QED BY <2>1, <2>2, <2>3, TakeStep
<1>7. ASSUME NEW t \in Threads, NEW h \in Heaps, NEW b \in Blocks, Free(t, h, b)
      PROVE  IInv'
  <2>1. <<h, b>> \in out /\ out' = out \ {<<h, b>>} /\ UNCHANGED <<pc, at, arg>>
        /\ GiveBack(h, b)
    BY <1>7 DEF Free
  <2>2. IsMarked(h, b)
    BY <2>1 DEF IInv, OutMarked
  <2> QED BY <2>1, <2>2, GiveStep
<1>8. ASSUME NEW t \in Threads, NEW h \in Heaps, NEW b \in Blocks, FreeTest(t, h, b)
      PROVE  IInv'
  BY <1>8, FreeTestStep
<1>9. ASSUME NEW t \in Threads, FreeLocked(t)
      PROVE  IInv'
  <2>1. /\ pc[t] = "free" /\ GiveBack(at[t], arg[t]) /\ out' = out
        /\ pc' = [pc EXCEPT ![t] = "user"]
        /\ at' = [at EXCEPT ![t] = None] /\ arg' = [arg EXCEPT ![t] = None]
    BY <1>9 DEF FreeLocked
  <2>2. PICK h \in Heaps, b \in Blocks : h = at[t] /\ b = arg[t] /\ IsMarked(h, b)
    BY <2>1 DEF IInv, BackMarked, IsMarked
  <2>3. GiveBack(h, b)
    BY <2>1, <2>2
  <2> QED BY <2>1, <2>2, <2>3, GiveStep
<1>10. ASSUME NEW t \in Threads, NEW h \in Heaps, NEW b \in Blocks, FreeRefused(t, h, b)
       PROVE  IInv'
  BY <1>10, FreeRefusedStep
<1>11. CASE UNCHANGED vars
  <2>1. UNCHANGED <<header_pool, cheap_idx, nheaps, header, pc, at, arg, out>>
    BY <1>11 DEF vars
  <2>2. HeapsOK' /\ InUse'
    BY <2>1, HeapsKept, InUseKept DEF IInv, HeapsOK, InUse
  <2>3. TypeOK' /\ RoomKept'
    BY <2>1 DEF IInv, TypeOK, RoomKept, Live
  <2> QED BY <2>2, <2>3 DEF IInv, HeapsOK, InUse
<1> QED
  BY <1>1, <1>2, <1>3, <1>4, <1>5, <1>6, <1>7, <1>8, <1>9, <1>10, <1>11 DEF Next

-----------------------------------------------------------------------------
(* Whatever calls are half done, the invariant holds: tk_create_heap,       *)
(* tk_destroy_heap, tk_mem_malloct and tk_mem_free all keep it.             *)
THEOREM Invariance == Spec => []IInv
BY InitIInv, NextIInv, PTL DEF Spec

(* nheaps stays the number of heaps in header_pool: when tk_create_heap has *)
(* seen nheaps < TK_KMEM_NHEAPS, the slot that it asserts to find is there. *)
THEOREM HeapsCountedHolds == Spec => []HeapsCounted
<1>1. IInv => HeapsCounted
  BY DEF IInv
<1> QED BY <1>1, Invariance, PTL

(* The blocks of a heap_t are as many as its headers say are allocated,     *)
(* although tk_mem_malloct and tk_mem_free change them under no common lock *)
(* with their tests.                                                        *)
THEOREM BlocksCountedHolds == Spec => []BlocksCounted
<1>1. IInv => BlocksCounted
  BY DEF IInv, Counts, Marks, BlocksCounted
<1> QED BY <1>1, Invariance, PTL

(* The search of tk_mem_malloct for a free block ends: however long the     *)
(* caller waits for the lock after its test, its heap is there and has one. *)
THEOREM SearchEndsHolds == Spec => []SearchEnds
<1>1. ASSUME IInv, NEW t \in Threads, pc[t] = "malloct"
      PROVE  Live(at[t]) /\ \E b \in BlocksOf(at[t]) : Head(at[t], b) = 0
  <2>1. /\ at[t] \in Heaps /\ Live(at[t])
        /\ header_pool[at[t]].blocks < header_pool[at[t]].maxnum
    BY <1>1 DEF IInv, RoomKept
  <2> QED BY <1>1, <2>1, RoomIsFree DEF IInv
<1>2. IInv => SearchEnds
  BY <1>1 DEF SearchEnds
<1> QED BY <1>2, Invariance, PTL

-----------------------------------------------------------------------------
(* The refinement: what the mapped variables are, block by block.           *)
Held == out \cup Returning
Lost == Marked \ Held
Gone == AllBlocks \ Marked          \* what BlockPool calls free

LEMMA MarkedIs ==
  /\ Marked \subseteq Heaps \X Blocks
  /\ \A g \in Heaps, c \in Blocks : <<g, c>> \in Marked <=> IsMarked(g, c)
BY DEF Marked, AllBlocks, IsMarked

LEMMA ReturningIs ==
  \A x : x \in Returning <=> \E t \in Threads : pc[t] = "free" /\ x = <<at[t], arg[t]>>
BY DEF Returning

LEMMA HeldMarked ==
  ASSUME IInv
  PROVE  Held \subseteq Marked /\ out \cap Returning = {}
<1>1. out \subseteq Marked
  <2> SUFFICES ASSUME NEW x \in out PROVE x \in Marked
    OBVIOUS
  <2>1. PICK g \in Heaps, c \in Blocks : x = <<g, c>>
    BY DEF IInv, TypeOK
  <2> QED BY <2>1, MarkedIs DEF IInv, OutMarked
<1>2. Returning \subseteq Marked /\ out \cap Returning = {}
  <2> SUFFICES ASSUME NEW x \in Returning PROVE x \in Marked /\ x \notin out
    OBVIOUS
  <2>1. PICK t \in Threads : pc[t] = "free" /\ x = <<at[t], arg[t]>>
    BY ReturningIs
  <2>2. arg[t] \in Blocks /\ IsMarked(at[t], arg[t]) /\ x \notin out
    BY <2>1 DEF IInv, BackMarked
  <2>3. at[t] \in Heaps
    BY <2>2 DEF IsMarked
  <2> QED BY <2>1, <2>2, <2>3, MarkedIs
<1> QED BY <1>1, <1>2 DEF Held

(* Marks that stay the same, or change at one block, as a set.              *)
LEMMA MarkedSame ==
  ASSUME \A g \in Heaps, c \in Blocks : IsMarked(g, c) <=> IsMarked(g, c)'
  PROVE  Marked' = Marked
<1>1. /\ Marked' \subseteq Heaps \X Blocks
      /\ \A g \in Heaps, c \in Blocks : <<g, c>> \in Marked' <=> IsMarked(g, c)'
  BY DEF Marked, AllBlocks, IsMarked
<1> QED BY <1>1, MarkedIs

LEMMA MarkedMore ==
  ASSUME NEW h \in Heaps, NEW b \in Blocks,
         \A g \in Heaps, c \in Blocks : IsMarked(g, c)' <=> IsMarked(g, c) \/ (g = h /\ c = b)
  PROVE  Marked' = Marked \cup {<<h, b>>}
<1>1. /\ Marked' \subseteq Heaps \X Blocks
      /\ \A g \in Heaps, c \in Blocks : <<g, c>> \in Marked' <=> IsMarked(g, c)'
  BY DEF Marked, AllBlocks, IsMarked
<1> QED BY <1>1, MarkedIs

LEMMA MarkedLess ==
  ASSUME NEW h \in Heaps, NEW b \in Blocks,
         \A g \in Heaps, c \in Blocks : IsMarked(g, c)' <=> IsMarked(g, c) /\ ~(g = h /\ c = b)
  PROVE  Marked' = Marked \ {<<h, b>>}
<1>1. /\ Marked' \subseteq Heaps \X Blocks
      /\ \A g \in Heaps, c \in Blocks : <<g, c>> \in Marked' <=> IsMarked(g, c)'
  BY DEF Marked, AllBlocks, IsMarked
<1> QED BY <1>1, MarkedIs

LEMMA AllSame ==
  ASSUME SameShape
  PROVE  AllBlocks' = AllBlocks
BY ShapeKept DEF AllBlocks

-----------------------------------------------------------------------------
Mapped == UNCHANGED <<Gone, Held, Lost>>

LEMMA CreateMakes ==
  ASSUME IInv, NEW t \in Threads, NEW r \in Regions, NEW n \in Sizes,
         NEW keep \in BOOLEAN, NEW hooks \in BOOLEAN, Create(t, r, n, keep, hooks)
  PROVE  \E h \in Heaps : Abstract!Make(h)
<1>1. PICK h \in Heaps :
        /\ ~Live(h) /\ \A g \in Heaps \ {h} : header_pool'[g] = header_pool[g]
        /\ UNCHANGED <<pc, at, arg, out>> /\ TypeOK'
        /\ \A g \in Heaps, c \in Blocks : IsMarked(g, c) <=> IsMarked(g, c)'
  BY CreateKeeps DEF IInv, HeapsOK
<1>2. Marked' = Marked /\ Held' = Held
  BY <1>1, MarkedSame DEF Held, Returning
<1>3. Held \subseteq Marked /\ Marked \subseteq AllBlocks
  BY HeldMarked DEF Marked
<1>4. ({h} \X Blocks) \cap AllBlocks = {} /\ AllBlocks \subseteq AllBlocks'
  BY <1>1 DEF AllBlocks, Live, BlocksOf
<1>5. AllBlocks' \subseteq AllBlocks \cup ({h} \X Blocks)
  BY <1>1 DEF AllBlocks, Live, BlocksOf
<1> DEFINE new == AllBlocks' \ AllBlocks
<1>6. new \in SUBSET ({h} \X Blocks) /\ (AllBlocks' \ Marked') = (AllBlocks \ Marked) \cup new
  BY <1>2, <1>3, <1>4, <1>5
<1>7. (Marked' \ (out' \cup Returning')) = Marked \ (out \cup Returning)
      /\ out' \cup Returning' = out \cup Returning
  BY <1>2 DEF Held
<1>8. ({h} \X Blocks) \cap ((AllBlocks \ Marked) \cup (out \cup Returning)
         \cup (Marked \ (out \cup Returning))) = {}
  BY <1>3, <1>4 DEF Held
<1>9. Abstract!Make(h)
  BY <1>6, <1>7, <1>8 DEF Abstract!Make, Abstract!Of
<1> QED BY <1>9

LEMMA DestroyDrops ==
  ASSUME IInv, NEW t \in Threads, NEW h \in Heaps, Destroy(t, h)
  PROVE  Abstract!Drop(h)
<1>1. /\ UNCHANGED <<pc, at, arg, out>>
      /\ \A g \in Heaps \ {h} : header_pool'[g] = header_pool[g]
      /\ ~Live(h)' /\ \A c \in Blocks : ~IsMarked(h, c)
      /\ \A g \in Heaps, c \in Blocks : IsMarked(g, c) <=> IsMarked(g, c)'
  BY DestroyKeeps DEF IInv, HeapsOK
<1>2. Marked' = Marked /\ Held' = Held
  BY <1>1, MarkedSame DEF Held, Returning
<1>3. Held \subseteq Marked /\ ({h} \X Blocks) \cap Marked = {}
  BY <1>1, HeldMarked, MarkedIs
<1>4. AllBlocks' = AllBlocks \ ({h} \X Blocks)
  BY <1>1 DEF AllBlocks, Live, BlocksOf
<1>5. (AllBlocks' \ Marked') = (AllBlocks \ Marked) \ ({h} \X Blocks)
  BY <1>2, <1>4
<1> QED BY <1>2, <1>3, <1>5 DEF Held, Abstract!Drop, Abstract!Of

LEMMA TakeTakes ==
  ASSUME IInv, NEW h \in Heaps, NEW b \in Blocks, Live(h), Take(h, b),
         Returning' = Returning
  PROVE  Abstract!Take(<<h, b>>)
<1>1. /\ ~IsMarked(h, b)
      /\ \A g \in Heaps, c \in Blocks : IsMarked(g, c)' <=> IsMarked(g, c) \/ (g = h /\ c = b)
  BY TakeKeeps DEF IInv, HeapsOK
<1>2. SameShape /\ b \in BlocksOf(h) /\ out' = out \cup {<<h, b>>}
  BY TakeChanges DEF IInv
<1>3. Marked' = Marked \cup {<<h, b>>} /\ AllBlocks' = AllBlocks
  BY <1>1, <1>2, MarkedMore, AllSame
<1>4. <<h, b>> \in AllBlocks \ Marked /\ Held \subseteq Marked
  BY <1>1, <1>2, MarkedIs, HeldMarked DEF AllBlocks
<1> QED BY <1>2, <1>3, <1>4 DEF Held, Abstract!Take

LEMMA GiveGives ==
  ASSUME IInv, NEW h \in Heaps, NEW b \in Blocks, IsMarked(h, b), GiveBack(h, b),
         <<h, b>> \in Held, Held' = Held \ {<<h, b>>}
  PROVE  Abstract!Give(<<h, b>>)
<1>1. \A g \in Heaps, c \in Blocks : IsMarked(g, c)' <=> IsMarked(g, c) /\ ~(g = h /\ c = b)
  BY GiveBackKeeps DEF IInv, HeapsOK
<1>2. SameShape
  BY GiveBackChanges DEF IInv, IsMarked
<1>3. Marked' = Marked \ {<<h, b>>} /\ AllBlocks' = AllBlocks
  BY <1>1, <1>2, MarkedLess, AllSame
<1>4. <<h, b>> \in Marked /\ Marked \subseteq AllBlocks
  BY MarkedIs DEF Marked
<1> QED BY <1>3, <1>4 DEF Held, Abstract!Give

LEMMA RefusedLoses ==
  ASSUME IInv, NEW t \in Threads, NEW h \in Heaps, NEW b \in Blocks, FreeRefused(t, h, b)
  PROVE  Abstract!Lose(h, b)
<1>1. /\ <<h, b>> \in out /\ ~HasRoom(h) /\ out' = out \ {<<h, b>>}
      /\ UNCHANGED <<header_pool, header, pc, at, arg>>
  BY DEF FreeRefused
<1>2. IsMarked(h, b) /\ Live(h)
  BY <1>1 DEF IInv, OutMarked, IsMarked
<1>3. Marks(h) = BlocksOf(h)
  <2>1. header_pool[h].blocks >= header_pool[h].maxnum
    BY <1>1, <1>2, BlocksFinite DEF HasRoom, IInv
  <2>2. header_pool[h].blocks = Cardinality(Marks(h))
    BY <1>2 DEF IInv, Counts
  <2> QED BY <2>1, <2>2, BlocksFinite DEF IInv
<1>4. ({h} \X Blocks) \cap (AllBlocks \ Marked) = {}
  BY <1>3 DEF AllBlocks, Marked, Marks
<1>5. Marked' = Marked /\ AllBlocks' = AllBlocks /\ Returning' = Returning
  BY <1>1 DEF Marked, AllBlocks, Returning, Live, BlocksOf, Head
<1>6. <<h, b>> \in Marked /\ <<h, b>> \notin Returning /\ <<h, b>> \in Held
  BY <1>1, HeldMarked DEF Held
<1> QED BY <1>1, <1>4, <1>5, <1>6 DEF Held, Abstract!Lose, Abstract!Of

(* Who is on the way to the lock of free, before and after a step.          *)
LEMMA ReturningSame ==
  ASSUME IInv, NEW t \in Threads, arg' = arg,
         \/ UNCHANGED <<pc, at>>
         \/ /\ pc[t] = "malloct" /\ pc' = [pc EXCEPT ![t] = "user"]
            /\ at' = [at EXCEPT ![t] = None]
         \/ \E h \in Heaps : /\ pc[t] = "user" /\ pc' = [pc EXCEPT ![t] = "malloct"]
                             /\ at' = [at EXCEPT ![t] = h]
  PROVE  Returning' = Returning
<1>1. \A u \in Threads : /\ pc'[u] = "free" <=> pc[u] = "free"
                         /\ pc[u] = "free" => at'[u] = at[u] /\ arg'[u] = arg[u]
  BY DEF IInv, TypeOK
<1>2. \A x : x \in Returning' <=> \E u \in Threads : pc'[u] = "free" /\ x = <<at'[u], arg'[u]>>
  BY DEF Returning
<1> QED BY <1>1, <1>2, ReturningIs

LEMMA ReturningMore ==
  ASSUME IInv, NEW t \in Threads, NEW h \in Heaps, NEW b \in Blocks, FreeTest(t, h, b)
  PROVE  Returning' = Returning \cup {<<h, b>>}
<1>1. /\ pc[t] = "user" /\ pc'[t] = "free" /\ at'[t] = h /\ arg'[t] = b
      /\ \A u \in Threads \ {t} : pc'[u] = pc[u] /\ at'[u] = at[u] /\ arg'[u] = arg[u]
  BY DEF FreeTest, IInv, TypeOK
<1>2. \A x : x \in Returning' <=> \E u \in Threads : pc'[u] = "free" /\ x = <<at'[u], arg'[u]>>
  BY DEF Returning
<1> QED BY <1>1, <1>2, ReturningIs

LEMMA ReturningLess ==
  ASSUME IInv, NEW t \in Threads, FreeLocked(t)
  PROVE  Returning' = Returning \ {<<at[t], arg[t]>>}
<1>1. /\ pc[t] = "free" /\ pc'[t] = "user"
      /\ \A u \in Threads \ {t} : pc'[u] = pc[u] /\ at'[u] = at[u] /\ arg'[u] = arg[u]
  BY DEF FreeLocked, IInv, TypeOK
<1>2. \A u \in Threads \ {t} : pc[u] = "free" => <<at[u], arg[u]>> # <<at[t], arg[t]>>
  BY <1>1 DEF IInv, HeldOnce
<1>3. \A x : x \in Returning' <=> \E u \in Threads : pc'[u] = "free" /\ x = <<at'[u], arg'[u]>>
  BY DEF Returning
<1> QED BY <1>1, <1>2, <1>3, ReturningIs

LEMMA NextMaps ==
  ASSUME IInv, [Next]_vars
  PROVE  [Abstract!Next]_(Abstract!pool)
<1> USE DEF Abstract!pool
<1>1. CASE CreateFails \/ UNCHANGED vars
  <2>1. UNCHANGED <<header_pool, header, pc, at, arg, out>>
    BY <1>1 DEF CreateFails, vars
  <2> QED BY <2>1 DEF Marked, AllBlocks, Returning, Live, BlocksOf, Head
<1>2. ASSUME NEW t \in Threads, NEW r \in Regions, NEW n \in Sizes,
             NEW keep \in BOOLEAN, NEW hooks \in BOOLEAN, Create(t, r, n, keep, hooks)
      PROVE  Abstract!Next
  BY <1>2, CreateMakes DEF Abstract!Next
<1>3. ASSUME NEW t \in Threads, NEW h \in Heaps, Destroy(t, h)
      PROVE  Abstract!Next
  BY <1>3, DestroyDrops DEF Abstract!Next
<1>4. ASSUME NEW t \in Threads, NEW h \in Heaps, Malloct(t, h)
      PROVE  Abstract!Next
  <2>1. PICK b \in Blocks : Take(h, b)
    BY <1>4 DEF Malloct
  <2>2. Live(h) /\ Returning' = Returning
    BY <1>4 DEF Malloct, HasRoom, Returning
  <2> QED BY <2>1, <2>2, TakeTakes DEF Abstract!Next
<1>5. ASSUME NEW t \in Threads, NEW h \in Heaps, MalloctTest(t, h)
      PROVE  UNCHANGED <<AllBlocks \ Marked, out \cup Returning, Marked \ (out \cup Returning)>>
  <2>1. Returning' = Returning
    BY <1>5, ReturningSame DEF MalloctTest
  <2> QED BY <1>5, <2>1 DEF MalloctTest, Marked, AllBlocks, Live, BlocksOf, Head
<1>6. ASSUME NEW t \in Threads, MalloctLocked(t)
      PROVE  Abstract!Next
  <2>1. PICK h \in Heaps : h = at[t] /\ Live(h)
    BY <1>6 DEF MalloctLocked, IInv, RoomKept
  <2>2. PICK b \in Blocks : Take(h, b)
    BY <1>6, <2>1 DEF MalloctLocked
  <2>3. Returning' = Returning
    BY <1>6, ReturningSame DEF MalloctLocked
  <2> QED BY <2>1, <2>2, <2>3, TakeTakes DEF Abstract!Next
<1>7. ASSUME NEW t \in Threads, NEW h \in Heaps, NEW b \in Blocks, Free(t, h, b)
      PROVE  Abstract!Next
  <2>1. <<h, b>> \in out /\ GiveBack(h, b) /\ out' = out \ {<<h, b>>} /\ Returning' = Returning
    BY <1>7 DEF Free, Returning
  <2>2. IsMarked(h, b) /\ <<h, b>> \in Held /\ Held' = Held \ {<<h, b>>}
    BY <2>1, HeldMarked DEF IInv, OutMarked, Held
  <2> QED BY <2>1, <2>2, GiveGives DEF Abstract!Next
<1>8. ASSUME NEW t \in Threads, NEW h \in Heaps, NEW b \in Blocks, FreeTest(t, h, b)
      PROVE  UNCHANGED <<AllBlocks \ Marked, out \cup Returning, Marked \ (out \cup Returning)>>
  <2>1. <<h, b>> \in out /\ out' = out \ {<<h, b>>}
    BY <1>8 DEF FreeTest
  <2>2. Returning' = Returning \cup {<<h, b>>}
    BY <1>8, ReturningMore
  <2>3. out' \cup Returning' = out \cup Returning
    BY <2>1, <2>2
  <2> QED BY <1>8, <2>3 DEF FreeTest, Marked, AllBlocks, Live, BlocksOf, Head
<1>9. ASSUME NEW t \in Threads, FreeLocked(t)
      PROVE  Abstract!Next
  <2>1. PICK h \in Heaps, b \in Blocks :
          /\ h = at[t] /\ b = arg[t] /\ IsMarked(h, b) /\ <<h, b>> \in Returning
    BY <1>9, ReturningIs DEF FreeLocked, IInv, BackMarked, IsMarked
  <2>2. GiveBack(h, b) /\ out' = out
    BY <1>9, <2>1 DEF FreeLocked
  <2>3. <<h, b>> \in Held /\ Held' = Held \ {<<h, b>>}
    BY <1>9, <2>1, <2>2, ReturningLess, HeldMarked DEF Held
  <2> QED BY <2>1, <2>2, <2>3, GiveGives DEF Abstract!Next
<1>10. ASSUME NEW t \in Threads, NEW h \in Heaps, NEW b \in Blocks, FreeRefused(t, h, b)
       PROVE  Abstract!Next
  BY <1>10, RefusedLoses DEF Abstract!Next
<1> QED
  BY <1>1, <1>2, <1>3, <1>4, <1>5, <1>6, <1>7, <1>8, <1>9, <1>10 DEF Next

(* The heaps implement the pool of blocks: tk_mem_malloct never gives a     *)
(* block that a client has, tk_mem_free takes each back once or, with the   *)
(* heap full, loses it, and tk_destroy_heap takes only blocks nobody has.   *)
THEOREM Implements == Spec => IsBlockPool
<1>1. Init => Abstract!Init
  <2> SUFFICES ASSUME Init PROVE Abstract!Init
    OBVIOUS
  <2>1. AllBlocks = {} /\ Returning = {} /\ out = {}
    BY DEF Init, AllBlocks, Live, Unused, Returning
  <2> QED BY <2>1 DEF Abstract!Init, Marked
<1>2. IInv /\ [Next]_vars => [Abstract!Next]_(Abstract!pool)
  BY NextMaps
<1> QED BY <1>1, <1>2, Invariance, PTL DEF Spec, IsBlockPool, Abstract!Spec
=============================================================================
