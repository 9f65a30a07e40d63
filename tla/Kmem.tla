-------------------------------- MODULE Kmem --------------------------------
(****************************************************************************)
(* TinKer's heaps of equal blocks (src/src/tk_mem.c).  A heap is a region   *)
(* cut into blocks, each behind an int that says whether it is allocated.   *)
(*                                                                          *)
(* The lock and unlock hooks of a heap may yield; a heap without hooks is   *)
(* used with no yield in the middle of a call.  tk_mem_malloct and          *)
(* tk_mem_free test the heap before they call the lock hook: a call on a    *)
(* heap with hooks takes two steps.                                         *)
(****************************************************************************)
EXTENDS Integers, FiniteSets

CONSTANTS
  Threads, None,
  NHeaps,        \* TK_KMEM_NHEAPS
  MaxNum,        \* bound: the largest number of blocks of a heap
  Sizes,         \* bound: the numbers of blocks that heaps are created with
  Areas          \* memory that callers pass as heap_ptr

Heaps   == 0 .. NHeaps - 1
Blocks  == 0 .. MaxNum - 1
Regions == Areas \cup Heaps     \* what malloc gives a heap is named after it

ASSUME KmemAssumption ==
  /\ NHeaps \in Nat \ {0} /\ MaxNum \in Nat
  /\ Sizes \subseteq 0 .. MaxNum
  /\ None \notin Threads /\ None \notin Regions /\ Areas \cap Heaps = {}

VARIABLES
  header_pool,         \* the heap_t of every slot
  cheap_idx, nheaps,
  header,              \* the ints in front of the blocks, of every region
  pc, at, arg,         \* of a thread in a call: after its test, heap, block
  out                  \* blocks that clients have got and not passed to free

vars == <<header_pool, cheap_idx, nheaps, header, pc, at, arg, out>>

Unused == [heap |-> None, maxnum |-> 0, blocks |-> 0, indx |-> 0,
           hooks |-> FALSE, user |-> None]

(* user is the thread that allocates from a heap with hooks (see MayTake).  *)
TypeOK ==
  /\ header_pool \in [Heaps -> [heap : Regions \cup {None}, maxnum : 0 .. MaxNum,
                                blocks : Int, indx : Nat, hooks : BOOLEAN,
                                user : Threads \cup {None}]]
  /\ cheap_idx \in Heaps /\ nheaps \in Int
  /\ header \in [Regions -> [Blocks -> {0, 1}]]
  /\ pc \in [Threads -> {"user", "malloct", "free"}]
  /\ at \in [Threads -> Heaps \cup {None}] /\ arg \in [Threads -> Blocks \cup {None}]
  /\ out \subseteq Heaps \X Blocks

\* tk_mem; the areas have never been used.
Init ==
  /\ header_pool = [h \in Heaps |-> Unused]
  /\ cheap_idx = 0 /\ nheaps = 0
  /\ header = [r \in Regions |-> [b \in Blocks |-> 0]]
  /\ pc = [t \in Threads |-> "user"]
  /\ at = [t \in Threads |-> None] /\ arg = [t \in Threads |-> None]
  /\ out = {}

Live(h)    == header_pool[h].heap # None
BlocksOf(h) == 0 .. header_pool[h].maxnum - 1
Head(h, b) == header[header_pool[h].heap][b]
Turn(i, n) == IF i + 1 >= n THEN 0 ELSE i + 1              \* i + 1 modulo n
Gap(i, j, n) == IF i <= j THEN j - i ELSE n - i + j        \* from i up to j

-----------------------------------------------------------------------------
(* tk_create_heap looks once around from cheap_idx and leaves it behind the *)
(* slot it has found.                                                       *)
\* Fault: the first slot looked at is taken.
IsFound_First(h) == h = cheap_idx

IsFound(h) ==
  /\ ~Live(h)
  /\ \A g \in Heaps : ~Live(g) => Gap(cheap_idx, h, NHeaps) <= Gap(cheap_idx, g, NHeaps)

Found(h) == IsFound(h) /\ cheap_idx' = Turn(h, NHeaps)

\* With KMEM_KEEP_UNINITIALIZED the loop reads the first header every time.
Counted(r, n) == IF n > 0 /\ header[r][0] # 0 THEN n ELSE 0
LastFree(r, n) == IF n > 0 /\ header[r][0] = 0 THEN n - 1 ELSE 0

CreateFails ==                                \* malloc returns NULL
  /\ nheaps < NHeaps
  /\ \E h \in Heaps : Found(h)
  /\ UNCHANGED <<header_pool, nheaps, header, pc, at, arg, out>>

(* A caller's area is in one heap at a time; only such memory is kept.      *)
Create(t, r, n, keep, hooks) ==
  /\ pc[t] = "user" /\ nheaps < NHeaps
  /\ keep => r \in Areas
  /\ \A h \in Heaps : header_pool[h].heap # r
  /\ \E h \in Heaps :
       /\ Found(h)
       /\ r \in Areas \/ r = h
       /\ header_pool' = [header_pool EXCEPT ![h] =
            [heap |-> r, maxnum |-> n, hooks |-> hooks,
             user |-> IF hooks THEN t ELSE None,
             blocks |-> IF keep THEN Counted(r, n) ELSE 0,
             indx |-> IF keep THEN LastFree(r, n) ELSE 0]]
  /\ header' = IF keep THEN header
               ELSE [header EXCEPT ![r] = [b \in Blocks |-> IF b < n THEN 0 ELSE @[b]]]
  /\ nheaps' = nheaps + 1
  /\ UNCHANGED <<pc, at, arg, out>>

\* Fault: a heap is given up while blocks of it are out.
Idle_Always(h) == TRUE

Idle(h) == header_pool[h].blocks = 0

Destroy(t, h) ==
  /\ pc[t] = "user" /\ Live(h) /\ Idle(h)
  /\ header_pool[h].hooks => header_pool[h].user = t
  /\ header_pool' = [header_pool EXCEPT ![h] = Unused]
  /\ nheaps' = nheaps - 1
  /\ UNCHANGED <<cheap_idx, header, pc, at, arg, out>>

-----------------------------------------------------------------------------
(* tk_mem_malloct.  The block that follows the last one given, or the next  *)
(* one that is free: the loop has no end if there is none.                  *)
IsNextBlock(h, b) ==
  LET n == header_pool[h].maxnum  i == header_pool[h].indx
  IN /\ b \in BlocksOf(h) /\ Head(h, b) = 0
     /\ \A c \in BlocksOf(h) : Head(h, c) = 0 => Gap(i, b, n) <= Gap(i, c, n)

\* Fault: one block too many.
HasRoom_OneMore(h) == Live(h) /\ header_pool[h].blocks <= header_pool[h].maxnum

HasRoom(h) == Live(h) /\ header_pool[h].blocks < header_pool[h].maxnum

(* The rule the callers keep: from a heap with hooks one thread allocates,  *)
(* the one that has created it and that will destroy it.                    *)
MayTake(t, h) == header_pool[h].hooks => header_pool[h].user = t

Take(h, b) ==
  /\ IsNextBlock(h, b)
  /\ header_pool' = [header_pool EXCEPT ![h].blocks = @ + 1,
                                             ![h].indx = Turn(b, header_pool[h].maxnum)]
  /\ header' = [header EXCEPT ![header_pool[h].heap][b] = 1]
  /\ out' = out \cup {<<h, b>>}
  /\ UNCHANGED <<cheap_idx, nheaps>>

Malloct(t, h) ==
  /\ pc[t] = "user" /\ HasRoom(h) /\ ~header_pool[h].hooks
  /\ \E b \in Blocks : Take(h, b)
  /\ UNCHANGED <<pc, at, arg>>

MalloctTest(t, h) ==
  /\ pc[t] = "user" /\ HasRoom(h) /\ header_pool[h].hooks /\ MayTake(t, h)
  /\ pc' = [pc EXCEPT ![t] = "malloct"] /\ at' = [at EXCEPT ![t] = h]
  /\ UNCHANGED <<header_pool, cheap_idx, nheaps, header, arg, out>>

MalloctLocked(t) ==
  /\ pc[t] = "malloct"
  /\ \E b \in Blocks : Take(at[t], b)
  /\ pc' = [pc EXCEPT ![t] = "user"] /\ at' = [at EXCEPT ![t] = None]
  /\ UNCHANGED arg

-----------------------------------------------------------------------------
(* tk_mem_free of a block that a client has got: by any thread, once.       *)
\* Fault: the block is marked, the counter forgotten.
GiveBack_Uncounted(h, b) ==
  /\ header' = [header EXCEPT ![header_pool[h].heap][b] = 0]
  /\ UNCHANGED <<header_pool, cheap_idx, nheaps>>

GiveBack(h, b) ==
  /\ header_pool' = [header_pool EXCEPT ![h].blocks = @ - 1]
  /\ header' = [header EXCEPT ![header_pool[h].heap][b] = 0]
  /\ UNCHANGED <<cheap_idx, nheaps>>

Free(t, h, b) ==
  /\ pc[t] = "user" /\ <<h, b>> \in out /\ HasRoom(h) /\ ~header_pool[h].hooks
  /\ GiveBack(h, b)
  /\ out' = out \ {<<h, b>>}
  /\ UNCHANGED <<pc, at, arg>>

FreeTest(t, h, b) ==
  /\ pc[t] = "user" /\ <<h, b>> \in out /\ HasRoom(h) /\ header_pool[h].hooks
  /\ pc' = [pc EXCEPT ![t] = "free"]
  /\ at' = [at EXCEPT ![t] = h] /\ arg' = [arg EXCEPT ![t] = b]
  /\ out' = out \ {<<h, b>>}
  /\ UNCHANGED <<header_pool, cheap_idx, nheaps, header>>

FreeLocked(t) ==
  /\ pc[t] = "free"
  /\ GiveBack(at[t], arg[t])
  /\ pc' = [pc EXCEPT ![t] = "user"]
  /\ at' = [at EXCEPT ![t] = None] /\ arg' = [arg EXCEPT ![t] = None]
  /\ UNCHANGED out

\* A heap that is full refuses the call, and the client forgets the block.
FreeRefused(t, h, b) ==
  /\ pc[t] = "user" /\ <<h, b>> \in out /\ ~HasRoom(h)
  /\ out' = out \ {<<h, b>>}
  /\ UNCHANGED <<header_pool, cheap_idx, nheaps, header, pc, at, arg>>

Next ==
  \/ CreateFails
  \/ \E t \in Threads :
       \/ \E r \in Regions, n \in Sizes, keep, hooks \in BOOLEAN :
            Create(t, r, n, keep, hooks)
       \/ \E h \in Heaps : Destroy(t, h) \/ Malloct(t, h) \/ MalloctTest(t, h)
       \/ \E h \in Heaps, b \in Blocks :
            Free(t, h, b) \/ FreeTest(t, h, b) \/ FreeRefused(t, h, b)
       \/ MalloctLocked(t) \/ FreeLocked(t)

Spec == Init /\ [][Next]_vars

-----------------------------------------------------------------------------
(* nheaps counts the heaps there are, so that the assertion of              *)
(* tk_create_heap, that a slot is found, holds whenever it is reached.      *)
HeapsCounted == nheaps = Cardinality({h \in Heaps : Live(h)})

(* The counter that decides whether malloct, free and destroy go ahead is   *)
(* the number of blocks marked as allocated, whatever calls are half done.  *)
BlocksCounted ==
  \A h \in Heaps : Live(h) =>
    header_pool[h].blocks = Cardinality({b \in BlocksOf(h) : Head(h, b) = 1})

(* A thread that has passed the test of malloct before it was made to wait  *)
(* for the lock finds its heap alive and a free block in it: the search,    *)
(* which has no end condition of its own, ends.                             *)
SearchEnds ==
  \A t \in Threads : pc[t] = "malloct" =>
    Live(at[t]) /\ \E b \in BlocksOf(at[t]) : Head(at[t], b) = 0

AllBlocks == {x \in Heaps \X Blocks : Live(x[1]) /\ x[2] \in BlocksOf(x[1])}
Marked    == {x \in AllBlocks : Head(x[1], x[2]) = 1}
Returning == {<<at[t], arg[t]>> : t \in {u \in Threads : pc[u] = "free"}}

Abstract == INSTANCE BlockPool WITH free <- AllBlocks \ Marked,
                                    out  <- out \cup Returning,
                                    lost <- Marked \ (out \cup Returning)

(* No block is given to two clients, a block comes back as often as it is   *)
(* given, unless its heap is full when it comes back (tk_mem_free tests     *)
(* blocks >= maxnum), and a heap is given up only when nobody has a block   *)
(* of it.                                                                   *)
IsBlockPool == Abstract!Spec
=============================================================================
