------------------------------ MODULE BlockPool ------------------------------
(****************************************************************************)
(* What a set of heaps of equal blocks promises (specification of Kmem).    *)
(* A block is free, or out with a client, or lost.  A heap that is full     *)
(* does not take a block back: that block is lost, and its heap stays.      *)
(****************************************************************************)
EXTENDS Naturals

CONSTANTS Heaps, Blocks    \* Blocks: what a heap may number its blocks with
VARIABLES free, out, lost  \* pairs of a heap and a block of it

pool == <<free, out, lost>>
Of(h) == {h} \X Blocks

Init == free = {} /\ out = {} /\ lost = {}

\* A heap that has no blocks yet gets some.
Make(h) ==
  /\ Of(h) \cap (free \cup out \cup lost) = {}
  /\ \E new \in SUBSET Of(h) : free' = free \cup new
  /\ UNCHANGED <<out, lost>>

Take(b) ==
  /\ b \in free /\ free' = free \ {b} /\ out' = out \cup {b}
  /\ UNCHANGED lost

Give(b) ==
  /\ b \in out /\ out' = out \ {b} /\ free' = free \cup {b}
  /\ UNCHANGED lost

Lose(h, b) ==
  /\ <<h, b>> \in out /\ Of(h) \cap free = {}
  /\ out' = out \ {<<h, b>>} /\ lost' = lost \cup {<<h, b>>}
  /\ UNCHANGED free

\* A heap goes only when all its blocks are free.
Drop(h) ==
  /\ Of(h) \cap (out \cup lost) = {}
  /\ free' = free \ Of(h)
  /\ UNCHANGED <<out, lost>>

Next ==
  \/ \E h \in Heaps : Make(h) \/ Drop(h)
  \/ \E h \in Heaps, b \in Blocks : Take(<<h, b>>) \/ Give(<<h, b>>) \/ Lose(h, b)

Spec == Init /\ [][Next]_pool
=============================================================================
