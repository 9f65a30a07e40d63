------------------------------- MODULE MCKmem -------------------------------
(* Instances of Kmem for TLC: the threads are alike.                        *)
EXTENDS Kmem, TLC

Alike == Permutations(Threads)
=============================================================================
