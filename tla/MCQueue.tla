------------------------------- MODULE MCQueue -------------------------------
(* Instances of TkQueue for TLC.                                            *)
EXTENDS TkQueue, TLC

ReceiversFirst ==
  [t \in Threads |-> IF t \in Timed THEN 3 ELSE IF t \in Lockers THEN 4 ELSE 5]

(* Receivers of one priority, and messages, may change places.              *)
Symmetry == Permutations(Threads \ Timed) \cup Permutations(Msgs)
=============================================================================
