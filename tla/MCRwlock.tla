------------------------------ MODULE MCRwlock ------------------------------
(* Instances of PthreadRwlock for TLC.                                      *)
EXTENDS PthreadRwlock

Mixed == [t \in Threads |-> IF t \in {1, 3} THEN 4 ELSE 5]
=============================================================================
