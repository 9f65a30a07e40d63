-------------------------------- MODULE MCCond --------------------------------
(* Instances of PthreadCond for TLC: two threads are more urgent.           *)
EXTENDS PthreadCond

PairFirst == [t \in Threads |-> IF t \in {1, 2} THEN 4 ELSE 5]
=============================================================================
