-------------------------------- MODULE MCMq --------------------------------
(* Instances of PosixMq for TLC.                                            *)
EXTENDS PosixMq

Spread == [t \in Threads |-> IF t \in {1, 3} THEN 4 ELSE 5]

(* The messages of the instance never make the ring hold more than two; the *)
(* sort is tried on every array of up to five keys, equal ones included.    *)
Less(a, b) == a < b
Search == INSTANCE AnsiSearch WITH Before <- Less
Keys == 1 .. 3

ASSUME QsortAssumption ==
  \A n \in 0 .. 5 : \A a \in [0 .. n - 1 -> Keys] :
    LET b == Search!qsort(a, n)
    IN /\ \A i \in 0 .. n - 2 : b[i] <= b[i + 1]
       /\ \A k \in Keys : Cardinality({i \in DOMAIN a : a[i] = k})
                           = Cardinality({i \in DOMAIN b : b[i] = k})
=============================================================================
