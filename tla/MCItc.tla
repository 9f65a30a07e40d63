-------------------------------- MODULE MCItc --------------------------------
(* Instances of TkItc for TLC: the threads' priorities.                     *)
EXTENDS TkItc

TwoPrios == [t \in Threads |-> IF t = 1 THEN 4 ELSE 5]
=============================================================================
