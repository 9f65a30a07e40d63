----------------------------- MODULE MCItcDelete -----------------------------
(* Instances of ItcDelete for TLC: the threads' priorities.                 *)
EXTENDS ItcDelete

ThreePrios == [t \in Threads |-> IF t = 1 THEN 3 ELSE IF t = 2 THEN 4 ELSE 5]
=============================================================================
