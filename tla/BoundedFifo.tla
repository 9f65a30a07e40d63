----------------------------- MODULE BoundedFifo -----------------------------
(* What a message queue promises: a bounded buffer, first in, first out.    *)
EXTENDS Integers, Sequences
CONSTANTS Threads, Msgs, Size, None
VARIABLES buffer,    \* the messages accepted and not received yet
          in,        \* the last message accepted
          out        \* the last message that each thread received

Init == buffer = <<>> /\ in = None /\ out = [t \in Threads |-> None]

Put(m) ==
  /\ Len(buffer) < Size
  /\ buffer' = Append(buffer, m) /\ in' = m
  /\ UNCHANGED out

Get(t) ==
  /\ buffer # <<>>
  /\ buffer' = Tail(buffer)
  /\ out' = [out EXCEPT ![t] = Head(buffer)]
  /\ UNCHANGED in

Next == (\E m \in Msgs : Put(m)) \/ (\E t \in Threads : Get(t))
Spec == Init /\ [][Next]_<<buffer, in, out>>
=============================================================================
