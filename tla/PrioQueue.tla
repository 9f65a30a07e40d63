------------------------------ MODULE PrioQueue ------------------------------
(* What a POSIX message queue promises: the oldest of the most important    *)
(* messages that were accepted is received first.                           *)
EXTENDS Integers, Sequences, SequencesExt
CONSTANTS Threads, Msgs, MsgPrios, None
VARIABLES accepted,  \* the messages not received yet, oldest first
          in,        \* the last message accepted
          out        \* the last message that each thread received

Messages == [msg : Msgs, prio : MsgPrios]

Init == accepted = <<>> /\ in = None /\ out = [t \in Threads |-> None]

Send(m) ==
  /\ accepted' = Append(accepted, m) /\ in' = m
  /\ UNCHANGED out

Receive(t) ==
  \E k \in 1 .. Len(accepted) :
    /\ \A i \in 1 .. Len(accepted) :
         \/ accepted[k].prio > accepted[i].prio
         \/ accepted[k].prio = accepted[i].prio /\ k <= i
    /\ accepted' = RemoveAt(accepted, k)
    /\ out' = [out EXCEPT ![t] = accepted[k].msg]
    /\ UNCHANGED in

Next == (\E m \in Messages : Send(m)) \/ (\E t \in Threads : Receive(t))
Spec == Init /\ [][Next]_<<accepted, in, out>>
=============================================================================
