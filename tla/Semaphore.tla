------------------------------ MODULE Semaphore ------------------------------
(****************************************************************************)
(* What sm_p and sm_v promise to the threads that call them: a counter and  *)
(* a line of waiters, in which a signal serves the first (FIFO) or the most *)
(* urgent one (PRIOR).  The time of a waiter may be up while it stands in   *)
(* the line; a FIFO signal passes over it as long as somebody still waits.  *)
(****************************************************************************)
EXTENDS Integers, SequencesExt

CONSTANTS Threads, PrioOf, Count, Timed
VARIABLES value,     \* signals that nobody has waited for yet
          waiting,   \* the line
          outcome,   \* of each thread's call of sm_p
          prior      \* PRIOR or FIFO

Init ==
  /\ value = Count
  /\ waiting = <<>>
  /\ outcome = [t \in Threads |-> "none"]
  /\ prior \in BOOLEAN

(* sm_p takes a signal, or puts its caller in the line.                     *)
Take ==
  /\ value > 0
  /\ value' = value - 1
  /\ UNCHANGED <<waiting, outcome>>

Wait(t) ==
  /\ value = 0 /\ outcome[t] = "none"
  /\ waiting' = Append(waiting, t)
  /\ outcome' = [outcome EXCEPT ![t] = "waiting"]
  /\ UNCHANGED value

(* sm_v with an empty line.                                                 *)
Deposit ==
  /\ waiting = <<>>
  /\ value' = value + 1
  /\ UNCHANGED <<waiting, outcome>>

(* sm_v serves one waiter, in the order that the object's flags ask for;    *)
(* late ones in front of it leave the line.                                 *)
ServeFirst ==
  \E k \in 1 .. Len(waiting) :
    /\ outcome[waiting[k]] = "waiting" \/ k = Len(waiting)
    /\ \A i \in 1 .. k - 1 : outcome[waiting[i]] = "late"
    /\ waiting' = SubSeq(waiting, k + 1, Len(waiting))
    /\ outcome' = [outcome EXCEPT ![waiting[k]] = "served"]
    /\ UNCHANGED value

ServeMostUrgent ==
  \E k \in 1 .. Len(waiting) :
    /\ \A i \in 1 .. Len(waiting) :
         \/ PrioOf[waiting[k]] < PrioOf[waiting[i]]
         \/ PrioOf[waiting[k]] = PrioOf[waiting[i]] /\ k <= i
    /\ waiting' = RemoveAt(waiting, k)
    /\ outcome' = [outcome EXCEPT ![waiting[k]] = "served"]
    /\ UNCHANGED value

Serve == IF prior THEN ServeMostUrgent ELSE ServeFirst

(* A call of sm_p returns: because it was served, or because its time is    *)
(* up, whether it still stands in the line or was passed over.              *)
Leave(t) ==
  /\ outcome[t] = "served"
  /\ outcome' = [outcome EXCEPT ![t] = "none"]
  /\ UNCHANGED <<value, waiting>>

TimeUp(t) ==
  /\ t \in Timed /\ outcome[t] = "waiting"
  /\ outcome' = [outcome EXCEPT ![t] = "late"]
  /\ UNCHANGED <<value, waiting>>

StepsOut(t) ==
  \E k \in 1 .. Len(waiting) : waiting[k] = t /\ waiting' = RemoveAt(waiting, k)
PassedOver(t) ==
  (\A k \in 1 .. Len(waiting) : waiting[k] # t) /\ UNCHANGED waiting

GiveUp(t) ==
  /\ outcome[t] = "late"
  /\ StepsOut(t) \/ PassedOver(t)
  /\ outcome' = [outcome EXCEPT ![t] = "none"]
  /\ UNCHANGED value

Next ==
  /\ \/ Take \/ Deposit \/ Serve
     \/ \E t \in Threads : Wait(t) \/ Leave(t) \/ TimeUp(t) \/ GiveUp(t)
  /\ UNCHANGED prior

semaphore == <<value, waiting, outcome, prior>>
Spec == Init /\ [][Next]_semaphore

(* sm_delete and sm_create while nobody is in line start the counter again. *)
Renew ==
  /\ waiting = <<>> /\ value' = Count /\ prior' \in BOOLEAN
  /\ UNCHANGED <<waiting, outcome>>
=============================================================================
