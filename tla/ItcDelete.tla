------------------------------ MODULE ItcDelete ------------------------------
(****************************************************************************)
(* A semaphore's slot of __itc_array over the lives of several objects:     *)
(* sm_create and sm_delete of src/src/tk_itc.c around TkItc.  sm_delete     *)
(* frees the object whoever is inside a call on it; a call that goes on     *)
(* after a wait reads __itc_array[qid] again.                               *)
(****************************************************************************)
EXTENDS TkItc

VARIABLES
  exists,    \* __itc_array[qid] is not NULL
  stale      \* threads that wait, or have waited, on an object that is gone

dvars == <<vars, exists, stale>>

DInit == Init /\ exists = TRUE /\ stale = {}

\* ERR_OBJDEL: with no object in the slot the calls change nothing.
Call ==
  /\ exists
  /\ LockFree \/ LockForever \/ LockTimed \/ Unlock \/ FromHandler
  /\ UNCHANGED <<exists, stale>>

Return ==
  /\ Resume
  /\ stale' = stale \ {active}
  /\ UNCHANGED exists

Around ==
  /\ Yield \/ Sleep \/ Dispatch \/ \E t \in Threads : Timeout(t)
  /\ UNCHANGED <<exists, stale>>

\* Fault: the deleter does not look.
Unused_Unseen == TRUE

(* What the deleter makes sure of: nobody is counted as waiting.  (A timed  *)
(* waiter of a FIFO semaphore that is less urgent than the others is taken  *)
(* off that count when a signal passes it over, and has yet to read the     *)
(* object: TkItc's caution on such waiters applies.)                        *)
Unused == q.token >= 0

sm_delete ==
  /\ Running("user") /\ exists /\ Unused
  /\ exists' = FALSE
  /\ stale' = stale \cup {t \in Threads : Pending(t)}
  /\ UNCHANGED vars

\* Fault: a new object is given the counter of the old one.
Fresh_SameToken(flag) ==
  [q EXCEPT !.blocked = [i \in Indices |-> None], !.in = 0, !.out = 0, !.prior = flag]

Fresh(flag) ==
  [token |-> Count, blocked |-> [i \in Indices |-> None], in |-> 0, out |-> 0, prior |-> flag]

sm_create ==
  /\ Running("user") /\ ~exists
  /\ \E flag \in Priors : q' = Fresh(flag)
  /\ exists' = TRUE
  /\ UNCHANGED <<state, event, active, npreempt, phase, pc, mark, stale>>

DNext == Call \/ Return \/ Around \/ sm_delete \/ sm_create
DSpec == DInit /\ [][DNext]_dvars

-----------------------------------------------------------------------------
(* A thread that goes on to read the object when its time is up finds the   *)
(* object that it has waited for, not NULL and not the next one.            *)
NeverStale == \A t \in stale : ~(Ready(t) /\ pc[t] = "timed" /\ event[t] = "E_TIMER")

(* The object in the slot is a semaphore, which starts over when, and only  *)
(* when, sm_create puts another one there; nobody is in line then.          *)
IsRenewable == Sem!Init /\ [][Sem!Next \/ (~exists /\ exists' /\ Sem!Renew)]_(Sem!semaphore)
=============================================================================
