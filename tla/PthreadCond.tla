----------------------------- MODULE PthreadCond -----------------------------
(****************************************************************************)
(* Threads that share a mutex and a condition variable (PthreadSync).       *)
(*                                                                          *)
(* In TinKer pthread_cond_signal and pthread_cond_broadcast release the     *)
(* cooperating mutex, if anybody has ever waited for the condition.  The    *)
(* threads here know that, and regard themselves as outside of the critical *)
(* section then.  One written as POSIX (and doc/paper/part3) has it would   *)
(* go on to unlock a mutex that may be somebody else's by now.              *)
(****************************************************************************)
EXTENDS PthreadSync

CONSTANTS Mutex, Cond

ASSUME CondAssumption == Mutex \in Mutexes /\ Cond \in Conds

After == IF coop[Cond] = NULL THEN <<"in">> ELSE <<"out">>

CondInit == SyncInit("out")

Lock      == At("out") /\ MutexLock(Mutex, <<"in">>)
Unlock    == At("in") /\ MutexUnlock(Mutex, <<"out">>)
Wait      == At("in") /\ CondWait(Cond, Mutex, <<"in">>)
Signal    == At("in") /\ CondSignal(Cond, After)
Broadcast == At("in") /\ CondBroadcast(Cond, After)

CondNext ==
  \/ Lock \/ Unlock \/ Wait \/ Signal \/ Broadcast \/ Release \/ Relock
  \/ Yield({"in", "out"}) \/ Sleep({"in", "out"})
  \/ Dispatch \/ \E t \in Threads : Wake(t)

CondSpec == CondInit /\ [][CondNext]_syncvars

-----------------------------------------------------------------------------
CondTypeOK ==
  /\ SyncTypeOK
  /\ pc \in [Threads -> {<<"in">>, <<"out">>}
                        \cup {<<"release", Cond>> \o s : s \in {<<"in">>, <<"out">>}}
                        \cup {<<"relock", Cond, "in">>}]

Inside(t) == pc[t] = <<"in">> /\ t \notin sync.queued

(* A thread that has returned from pthread_mutex_lock or pthread_cond_wait  *)
(* owns the mutex until it gives it up.                                     *)
InsideOwns == \A t \in Threads : Inside(t) => sync.mux[Mutex].owner = t
=============================================================================
