----------------------------- MODULE PthreadSync -----------------------------
(****************************************************************************)
(* TinKer's POSIX 1003.1c synchronisation (src/src/pthread_sync.c,          *)
(* pthread_mutex.c, pthread_cond.c): the two primitives on which mutexes    *)
(* and condition variables are built, the calls as steps of the thread that *)
(* makes them, and the dispatcher.                                          *)
(*                                                                          *)
(* The kernel is cooperative: a thread runs until it yields, which the      *)
(* calls do only when they block their caller or wake another thread.  pc   *)
(* is a stack: the rest of the call that a thread is in, and below it the   *)
(* place to which the call returns.                                         *)
(****************************************************************************)
EXTENDS Integers, FiniteSets, Sequences, SequencesExt

CONSTANTS
  Threads, NULL, One,     \* One is the dummy owner (pthread_t)1 of a cv_mux
  PrioOf,                 \* Prio of every thread; smaller is more urgent
  Mutexes, Conds          \* a condition variable's name stands for its cv_mux

ASSUME SyncAssumption ==
  /\ NULL \notin Threads /\ One \notin Threads \cup {NULL}
  /\ PrioOf \in [Threads -> Nat]
  /\ Mutexes \cap Conds = {}

VARIABLES
  sync,        \* mux: owner and blocked of every mutex; queued: threads with QUEUE
  coop,        \* coop_mux of every condition variable
  active,      \* __tk_active_thread
  phase,       \* user code, or inside pthread_yield
  asleep,      \* threads in usleep
  pc

syncvars == <<sync, coop, active, phase, asleep, pc>>

SyncTypeOK ==
  /\ sync \in [mux : [Mutexes \cup Conds -> [owner : Threads \cup {NULL, One},
                                             blocked : Seq(Threads)]],
               queued : SUBSET Threads]
  /\ coop \in [Conds -> Mutexes \cup {NULL}]
  /\ active \in Threads /\ phase \in {"run", "yield"}
  /\ asleep \subseteq Threads

Ready(t) == t \notin sync.queued \cup asleep
IsMostUrgent(t) == Ready(t) /\ \A u \in Threads : Ready(u) => PrioOf[t] <= PrioOf[u]

SyncInit(place) ==      \* PTHREAD_MUTEX_INITIALIZER, PTHREAD_COND_INITIALIZER
  /\ sync = [mux |-> [m \in Mutexes \cup Conds |->
                        [owner |-> IF m \in Conds THEN One ELSE NULL, blocked |-> <<>>]],
             queued |-> {}]
  /\ coop = [c \in Conds |-> NULL]
  /\ active \in {t \in Threads : \A u \in Threads : PrioOf[t] <= PrioOf[u]}
  /\ phase = "run" /\ asleep = {}
  /\ pc = [t \in Threads |-> <<place>>]

-----------------------------------------------------------------------------
(* The primitives, on a value s of sync.                                    *)
IsFree(s, m) == s.mux[m].owner = NULL
Wakes(s, m) == ~IsFree(s, m) /\ s.mux[m].blocked # <<>>

(* _mutex_lock_primitive.                                                   *)
Locked(s, m, t) ==
  IF IsFree(s, m)
  THEN [s EXCEPT !.mux[m] = [owner |-> t, blocked |-> <<>>]]
  ELSE [s EXCEPT !.mux[m].blocked = Append(@, t), !.queued = @ \cup {t}]

(* _mutex_unlock_primitive, BSINGLE: the mutex is handed to the first of    *)
(* its most urgent waiters.                                                 *)
Favoured(b) ==
  CHOOSE j \in 1 .. Len(b) :
    \A i \in 1 .. Len(b) : PrioOf[b[j]] < PrioOf[b[i]]
                           \/ (PrioOf[b[j]] = PrioOf[b[i]] /\ j <= i)

\* Fault: the waiter is woken but does not get the mutex.
Unlocked_NoHandOff(s, m) ==
  LET b == s.mux[m].blocked
      j == Favoured(b)
  IN IF Wakes(s, m)
     THEN [mux |-> [s.mux EXCEPT ![m] = [owner |-> NULL, blocked |-> RemoveAt(b, j)]],
           queued |-> s.queued \ {b[j]}]
     ELSE [s EXCEPT !.mux[m].owner = NULL]

\* Fault: the new owner stays in the list of blocked threads.
Unlocked_Listed(s, m) ==
  LET b == s.mux[m].blocked
      j == Favoured(b)
  IN IF Wakes(s, m)
     THEN [mux |-> [s.mux EXCEPT ![m].owner = b[j]], queued |-> s.queued \ {b[j]}]
     ELSE [s EXCEPT !.mux[m].owner = NULL]

Unlocked(s, m) ==
  LET b == s.mux[m].blocked
      j == Favoured(b)
  IN IF Wakes(s, m)
     THEN [mux |-> [s.mux EXCEPT ![m] = [owner |-> b[j], blocked |-> RemoveAt(b, j)]],
           queued |-> s.queued \ {b[j]}]
     ELSE [s EXCEPT !.mux[m].owner = NULL]

(* The same with BCAST: everybody is woken, the owner stays.                *)
AllWoken(s, m) ==
  IF Wakes(s, m)
  THEN [mux |-> [s.mux EXCEPT ![m].blocked = <<>>],
        queued |-> s.queued \ ToSet(s.mux[m].blocked)]
  ELSE [s EXCEPT !.mux[m].owner = NULL]

-----------------------------------------------------------------------------
(* The calls, as made by the running thread; next is where they return to.  *)
At(place) == phase = "run" /\ Head(pc[active]) = place
Goto(stack) == pc' = [pc EXCEPT ![active] = stack]
YieldIf(b) == phase' = IF b THEN "yield" ELSE "run"

MutexLock(m, next) ==
  /\ sync' = Locked(sync, m, active)
  /\ YieldIf(~IsFree(sync, m))
  /\ Goto(next)
  /\ UNCHANGED <<coop, active, asleep>>

MutexUnlock(m, next) ==
  /\ sync' = Unlocked(sync, m)
  /\ YieldIf(Wakes(sync, m))
  /\ Goto(next)
  /\ UNCHANGED <<coop, active, asleep>>

(* pthread_cond_signal: one waiter of the condition variable is woken; when *)
(* it has run, the caller releases the cooperating mutex.                   *)
\* Fault: the cv_mux stays without an owner.
Rearmed_Never(s, c) == s

Rearmed(s, c) == IF IsFree(s, c) THEN [s EXCEPT !.mux[c].owner = One] ELSE s

CondSignal(c, next) ==
  /\ IF coop[c] = NULL
     THEN Goto(next) /\ UNCHANGED <<sync, phase>>
     ELSE /\ sync' = Rearmed(Unlocked(sync, c), c)
          /\ YieldIf(Wakes(sync, c))
          /\ Goto(<<"release", c>> \o next)
  /\ UNCHANGED <<coop, active, asleep>>

Release ==
  /\ At("release")
  /\ MutexUnlock(coop[pc[active][2]], SubSeq(pc[active], 3, Len(pc[active])))

(* pthread_cond_broadcast: all are woken and the mutex is released before   *)
(* anybody runs.                                                            *)
CondBroadcast(c, next) ==
  LET s == [AllWoken(sync, c) EXCEPT !.mux[c].owner = One]
  IN /\ IF coop[c] = NULL
        THEN UNCHANGED <<sync, phase>>
        ELSE /\ sync' = Unlocked(s, coop[c])
             /\ YieldIf(Wakes(sync, c) \/ Wakes(s, coop[c]))
     /\ Goto(next)
     /\ UNCHANGED <<coop, active, asleep>>

(* pthread_cond_wait: the mutex is released and the caller blocked without  *)
(* a yield in between.                                                      *)
CondWait(c, m, next) ==
  /\ sync' = Locked(Unlocked(sync, m), c, active)
  /\ coop' = [coop EXCEPT ![c] = m]
  /\ phase' = "yield"
  /\ Goto(<<"relock", c>> \o next)
  /\ UNCHANGED <<active, asleep>>

Relock ==
  /\ At("relock")
  /\ MutexLock(coop[pc[active][2]], SubSeq(pc[active], 3, Len(pc[active])))

-----------------------------------------------------------------------------
(* A thread between two calls of the module, and the kernel.                *)
InUser(places) == phase = "run" /\ pc[active] \in {<<p>> : p \in places}

Yield(places) ==
  /\ InUser(places) /\ phase' = "yield"
  /\ UNCHANGED <<sync, coop, active, asleep, pc>>

Sleep(places) ==
  /\ InUser(places) /\ phase' = "yield"
  /\ asleep' = asleep \cup {active}
  /\ UNCHANGED <<sync, coop, active, pc>>

Wake(t) ==
  /\ phase = "yield" /\ t \in asleep
  /\ asleep' = asleep \ {t}
  /\ UNCHANGED <<sync, coop, active, phase, pc>>

Dispatch ==
  /\ phase = "yield" /\ phase' = "run"
  /\ \E t \in Threads : IsMostUrgent(t) /\ active' = t
  /\ UNCHANGED <<sync, coop, asleep, pc>>

-----------------------------------------------------------------------------
Blocked(m) == ToSet(sync.mux[m].blocked)

(* No waiter is lost or listed twice: a thread whose state says QUEUE is in *)
(* exactly one list of blocked threads, and no owner waits.                 *)
WaitersOK ==
  /\ \A m \in Mutexes \cup Conds :
       /\ Blocked(m) \subseteq sync.queued
       /\ Cardinality(Blocked(m)) = Len(sync.mux[m].blocked)
       /\ m \in Mutexes => sync.mux[m].owner \notin sync.queued
  /\ \A t \in sync.queued :
       Cardinality({m \in Mutexes \cup Conds : t \in Blocked(m)}) = 1

(* assert(mutex->blocked.numb == 0) where a free mutex is unlocked, and     *)
(* assert(y) in pthread_cond_wait: a cv_mux is never found free.            *)
SyncAsserts ==
  /\ \A m \in Mutexes \cup Conds : IsFree(sync, m) => Blocked(m) = {}
  /\ \A c \in Conds : ~IsFree(sync, c)
=============================================================================
