-------------------------------- MODULE TkItc --------------------------------
(****************************************************************************)
(* TinKer's own semaphores (src/src/tk_itc.c, tk_itcshared.c, tk_itcny.c):  *)
(* lock_stage and unlock_stage, on which sm_p, sm_v and the message queues  *)
(* are built, their counterpart for interrupt handlers, and the two things  *)
(* of the kernel they depend on: the timer of a wait (the scan in tk_yield) *)
(* and the dispatch of the most urgent READY thread.                        *)
(*                                                                          *)
(* One object and the threads that use it.  A thread runs from one kernel   *)
(* call to the next, an interrupt handler may come in between two steps.    *)
(* Only the bits QUEUE ("Q") and SLEEP ("S") of a thread's state matter     *)
(* here; a thread without any is READY.                                     *)
(****************************************************************************)
EXTENDS Integers, FiniteSets, Sequences, SequencesExt

CONSTANTS
  Threads, None,
  PrioOf,          \* Prio of every thread; a smaller number is more urgent
  MaxBlocked,      \* TK_MAX_BLOCKED_ON_Q
  Priors,          \* what flags & PRIOR may be of the object
  Count,           \* the initial token
  Kind,            \* "SEM" or "S_QUEUE"
  Timed,           \* threads that may wait with a timeout
  Lockers,         \* threads that call sm_p or q_receive
  Sleepers,        \* threads that call tk_msleep
  Handlers,        \* interrupt handlers call sm_v_ny
  MaxPreempt,      \* bound: handlers that wake a thread between two tk_yield
  MaxToken         \* bound: sm_v is not called when token is this high

ASSUME ItcAssumption ==
  /\ None \notin Threads
  /\ IsFiniteSet(Threads)     \* the pool of threads has TK_MAX_THREADS places
  /\ PrioOf \in [Threads -> Nat]
  /\ MaxBlocked \in Nat /\ MaxBlocked >= 2
  /\ Priors \subseteq BOOLEAN /\ Handlers \in BOOLEAN
  /\ Count \in Nat /\ MaxPreempt \in Nat /\ MaxToken \in Nat
  /\ Kind \in {"SEM", "S_QUEUE"}
  /\ Timed \subseteq Threads /\ Sleepers \subseteq Threads
  /\ Lockers \subseteq Threads

VARIABLES
  q,                     \* the itc_t: flags & PRIOR, token, blocked_procs,
                         \* in_idx, out_idx
  state, event, active,  \* of the pool: state, wakeupEvent; __tk_active_thread
  npreempt,              \* threads woken by handlers since the last tk_yield
  phase,                 \* user code or inside tk_yield
  pc, mark               \* where each thread is, and its local mark_idx

vars == <<q, state, event, active, npreempt, phase, pc, mark>>

Indices == 0 .. MaxBlocked - 1
Places  == {"user", "blocked", "timed", "wake", "fetch", "copied", "post"}

TypeOK ==
  /\ q \in [token : Int, blocked : [Indices -> Threads \cup {None}],
            in : Indices, out : Indices, prior : BOOLEAN]
  /\ state \in [Threads -> SUBSET {"Q", "S"}]
  /\ event \in [Threads -> {"E_NONE", "E_TIMER", "E_ITC", "E_ITC2"}]
  /\ active \in Threads /\ npreempt \in Nat
  /\ phase \in {"run", "yield"}
  /\ pc \in [Threads -> Places] /\ mark \in [Threads -> Indices]

Ready(t) == state[t] = {}
IsMostUrgent(t) == Ready(t) /\ \A u \in Threads : Ready(u) => PrioOf[t] <= PrioOf[u]

Init ==     \* sm_create; every thread is about to use the object
  /\ \E flag \in Priors :
       q = [token |-> Count, blocked |-> [i \in Indices |-> None],
            in |-> 0, out |-> 0, prior |-> flag]
  /\ state = [t \in Threads |-> {}]
  /\ event = [t \in Threads |-> "E_NONE"]
  /\ active \in {t \in Threads : \A u \in Threads : PrioOf[t] <= PrioOf[u]}
  /\ npreempt = 0
  /\ phase = "run"
  /\ pc = [t \in Threads |-> "user"]
  /\ mark = [t \in Threads |-> 0]

-----------------------------------------------------------------------------
(* The ring of blocked threads.                                             *)
\* Fault: the index is not wrapped.
Wrap_Never(i) == i

Wrap(i) == IF i >= MaxBlocked THEN i - MaxBlocked ELSE i
Succ(i) == Wrap(i + 1)
Pred(i) == IF i = 0 THEN MaxBlocked - 1 ELSE i - 1
Gap(i, j) == IF i <= j THEN j - i ELSE MaxBlocked - i + j
Between(i, j) == {k \in Indices : Gap(i, k) < Gap(i, j)}    \* from i up to j
Used(x) == Between(x.out, x.in)

(* _itc_removeBlocked: at either end, or by moving the later entries down.  *)
RemoveBlocked(x, i) ==
  IF x.out = i
  THEN [x EXCEPT !.token = @ + 1, !.blocked[i] = None, !.out = Succ(@)]
  ELSE IF Pred(x.in) = i
  THEN [x EXCEPT !.token = @ + 1, !.blocked[i] = None, !.in = Pred(@)]
  ELSE [x EXCEPT !.token = @ + 1, !.in = Pred(@),
                 !.blocked = [k \in Indices |->
                    IF k \in Between(i, x.in) THEN x.blocked[Succ(k)]
                                              ELSE x.blocked[k]]]

(* The end of a timed out wait: the entries of others that have timed out   *)
(* as well are removed, up to where the counter is no longer negative.      *)
SweepOne(s) ==
  LET t    == s.x.blocked[s.at]
      late == t # None /\ Ready(t) /\ s.event[t] = "E_TIMER"
      x    == IF late THEN RemoveBlocked(s.x, s.at) ELSE s.x
      ev   == IF late THEN [s.event EXCEPT ![t] = "E_ITC2"] ELSE s.event
  IN [x |-> x, event |-> ev, at |-> Succ(s.at),
      done |-> s.at = x.in \/ x.token >= 0 \/ Succ(s.at) = x.in]

Sweep(x, ev) ==
  FoldLeft(LAMBDA s, n : IF s.done THEN s ELSE SweepOne(s),
           [x |-> x, event |-> ev, at |-> x.out, done |-> FALSE],
           [n \in 1 .. MaxBlocked |-> n])

-----------------------------------------------------------------------------
(* lock_stage.                                                              *)
Running(p) == phase = "run" /\ pc[active] = p
At(p) == pc' = [pc EXCEPT ![active] = p]
Calling == Running("user") /\ active \in Lockers
Locked == IF Kind = "SEM" THEN "user" ELSE "fetch"
Signals == IF Kind = "SEM" THEN "user" ELSE "post"

LockFree ==
  /\ Calling /\ q.token > 0
  /\ q' = [q EXCEPT !.token = @ - 1]
  /\ At(Locked)
  /\ UNCHANGED <<state, event, active, npreempt, phase, mark>>

(* The calls refused for want of a token (NOWAIT) or of room in the ring    *)
(* (ERR_BLOCKLIMIT) change nothing.                                         *)
MayBlock == q.token <= 0 /\ -q.token < MaxBlocked - 1

\* Fault: the new waiter is not counted.
Enlisted_Uncounted ==
  [q EXCEPT !.blocked[q.in] = active, !.in = Succ(@)]

Enlisted ==
  [q EXCEPT !.token = @ - 1, !.blocked[q.in] = active, !.in = Succ(@)]

LockForever ==
  /\ Calling /\ MayBlock
  /\ q' = Enlisted
  /\ state' = [state EXCEPT ![active] = @ \cup {"Q"}]
  /\ event' = [event EXCEPT ![active] = "E_NONE"]
  /\ At("blocked") /\ phase' = "yield"
  /\ UNCHANGED <<active, npreempt, mark>>

LockTimed ==
  /\ Calling /\ active \in Timed /\ MayBlock
  /\ q' = Enlisted
  /\ state' = [state EXCEPT ![active] = @ \cup {"Q", "S"}]
  /\ mark' = [mark EXCEPT ![active] = q'.in]
  /\ At("timed") /\ phase' = "yield"
  /\ UNCHANGED <<event, active, npreempt>>

Unblocked ==
  /\ Running("blocked")
  /\ At(Locked)
  /\ UNCHANGED <<q, state, event, active, npreempt, phase, mark>>

InTime ==       \* E_ITC, or swept away by another waiter (E_ITC2)
  /\ Running("timed") /\ event[active] # "E_TIMER"
  /\ At(IF event[active] = "E_ITC2" THEN "user" ELSE Locked)
  /\ UNCHANGED <<q, state, event, active, npreempt, phase, mark>>

\* Fault: the late waiter does not leave the ring.
TimedOut_Stays ==
  /\ Running("timed") /\ event[active] = "E_TIMER"
  /\ At("user")
  /\ UNCHANGED <<q, state, event, active, npreempt, phase, mark>>

TimedOut ==
  /\ Running("timed") /\ event[active] = "E_TIMER"
  /\ LET x == RemoveBlocked(q, Pred(mark[active]))
         s == Sweep(x, event)
     IN IF q.token >= 0 THEN UNCHANGED <<q, event>>
        ELSE IF x.token >= 0 THEN q' = x /\ UNCHANGED event
        ELSE q' = s.x /\ event' = s.event
  /\ At("user")
  /\ UNCHANGED <<state, active, npreempt, phase, mark>>

-----------------------------------------------------------------------------
(* unlock_stage.                                                            *)
Grant(t) ==
  /\ state' = [state EXCEPT ![t] = {}]
  /\ event' = [event EXCEPT ![t] = "E_ITC"]

SignalFree ==
  /\ q.token >= 0 /\ q.token < MaxToken
  /\ q' = [q EXCEPT !.token = @ + 1]
  /\ UNCHANGED <<state, event>>

(* FIFO: entries are taken from the ring until one still waits, or until    *)
(* the counter says that there are no more.                                 *)
Entry(k) == q.blocked[Wrap(q.out + k - 1)]
StillWaits(t) == "Q" \in state[t]
IsTaken(k) ==
  /\ StillWaits(Entry(k)) \/ k = -q.token
  /\ \A j \in 1 .. k - 1 : ~StillWaits(Entry(j))

\* Fault: entries are taken until the counter says that there are no more.
SignalFifo_All ==
  /\ q.token < 0 /\ ~q.prior
  /\ q' = [q EXCEPT !.out = Wrap(@ - q.token), !.token = 0]
  /\ Grant(Entry(-q.token))

\* Fault: the newest waiter is served.
SignalFifo_Newest ==
  /\ q.token < 0 /\ ~q.prior
  /\ q' = [q EXCEPT !.in = Pred(@), !.token = @ + 1]
  /\ Grant(Entry(-q.token))

SignalFifo ==
  /\ q.token < 0 /\ ~q.prior
  /\ \E k \in 1 .. -q.token :
       /\ IsTaken(k)
       /\ q' = [q EXCEPT !.out = Wrap(@ + k), !.token = @ + k]
       /\ Grant(Entry(k))

(* PRIOR: the first of the most urgent entries, wherever it is.  (The early *)
(* return for an empty ring with a negative token has no counterpart:       *)
(* WaitersOK says that there is no such state.)                             *)
\* Fault: the last of the most urgent entries.
IsNextServed_Last(i) ==
  \A j \in Used(q) : PrioOf[q.blocked[i]] < PrioOf[q.blocked[j]]
    \/ (PrioOf[q.blocked[i]] = PrioOf[q.blocked[j]] /\ Gap(q.out, i) >= Gap(q.out, j))

IsNextServed(i) ==
  \A j \in Used(q) : PrioOf[q.blocked[i]] < PrioOf[q.blocked[j]]
    \/ (PrioOf[q.blocked[i]] = PrioOf[q.blocked[j]] /\ Gap(q.out, i) <= Gap(q.out, j))

SignalPrior ==
  /\ q.token < 0 /\ q.prior
  /\ \E i \in Used(q) :
       /\ IsNextServed(i)
       /\ q' = RemoveBlocked(q, i)
       /\ Grant(q.blocked[i])

Signal == SignalFree \/ SignalFifo \/ SignalPrior
Wakes == q.token < 0

Unlock ==
  /\ Running(Signals)
  /\ Signal
  /\ IF Wakes THEN At("wake") /\ phase' = "yield" ELSE At("user") /\ UNCHANGED phase
  /\ UNCHANGED <<active, npreempt, mark>>

Unlocked ==
  /\ Running("wake")
  /\ At("user")
  /\ UNCHANGED <<q, state, event, active, npreempt, phase, mark>>

(* sm_v_ny: the same without a yield.  Only the FIFO branch registers the   *)
(* thread it woke with tk_preemplist.                                       *)
Registers == Wakes /\ ~q.prior

FromHandler ==
  /\ Handlers
  /\ Registers => npreempt < MaxPreempt
  /\ Signal
  /\ npreempt' = IF Registers THEN npreempt + 1 ELSE npreempt
  /\ UNCHANGED <<active, phase, pc, mark>>

-----------------------------------------------------------------------------
(* The kernel around the object.                                            *)
Yield ==      \* tk_yield
  /\ Running("user")
  /\ phase' = "yield"
  /\ UNCHANGED <<q, state, event, active, npreempt, pc, mark>>

Sleep ==      \* tk_msleep
  /\ Running("user") /\ active \in Sleepers
  /\ state' = [state EXCEPT ![active] = @ \cup {"S"}]
  /\ phase' = "yield"
  /\ UNCHANGED <<q, event, active, npreempt, pc, mark>>

(* The scan wakes a sleeper that is due.  The clock is not modelled, so any *)
(* sleeper may be; the scan stops when a handler has woken a thread.        *)
Timeout(t) ==
  /\ phase = "yield" /\ npreempt = 0 /\ "S" \in state[t]
  /\ state' = [state EXCEPT ![t] = {}]
  /\ event' = [event EXCEPT ![t] = "E_TIMER"]
  /\ UNCHANGED <<q, active, npreempt, phase, pc, mark>>

(* The end of tk_yield.  While no thread is READY, the idle thread goes on  *)
(* yielding.  What the list of preempting threads says is overwritten by    *)
(* the ordinary choice, so only its length matters.                         *)
Dispatch ==
  /\ phase = "yield" /\ npreempt < 2
  /\ \E t \in Threads : IsMostUrgent(t) /\ active' = t
  /\ npreempt' = 0
  /\ phase' = "run"
  /\ UNCHANGED <<q, state, event, pc, mark>>

Resume == Unblocked \/ InTime \/ TimedOut \/ Unlocked
Kernel == Resume \/ Dispatch
Core ==
  \/ LockFree \/ LockForever \/ LockTimed \/ Unlock
  \/ Yield \/ Sleep
  \/ Kernel \/ \E t \in Threads : Timeout(t)

Next == Core \/ FromHandler
Spec == Init /\ [][Next]_vars

(* The CPU goes on executing what a thread has begun in the kernel.         *)
FairSpec == Spec /\ WF_vars(Kernel)

-----------------------------------------------------------------------------
(* Safety.                                                                  *)
(* The time is up, and the waiter has yet to take itself out.               *)
Late(t) == pc[t] = "timed" /\ state[t] = {} /\ event[t] = "E_TIMER"
InRing(t) == \E i \in Used(q) : q.blocked[i] = t
Pending(t) == pc[t] \in {"blocked", "timed"}

(* No waiter is lost and none is counted twice: the ring holds a thread at  *)
(* most once, it holds every thread whose state says that it waits (QUEUE), *)
(* and only threads inside lock_stage; its length is the negative token.    *)
WaitersOK ==
  /\ Cardinality(Used(q)) = IF q.token < 0 THEN -q.token ELSE 0
  /\ \A i \in Used(q) : q.blocked[i] # None /\ Pending(q.blocked[i])
  /\ \A i, j \in Used(q) : q.blocked[i] = q.blocked[j] => i = j
  /\ \A t \in Threads : "Q" \in state[t] => InRing(t)

(* A thread that lock_stage blocks is let go with a grant, or, if it waits  *)
(* for a limited time only, because that is over.  A signal passes over a   *)
(* late waiter while others still wait, and serves it if nobody does.       *)
OutcomeOf(t) ==
  IF ~Pending(t) THEN "none"
  ELSE IF Late(t) THEN "late"
  ELSE IF InRing(t) THEN "waiting"
  ELSE IF event[t] = "E_ITC" THEN "served" ELSE "late"

Line == [k \in 1 .. Gap(q.out, q.in) |-> Entry(k)]

Sem == INSTANCE Semaphore WITH
         value   <- IF q.token > 0 THEN q.token ELSE 0,
         waiting <- Line,
         outcome <- [t \in Threads |-> OutcomeOf(t)],
         prior   <- q.prior

(* lock_stage and unlock_stage are a semaphore: every signal is kept or     *)
(* given to exactly one waiter, in the order the object's flags ask for.    *)
IsSemaphore == Sem!Spec

(* assert(_itc_proveConcistency(qid)), which the queue calls evaluate when  *)
(* lock_stage or unlock_stage returns: a counter that is not positive says  *)
(* how many of the ring's threads wait or are READY.                        *)
Consistent ==
  q.token > 0 \/ Cardinality({i \in Used(q) : StillWaits(q.blocked[i])
                                             \/ Ready(q.blocked[i])}) = -q.token
ConsistencyAssert ==
  [][(LockFree \/ Resume \/ Unlock) /\ phase' = "run" => Consistent']_vars

(* Liveness: a FIFO waiter is served if the object goes on being signalled. *)
NoStarvation ==
  []<><<Signal>>_q => \A t \in Threads : (StillWaits(t) ~> ~StillWaits(t))
=============================================================================
