------------------------------- MODULE TkSched -------------------------------
(****************************************************************************)
(* The inner kernel of TinKer (src/src/tk.c, src/src/tk_switch.c): the pool *)
(* of task control blocks, the two-dimensional schedule, the dispatcher     *)
(* behind tk_yield, and the operations that change them: create, delete,    *)
(* join, sleep, change priority.                                            *)
(*                                                                          *)
(* One CPU, explicit yielding.  A thread runs user code until it calls the  *)
(* kernel; an operation that ends in tk_yield enters the scan of            *)
(* _tk_wakeup_timedout_threads (one step per pool index, as in the code,    *)
(* which opens an interrupt window between two indices) and then            *)
(* dispatches.  Where a thread resumes after its yield is kept in cont.     *)
(****************************************************************************)
EXTENDS Integers, FiniteSets, FiniteSetsExt

CONSTANTS
  MaxThreads,      \* TK_MAX_THREADS
  MaxPrio,         \* TK_MAX_PRIO_LEVELS
  MaxAtPrio,       \* TK_MAX_THREADS_AT_PRIO
  AfterTable,      \* the word stored behind the last row of __tk_schedule
  SerialCreates,   \* clients never overlap two calls of tk_create_thread
  Cancelled,       \* ids that clients pass to tk_delete_thread
  ReCancel,        \* ... also when the thread is dead and may still be joined
  EventYields,     \* clients call tk_yield_event, which skips the scan
  MaxChilds,       \* bound: a thread whose noChilds has crept up to it creates
                   \* no more (only ReCancel makes the counter creep)
  Moved            \* ids that clients pass to pthread_setschedparam

Tids  == 0 .. MaxThreads - 1
Prios == 0 .. MaxPrio - 1
Slots == 0 .. MaxAtPrio - 1
Root  == 0         \* the context that booted the kernel, at priority 0
Idle  == 1         \* idle_Thid: the first index that tk_create_thread hands out
NoTid == -1

ASSUME PoolAssumption ==
  /\ MaxThreads \in Nat /\ MaxThreads >= 2
  /\ MaxPrio \in Nat /\ MaxPrio >= 2
  /\ MaxAtPrio \in Nat /\ MaxAtPrio >= 1
  /\ AfterTable \in Tids

ASSUME ClientAssumption ==
  /\ SerialCreates \in BOOLEAN
  /\ ReCancel \in BOOLEAN
  /\ MaxChilds \in Nat
  /\ EventYields \in BOOLEAN
  /\ Cancelled \subseteq Tids \ {Idle}
  /\ Moved \subseteq Tids \ {Idle}

VARIABLES
  valid, state, gid, noChilds, prio, idx, bon, event,   \* the pool, per field
  sched, procs, curr,        \* __tk_schedule, procs_at_prio, curr_idx
  procIdx, inUse,            \* __tk_proc_idx, __tk_procs_in_use
  active,                    \* __tk_active_thread
  phase, scan,               \* user code, inside tk_yield, or stopped
  cont, making, limbo        \* local state of calls that are suspended

tcb   == <<valid, state, gid, noChilds, prio, idx, bon, event>>
table == <<sched, procs, curr>>
local == <<cont, making, limbo>>
vars  == <<tcb, table, procIdx, inUse, active, phase, scan, local>>

Bits   == {"T", "S", "Z"}    \* TERM, SLEEP, ZOMBI; no bit set is READY
Ready  == {}
Events == {"E_NONE", "E_CHILDDEATH", "E_TIMER"}

TypeOK ==
  /\ valid \in [Tids -> BOOLEAN]
  /\ state \in [Tids -> SUBSET Bits]
  /\ gid \in [Tids -> Tids \cup {NoTid}]
  /\ noChilds \in [Tids -> Int]
  /\ prio \in [Tids -> Prios]
  /\ idx \in [Tids -> Nat]
  /\ bon \in [Tids -> Tids \cup {NoTid}]
  /\ event \in [Tids -> Events]
  /\ sched \in [Prios -> [Slots -> Tids]]
  /\ procs \in [Prios -> Nat]
  /\ curr \in [Prios -> Nat]
  /\ procIdx \in Tids
  /\ inUse \in Int
  /\ active \in Tids
  /\ phase \in {"run", "yield", "exit"}
  /\ scan \in 0 .. MaxThreads
  /\ cont \in [Tids -> {"user", "create", "join"}]
  /\ making \in [Tids -> Tids \cup {NoTid}]
  /\ limbo \in SUBSET Tids

-----------------------------------------------------------------------------
(* tk_create_kernel: root occupies slot 0 of priority 0, idle is its own    *)
(* parent at the lowest priority.                                           *)
Init ==
  /\ valid = [t \in Tids |-> t \in {Root, Idle}]
  /\ state = [t \in Tids |-> IF t \in {Root, Idle} THEN Ready ELSE {"Z"}]
  /\ gid = [t \in Tids |-> IF t = Idle THEN Idle ELSE 0]
  /\ noChilds = [t \in Tids |-> 0]
  /\ prio = [t \in Tids |-> IF t = Idle THEN MaxPrio - 1 ELSE 0]
  /\ idx = [t \in Tids |-> 0]
  /\ bon = [t \in Tids |-> NoTid]
  /\ event = [t \in Tids |-> "E_NONE"]
  /\ sched = [p \in Prios |-> [i \in Slots |->
                 IF p = MaxPrio - 1 /\ i = 0 THEN Idle ELSE 0]]
  /\ procs = [p \in Prios |-> IF p \in {0, MaxPrio - 1} THEN 1 ELSE 0]
  /\ curr = [p \in Prios |-> 0]
  /\ procIdx = Idle
  /\ inUse = 2
  /\ active = Root
  /\ phase = "run"
  /\ scan = 0
  /\ cont = [t \in Tids |-> "user"]
  /\ making = [t \in Tids |-> NoTid]
  /\ limbo = {}

-----------------------------------------------------------------------------
(* Reading and writing the schedule.  The table is one C array: the cell    *)
(* behind the end of a row is the first cell of the next one.               *)
Cell(p, i) ==
  IF i < MaxAtPrio THEN sched[p][i]
  ELSE IF p + 1 < MaxPrio /\ i - MaxAtPrio < MaxAtPrio
       THEN sched[p + 1][i - MaxAtPrio]
       ELSE AfterTable

WithCell(tab, p, i, t) ==
  IF i < MaxAtPrio THEN [tab EXCEPT ![p][i] = t]
  ELSE IF p + 1 < MaxPrio /\ i - MaxAtPrio < MaxAtPrio
       THEN [tab EXCEPT ![p + 1][i - MaxAtPrio] = t]
       ELSE tab

(* The loop that closes the gap at index k of row p.  It runs up to and     *)
(* including the last index in use, so it also copies the cell behind the   *)
(* row's threads, and renumbers whatever thread that cell names.            *)
RowWithout(p, k) ==
  [sched EXCEPT ![p] = [i \in Slots |->
      IF k <= i /\ i < procs[p] THEN Cell(p, i + 1) ELSE sched[p][i]]]

Landings(p, k, t) == {i \in k .. procs[p] - 1 : Cell(p, i + 1) = t}

\* Fault: the loop moves the cells and forgets the threads' Idx.
Renumbered_Forgotten(p, k) == idx

Renumbered(p, k) ==
  [t \in Tids |-> LET landed == Landings(p, k, t)
                  IN IF landed = {} THEN idx[t] ELSE Max(landed)]

\* Fault: the counter is decremented in the loop and again after it.
ProcsWithout_Twice(p) == [procs EXCEPT ![p] = @ - 2]

ProcsWithout(p) == [procs EXCEPT ![p] = @ - 1]
CurrWithout(p) ==
  [curr EXCEPT ![p] = IF @ >= procs[p] - 1 THEN 0 ELSE @]

(* The tail of tk_delete_thread, from the schedule entry to valid = FALSE.  *)
Bury(t) ==
  /\ inUse' = inUse - 1
  /\ sched' = RowWithout(prio[t], idx[t])
  /\ idx' = Renumbered(prio[t], idx[t])
  /\ procs' = ProcsWithout(prio[t])
  /\ curr' = CurrWithout(prio[t])
  /\ valid' = [valid EXCEPT ![t] = FALSE]
  /\ UNCHANGED prio

Unburied == UNCHANGED <<valid, prio, idx, table, inUse>>

-----------------------------------------------------------------------------
(* Parents and children.                                                    *)
Children(t) == {c \in Tids : valid[c] /\ gid[c] = t}

(* The children that _tk_detach_children reaches: in index order, for as    *)
(* long as the counter of the parent is positive.                           *)
\* Fault: the loop stops one child early.
Orphans_AllButOne(t) ==
  {c \in Children(t) :
     Cardinality({d \in Children(t) : d < c}) < noChilds[t] - 1}

Orphans(t) ==
  {c \in Children(t) : Cardinality({d \in Children(t) : d < c}) < noChilds[t]}

\* Fault: the counter goes down but the children keep their Gid.
GidWithout_Kept(t) == gid

GidWithout(t) == [c \in Tids |-> IF c \in Orphans(t) THEN NoTid ELSE gid[c]]
NoChildsWithout(t) == [noChilds EXCEPT ![t] = @ - Cardinality(Orphans(t))]

\* Fault: any child's death is taken for the one that the parent waits for.
JoinedBy_AnyChild(t, st, g) == g[t] # NoTid /\ "T" \in st[g[t]]

\* Fault: the parent is never found to be waiting.
JoinedBy_Never(t, st, g) == FALSE

JoinedBy(t, st, g) ==
  g[t] # NoTid /\ "T" \in st[g[t]] /\ bon[g[t]] = t

(* The return value of _tk_try_detach_parent without force.                 *)
\* Fault: a thread that was detached is not let go.
LetGo_JoinedOnly(t, st, g) == JoinedBy(t, st, g)

LetGo(t, st, g) == g[t] = NoTid \/ JoinedBy(t, st, g)

(* _tk_try_detach_parent, from a pool in which state, Gid, noChilds and     *)
(* wakeupEvent are st, g, nc and ev.                                        *)
DetachParent(t, force, st, g, nc, ev) ==
  LET p      == g[t]
      joined == JoinedBy(t, st, g)
      leaves == p # NoTid /\ (joined \/ force)
  IN /\ state' = IF joined THEN [st EXCEPT ![p] = @ \ {"T"}] ELSE st
     /\ event' = IF joined THEN [ev EXCEPT ![p] = "E_CHILDDEATH"] ELSE ev
     /\ bon' = IF joined
               THEN [bon EXCEPT ![p] = IF st[p] = {"T"} THEN NoTid ELSE t]
               ELSE bon
     /\ noChilds' = IF leaves THEN [nc EXCEPT ![p] = @ - 1] ELSE nc
     /\ gid' = IF leaves THEN [g EXCEPT ![t] = NoTid] ELSE g

-----------------------------------------------------------------------------
(* What a running thread does.  Every kernel call that yields leaves the    *)
(* thread inside tk_yield, with scan at the first index of the pool.        *)
InUser == phase = "run" /\ cont[active] = "user"
Caller == InUser /\ active # Idle

EnterYield == phase' = "yield" /\ scan' = 0
Stop == phase' = "exit" /\ UNCHANGED scan

Distance(n) == IF n > procIdx THEN n - procIdx ELSE n + MaxThreads - procIdx
\* Fault: the next index is taken without looking at valid.
IsNextFree_Blind(n) == \A m \in Tids : Distance(n) <= Distance(m)

IsNextFree(n) ==
  ~valid[n] /\ \A m \in Tids : ~valid[m] => Distance(n) <= Distance(m)

MayCreate ==
  /\ noChilds[active] < MaxChilds
  /\ SerialCreates => \A t \in Tids : cont[t] = "create" => "Z" \in state[t]

(* tk_create_thread up to the yield in the constructor of the new thread:   *)
(* the half switch has made the new thread the active one, but it is not in *)
(* the schedule yet.                                                        *)
CreateThread(p) ==
  /\ Caller /\ MayCreate
  /\ inUse < MaxThreads /\ procs[p] < MaxAtPrio
  /\ \E n \in Tids :
       /\ IsNextFree(n)
       /\ procIdx' = n
       /\ valid' = [valid EXCEPT ![n] = TRUE]
       /\ state' = [state EXCEPT ![n] = Ready]
       /\ bon' = [bon EXCEPT ![n] = NoTid]
       /\ gid' = [gid EXCEPT ![n] = active]
       /\ noChilds' = [noChilds EXCEPT ![n] = 0, ![active] = @ + 1]
       /\ prio' = [prio EXCEPT ![n] = p]
       /\ idx' = [idx EXCEPT ![n] = procs[p]]
       /\ event' = [event EXCEPT ![n] = "E_NONE"]
       /\ cont' = [cont EXCEPT ![n] = "user", ![active] = "create"]
       /\ making' = [making EXCEPT ![active] = n]
       /\ limbo' = limbo \cup {n}
       /\ active' = n
  /\ inUse' = inUse + 1
  /\ EnterYield
  /\ UNCHANGED table

(* The limits of tk_create_thread: the kernel is left with tk_exit.         *)
RefuseCreate(p) ==
  /\ Caller /\ MayCreate
  /\ inUse >= MaxThreads \/ procs[p] >= MaxAtPrio
  /\ Stop
  /\ UNCHANGED <<tcb, table, procIdx, inUse, active, local>>

(* The rest of tk_create_thread, when its caller is dispatched again.  It   *)
(* reads __tk_proc_idx, not the local copy it is about to return.           *)
FinishCreate ==
  /\ phase = "run" /\ cont[active] = "create"
  /\ LET p == prio[making[active]]
     IN /\ idx' = [idx EXCEPT ![procIdx] = procs[p]]
        /\ sched' = WithCell(sched, p, procs[p], procIdx)
        /\ procs' = [procs EXCEPT ![p] = @ + 1]
  /\ cont' = [cont EXCEPT ![active] = "user"]
  /\ making' = [making EXCEPT ![active] = NoTid]
  /\ limbo' = limbo \ {making[active]}
  /\ UNCHANGED <<valid, state, gid, noChilds, prio, bon, event, curr,
                 procIdx, inUse, active, phase, scan>>

(* tk_join on a child that is dead already.                                 *)
JoinZombie(t) ==
  /\ Caller /\ t \notin limbo
  /\ gid[t] = active /\ valid[t] /\ "Z" \in state[t]
  /\ DetachParent(t, TRUE, state, gid, noChilds, event)
  /\ UNCHANGED <<valid, prio, idx, table, procIdx, inUse, active, phase, scan,
                 local>>

(* tk_join on a child that is alive.                                        *)
JoinBlock(t) ==
  /\ Caller /\ t \notin limbo /\ t # active
  /\ gid[t] = active /\ valid[t] /\ "Z" \notin state[t]
  /\ bon' = [bon EXCEPT ![active] = t]
  /\ state' = [state EXCEPT ![active] = @ \cup {"T"}]
  /\ cont' = [cont EXCEPT ![active] = "join"]
  /\ EnterYield
  /\ UNCHANGED <<valid, gid, noChilds, prio, idx, event, table, procIdx, inUse,
                 active, making, limbo>>

FinishJoin ==
  /\ phase = "run" /\ cont[active] = "join"
  /\ cont' = [cont EXCEPT ![active] = "user"]
  /\ UNCHANGED <<tcb, table, procIdx, inUse, active, phase, scan, making, limbo>>

Sleep ==
  /\ Caller
  /\ state' = [state EXCEPT ![active] = @ \cup {"S"}]
  /\ EnterYield
  /\ UNCHANGED <<valid, gid, noChilds, prio, idx, bon, event, table, procIdx,
                 inUse, active, local>>

(* tk_yield, which is all that the idle thread ever does.                   *)
Yield ==
  /\ InUser
  /\ EnterYield
  /\ UNCHANGED <<tcb, table, procIdx, inUse, active, local>>

(* tk_yield_event dispatches without looking at timers and zombies.         *)
YieldEvent ==
  /\ EventYields /\ Caller
  /\ phase' = "yield" /\ scan' = MaxThreads
  /\ UNCHANGED <<tcb, table, procIdx, inUse, active, local>>

(* tk_delete_thread.  A thread that deletes itself is taken to yield next.  *)
AfterDelete(t) == IF t = active THEN EnterYield ELSE UNCHANGED <<phase, scan>>

DeleteThread(t) ==
  /\ Caller /\ t \in Cancelled \ limbo /\ valid[t] /\ "Z" \notin state[t]
  /\ LET st == [state EXCEPT ![t] = {"Z"}]
         g  == GidWithout(t)
     IN /\ DetachParent(t, FALSE, st, g, NoChildsWithout(t), event)
        /\ IF LetGo(t, st, g) THEN Bury(t) ELSE Unburied
  /\ AfterDelete(t)
  /\ UNCHANGED <<procIdx, active, local>>

\* Fault: a zombie that may be deleted by anyone at any time.
DeleteZombie_Unguarded(t) ==
  /\ Caller
  /\ t \in Cancelled \ limbo /\ valid[t] /\ "Z" \in state[t]
  /\ Bury(t)
  /\ UNCHANGED <<state, gid, noChilds, bon, event, procIdx, active, phase, scan,
                 local>>

DeleteZombie(t) ==
  /\ Caller /\ (gid[t] = NoTid \/ ReCancel)
  /\ t \in Cancelled \ limbo /\ valid[t] /\ "Z" \in state[t]
  /\ Bury(t)
  /\ UNCHANGED <<state, gid, noChilds, bon, event, procIdx, active, phase, scan,
                 local>>

(* The start function returns into _tk_destructor: the thread is a zombie   *)
(* that sleeps until somebody else's scan buries it.                        *)
Return ==
  /\ Caller /\ active # Root
  /\ state' = [state EXCEPT ![active] = {"Z", "S"}]
  /\ gid' = GidWithout(active)
  /\ noChilds' = NoChildsWithout(active)
  /\ EnterYield
  /\ UNCHANGED <<valid, prio, idx, bon, event, table, procIdx, inUse, active,
                 local>>

(* root returns: the system is shut down.                                   *)
RootReturn ==
  /\ Caller /\ active = Root
  /\ Stop
  /\ UNCHANGED <<tcb, table, procIdx, inUse, active, local>>

(* pthread_setschedparam: tk_change_prio and the yield it may ask for.      *)
AsksYield(t, p) == state[t] = Ready /\ (p > prio[t] \/ t = active)

SetPrio(t, p) ==
  /\ Caller /\ t \in Moved \ limbo /\ valid[t]
  /\ p # prio[t] /\ procs[p] < MaxAtPrio
  /\ sched' = WithCell(RowWithout(prio[t], idx[t]), p, procs[p], t)
  /\ idx' = [Renumbered(prio[t], idx[t]) EXCEPT ![t] = procs[p]]
  /\ procs' = [ProcsWithout(prio[t]) EXCEPT ![p] = @ + 1]
  /\ curr' = CurrWithout(prio[t])
  /\ prio' = [prio EXCEPT ![t] = p]
  /\ IF AsksYield(t, p) THEN EnterYield ELSE UNCHANGED <<phase, scan>>
  /\ UNCHANGED <<valid, state, gid, noChilds, bon, event, procIdx, inUse, active,
                 local>>

RefuseSetPrio(t, p) ==
  /\ Caller /\ t \in Moved \ limbo /\ valid[t]
  /\ procs[p] >= MaxAtPrio
  /\ Stop
  /\ UNCHANGED <<tcb, table, procIdx, inUse, active, local>>

-----------------------------------------------------------------------------
(* tk_yield: one step of _tk_wakeup_timedout_threads per pool index, then   *)
(* the dispatch.  The clock is not modelled: a sleep may be of any length,  *)
(* so a scan finds a sleeper due or not.                                    *)
ScanStep(due) ==
  /\ phase = "yield" /\ scan < MaxThreads
  /\ scan' = scan + 1
  /\ LET woken == due /\ valid[scan] /\ "S" \in state[scan]
         st == IF woken THEN [state EXCEPT ![scan] = @ \ {"S"}] ELSE state
         ev == IF woken THEN [event EXCEPT ![scan] = "E_TIMER"] ELSE event
     IN IF valid[scan] /\ "Z" \in st[scan] /\ scan # active
        THEN /\ DetachParent(scan, FALSE, st, gid, noChilds, ev)
             /\ IF LetGo(scan, st, gid) THEN Bury(scan) ELSE Unburied
        ELSE /\ state' = st /\ event' = ev
             /\ UNCHANGED <<gid, noChilds, bon>>
             /\ Unburied
  /\ UNCHANGED <<procIdx, active, phase, local>>

(* _tk_next_runable_thread: the first READY thread in the order of the      *)
(* schedule, starting each priority at its curr_idx; idle if there is none. *)
Turn(p, k) ==
  IF curr[p] + k < procs[p] THEN Cell(p, curr[p] + k)
                            ELSE Cell(p, curr[p] + k - procs[p])
\* Fault: the search of a priority ends one thread early.
Turns_AllButOne == UNION {{p} \X (0 .. procs[p] - 2) : p \in Prios}

Turns == UNION {{p} \X (0 .. procs[p] - 1) : p \in Prios}
Before(a, b) == a[1] < b[1] \/ (a[1] = b[1] /\ a[2] < b[2])
Runnable(pk) == state[Turn(pk[1], pk[2])] = Ready

IsNextRunnable(t) ==
  IF \E a \in Turns : Runnable(a)
  THEN \E a \in Turns : /\ Runnable(a) /\ Turn(a[1], a[2]) = t
                        /\ \A b \in Turns : Before(b, a) => ~Runnable(b)
  ELSE t = Idle

Dispatch ==
  /\ phase = "yield" /\ scan = MaxThreads
  /\ \E t \in Tids : IsNextRunnable(t) /\ active' = t
  /\ phase' = "run" /\ scan' = 0
  /\ UNCHANGED <<tcb, table, procIdx, inUse, local>>

-----------------------------------------------------------------------------
Kernel == FinishCreate \/ FinishJoin \/ ScanStep(TRUE) \/ ScanStep(FALSE) \/ Dispatch

Next ==
  \/ Kernel
  \/ Sleep \/ Yield \/ YieldEvent \/ Return \/ RootReturn
  \/ \E p \in Prios : CreateThread(p) \/ RefuseCreate(p)
  \/ \E t \in Tids : JoinZombie(t) \/ JoinBlock(t) \/ DeleteThread(t)
                     \/ DeleteZombie(t)
  \/ \E t \in Tids, p \in Prios : SetPrio(t, p) \/ RefuseSetPrio(t, p)

Spec == Init /\ [][Next]_vars

(* Explicit yielding: the CPU goes on executing the kernel, and a thread    *)
(* that goes on running user code calls tk_yield again and again, whatever  *)
(* else it calls (tk_yield_event only interrupts it); idle does only that.  *)
FairSpec == Spec /\ WF_vars(Kernel) /\ SF_vars(Yield)

-----------------------------------------------------------------------------
(* Safety.                                                                  *)

(* What clients must keep to for the schedule to stay sound: see README.    *)
Discipline ==
  /\ SerialCreates
  /\ Root \notin Cancelled \cup Moved
  /\ MaxAtPrio >= MaxThreads

Scheduled == {t \in Tids : valid[t] /\ t \notin limbo}

(* The schedule and the pool agree (tk_create_thread, tk_delete_thread and  *)
(* tk_change_prio keep __tk_schedule, procs_at_prio, Prio and Idx in step): *)
(* every thread has exactly one cell, at its Prio and Idx, every cell in    *)
(* use names a live thread, and the cells behind a row's threads are zero.  *)
ScheduleIntegrity ==
  /\ procs[0] >= 1 /\ sched[0][0] = Root
  /\ \A p \in Prios : procs[p] <= MaxAtPrio
  /\ \A t \in Scheduled \ {Root} :
       idx[t] < procs[prio[t]] /\ sched[prio[t]][idx[t]] = t
  /\ \A p \in Prios, i \in Slots :
       IF i < procs[p]
       THEN /\ sched[p][i] \in Scheduled
            /\ prio[sched[p][i]] = p
            /\ IF sched[p][i] = Root THEN i = 0 ELSE idx[sched[p][i]] = i
       ELSE sched[p][i] = 0

(* The pool's family tree (Gid, noChilds): a thread's parent is alive, and  *)
(* the child counter that _tk_detach_children relies on to reach every      *)
(* child is exact.  Root and idle are their own parents.                    *)
FamilyOK ==
  /\ \A t \in Tids \ {Root, Idle} : valid[t] /\ gid[t] # NoTid =>
       valid[gid[t]] /\ "Z" \notin state[gid[t]]
  /\ \A t \in Tids : valid[t] => noChilds[t] = Cardinality(Children(t) \ {t})

(* A thread blocked in tk_join waits for a child that is still in the pool, *)
(* and a thread that returns from the block was woken by a child's death    *)
(* and by nothing else (the assert after the yield of tk_join).             *)
JoinOK ==
  /\ \A t \in Tids : valid[t] /\ "T" \in state[t] =>
       /\ cont[t] = "join" /\ bon[t] # NoTid
       /\ valid[bon[t]] /\ gid[bon[t]] = t
  /\ phase = "run" /\ cont[active] = "join" => event[active] = "E_CHILDDEATH"

(* A joiner goes on only because its own child died, not another child.     *)
JoinReturns ==
  [][\A p \in Tids :
       /\ valid[p] /\ "T" \in state[p]
       /\ valid'[p] /\ "T" \notin state'[p] /\ "Z" \notin state'[p]
       => "Z" \in state'[bon[p]]]_vars

(* __tk_procs_in_use, the only thing between tk_create_thread and an        *)
(* endless search for a free slot, counts the slots in use.                 *)
CountOK == inUse = Cardinality({t \in Tids : valid[t]})

(* The dispatcher never passes over a READY thread for one of lower         *)
(* priority, and never runs a thread that is blocked, dead or gone.         *)
DispatchIsHighest ==
  [][phase = "yield" /\ phase' = "run" =>
       /\ valid[active'] /\ state[active'] = Ready
       /\ \A t \in Scheduled : state[t] = Ready => prio[active'] <= prio[t]]_vars

(* A slot of the pool is handed out again only when nothing in the kernel   *)
(* refers to the thread it held: no child, no joiner, no schedule cell.     *)
CleanReuse ==
  [][\A n \in Tids : ~valid[n] /\ valid'[n] =>
       \A t \in Tids \ {n} : valid[t] =>
         gid[t] # n /\ ("T" \in state[t] => bon[t] # n)]_vars

(* assert(__tk_schedule[Prio][Idx] == Thid) in tk_delete_thread.            *)
BuryAssert ==
  [][\A t \in Tids : valid[t] /\ ~valid'[t] => Cell(prio[t], idx[t]) = t]_vars

(* The two asserts on every cell that _tk_next_runable_thread visits: it    *)
(* names a valid thread, and not the thread of the cell before it.          *)
Visited(a) == a \in Turns /\ \A b \in Turns : Before(b, a) => ~Runnable(b)
DispatchAssert ==
  phase = "yield" /\ scan = MaxThreads =>
    \A a \in Turns : Visited(a) =>
      /\ valid[Turn(a[1], a[2])]
      /\ \A b \in Turns :
           /\ Before(b, a)
           /\ \A c \in Turns : ~(Before(b, c) /\ Before(c, a))
           => Turn(a[1], a[2]) # Turn(b[1], b[2])

-----------------------------------------------------------------------------
(* Liveness, under FairSpec and as long as nobody stops the system.         *)

(* No dead thread without a parent stays in the pool for ever: its stack is *)
(* freed and its slot can be handed out again.                              *)
ZombiesAreBuried ==
  \A t \in Tids \ {Root, Idle} :
    []<>(phase = "exit" \/ ~(valid[t] /\ "Z" \in state[t] /\ gid[t] = NoTid))

(* No joiner is left blocked for ever after the death of its child.         *)
Joiners(c) == {p \in Tids : valid[p] /\ "T" \in state[p] /\ bon[p] = c}
JoinersWake ==
  \A c \in Tids \ {Root, Idle} :
    []<>(phase = "exit" \/ ~("Z" \in state[c] /\ Joiners(c) # {}))
=============================================================================
