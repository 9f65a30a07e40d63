---------------------------- MODULE PthreadRwlock ----------------------------
(****************************************************************************)
(* TinKer's read-write lock (src/src/pthread_rwlock.c) on the mutexes and   *)
(* condition variables of PthreadSync.  Each action is the code from one    *)
(* call that may yield to the next.                                         *)
(****************************************************************************)
EXTENDS PthreadSync

CONSTANTS Self, ReadersLock, WritersLock,   \* mx_self, readers_lock, writers_lock
          Readers, Writers                  \* threads that lock for reading, writing

ASSUME RwlockAssumption ==
  /\ Mutexes = {Self} /\ Conds = {ReadersLock, WritersLock}
  /\ Readers \subseteq Threads /\ Writers \subseteq Threads /\ IsFiniteSet(Threads)

VARIABLES
  rw,        \* readers_reading, writers_writing, blocked_readers, blocked_writers;
             \* prios: bwriters_prio, as the set of the threads it counts
  granted    \* blocked_writers_granted # 0, in each thread's pthread_rwlock_rdlock

vars == <<syncvars, rw, granted>>

Places == {"user", "reading", "writing", "rd", "back_off", "rd_woken",
           "wr", "wr_woken", "unlock", "leave"}

TypeOK ==
  /\ SyncTypeOK
  /\ rw \in [reading : 0 .. Cardinality(Threads), writing : 0 .. 1,
             bReaders : 0 .. Cardinality(Threads), bWriters : 0 .. Cardinality(Threads),
             prios : SUBSET Threads]
  /\ granted \in [Threads -> BOOLEAN]
  /\ \A t \in Threads : Last(pc[t]) \in Places

Init ==        \* PTHREAD_RWLOCK_INITIALIZER
  /\ SyncInit("user")
  /\ rw = [reading |-> 0, writing |-> 0, bReaders |-> 0, bWriters |-> 0, prios |-> {}]
  /\ granted = [t \in Threads |-> FALSE]

(* Whether bwriters_prio has a count up to, or from, the caller's priority. *)
AsUrgent == rw.bWriters > 0 /\ \E w \in rw.prios : PrioOf[w] <= PrioOf[active]
NotMoreUrgent == rw.bWriters > 0 /\ \E w \in rw.prios : PrioOf[w] >= PrioOf[active]

-----------------------------------------------------------------------------
(* pthread_rwlock_rdlock.                                                   *)
RdLock ==
  /\ At("user") /\ active \in Readers
  /\ MutexLock(Self, <<"rd">>)
  /\ UNCHANGED <<rw, granted>>

(* The loop's test with g for blocked_writers_granted, and what follows     *)
(* until the next call that may yield, from counters r.                     *)
\* Fault: the reader does not count itself as blocked.
BackOff_Uncounted(r) ==
  /\ rw' = r
  /\ CondWait(ReadersLock, Self, <<"rd_woken">>)

BackOff(r) ==
  /\ rw' = [r EXCEPT !.bReaders = @ + 1]
  /\ CondWait(ReadersLock, Self, <<"rd_woken">>)

ReadLoop(r, g) ==
  /\ granted' = [granted EXCEPT ![active] = g]
  /\ IF g /\ r.writing = 0 /\ r.reading = 0
       THEN rw' = r /\ CondSignal(WritersLock, <<"back_off">>)
     ELSE IF r.writing > 0 \/ g THEN BackOff(r)
     ELSE rw' = [r EXCEPT !.reading = @ + 1] /\ MutexUnlock(Self, <<"reading">>)

RdTest == At("rd") /\ ReadLoop(rw, AsUrgent)
RdBackOff == At("back_off") /\ BackOff(rw) /\ UNCHANGED granted
RdWoken ==
  /\ At("rd_woken")
  /\ ReadLoop([rw EXCEPT !.bReaders = @ - 1],
              rw.bWriters > 0 /\ (granted[active] \/ NotMoreUrgent))

(* pthread_rwlock_wrlock.                                                   *)
WrLock ==
  /\ At("user") /\ active \in Writers
  /\ MutexLock(Self, <<"wr">>)
  /\ UNCHANGED <<rw, granted>>

\* Fault: the writer does not look at the readers.
WriteLoop_WritersOnly(r) ==
  IF r.writing > 0
  THEN /\ rw' = [r EXCEPT !.bWriters = @ + 1, !.prios = @ \cup {active}]
       /\ CondWait(WritersLock, Self, <<"wr_woken">>)
  ELSE rw' = [r EXCEPT !.writing = @ + 1] /\ MutexUnlock(Self, <<"writing">>)

WriteLoop(r) ==
  IF r.reading > 0 \/ r.writing > 0
  THEN /\ rw' = [r EXCEPT !.bWriters = @ + 1, !.prios = @ \cup {active}]
       /\ CondWait(WritersLock, Self, <<"wr_woken">>)
  ELSE rw' = [r EXCEPT !.writing = @ + 1] /\ MutexUnlock(Self, <<"writing">>)

WrTest == At("wr") /\ WriteLoop(rw) /\ UNCHANGED granted
WrWoken ==
  /\ At("wr_woken")
  /\ WriteLoop([rw EXCEPT !.bWriters = @ - 1, !.prios = @ \ {active}])
  /\ UNCHANGED granted

-----------------------------------------------------------------------------
(* pthread_rwlock_unlock, by a thread that holds the lock, for which the    *)
(* refusal EINVAL is not reached (CountersOK).                              *)
RwUnlock ==
  /\ At("reading") \/ At("writing")
  /\ MutexLock(Self, <<"unlock">>)
  /\ UNCHANGED <<rw, granted>>

UnlockWriter ==
  /\ rw.writing > 0
  /\ rw' = [rw EXCEPT !.writing = 0]
  /\ IF rw.bWriters > 0 /\ (AsUrgent \/ rw.bReaders = 0)
       THEN CondSignal(WritersLock, <<"leave">>)
       ELSE CondBroadcast(ReadersLock, <<"leave">>)

UnlockReader ==
  /\ rw.reading > 0 /\ rw.writing = 0
  /\ rw' = [rw EXCEPT !.reading = @ - 1]
  /\ CondSignal(ReadersLock, <<"leave">>)

UnlockTest ==
  /\ At("unlock")
  /\ UnlockWriter \/ UnlockReader
  /\ UNCHANGED granted

Leave ==
  /\ At("leave")
  /\ MutexUnlock(Self, <<"user">>)
  /\ UNCHANGED <<rw, granted>>

User == {"user", "reading", "writing"}
Library ==
  \/ RdTest \/ RdBackOff \/ RdWoken \/ WrTest \/ WrWoken \/ UnlockTest \/ Leave
  \/ (Release \/ Relock \/ Dispatch) /\ UNCHANGED <<rw, granted>>

Next ==
  \/ RdLock \/ WrLock \/ RwUnlock \/ Library
  \/ (Yield(User) \/ Sleep(User)) /\ UNCHANGED <<rw, granted>>
  \/ \E t \in Threads : Wake(t) /\ UNCHANGED <<rw, granted>>

Spec == Init /\ [][Next]_vars

-----------------------------------------------------------------------------
Holds(t, place) == pc[t] = <<place>> /\ t \notin sync.queued

(* part3: "Readers will not block each other, but would block a writer",    *)
(* "A writer will block readers and writers".                               *)
Exclusive ==
  \A t, u \in Threads : Holds(t, "writing") /\ (Holds(u, "reading") \/ Holds(u, "writing"))
                          => t = u

(* The counters are what the threads would say: how many hold the lock, or  *)
(* are about to release it, and how many are blocked on each condition.     *)
In(places) == Cardinality({t \in Threads : Last(pc[t]) \in places})
CountersOK ==
  /\ rw.reading + rw.writing = In({"reading", "writing", "unlock"})
  /\ rw.bReaders = In({"rd_woken"}) /\ rw.bWriters = In({"wr_woken"})
=============================================================================
