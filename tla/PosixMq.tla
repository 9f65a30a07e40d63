------------------------------- MODULE PosixMq -------------------------------
(****************************************************************************)
(* A POSIX message queue (src/src/mqueue.c: mq_send, mq_receive, sortByPrio *)
(* and the way mq_open fails) over the semaphores of src/src/semaphore.c.   *)
(* What a semaphore does is what TkItc shows of sm_p and sm_v with FIFO.    *)
(*                                                                          *)
(* The kernel is cooperative: an action is what a thread does from one      *)
(* call that may yield to the next.  A call is legal (its descriptor is the *)
(* thread's own, its buffer large enough), so that EBADF and EMSGSIZE are   *)
(* not reached.                                                             *)
(****************************************************************************)
EXTENDS Integers, FiniteSets, Sequences, SequencesExt

CONSTANTS
  Threads, None,
  PrioOf,          \* Prio of every thread; smaller is more urgent
  MaxMsg,          \* mq_maxmsg
  Msgs, MsgPrios,  \* contents of a message, its priority
  Senders, Receivers,
  Nonblocking,     \* threads whose descriptor has O_NONBLOCK
  Openers,         \* threads that call mq_open with O_CREAT and no attributes
  MaxOrder         \* bound on lastInOrder: messages ever accepted

ASSUME MqAssumption ==
  /\ None \notin Threads /\ PrioOf \in [Threads -> Nat]
  /\ IsFiniteSet(Threads)     \* the pool of threads has TK_MAX_THREADS places
  /\ MaxMsg \in Nat /\ MaxMsg >= 1 /\ MaxOrder \in Nat /\ MsgPrios \subseteq Nat
  /\ Senders \cup Receivers \cup Nonblocking \cup Openers \subseteq Threads

VARIABLES
  sem,                    \* poolAccessSem and the queue's own: token, waiters
  mess, mIdxIn, mIdxOut,  \* messArray and its indices
  lastInOrder,
  sent, got,              \* last message accepted; msg_buffer of each receiver
  active, phase, asleep, pc

box == <<mess, mIdxIn, mIdxOut, lastInOrder>>
bufs == <<sent, got>>
vars == <<sem, box, bufs, active, phase, asleep, pc>>

Sems == {"pool", "queue"}
Cells == 0 .. MaxMsg - 1
Inside == {"send", "sent", "recv", "open"}     \* places inside the pool's section
Places == Inside \cup {"user", "recv_wait", "fetch"}

TypeOK ==
  /\ sem \in [Sems -> [token : Nat, waiters : Seq(Threads)]]
  /\ mess \in [Cells -> [msg : Msgs \cup {None}, prio : MsgPrios \cup {0}, inOrder : Nat]]
  /\ mIdxIn \in Cells /\ mIdxOut \in Cells /\ lastInOrder \in Nat
  /\ got \in [Threads -> Msgs \cup {None}]
  /\ active \in Threads /\ phase \in {"run", "yield"} /\ asleep \subseteq Threads
  /\ pc \in [Threads -> Places]

Waits(t, s) == t \in ToSet(sem[s].waiters)
Ready(t) == t \notin asleep /\ \A s \in Sems : ~Waits(t, s)

Init ==        \* pthread_once's initialize, then mq_open with O_CREAT
  /\ sem = [s \in Sems |-> [token |-> IF s = "pool" THEN 1 ELSE 0, waiters |-> <<>>]]
  /\ mess = [i \in Cells |-> [msg |-> None, prio |-> 0, inOrder |-> 0]]
  /\ mIdxIn = 0 /\ mIdxOut = 0 /\ lastInOrder = 0
  /\ sent = None /\ got = [t \in Threads |-> None]
  /\ active \in {t \in Threads : \A u \in Threads : PrioOf[t] <= PrioOf[u]}
  /\ phase = "run" /\ asleep = {}
  /\ pc = [t \in Threads |-> "user"]

-----------------------------------------------------------------------------
At(place) == phase = "run" /\ pc[active] = place
Goto(place) == pc' = [pc EXCEPT ![active] = place]

SemWait(s, next) ==
  /\ Goto(next)
  /\ IF sem[s].token > 0
     THEN sem' = [sem EXCEPT ![s].token = @ - 1] /\ UNCHANGED phase
     ELSE sem' = [sem EXCEPT ![s].waiters = Append(@, active)] /\ phase' = "yield"
  /\ UNCHANGED <<active, asleep>>

SemPost(s, next) ==
  /\ Goto(next)
  /\ IF sem[s].waiters = <<>>
     THEN sem' = [sem EXCEPT ![s].token = @ + 1] /\ UNCHANGED phase
     ELSE sem' = [sem EXCEPT ![s].waiters = Tail(@)] /\ phase' = "yield"
  /\ UNCHANGED <<active, asleep>>

-----------------------------------------------------------------------------
(* The ring of messages.                                                    *)
Numb == IF mIdxIn >= mIdxOut THEN mIdxIn - mIdxOut ELSE MaxMsg - mIdxOut + mIdxIn
NextCell(i) == (i + 1) % MaxMsg

(* compMess.  The time of arrival never decreases, so that inOrder alone    *)
(* tells which of two messages came first.                                  *)
SortsBefore(a, b) ==
  \/ a.prio > b.prio
  \/ a.prio = b.prio /\ a.inOrder < b.inOrder

INSTANCE AnsiSearch WITH Before <- SortsBefore

\* Fault: the part of the ring that has wrapped around is left as it is.
Sorted_ToTheEnd(array, out, n) ==
  LET m    == IF out + n > MaxMsg THEN MaxMsg - out ELSE n
      part == qsort([k \in 0 .. m - 1 |-> array[out + k]], m)
  IN [i \in Cells |-> IF i - out \in 0 .. m - 1 THEN part[i - out] ELSE array[i]]

(* sortByPrio: the n messages from index out on are put in order, in place, *)
(* or in a copy where they wrap around the end of the array.                *)
Sorted(array, out, n) ==
  LET tempT == qsort([k \in 0 .. n - 1 |-> array[(out + k) % MaxMsg]], n)
      Place(i) == (i - out) % MaxMsg
  IN [i \in Cells |-> IF Place(i) < n THEN tempT[Place(i)] ELSE array[i]]

Full == ~(Numb < MaxMsg - 1)

-----------------------------------------------------------------------------
(* mq_send: into the pool's section; test, copy, sort and post; out of it.  *)
SendCall ==
  /\ At("user") /\ active \in Senders
  /\ SemWait("pool", "send")
  /\ UNCHANGED <<box, bufs>>

SendFull ==      \* EAGAIN, with O_NONBLOCK or without
  /\ At("send") /\ Full
  /\ SemPost("pool", "user")
  /\ UNCHANGED <<box, bufs>>

Send(m, p) ==
  /\ At("send") /\ ~Full /\ lastInOrder < MaxOrder
  /\ LET cell  == [msg |-> m, prio |-> p, inOrder |-> lastInOrder]
         array == [mess EXCEPT ![mIdxIn] = cell]
     IN mess' = Sorted(array, mIdxOut, Numb + 1)
  /\ mIdxIn' = NextCell(mIdxIn) /\ lastInOrder' = lastInOrder + 1
  /\ sent' = [msg |-> m, prio |-> p]
  /\ SemPost("queue", "sent")
  /\ UNCHANGED <<mIdxOut, got>>

SendEnd ==
  /\ At("sent")
  /\ SemPost("pool", "user")
  /\ UNCHANGED <<box, bufs>>

(* mq_receive: the test in the pool's section, the wait for a message and   *)
(* the fetch outside of it.  The priority that it reports is read from the  *)
(* slot of the next message to be sent, and is left out (see README).       *)
RecvCall ==
  /\ At("user") /\ active \in Receivers
  /\ SemWait("pool", "recv")
  /\ UNCHANGED <<box, bufs>>

Refused == Numb <= 0 /\ active \in Nonblocking

\* Fault: the pool's semaphore is posted twice when the call is refused.
RecvTest_Twice ==
  /\ At("recv")
  /\ SemPost("pool", IF Refused THEN "sent" ELSE "recv_wait")
  /\ UNCHANGED <<box, bufs>>

RecvTest ==
  /\ At("recv")
  /\ SemPost("pool", IF Refused THEN "user" ELSE "recv_wait")
  /\ UNCHANGED <<box, bufs>>

RecvWait ==
  /\ At("recv_wait")
  /\ SemWait("queue", "fetch")
  /\ UNCHANGED <<box, bufs>>

\* Fault: the message is left in the queue.
Fetch_Again ==
  /\ At("fetch")
  /\ got' = [got EXCEPT ![active] = mess[mIdxOut].msg]
  /\ Goto("user")
  /\ UNCHANGED <<mIdxOut, sem, mess, mIdxIn, lastInOrder, sent, active, phase, asleep>>

Fetch ==
  /\ At("fetch")
  /\ got' = [got EXCEPT ![active] = mess[mIdxOut].msg]
  /\ mIdxOut' = NextCell(mIdxOut)
  /\ Goto("user")
  /\ UNCHANGED <<sem, mess, mIdxIn, lastInOrder, sent, active, phase, asleep>>

(* mq_open with O_CREAT and a NULL mq_attr returns EINVAL without a post.   *)
OpenCall ==
  /\ At("user") /\ active \in Openers
  /\ SemWait("pool", "open")
  /\ UNCHANGED <<box, bufs>>

OpenRefused ==
  /\ At("open")
  /\ Goto("user")
  /\ UNCHANGED <<sem, box, bufs, active, phase, asleep>>

-----------------------------------------------------------------------------
Yield ==
  /\ At("user") /\ phase' = "yield"
  /\ UNCHANGED <<sem, box, bufs, active, asleep, pc>>

Sleep ==
  /\ At("user") /\ phase' = "yield"
  /\ asleep' = asleep \cup {active}
  /\ UNCHANGED <<sem, box, bufs, active, pc>>

Wake(t) ==
  /\ phase = "yield" /\ t \in asleep
  /\ asleep' = asleep \ {t}
  /\ UNCHANGED <<sem, box, bufs, active, phase, pc>>

Dispatch ==
  /\ phase = "yield" /\ phase' = "run"
  /\ active' \in {t \in Threads : Ready(t) /\ \A u \in Threads : Ready(u) => PrioOf[t] <= PrioOf[u]}
  /\ UNCHANGED <<sem, box, bufs, asleep, pc>>

Next ==
  \/ SendCall \/ SendFull \/ SendEnd \/ \E m \in Msgs, p \in MsgPrios : Send(m, p)
  \/ RecvCall \/ RecvTest \/ RecvWait \/ Fetch
  \/ OpenCall \/ OpenRefused
  \/ Yield \/ Sleep \/ Dispatch \/ \E t \in Threads : Wake(t)

Spec == Init /\ [][Next]_vars

-----------------------------------------------------------------------------
(* The queue is a priority queue: every message that mq_send accepts is     *)
(* received once, the oldest of the most important ones first.              *)
Unread == {mess[(mIdxOut + k) % MaxMsg] : k \in 0 .. Numb - 1}
ByArrival(s) ==
  /\ {s[k] : k \in 1 .. Numb} = Unread
  /\ \A i, k \in 1 .. Numb : i < k => s[i].inOrder < s[k].inOrder
Abstract(c) == [msg |-> c.msg, prio |-> c.prio]
Arrived == LET s == CHOOSE s \in [1 .. Numb -> Unread] : ByArrival(s)
           IN [k \in 1 .. Numb |-> Abstract(s[k])]

Pq == INSTANCE PrioQueue WITH accepted <- Arrived, in <- sent, out <- got
IsPrioQueue == Pq!Spec

(* Every message is announced exactly once: the queue's semaphore and the   *)
(* receivers that it has let through stand for the messages in the ring.    *)
Announced ==
  Numb = sem["queue"].token
           + Cardinality({t \in Threads : pc[t] = "fetch" /\ ~Waits(t, "queue")})

Holders == {t \in Threads : pc[t] \in Inside /\ ~Waits(t, "pool")}

(* The pool's semaphore guards a section: it is posted once by whoever has  *)
(* waited for it, so that no two threads are inside.                        *)
PoolExclusive == Cardinality(Holders) + sem["pool"].token <= 1
=============================================================================
