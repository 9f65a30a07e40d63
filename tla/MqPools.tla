------------------------------- MODULE MqPools -------------------------------
(****************************************************************************)
(* The pools of queues and of descriptors of src/src/mqueue.c: mq_open, and *)
(* the tests by which the other calls find their queue.  What happens in    *)
(* the queue then is PosixMq's.                                             *)
(*                                                                          *)
(* Every call works inside the section of poolAccessSem.  Between getting   *)
(* in and getting out a thread may lose the CPU only where mq_send posts    *)
(* the queue's semaphore and wakes a receiver.                              *)
(****************************************************************************)
EXTENDS Integers, FiniteSets

CONSTANTS
  Threads, None, Names,
  NumberOfQueues, NumberOfFiles

ASSUME MqPoolsAssumption ==
  /\ None \notin Threads \cup Names
  /\ NumberOfQueues \in Nat /\ NumberOfFiles \in Nat

VARIABLES
  queuePool,     \* slot -> taken, mq_name, and how far its ring is set up
  filePool,      \* slot -> taken, tId, oflags, qId
  poolAccessSem, \* its token
  pc,            \* what each thread is about to do
  held,          \* what each thread has opened: descriptor, name, directions
  reached,       \* queue and direction of a call of the thread that was accepted
  nameless       \* creations refused with EEXIST

vars == <<queuePool, filePool, poolAccessSem, pc, held, reached, nameless>>

QueueIds == 0 .. NumberOfQueues - 1
FileIds == 0 .. NumberOfFiles - 1
CREATE_ONLY == NumberOfFiles + 1
Mqds == FileIds \cup {CREATE_ONLY}

Ways == {"read", "write"}      \* O_RDONLY, O_WRONLY and both for O_RDWR
Rings == {"none", "freed", "no_sem", "made"}

TypeOK ==
  /\ queuePool \in [QueueIds -> [taken : BOOLEAN, mq_name : Names \cup {None}, ring : Rings]]
  /\ filePool \in [FileIds -> [taken : BOOLEAN, tId : Threads \cup {None},
                               oflags : SUBSET Ways, qId : QueueIds \cup {None}]]
  /\ poolAccessSem \in {0, 1}
  /\ pc \in [Threads -> {"user", "wait", "in", "posted"}]
  /\ held \in [Threads -> SUBSET [mqd : FileIds, name : Names, ways : SUBSET Ways]]
  /\ reached \in [Threads -> [name : Names \cup {None}, way : Ways] \cup {None}]
  /\ nameless \in Nat

Init ==        \* after initialize
  /\ queuePool = [i \in QueueIds |-> [taken |-> FALSE, mq_name |-> None, ring |-> "none"]]
  /\ filePool = [d \in FileIds |-> [taken |-> FALSE, tId |-> None, oflags |-> {}, qId |-> None]]
  /\ poolAccessSem = 1
  /\ pc = [t \in Threads |-> "user"]
  /\ held = [t \in Threads |-> {}] /\ reached = [t \in Threads |-> None]
  /\ nameless = 0

-----------------------------------------------------------------------------
(* The section, which every call enters first.  Of several callers that     *)
(* wait any one may come next; the order is TkItc's.                        *)
Call(t) ==
  /\ pc[t] = "user"
  /\ pc' = [pc EXCEPT ![t] = "wait"] /\ reached' = [reached EXCEPT ![t] = None]
  /\ UNCHANGED <<queuePool, filePool, poolAccessSem, held, nameless>>

Enter(t) ==
  /\ pc[t] = "wait" /\ poolAccessSem > 0
  /\ pc' = [pc EXCEPT ![t] = "in"] /\ poolAccessSem' = poolAccessSem - 1
  /\ UNCHANGED <<queuePool, filePool, held, reached, nameless>>

Inside(t) == pc[t] = "in"

Leave(t) ==
  /\ poolAccessSem' = poolAccessSem + 1
  /\ pc' = [pc EXCEPT ![t] = "user"]

LeaveWithout(t) ==     \* a return that forgets the post
  /\ UNCHANGED poolAccessSem
  /\ pc' = [pc EXCEPT ![t] = "user"]

(* mq_close, mq_getattr, mq_setattr: in and out.  A name that is too long   *)
(* or does not begin with '/' takes mq_open no further either.              *)
NoEffect(t) ==
  /\ Inside(t)
  /\ Leave(t)
  /\ UNCHANGED <<queuePool, filePool, held, reached, nameless>>

-----------------------------------------------------------------------------
(* mq_open.                                                                 *)
FullPool(pool) == \A i \in DOMAIN pool : pool[i].taken

\* Fault: the search ends on the last slot without testing it.
IsFirstFree_LastUntested(i, pool) ==
  /\ ~pool[i].taken \/ \A j \in DOMAIN pool : j <= i
  /\ \A j \in DOMAIN pool : ~pool[j].taken => i <= j

IsFirstFree(i, pool) ==
  /\ ~pool[i].taken
  /\ \A j \in DOMAIN pool : ~pool[j].taken => i <= j

\* Fault: queues whose creation failed for lack of memory are passed over.
NamedSlots_NotFreed(name) ==
  {i \in QueueIds : queuePool[i].mq_name = name /\ queuePool[i].ring # "freed"}

NamedSlots(name) == {i \in QueueIds : queuePool[i].taken /\ queuePool[i].mq_name = name}

TakeFile(t, d, q, name, ways) ==
  /\ IsFirstFree(d, filePool)
  /\ filePool' = [filePool EXCEPT ![d] = [taken |-> TRUE, tId |-> t, oflags |-> ways, qId |-> q]]
  /\ held' = [held EXCEPT ![t] = @ \cup {[mqd |-> d, name |-> name, ways |-> ways]}]

(* The way out: a descriptor if the flags ask for access, EMFILE if there   *)
(* is none left, CREATE_ONLY if they do not.                                *)
Describe(t, q, name, ways) ==
  \/ /\ ways # {}
     /\ \E d \in FileIds : TakeFile(t, d, q, name, ways)
  \/ /\ ways = {} \/ FullPool(filePool)
     /\ UNCHANGED <<filePool, held>>

OpenFull(t) ==      \* O_CREAT, EMFILE
  /\ Inside(t) /\ FullPool(queuePool)
  /\ Leave(t)
  /\ UNCHANGED <<queuePool, filePool, held, reached, nameless>>

(* O_CREAT of a name that exists, with O_EXCL or without: EEXIST, and the   *)
(* free slot that was found first stays taken.                              *)
OpenExists(t, name) ==
  /\ Inside(t) /\ NamedSlots(name) # {}
  /\ \E i \in QueueIds : IsFirstFree(i, queuePool) /\ queuePool' = [queuePool EXCEPT ![i].taken = TRUE]
  /\ nameless' = nameless + 1
  /\ Leave(t)
  /\ UNCHANGED <<filePool, held, reached>>

Named(name, ring) ==
  /\ NamedSlots(name) = {}
  /\ \E i \in QueueIds :
       /\ IsFirstFree(i, queuePool)
       /\ queuePool' = [queuePool EXCEPT ![i] = [taken |-> TRUE, mq_name |-> name, ring |-> ring]]

OpenNoAttr(t, name) ==      \* EINVAL, inside for ever
  /\ Inside(t) /\ Named(name, "none")
  /\ LeaveWithout(t)
  /\ UNCHANGED <<filePool, held, reached, nameless>>

\* Fault: the return without memory forgets the post as well.
OpenNoMemory_Inside(t, name) ==
  /\ Inside(t) /\ Named(name, "freed")
  /\ LeaveWithout(t)
  /\ UNCHANGED <<filePool, held, reached, nameless>>

OpenNoMemory(t, name) ==    \* ENFILE; the name stays
  /\ Inside(t) /\ Named(name, "freed")
  /\ Leave(t)
  /\ UNCHANGED <<filePool, held, reached, nameless>>

(* With O_NONBLOCK the queue's semaphore is not initialised.                *)
OpenCreate(t, name, ways, ring) ==
  /\ Inside(t) /\ ring \in {"no_sem", "made"} /\ Named(name, ring)
  /\ \E q \in QueueIds : IsFirstFree(q, queuePool) /\ Describe(t, q, name, ways)
  /\ Leave(t)
  /\ UNCHANGED <<reached, nameless>>

(* Without O_CREAT.  With no access asked for not even the name is looked   *)
(* up.                                                                      *)
OpenExisting(t, name, ways) ==
  /\ Inside(t) /\ (ways = {} \/ NamedSlots(name) # {})
  /\ \/ ways = {} /\ Describe(t, None, name, ways)
     \/ \E q \in NamedSlots(name) : /\ ways # {} /\ \A i \in NamedSlots(name) : q <= i
                                    /\ Describe(t, q, name, ways)
  /\ Leave(t)
  /\ UNCHANGED <<queuePool, reached, nameless>>

OpenNoEntry(t, name) ==     \* ENOENT
  /\ Inside(t) /\ NamedSlots(name) = {}
  /\ Leave(t)
  /\ UNCHANGED <<queuePool, filePool, held, reached, nameless>>

-----------------------------------------------------------------------------
(* mq_receive and mq_send with any descriptor a program may have got hold   *)
(* of, its own or not.                                                      *)
\* Fault: the owner of a descriptor is not looked at.
Accepted_Anybodys(t, d, way) ==
  /\ d \in FileIds /\ filePool[d].taken /\ way \in filePool[d].oflags
  /\ queuePool[filePool[d].qId].taken

Accepted(t, d, way) ==
  /\ d \in FileIds /\ filePool[d].taken /\ filePool[d].tId = t /\ way \in filePool[d].oflags
  /\ queuePool[filePool[d].qId].taken

UseRefused(t, d, way) ==    \* EBADF
  /\ Inside(t) /\ ~Accepted(t, d, way)
  /\ Leave(t)
  /\ UNCHANGED <<queuePool, filePool, held, reached, nameless>>

Reach(t, d, way) ==
  reached' = [reached EXCEPT ![t] = [name |-> queuePool[filePool[d].qId].mq_name, way |-> way]]

(* A program does not use a queue whose creation failed or that it made     *)
(* without a semaphore, though nothing in the tests would stop it.          *)
MayUse(d) == queuePool[filePool[d].qId].ring = "made"

(* mq_receive, which is out again before it waits for the message; and both *)
(* when they return EAGAIN or EMSGSIZE.                                     *)
UseOnce(t, d, way) ==
  /\ Inside(t) /\ Accepted(t, d, way) /\ MayUse(d) /\ Reach(t, d, way)
  /\ Leave(t)
  /\ UNCHANGED <<queuePool, filePool, held, nameless>>

UseWrite(t, d) ==           \* mq_send, up to the post of the queue's semaphore
  /\ Inside(t) /\ Accepted(t, d, "write") /\ MayUse(d) /\ Reach(t, d, "write")
  /\ pc' = [pc EXCEPT ![t] = "posted"]
  /\ UNCHANGED <<queuePool, filePool, poolAccessSem, held, nameless>>

UseWritten(t) ==
  /\ pc[t] = "posted"
  /\ Leave(t)
  /\ UNCHANGED <<queuePool, filePool, held, reached, nameless>>

-----------------------------------------------------------------------------
Open(t) ==
  \/ OpenFull(t)
  \/ \E name \in Names :
       \/ OpenExists(t, name) \/ OpenNoAttr(t, name) \/ OpenNoMemory(t, name)
       \/ OpenNoEntry(t, name)
       \/ \E ways \in SUBSET Ways : OpenExisting(t, name, ways)
       \/ \E ways \in SUBSET Ways, ring \in Rings : OpenCreate(t, name, ways, ring)

Use(t) ==
  \E d \in Mqds :
    \/ \E way \in Ways : UseRefused(t, d, way) \/ UseOnce(t, d, way)
    \/ UseWrite(t, d)

Body(t) == NoEffect(t) \/ Open(t) \/ Use(t) \/ UseWritten(t)

Next == \E t \in Threads : Call(t) \/ Enter(t) \/ Body(t)

Spec == Init /\ [][Next]_vars

-----------------------------------------------------------------------------
(* mq_open searches the names after it has marked a slot of its own, and    *)
(* writes the new name only then; a creation that fails leaves its name     *)
(* behind.  Still no two slots of the pool get the same name.               *)
NamesUnique ==
  \A i, j \in QueueIds :
    queuePool[i].mq_name = queuePool[j].mq_name /\ queuePool[i].mq_name # None => i = j

(* Slots are found by one index and described by another, and never given   *)
(* back: each is spent on one name, or on one call that returned EEXIST.    *)
SlotsSpent ==
  Cardinality({i \in QueueIds : queuePool[i].taken})
    = Cardinality({name \in Names : NamedSlots(name) # {}}) + nameless

(* mq_send and mq_receive find their queue through two tables: whatever     *)
(* descriptor a thread passes, a call that is accepted reaches a queue that *)
(* this thread has opened by name, for this direction.                      *)
ReachesOwn ==
  \A t \in Threads : reached[t] # None =>
    \E h \in held[t] : h.name = reached[t].name /\ reached[t].way \in h.ways

Stopped == \E i \in QueueIds : queuePool[i].mq_name # None /\ queuePool[i].ring = "none"

(* Each of the many returns posts the pool's semaphore once: the section is *)
(* free or one call is inside, unless somebody has created a queue without  *)
(* mq_attr, after which nobody is inside and nobody gets in.                *)
SectionKept ==
  poolAccessSem + Cardinality({t \in Threads : pc[t] \in {"in", "posted"}})
    = IF Stopped THEN 0 ELSE 1
=============================================================================
