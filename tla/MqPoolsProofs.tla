--------------------------- MODULE MqPoolsProofs ---------------------------
(****************************************************************************)
(* Proofs about the pools of mqueue.c, for pools of any size and any set of *)
(* names and threads.                                                       *)
(****************************************************************************)
EXTENDS MqPools, FiniteSetTheorems, TLAPS

Within(t) == pc[t] \in {"in", "posted"}

(* The section of poolAccessSem is free or holds one thread, and it is      *)
(* neither when the system has stopped.                                     *)
Section ==
  /\ \A t, u \in Threads : Within(t) /\ Within(u) => t = u
  /\ Stopped => poolAccessSem = 0 /\ \A t \in Threads : ~Within(t)
  /\ ~Stopped => (poolAccessSem = 0 <=> \E t \in Threads : Within(t))

(* A name is only ever written together with the mark.                      *)
NamedTaken == \A i \in QueueIds : queuePool[i].mq_name # None => queuePool[i].taken

TakenSlots == {i \in QueueIds : queuePool[i].taken}
UsedNames  == {name \in Names : NamedSlots(name) # {}}

(* SlotsSpent, as a statement that keeps the finiteness of the names.       *)
Spent == IsFiniteSet(UsedNames) /\ SlotsSpent

(* A descriptor in use is of a queue that has a name, and its owner holds   *)
(* it under that name and with those directions.                            *)
Entry(d) == [mqd |-> d, name |-> queuePool[filePool[d].qId].mq_name,
             ways |-> filePool[d].oflags]
FilesHeld ==
  \A d \in FileIds : filePool[d].taken =>
    /\ filePool[d].qId \in QueueIds /\ filePool[d].tId \in Threads
    /\ queuePool[filePool[d].qId].mq_name # None
    /\ Entry(d) \in held[filePool[d].tId]

IInv ==
  /\ TypeOK /\ Section /\ NamedTaken /\ NamesUnique /\ Spent /\ FilesHeld /\ ReachesOwn

-----------------------------------------------------------------------------
LEMMA SlotsFinite ==
  IsFiniteSet(TakenSlots) /\ Cardinality(TakenSlots) \in Nat
<1>1. IsFiniteSet(QueueIds)
  <2>1. NumberOfQueues - 1 \in Int
    BY MqPoolsAssumption
  <2> QED BY <2>1, FS_Interval DEF QueueIds
<1>2. TakenSlots \in SUBSET QueueIds
  BY DEF TakenSlots
<1> QED BY <1>1, <1>2, FS_Subset, FS_CardinalityType

LEMMA FirstIsOne ==
  ASSUME NEW pool, NEW i \in Int, NEW j \in Int, DOMAIN pool \subseteq Int,
         i \in DOMAIN pool, j \in DOMAIN pool, IsFirstFree(i, pool), IsFirstFree(j, pool)
  PROVE  i = j
BY DEF IsFirstFree

-----------------------------------------------------------------------------
(* What every body does to the section: one post, but for the return that   *)
(* stops the system.                                                        *)
LEMMA LeaveKeeps ==
  ASSUME TypeOK, Section, NEW t \in Threads, Within(t),
         IF Stopped' THEN LeaveWithout(t) ELSE Leave(t)
  PROVE  /\ poolAccessSem' \in {0, 1} /\ Section'
         /\ pc' \in [Threads -> {"user", "wait", "in", "posted"}]
<1>1. ~Stopped /\ poolAccessSem = 0 /\ \A u \in Threads : Within(u) => u = t
  BY DEF Section
<1>2. pc' = [pc EXCEPT ![t] = "user"]
  BY DEF Leave, LeaveWithout
<1>3. /\ pc' \in [Threads -> {"user", "wait", "in", "posted"}]
      /\ \A u \in Threads : ~Within(u)'
  BY <1>1, <1>2 DEF TypeOK, Within
<1>4. poolAccessSem' = IF Stopped' THEN 0 ELSE 1
  BY <1>1 DEF Leave, LeaveWithout
<1> QED BY <1>3, <1>4 DEF Section

(* The system goes on while a thread is inside, and no body but that of a   *)
(* creation can stop it.                                                    *)
LEMMA GoesOn ==
  ASSUME Section, NEW t \in Threads, Within(t),
         \A i \in QueueIds : /\ queuePool'[i].mq_name = queuePool[i].mq_name
                             /\ queuePool'[i].ring = queuePool[i].ring
  PROVE  ~Stopped'
BY DEF Section, Stopped

(* The queues and files are left alone.                                     *)
Tables == NamedTaken /\ NamesUnique /\ Spent /\ FilesHeld

LEMMA TablesKept ==
  ASSUME Tables, UNCHANGED <<queuePool, filePool, held, nameless>>
  PROVE  Tables'
BY DEF Tables, NamedTaken, NamesUnique, Spent, SlotsSpent, UsedNames, NamedSlots,
       FilesHeld, Entry

(* A free slot is marked, with or without a name.                           *)
LEMMA MarkKeeps ==
  ASSUME TypeOK, Tables, NEW i \in QueueIds, IsFirstFree(i, queuePool),
         queuePool' = [queuePool EXCEPT ![i].taken = TRUE], nameless' = nameless + 1,
         UNCHANGED <<filePool, held>>
  PROVE  Tables' /\ queuePool' \in [QueueIds -> [taken : BOOLEAN, mq_name : Names \cup {None},
                                                 ring : Rings]]
<1>1. ~queuePool[i].taken /\ queuePool[i].mq_name = None
  BY DEF TypeOK, Tables, NamedTaken, IsFirstFree
<1>2. /\ queuePool' \in [QueueIds -> [taken : BOOLEAN, mq_name : Names \cup {None}, ring : Rings]]
      /\ \A j \in QueueIds : /\ queuePool'[j].mq_name = queuePool[j].mq_name
                             /\ queuePool'[j].taken <=> queuePool[j].taken \/ j = i
  BY DEF TypeOK
<1>3. \A name \in Names : NamedSlots(name)' = NamedSlots(name)
  BY <1>1, <1>2, MqPoolsAssumption DEF NamedSlots
<1>4. TakenSlots' = TakenSlots \cup {i} /\ i \notin TakenSlots
  BY <1>1, <1>2 DEF TakenSlots
<1>5. Cardinality(TakenSlots \cup {i}) = Cardinality(TakenSlots) + 1
  BY <1>4, SlotsFinite, FS_AddElement
<1>6. UsedNames' = UsedNames /\ Cardinality(UsedNames) \in Nat
  BY <1>3, FS_CardinalityType DEF UsedNames, Tables, Spent
<1>7. Cardinality(TakenSlots') = Cardinality(UsedNames') + nameless'
  <2>1. Cardinality(TakenSlots) = Cardinality(UsedNames) + nameless /\ nameless \in Nat
    BY DEF Tables, Spent, SlotsSpent, TakenSlots, UsedNames, TypeOK
  <2> QED BY <2>1, <1>4, <1>5, <1>6
<1>8. Spent'
  BY <1>6, <1>7 DEF Tables, Spent, SlotsSpent, TakenSlots, UsedNames
<1>9. NamedTaken' /\ NamesUnique' /\ FilesHeld'
  BY <1>2 DEF Tables, NamedTaken, NamesUnique, FilesHeld, Entry
<1> QED BY <1>2, <1>8, <1>9 DEF Tables

LEMMA NameKeeps ==
  ASSUME TypeOK, Tables, NEW name \in Names, NEW ring \in Rings, Named(name, ring),
         UNCHANGED nameless
  PROVE  /\ NamedTaken' /\ NamesUnique' /\ Spent'
         /\ queuePool' \in [QueueIds -> [taken : BOOLEAN, mq_name : Names \cup {None},
                                         ring : Rings]]
         /\ \E i \in QueueIds : /\ IsFirstFree(i, queuePool) /\ queuePool'[i].mq_name = name
                                /\ \A j \in QueueIds \ {i} : queuePool'[j] = queuePool[j]
         /\ \A j \in QueueIds : queuePool[j].mq_name # None =>
              queuePool'[j].mq_name = queuePool[j].mq_name
         /\ Stopped' <=> Stopped \/ ring = "none"
<1>1. PICK i \in QueueIds :
        /\ IsFirstFree(i, queuePool)
        /\ queuePool' = [queuePool EXCEPT ![i] = [taken |-> TRUE, mq_name |-> name, ring |-> ring]]
  BY DEF Named
<1>2. NamedSlots(name) = {}
  BY DEF Named
<1>3. ~queuePool[i].taken /\ queuePool[i].mq_name = None
  BY <1>1 DEF Tables, NamedTaken, IsFirstFree
<1>4. /\ queuePool' \in [QueueIds -> [taken : BOOLEAN, mq_name : Names \cup {None}, ring : Rings]]
      /\ queuePool'[i].mq_name = name /\ queuePool'[i].taken /\ queuePool'[i].ring = ring
      /\ \A j \in QueueIds \ {i} : queuePool'[j] = queuePool[j]
  BY <1>1 DEF TypeOK
<1>5. name # None
  BY MqPoolsAssumption
<1>6. \A j \in QueueIds : queuePool[j].mq_name # name
  BY <1>2, <1>5 DEF Tables, NamedTaken, NamedSlots
<1>7. NamedTaken' /\ NamesUnique'
  BY <1>4, <1>5, <1>6 DEF Tables, NamedTaken, NamesUnique
<1>8. TakenSlots' = TakenSlots \cup {i} /\ i \notin TakenSlots
  BY <1>3, <1>4 DEF TakenSlots
<1>9. Cardinality(TakenSlots \cup {i}) = Cardinality(TakenSlots) + 1
  BY <1>8, SlotsFinite, FS_AddElement
<1>10. NamedSlots(name)' = {i}
  BY <1>4, <1>6 DEF NamedSlots
<1>11. \A n \in Names \ {name} : NamedSlots(n)' = NamedSlots(n)
  BY <1>3, <1>4, MqPoolsAssumption DEF NamedSlots
<1>12. UsedNames' = UsedNames \cup {name} /\ name \notin UsedNames
  BY <1>2, <1>10, <1>11 DEF UsedNames
<1>13. /\ IsFiniteSet(UsedNames') /\ Cardinality(UsedNames') = Cardinality(UsedNames) + 1
       /\ Cardinality(UsedNames) \in Nat
  BY <1>12, FS_AddElement, FS_CardinalityType DEF Tables, Spent
<1>14. Cardinality(TakenSlots) = Cardinality(UsedNames) + nameless /\ nameless \in Nat
  BY DEF Tables, Spent, SlotsSpent, TakenSlots, UsedNames, TypeOK
<1>15. Cardinality(TakenSlots') = Cardinality(UsedNames') + nameless'
  BY <1>8, <1>9, <1>13, <1>14
<1>16. Spent'
  BY <1>13, <1>15 DEF Spent, SlotsSpent, TakenSlots, UsedNames
<1>17. Stopped' <=> Stopped \/ ring = "none"
  BY <1>3, <1>4, <1>5 DEF Stopped
<1> QED BY <1>1, <1>3, <1>4, <1>7, <1>16, <1>17

(* Descriptors: nothing that holds is lost when queues get names ...        *)
FilesTyped == /\ filePool \in [FileIds -> [taken : BOOLEAN, tId : Threads \cup {None},
                                           oflags : SUBSET Ways, qId : QueueIds \cup {None}]]
              /\ held \in [Threads -> SUBSET [mqd : FileIds, name : Names, ways : SUBSET Ways]]

LEMMA FilesKept ==
  ASSUME TypeOK, FilesHeld, UNCHANGED <<filePool, held>>,
         \A j \in QueueIds : queuePool[j].mq_name # None =>
           queuePool'[j].mq_name = queuePool[j].mq_name
  PROVE  FilesHeld' /\ FilesTyped' /\ \A t \in Threads : held[t] \subseteq held'[t]
<1>1. \A d \in FileIds : filePool[d].taken => Entry(d)' = Entry(d)
  BY DEF FilesHeld, Entry
<1> QED BY <1>1 DEF FilesHeld, FilesTyped, TypeOK

(* ... nor when a descriptor of such a queue is taken.                      *)
LEMMA FilesMore ==
  ASSUME TypeOK, FilesHeld, NEW t \in Threads, NEW d \in FileIds, NEW q \in QueueIds,
         NEW name \in Names, NEW ways \in SUBSET Ways, TakeFile(t, d, q, name, ways),
         queuePool'[q].mq_name = name,
         \A j \in QueueIds : queuePool[j].mq_name # None =>
           queuePool'[j].mq_name = queuePool[j].mq_name
  PROVE  FilesHeld' /\ FilesTyped' /\ \A u \in Threads : held[u] \subseteq held'[u]
<1>1. /\ filePool' = [filePool EXCEPT ![d] = [taken |-> TRUE, tId |-> t, oflags |-> ways, qId |-> q]]
      /\ held' = [held EXCEPT ![t] = @ \cup {[mqd |-> d, name |-> name, ways |-> ways]}]
  BY DEF TakeFile
<1>2. FilesTyped' /\ \A u \in Threads : held[u] \subseteq held'[u]
  BY <1>1 DEF FilesTyped, TypeOK
<1>3. /\ filePool'[d] = [taken |-> TRUE, tId |-> t, oflags |-> ways, qId |-> q]
      /\ \A e \in FileIds \ {d} : filePool'[e] = filePool[e]
  BY <1>1 DEF TypeOK
<1>4. [mqd |-> d, name |-> name, ways |-> ways] \in held'[t]
  BY <1>1 DEF TypeOK
<1>5. ASSUME NEW e \in FileIds, filePool'[e].taken
      PROVE  /\ filePool'[e].qId \in QueueIds /\ filePool'[e].tId \in Threads
             /\ queuePool'[filePool'[e].qId].mq_name # None
             /\ Entry(e)' \in held'[filePool'[e].tId]
  <2>1. CASE e = d
    BY <2>1, <1>3, <1>4, MqPoolsAssumption DEF Entry
  <2>2. CASE e # d
    <3>1. /\ filePool[e].taken /\ filePool'[e] = filePool[e]
          /\ filePool[e].qId \in QueueIds /\ filePool[e].tId \in Threads
          /\ queuePool[filePool[e].qId].mq_name # None
          /\ Entry(e) \in held[filePool[e].tId]
      BY <2>2, <1>3, <1>5 DEF FilesHeld
    <3>2. Entry(e)' = Entry(e)
      BY <3>1 DEF Entry
    <3> QED BY <3>1, <3>2, <1>2
  <2> QED BY <2>1, <2>2
<1> QED BY <1>2, <1>5 DEF FilesHeld

LEMMA DescribeKeeps ==
  ASSUME TypeOK, FilesHeld, NEW t \in Threads, NEW q, NEW name \in Names,
         NEW ways \in SUBSET Ways, Describe(t, q, name, ways),
         ways # {} => q \in QueueIds /\ queuePool'[q].mq_name = name,
         \A j \in QueueIds : queuePool[j].mq_name # None =>
           queuePool'[j].mq_name = queuePool[j].mq_name
  PROVE  FilesHeld' /\ FilesTyped' /\ \A u \in Threads : held[u] \subseteq held'[u]
<1>1. CASE UNCHANGED <<filePool, held>>
  BY <1>1, FilesKept
<1>2. ASSUME ways # {}, NEW d \in FileIds, TakeFile(t, d, q, name, ways)
      PROVE  FilesHeld' /\ FilesTyped' /\ \A u \in Threads : held[u] \subseteq held'[u]
  BY <1>2, FilesMore
<1> QED BY <1>1, <1>2 DEF Describe

(* Calls that were accepted stay accounted for.                             *)
LEMMA ReachedKept ==
  ASSUME ReachesOwn, UNCHANGED reached, \A u \in Threads : held[u] \subseteq held'[u]
  PROVE  ReachesOwn'
BY DEF ReachesOwn

-----------------------------------------------------------------------------
LEMMA CallStep ==
  ASSUME IInv, NEW t \in Threads, Call(t)
  PROVE  IInv'
<1>1. /\ pc' \in [Threads -> {"user", "wait", "in", "posted"}]
      /\ \A u \in Threads : Within(u)' <=> Within(u)
  BY DEF IInv, TypeOK, Call, Within
<1>2. Section'
  <2>1. (Stopped' <=> Stopped) /\ poolAccessSem' = poolAccessSem
    BY DEF Call, Stopped
  <2> QED BY <1>1, <2>1 DEF IInv, Section
<1>3. TypeOK'
  BY <1>1 DEF IInv, TypeOK, Call
<1>4. Tables'
  BY TablesKept DEF IInv, Tables, Call
<1>5. ReachesOwn'
  BY DEF IInv, ReachesOwn, Call, TypeOK
<1> QED BY <1>2, <1>3, <1>4, <1>5 DEF IInv, Tables

LEMMA EnterStep ==
  ASSUME IInv, NEW t \in Threads, Enter(t)
  PROVE  IInv'
<1>1. /\ pc' \in [Threads -> {"user", "wait", "in", "posted"}]
      /\ poolAccessSem = 1 /\ poolAccessSem' = 0
      /\ \A u \in Threads : ~Within(u) /\ (Within(u)' <=> u = t)
      /\ ~Stopped /\ ~Stopped'
  <2>1. poolAccessSem = 1 /\ poolAccessSem' = 0 /\ pc' = [pc EXCEPT ![t] = "in"]
    BY DEF IInv, TypeOK, Enter
  <2>2. ~Stopped /\ \A u \in Threads : ~Within(u)
    BY <2>1 DEF IInv, Section
  <2>3. ~Stopped'
    BY <2>2 DEF Enter, Stopped
  <2> QED BY <2>1, <2>2, <2>3 DEF IInv, TypeOK, Within
<1>2. Section'
  BY <1>1 DEF Section
<1>3. TypeOK'
  BY <1>1 DEF IInv, TypeOK, Enter
<1>4. Tables' /\ ReachesOwn'
  BY TablesKept, ReachedKept DEF IInv, Tables, Enter
<1> QED BY <1>2, <1>3, <1>4 DEF IInv, Tables

(* Calls that come out again as they went in, with or without an error.     *)
LEMMA IdleStep ==
  ASSUME IInv, NEW t \in Threads, Within(t), Leave(t),
         UNCHANGED <<queuePool, filePool, held, reached, nameless>>
  PROVE  IInv'
<1>1. /\ poolAccessSem' \in {0, 1} /\ Section'
      /\ pc' \in [Threads -> {"user", "wait", "in", "posted"}]
  BY GoesOn, LeaveKeeps DEF IInv
<1>2. TypeOK'
  BY <1>1 DEF IInv, TypeOK
<1>3. Tables' /\ ReachesOwn'
  BY TablesKept, ReachedKept DEF IInv, Tables
<1> QED BY <1>1, <1>2, <1>3 DEF IInv, Tables

LEMMA OpenExistsStep ==
  ASSUME IInv, NEW t \in Threads, NEW name \in Names, OpenExists(t, name)
  PROVE  IInv'
<1>1. PICK i \in QueueIds :
        IsFirstFree(i, queuePool) /\ queuePool' = [queuePool EXCEPT ![i].taken = TRUE]
  BY DEF OpenExists
<1>2. /\ poolAccessSem' \in {0, 1} /\ Section'
      /\ pc' \in [Threads -> {"user", "wait", "in", "posted"}]
  <2>1. Within(t) /\ Leave(t)
    BY DEF OpenExists, Inside, Within
  <2>2. \A j \in QueueIds : /\ queuePool'[j].mq_name = queuePool[j].mq_name
                            /\ queuePool'[j].ring = queuePool[j].ring
    BY <1>1 DEF IInv, TypeOK
  <2> QED BY <2>1, <2>2, GoesOn, LeaveKeeps DEF IInv
<1>3. nameless' = nameless + 1 /\ UNCHANGED <<filePool, held, reached>>
  BY DEF OpenExists
<1>4. Tables' /\ queuePool' \in [QueueIds -> [taken : BOOLEAN, mq_name : Names \cup {None},
                                              ring : Rings]]
  BY <1>1, <1>3, MarkKeeps DEF IInv, Tables
<1>5. TypeOK'
  BY <1>2, <1>3, <1>4 DEF IInv, TypeOK
<1>6. ReachesOwn'
  BY <1>3, ReachedKept DEF IInv
<1> QED BY <1>2, <1>4, <1>5, <1>6 DEF IInv, Tables

(* A slot is given a name, and perhaps a descriptor made of it.             *)
LEMMA NameStep ==
  ASSUME IInv, NEW t \in Threads, NEW name \in Names, NEW ring \in Rings,
         Inside(t), Named(name, ring),
         IF ring = "none" THEN LeaveWithout(t) ELSE Leave(t),
         UNCHANGED <<reached, nameless>>,
         FilesHeld', FilesTyped', \A u \in Threads : held[u] \subseteq held'[u]
  PROVE  IInv'
<1>1. /\ poolAccessSem' \in {0, 1} /\ Section'
      /\ pc' \in [Threads -> {"user", "wait", "in", "posted"}]
  <2>1. Stopped' <=> Stopped \/ ring = "none"
    BY NameKeeps DEF IInv, Tables
  <2>2. Within(t) /\ ~Stopped
    BY DEF Inside, Within, IInv, Section
  <2> QED BY <2>1, <2>2, LeaveKeeps DEF IInv
<1>2. /\ NamedTaken' /\ NamesUnique' /\ Spent'
      /\ queuePool' \in [QueueIds -> [taken : BOOLEAN, mq_name : Names \cup {None}, ring : Rings]]
  BY NameKeeps DEF IInv, Tables
<1>3. TypeOK'
  BY <1>1, <1>2 DEF IInv, TypeOK, FilesTyped
<1>4. ReachesOwn'
  BY ReachedKept DEF IInv
<1> QED BY <1>1, <1>2, <1>3, <1>4 DEF IInv

LEMMA OpenFailsStep ==
  ASSUME IInv, NEW t \in Threads, NEW name \in Names,
         OpenNoAttr(t, name) \/ OpenNoMemory(t, name)
  PROVE  IInv'
<1>1. PICK ring \in Rings :
        Named(name, ring) /\ IF ring = "none" THEN LeaveWithout(t) ELSE Leave(t)
  BY DEF OpenNoAttr, OpenNoMemory, Rings
<1>2. /\ Inside(t)
      /\ UNCHANGED <<filePool, held, reached, nameless>>
  BY DEF OpenNoAttr, OpenNoMemory
<1>3. \A j \in QueueIds : queuePool[j].mq_name # None =>
        queuePool'[j].mq_name = queuePool[j].mq_name
  BY <1>1, <1>2, NameKeeps DEF IInv, Tables
<1>4. FilesHeld' /\ FilesTyped' /\ \A u \in Threads : held[u] \subseteq held'[u]
  BY <1>2, <1>3, FilesKept DEF IInv
<1> QED BY <1>1, <1>2, <1>4, NameStep

LEMMA OpenCreateStep ==
  ASSUME IInv, NEW t \in Threads, NEW name \in Names, NEW ways \in SUBSET Ways,
         NEW ring \in Rings, OpenCreate(t, name, ways, ring)
  PROVE  IInv'
<1>1. /\ Inside(t) /\ Named(name, ring) /\ Leave(t) /\ ring # "none"
      /\ UNCHANGED <<reached, nameless>>
  BY DEF OpenCreate
<1>2. PICK q \in QueueIds : IsFirstFree(q, queuePool) /\ Describe(t, q, name, ways)
  BY DEF OpenCreate
<1>3. PICK i \in QueueIds : IsFirstFree(i, queuePool) /\ queuePool'[i].mq_name = name
  BY <1>1, NameKeeps DEF IInv, Tables
<1>4. i = q
  <2>1. DOMAIN queuePool = QueueIds /\ QueueIds \subseteq Int
    BY DEF IInv, TypeOK, QueueIds
  <2> QED BY <2>1, <1>2, <1>3, FirstIsOne
<1>5. \A j \in QueueIds : queuePool[j].mq_name # None =>
        queuePool'[j].mq_name = queuePool[j].mq_name
  BY <1>1, NameKeeps DEF IInv, Tables
<1>6. FilesHeld' /\ FilesTyped' /\ \A u \in Threads : held[u] \subseteq held'[u]
  BY <1>2, <1>3, <1>4, <1>5, DescribeKeeps DEF IInv
<1> QED BY <1>1, <1>6, NameStep

LEMMA OpenExistingStep ==
  ASSUME IInv, NEW t \in Threads, NEW name \in Names, NEW ways \in SUBSET Ways,
         OpenExisting(t, name, ways)
  PROVE  IInv'
<1>1. Inside(t) /\ Leave(t) /\ UNCHANGED <<queuePool, reached, nameless>>
  BY DEF OpenExisting
<1>2. /\ poolAccessSem' \in {0, 1} /\ Section'
      /\ pc' \in [Threads -> {"user", "wait", "in", "posted"}]
  BY <1>1, GoesOn, LeaveKeeps DEF IInv, Inside, Within
<1>3. FilesHeld' /\ FilesTyped' /\ \A u \in Threads : held[u] \subseteq held'[u]
  <2>1. CASE ways = {} /\ Describe(t, None, name, ways)
    BY <2>1, <1>1, DescribeKeeps DEF IInv
  <2>2. ASSUME NEW q \in NamedSlots(name), Describe(t, q, name, ways)
        PROVE  FilesHeld' /\ FilesTyped' /\ \A u \in Threads : held[u] \subseteq held'[u]
    <3>1. q \in QueueIds /\ queuePool'[q].mq_name = name
      BY <1>1 DEF NamedSlots
    <3> QED BY <2>2, <3>1, <1>1, DescribeKeeps DEF IInv
  <2> QED BY <2>1, <2>2 DEF OpenExisting
<1>4. NamedTaken' /\ NamesUnique' /\ Spent'
  BY <1>1 DEF IInv, NamedTaken, NamesUnique, Spent, SlotsSpent, UsedNames, NamedSlots
<1>5. TypeOK'
  BY <1>1, <1>2, <1>3 DEF IInv, TypeOK, FilesTyped
<1>6. ReachesOwn'
  BY <1>1, <1>3, ReachedKept DEF IInv
<1> QED BY <1>2, <1>3, <1>4, <1>5, <1>6 DEF IInv

(* A call that passes the tests reaches what its thread has opened.         *)
LEMMA ReachKeeps ==
  ASSUME IInv, NEW t \in Threads, NEW d, NEW way \in Ways, Accepted(t, d, way),
         Reach(t, d, way), UNCHANGED <<queuePool, filePool, held, nameless>>
  PROVE  /\ ReachesOwn' /\ Tables'
         /\ reached' \in [Threads -> [name : Names \cup {None}, way : Ways] \cup {None}]
<1> DEFINE name == queuePool[filePool[d].qId].mq_name
<1>1. /\ d \in FileIds /\ filePool[d].tId = t /\ way \in filePool[d].oflags
      /\ filePool[d].qId \in QueueIds /\ Entry(d) \in held[t]
  BY DEF Accepted, IInv, FilesHeld
<1>2. name \in Names \cup {None}
  BY <1>1 DEF IInv, TypeOK
<1>3. reached' = [reached EXCEPT ![t] = [name |-> name, way |-> way]]
  BY DEF Reach
<1>4. \E h \in held[t] : h.name = name /\ way \in h.ways
  BY <1>1 DEF Entry
<1>5. ReachesOwn'
  <2> HIDE DEF name
  <2> QED BY <1>3, <1>4 DEF IInv, ReachesOwn, TypeOK
<1>6. reached' \in [Threads -> [name : Names \cup {None}, way : Ways] \cup {None}]
  <2> HIDE DEF name
  <2> QED BY <1>2, <1>3 DEF IInv, TypeOK
<1> QED BY <1>5, <1>6, TablesKept DEF IInv, Tables

LEMMA UseOnceStep ==
  ASSUME IInv, NEW t \in Threads, NEW d, NEW way \in Ways, UseOnce(t, d, way)
  PROVE  IInv'
<1>1. /\ poolAccessSem' \in {0, 1} /\ Section'
      /\ pc' \in [Threads -> {"user", "wait", "in", "posted"}]
  <2>1. Within(t) /\ Leave(t) /\ UNCHANGED queuePool
    BY DEF UseOnce, Inside, Within
  <2> QED BY <2>1, GoesOn, LeaveKeeps DEF IInv
<1>2. /\ ReachesOwn' /\ Tables'
      /\ reached' \in [Threads -> [name : Names \cup {None}, way : Ways] \cup {None}]
  BY ReachKeeps DEF UseOnce
<1>3. TypeOK'
  BY <1>1, <1>2 DEF IInv, TypeOK, UseOnce
<1> QED BY <1>1, <1>2, <1>3 DEF IInv, Tables

LEMMA UseWriteStep ==
  ASSUME IInv, NEW t \in Threads, NEW d, UseWrite(t, d)
  PROVE  IInv'
<1>1. /\ pc' \in [Threads -> {"user", "wait", "in", "posted"}]
      /\ \A u \in Threads : Within(u)' <=> Within(u)
  BY DEF IInv, TypeOK, UseWrite, Inside, Within
<1>2. Section'
  <2>1. (Stopped' <=> Stopped) /\ poolAccessSem' = poolAccessSem
    BY DEF UseWrite, Stopped
  <2> QED BY <1>1, <2>1 DEF IInv, Section
<1>3. /\ ReachesOwn' /\ Tables'
      /\ reached' \in [Threads -> [name : Names \cup {None}, way : Ways] \cup {None}]
  BY ReachKeeps DEF UseWrite, Ways
<1>4. TypeOK'
  BY <1>1, <1>3 DEF IInv, TypeOK, UseWrite
<1> QED BY <1>2, <1>3, <1>4 DEF IInv, Tables

-----------------------------------------------------------------------------
LEMMA InitIInv == ASSUME Init PROVE IInv
<1>1. TypeOK
  BY DEF Init, TypeOK, Rings
<1>2. Section /\ NamedTaken /\ NamesUnique /\ FilesHeld /\ ReachesOwn
  BY DEF Init, Section, Stopped, Within, NamedTaken, NamesUnique, FilesHeld, ReachesOwn
<1>3. TakenSlots = {} /\ UsedNames = {}
  BY DEF Init, TakenSlots, UsedNames, NamedSlots
<1>4. IsFiniteSet({}) /\ Cardinality({}) = 0
  BY FS_EmptySet
<1>5. IsFiniteSet(UsedNames) /\ Cardinality(TakenSlots) = Cardinality(UsedNames) + nameless
  BY <1>3, <1>4 DEF Init
<1>6. Spent
  BY <1>5 DEF Spent, SlotsSpent, TakenSlots, UsedNames
<1> QED BY <1>1, <1>2, <1>6 DEF IInv

LEMMA NextIInv == ASSUME IInv, [Next]_vars PROVE IInv'
<1>1. ASSUME NEW t \in Threads, Call(t) PROVE IInv'
  BY <1>1, CallStep
<1>2. ASSUME NEW t \in Threads, Enter(t) PROVE IInv'
  BY <1>2, EnterStep
<1>3. ASSUME NEW t \in Threads, NoEffect(t) \/ UseWritten(t) PROVE IInv'
  BY <1>3, IdleStep DEF NoEffect, UseWritten, Inside, Within
<1>4. ASSUME NEW t \in Threads, Open(t) PROVE IInv'
  <2>1. CASE OpenFull(t)
    BY <2>1, IdleStep DEF OpenFull, Inside, Within
  <2>2. ASSUME NEW name \in Names,
               OpenExists(t, name) \/ OpenNoAttr(t, name) \/ OpenNoMemory(t, name)
        PROVE  IInv'
    BY <2>2, OpenExistsStep, OpenFailsStep
  <2>3. ASSUME NEW name \in Names, OpenNoEntry(t, name) PROVE IInv'
    BY <2>3, IdleStep DEF OpenNoEntry, Inside, Within
  <2>4. ASSUME NEW name \in Names, NEW ways \in SUBSET Ways, OpenExisting(t, name, ways)
        PROVE  IInv'
    BY <2>4, OpenExistingStep
  <2>5. ASSUME NEW name \in Names, NEW ways \in SUBSET Ways, NEW ring \in Rings,
               OpenCreate(t, name, ways, ring)
        PROVE  IInv'
    BY <2>5, OpenCreateStep
  <2> QED BY <1>4, <2>1, <2>2, <2>3, <2>4, <2>5 DEF Open
<1>5. ASSUME NEW t \in Threads, Use(t) PROVE IInv'
  <2>1. PICK d \in Mqds :
          \/ \E way \in Ways : UseRefused(t, d, way) \/ UseOnce(t, d, way)
          \/ UseWrite(t, d)
    BY <1>5 DEF Use
  <2>2. ASSUME NEW way \in Ways, UseRefused(t, d, way) PROVE IInv'
    BY <2>2, IdleStep DEF UseRefused, Inside, Within
  <2> QED BY <2>1, <2>2, UseOnceStep, UseWriteStep
<1>6. CASE UNCHANGED vars
  <2>1. UNCHANGED <<queuePool, filePool, poolAccessSem, pc, held, reached, nameless>>
    BY <1>6 DEF vars
  <2>2. Tables' /\ ReachesOwn'
    BY <2>1, TablesKept, ReachedKept DEF IInv, Tables
  <2>3. TypeOK' /\ Section'
    BY <2>1 DEF IInv, TypeOK, Section, Stopped, Within
  <2> QED BY <2>2, <2>3 DEF IInv, Tables
<1> QED BY <1>1, <1>2, <1>3, <1>4, <1>5, <1>6 DEF Next, Body

-----------------------------------------------------------------------------
(* Whatever calls are made and however they fail, the pools agree and the   *)
(* section of poolAccessSem holds one thread.                               *)
THEOREM Invariance == Spec => []IInv
BY InitIInv, NextIInv, PTL DEF Spec

(* mq_open never gives two queues of the pool the same name.                *)
THEOREM NamesAreUnique == Spec => []NamesUnique
<1>1. IInv => NamesUnique
  BY DEF IInv
<1> QED BY <1>1, Invariance, PTL

(* Every slot that mq_open has marked went to one name or to one call that  *)
(* returned EEXIST: the leak is of exactly those.                           *)
THEOREM SlotsAreSpent == Spec => []SlotsSpent
<1>1. IInv => SlotsSpent
  BY DEF IInv, Spent
<1> QED BY <1>1, Invariance, PTL

(* A call of mq_send or mq_receive that is accepted reaches a queue that    *)
(* its thread has opened by name for that direction.                        *)
THEOREM CallsReachOwn == Spec => []ReachesOwn
<1>1. IInv => ReachesOwn
  BY DEF IInv
<1> QED BY <1>1, Invariance, PTL

(* Every return of every call posts the pool's semaphore exactly once, but  *)
(* for the one that stops the system: it is free or one call is inside.     *)
THEOREM SectionIsKept == Spec => []SectionKept
<1>1. IInv => SectionKept
  <2> SUFFICES ASSUME IInv PROVE SectionKept
    OBVIOUS
  <2> DEFINE W == {t \in Threads : pc[t] \in {"in", "posted"}}
  <2>1. poolAccessSem \in {0, 1} /\ Section
    BY DEF IInv, TypeOK
  <2>2. \A t \in Threads : t \in W <=> Within(t)
    BY DEF Within
  <2>3. CASE \A t \in Threads : ~Within(t)
    <3>1. W = {}
      BY <2>2, <2>3
    <3>2. Cardinality(W) = 0
      BY <3>1, FS_EmptySet
    <3>3. poolAccessSem = IF Stopped THEN 0 ELSE 1
      BY <2>1, <2>3 DEF Section
    <3> QED BY <3>2, <3>3 DEF SectionKept
  <2>4. CASE \E t \in Threads : Within(t)
    <3>1. PICK t \in Threads : Within(t)
      BY <2>4
    <3>2. W = {t}
      BY <2>1, <2>2, <3>1 DEF Section
    <3>3. Cardinality(W) = 1
      BY <3>2, FS_Singleton
    <3>4. poolAccessSem = 0 /\ ~Stopped
      BY <2>1, <3>1 DEF Section
    <3> QED BY <3>3, <3>4 DEF SectionKept
  <2> QED BY <2>3, <2>4
<1> QED BY <1>1, Invariance, PTL
=============================================================================
