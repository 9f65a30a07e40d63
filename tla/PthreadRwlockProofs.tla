------------------------ MODULE PthreadRwlockProofs ------------------------
(****************************************************************************)
(* Proofs about the read-write lock, for any number of readers and writers  *)
(* of any priorities.                                                       *)
(****************************************************************************)
EXTENDS PthreadRwlock, PthreadSyncProofs

(* The stacks there are: a place, or the second half of a call above one.   *)
Halves ==
  {<<"release", WritersLock, "back_off">>, <<"release", WritersLock, "leave">>,
   <<"release", ReadersLock, "leave">>,
   <<"relock", ReadersLock, "rd_woken">>, <<"relock", WritersLock, "wr_woken">>}
Stacks == {<<p>> : p \in Places} \cup Halves

Counters ==
  [reading : Nat, writing : Nat, bReaders : Nat, bWriters : Nat, prios : SUBSET Threads]

Kernel ==
  /\ active \in Threads /\ phase \in {"run", "yield"} /\ asleep \subseteq Threads
  /\ coop \in [Conds -> {NULL, Self}]
  /\ pc \in [Threads -> Stacks]
  /\ rw \in Counters
  /\ granted \in [Threads -> BOOLEAN]

-----------------------------------------------------------------------------
(* The threads whose place is one of some.                                  *)
AtOne(places) == {t \in Threads : Last(pc[t]) \in places}
Holding == {"reading", "writing", "unlock"}

(* What the counters stand for: either readers hold the lock, or one writer *)
(* does; a holder that is about to release the lock has lost its name.      *)
HeldByReaders == rw.writing = 0 /\ AtOne({"writing"}) = {}
HeldByWriter ==
  rw.writing = 1 /\ rw.reading = 0 /\ AtOne({"reading"}) = {}
Counted ==
  /\ HeldByReaders \/ HeldByWriter
  /\ rw.reading + rw.writing = In(Holding)
  /\ rw.bReaders = In({"rd_woken"}) /\ rw.bWriters = In({"wr_woken"})

CInv == Kernel /\ Counted

-----------------------------------------------------------------------------
LEMMA NamesAre ==
  /\ Self \in Muxes /\ Self \in Mutexes /\ Self \notin Conds
  /\ ReadersLock \in Conds /\ WritersLock \in Conds /\ Conds \subseteq Muxes
  /\ NULL \notin Threads /\ One \notin Threads /\ One # NULL
BY SyncAssumption, RwlockAssumption DEF Muxes

(* The top, the bottom and the rest of a stack.                             *)
LEMMA StackIs ==
  /\ \A p : Head(<<p>>) = p /\ Last(<<p>>) = p
  /\ \A a, c, p : /\ Head(<<a, c, p>>) = a /\ <<a, c, p>>[2] = c
                  /\ Last(<<a, c, p>>) = p
                  /\ SubSeq(<<a, c, p>>, 3, Len(<<a, c, p>>)) = <<p>>
                  /\ <<a, c>> \o <<p>> = <<a, c, p>>
<1>1. ASSUME NEW p PROVE Head(<<p>>) = p /\ Last(<<p>>) = p
  BY DEF Last
<1>2. ASSUME NEW a, NEW c, NEW p
      PROVE  /\ Head(<<a, c, p>>) = a /\ <<a, c, p>>[2] = c /\ Last(<<a, c, p>>) = p
             /\ SubSeq(<<a, c, p>>, 3, Len(<<a, c, p>>)) = <<p>>
             /\ <<a, c>> \o <<p>> = <<a, c, p>>
  <2>1. Len(<<a, c, p>>) = 3
    OBVIOUS
  <2>2. Head(<<a, c, p>>) = a /\ <<a, c, p>>[2] = c /\ <<a, c, p>>[3] = p
    OBVIOUS
  <2>3. SubSeq(<<a, c, p>>, 3, 3) = <<p>> /\ <<a, c>> \o <<p>> = <<a, c, p>>
    BY OfThree
  <2> QED BY <2>1, <2>2, <2>3 DEF Last
<1> QED BY <1>1, <1>2

(* A thread at the top of whose stack a place is named is at that place.    *)
LEMMA PlaceIs ==
  ASSUME Kernel, NEW p \in Places, At(p)
  PROVE  phase = "run" /\ pc[active] = <<p>> /\ Last(pc[active]) = p
<1>1. Head(pc[active]) = p /\ phase = "run" /\ pc[active] \in Stacks
  BY DEF Kernel, At
<1>2. p # "release" /\ p # "relock"
  BY DEF Places
<1>3. pc[active] \notin Halves
  BY <1>1, <1>2, StackIs DEF Halves
<1>4. PICK q \in Places : pc[active] = <<q>>
  BY <1>1, <1>3 DEF Stacks
<1> QED BY <1>1, <1>4, StackIs

(* How a step of the running thread changes who is where.                   *)
LEMMA MoveCounts ==
  ASSUME Kernel, NEW stack \in Stacks, Goto(stack), NEW places
  PROVE  /\ pc' \in [Threads -> Stacks]
         /\ AtOne(places)' = IF Last(stack) \in places
                             THEN AtOne(places) \cup {active} ELSE AtOne(places) \ {active}
         /\ In(places) \in Nat /\ IsFiniteSet(AtOne(places))
         /\ In(places)' = (IF active \in AtOne(places) THEN In(places) - 1 ELSE In(places))
                          + (IF Last(stack) \in places THEN 1 ELSE 0)
<1> DEFINE A == AtOne(places)  B == AtOne(places)'
<1>1. /\ pc' \in [Threads -> Stacks] /\ pc'[active] = stack /\ active \in Threads
      /\ \A t \in Threads \ {active} : pc'[t] = pc[t]
  BY DEF Kernel, Goto
<1>2. B = IF Last(stack) \in places THEN A \cup {active} ELSE A \ {active}
  BY <1>1 DEF AtOne
<1>3. IsFiniteSet(A) /\ Cardinality(A) \in Nat
  BY RwlockAssumption, FS_Subset, FS_CardinalityType DEF AtOne
<1>4. In(places) = Cardinality(A) /\ In(places)' = Cardinality(B)
  BY DEF In, AtOne
<1> HIDE DEF A, B
<1>5. active \in A => Cardinality(A) - 1 \in Nat
  BY <1>3, FS_EmptySet
<1>6. /\ Cardinality(A \cup {active}) = IF active \in A THEN Cardinality(A) ELSE Cardinality(A) + 1
      /\ Cardinality(A \ {active}) = IF active \in A THEN Cardinality(A) - 1 ELSE Cardinality(A)
  BY <1>3, FS_AddElement, FS_RemoveElement
<1>7. In(places)' = (IF active \in A THEN In(places) - 1 ELSE In(places))
                    + (IF Last(stack) \in places THEN 1 ELSE 0)
  BY <1>2, <1>3, <1>4, <1>5, <1>6
<1> QED BY <1>1, <1>2, <1>3, <1>4, <1>7 DEF A, B

(* What such a step does to everything that Counted speaks of.              *)
Step(from, to) ==
  LET Moved(places) == In(places) - (IF from \in places THEN 1 ELSE 0)
                                  + (IF to \in places THEN 1 ELSE 0)
  IN /\ In(Holding)' = Moved(Holding)
     /\ In({"rd_woken"})' = Moved({"rd_woken"})
     /\ In({"wr_woken"})' = Moved({"wr_woken"})
     /\ \A p \in {"reading", "writing"} :
          /\ to # p /\ AtOne({p}) = {} => AtOne({p})' = {}
          /\ In(Holding) = 0 => AtOne({p}) = {}
          /\ In(Holding)' = 0 => AtOne({p})' = {}

LEMMA Steps ==
  ASSUME Kernel, NEW stack \in Stacks, Goto(stack)
  PROVE  /\ pc' \in [Threads -> Stacks] /\ Step(Last(pc[active]), Last(stack))
         /\ In(Holding) \in Nat /\ In(Holding)' \in Nat
<1> DEFINE from == Last(pc[active])  to == Last(stack)
<1>1. active \in Threads /\ \A places : active \in AtOne(places) <=> from \in places
  BY DEF Kernel, AtOne
<1>2. pc' \in [Threads -> Stacks] /\ pc'[active] = stack
  BY MoveCounts DEF Kernel, Goto
<1>3. ASSUME NEW places
      PROVE  /\ AtOne(places)' = IF to \in places THEN AtOne(places) \cup {active}
                                                  ELSE AtOne(places) \ {active}
             /\ In(places) \in Nat /\ IsFiniteSet(AtOne(places)) /\ IsFiniteSet(AtOne(places)')
             /\ In(places)' = In(places) - (IF from \in places THEN 1 ELSE 0)
                                         + (IF to \in places THEN 1 ELSE 0)
             /\ In(places) = Cardinality(AtOne(places)) /\ In(places)' = Cardinality(AtOne(places)')
             /\ In(places)' \in Nat
  <2>1. /\ AtOne(places)' = IF to \in places THEN AtOne(places) \cup {active}
                                             ELSE AtOne(places) \ {active}
        /\ In(places) \in Nat /\ IsFiniteSet(AtOne(places))
        /\ In(places)' = (IF active \in AtOne(places) THEN In(places) - 1 ELSE In(places))
                         + (IF to \in places THEN 1 ELSE 0)
    BY MoveCounts
  <2>2. In(places) = Cardinality(AtOne(places)) /\ In(places)' = Cardinality(AtOne(places)')
    BY DEF In, AtOne
  <2>3. IsFiniteSet(AtOne(places)')
    BY <2>1, FS_AddElement, FS_RemoveElement
  <2>4. In(places)' \in Nat
    BY <2>2, <2>3, FS_CardinalityType
  <2>5. In(places)' = In(places) - (IF from \in places THEN 1 ELSE 0)
                                 + (IF to \in places THEN 1 ELSE 0)
    BY <2>1, <1>1
  <2> QED BY <2>1, <2>2, <2>3, <2>4, <2>5
<1> HIDE DEF from, to
<1>4. ASSUME NEW p \in {"reading", "writing"}
      PROVE  /\ to # p /\ AtOne({p}) = {} => AtOne({p})' = {}
             /\ In(Holding) = 0 => AtOne({p}) = {}
             /\ In(Holding)' = 0 => AtOne({p})' = {}
  <2>1. to # p /\ AtOne({p}) = {} => AtOne({p})' = {}
    BY <1>3
  <2>2. In(Holding) = 0 => AtOne(Holding) = {}
    BY <1>3, FS_EmptySet
  <2>3. In(Holding)' = 0 => AtOne(Holding)' = {}
    BY <1>3, FS_EmptySet
  <2>4. AtOne({p}) \subseteq AtOne(Holding) /\ AtOne({p})' \subseteq AtOne(Holding)'
    BY DEF AtOne, Holding
  <2> QED BY <2>1, <2>2, <2>3, <2>4
<1>5. Step(from, to)
  BY <1>3, <1>4 DEF Step
<1> QED BY <1>2, <1>3, <1>5 DEF from, to

(* What every step keeps of the other variables.                            *)
Frame ==
  /\ active' \in Threads /\ phase' \in {"run", "yield"} /\ asleep' \subseteq Threads
  /\ coop' \in [Conds -> {NULL, Self}] /\ granted' \in [Threads -> BOOLEAN]

(* A step between places that the counters do not tell apart.               *)
LEMMA QuietStep ==
  ASSUME CInv, Frame, rw' = rw, NEW stack \in Stacks, Goto(stack),
         LET from == Last(pc[active])  to == Last(stack)
         IN \/ from = to
            \/ {from, to} \cap (Holding \cup {"rd_woken", "wr_woken"}) = {}
            \/ from \in Holding /\ to = "unlock"
  PROVE  CInv'
<1> DEFINE from == Last(pc[active])  to == Last(stack)
<1>1. /\ pc' \in [Threads -> Stacks] /\ Step(from, to)
      /\ In(Holding) \in Nat /\ In(Holding)' \in Nat
  BY Steps DEF CInv
<1>2. Kernel'
  BY <1>1 DEF CInv, Kernel, Frame
<1>3. \/ from = to
      \/ {from, to} \cap (Holding \cup {"rd_woken", "wr_woken"}) = {}
      \/ from \in Holding /\ to = "unlock"
  OBVIOUS
<1>4. In({"rd_woken"}) \in Nat /\ In({"wr_woken"}) \in Nat
  BY DEF CInv, Counted, Kernel, Counters
<1> HIDE DEF from, to
<1>5. /\ In(Holding)' = In(Holding) /\ In({"rd_woken"})' = In({"rd_woken"})
      /\ In({"wr_woken"})' = In({"wr_woken"})
  <2>1. /\ In(Holding)' = In(Holding) - (IF from \in Holding THEN 1 ELSE 0)
                                      + (IF to \in Holding THEN 1 ELSE 0)
        /\ In({"rd_woken"})' = In({"rd_woken"}) - (IF from = "rd_woken" THEN 1 ELSE 0)
                                              + (IF to = "rd_woken" THEN 1 ELSE 0)
        /\ In({"wr_woken"})' = In({"wr_woken"}) - (IF from = "wr_woken" THEN 1 ELSE 0)
                                              + (IF to = "wr_woken" THEN 1 ELSE 0)
    BY <1>1 DEF Step
  <2>2. /\ from \in Holding <=> to \in Holding
        /\ from = "rd_woken" <=> to = "rd_woken"
        /\ from = "wr_woken" <=> to = "wr_woken"
    BY <1>3 DEF Holding
  <2> QED BY <2>1, <2>2, <1>1, <1>4
<1>6. ASSUME NEW p \in {"reading", "writing"}, AtOne({p}) = {} PROVE AtOne({p})' = {}
  <2>1. CASE to # p
    BY <1>1, <1>6, <2>1 DEF Step
  <2>2. CASE to = p
    <3>1. from = p
      BY <1>3, <2>2 DEF Holding
    <3>2. active \in AtOne({p})
      BY <3>1 DEF AtOne, from, CInv, Kernel
    <3> QED BY <3>2, <1>6
  <2> QED BY <2>1, <2>2
<1>7. Counted'
  BY <1>5, <1>6 DEF CInv, Counted, HeldByReaders, HeldByWriter
<1> QED BY <1>2, <1>7 DEF CInv

-----------------------------------------------------------------------------
(* Where the calls lead the thread that makes them.                         *)
Goes(to) == \E stack \in Stacks : Last(stack) = to /\ Goto(stack)
Called(to) ==
  /\ Goes(to)
  /\ active' \in Threads /\ phase' \in {"run", "yield"} /\ asleep' \subseteq Threads
  /\ coop' \in [Conds -> {NULL, Self}]

LEMMA StacksOf ==
  /\ \A p \in Places : <<p>> \in Stacks
  /\ \A h \in Halves : h \in Stacks
  /\ <<"release", WritersLock, "back_off">> \in Halves
  /\ <<"release", WritersLock, "leave">> \in Halves
  /\ <<"release", ReadersLock, "leave">> \in Halves
  /\ <<"relock", ReadersLock, "rd_woken">> \in Halves
  /\ <<"relock", WritersLock, "wr_woken">> \in Halves
BY DEF Stacks, Halves

LEMMA CallsLead ==
  ASSUME Kernel
  PROVE  /\ \A m : \A p \in Places : MutexLock(m, <<p>>) => Called(p)
         /\ \A m : \A p \in Places : MutexUnlock(m, <<p>>) => Called(p)
         /\ CondWait(ReadersLock, Self, <<"rd_woken">>) => Called("rd_woken")
         /\ CondWait(WritersLock, Self, <<"wr_woken">>) => Called("wr_woken")
         /\ CondSignal(WritersLock, <<"back_off">>) => Called("back_off")
         /\ CondSignal(WritersLock, <<"leave">>) => Called("leave")
         /\ CondSignal(ReadersLock, <<"leave">>) => Called("leave")
         /\ CondBroadcast(ReadersLock, <<"leave">>) => Called("leave")
<1>0. /\ active \in Threads /\ phase \in {"run", "yield"} /\ asleep \subseteq Threads
      /\ coop \in [Conds -> {NULL, Self}]
  BY DEF Kernel
<1>1. ASSUME NEW p \in Places, Goto(<<p>>) PROVE Goes(p)
  BY <1>1, StacksOf, StackIs DEF Goes
<1>2. ASSUME NEW a, NEW c, NEW p, <<a, c, p>> \in Halves, Goto(<<a, c>> \o <<p>>) PROVE Goes(p)
  <2>1. <<a, c>> \o <<p>> = <<a, c, p>> /\ Last(<<a, c, p>>) = p /\ <<a, c, p>> \in Stacks
    BY <1>2, StacksOf, StackIs
  <2>2. Goto(<<a, c, p>>)
    BY <2>1, <1>2 DEF Goto
  <2> QED BY <2>1, <2>2 DEF Goes
<1>3. ASSUME NEW p \in Places, NEW m, MutexLock(m, <<p>>) PROVE Called(p)
  BY <1>0, <1>1, <1>3 DEF MutexLock, Called, YieldIf
<1>4. ASSUME NEW p \in Places, NEW m, MutexUnlock(m, <<p>>) PROVE Called(p)
  BY <1>0, <1>1, <1>4 DEF MutexUnlock, Called, YieldIf
<1>5. ASSUME NEW c \in Conds, NEW p, <<"relock", c, p>> \in Halves, CondWait(c, Self, <<p>>)
      PROVE  Called(p)
  <2>1. Goes(p)
    BY <1>2, <1>5 DEF CondWait
  <2> QED BY <2>1, <1>0, <1>5 DEF CondWait, Called
<1>6. ASSUME NEW c \in Conds, NEW p \in Places, <<"release", c, p>> \in Halves, CondSignal(c, <<p>>)
      PROVE  Called(p)
  <2>1. Goes(p)
    BY <1>1, <1>2, <1>6 DEF CondSignal
  <2> QED BY <2>1, <1>0, <1>6 DEF CondSignal, Called, YieldIf
<1>7. ASSUME CondBroadcast(ReadersLock, <<"leave">>) PROVE Called("leave")
  <2>1. Goes("leave")
    BY <1>1, <1>7 DEF CondBroadcast, Places
  <2> QED BY <2>1, <1>0, <1>7 DEF CondBroadcast, Called, YieldIf
<1>8. "back_off" \in Places /\ "leave" \in Places
  BY DEF Places
<1> QED BY <1>3, <1>4, <1>5, <1>6, <1>7, <1>8, NamesAre, StacksOf

(* The counters with the running thread taken off, and put in at a place.   *)
Bit(b) == IF b THEN 1 ELSE 0
Without(r, from) ==
  /\ r \in Counters
  /\ r.reading + r.writing = In(Holding) - Bit(from \in Holding)
  /\ r.bReaders = In({"rd_woken"}) - Bit(from = "rd_woken")
  /\ r.bWriters = In({"wr_woken"}) - Bit(from = "wr_woken")

Arrives(r, to) ==
  /\ rw' \in Counters
  /\ rw'.reading + rw'.writing = r.reading + r.writing + Bit(to \in Holding)
  /\ rw'.bReaders = r.bReaders + Bit(to = "rd_woken")
  /\ rw'.bWriters = r.bWriters + Bit(to = "wr_woken")

LEMMA Arrival ==
  ASSUME CInv, granted' \in [Threads -> BOOLEAN], NEW to, Called(to),
         NEW r, Without(r, Last(pc[active])), Arrives(r, to),
         (HeldByReaders \/ HeldByWriter)'
  PROVE  CInv'
<1> DEFINE from == Last(pc[active])
<1>1. PICK stack \in Stacks : Last(stack) = to /\ Goto(stack)
  BY DEF Called, Goes
<1>2. /\ pc' \in [Threads -> Stacks] /\ Step(from, to)
      /\ In(Holding) \in Nat /\ In(Holding)' \in Nat
  BY <1>1, Steps DEF CInv
<1>3. Kernel'
  BY <1>2 DEF CInv, Kernel, Called, Arrives
<1> HIDE DEF from
<1>4. /\ In(Holding)' = In(Holding) - Bit(from \in Holding) + Bit(to \in Holding)
      /\ In({"rd_woken"})' = In({"rd_woken"}) - Bit(from = "rd_woken") + Bit(to = "rd_woken")
      /\ In({"wr_woken"})' = In({"wr_woken"}) - Bit(from = "wr_woken") + Bit(to = "wr_woken")
  BY <1>2 DEF Step, Bit
<1>5. /\ rw'.reading + rw'.writing = In(Holding) - Bit(from \in Holding) + Bit(to \in Holding)
      /\ rw'.bReaders = In({"rd_woken"}) - Bit(from = "rd_woken") + Bit(to = "rd_woken")
      /\ rw'.bWriters = In({"wr_woken"}) - Bit(from = "wr_woken") + Bit(to = "wr_woken")
  BY DEF Without, Arrives, from
<1>6. Counted'
  BY <1>4, <1>5 DEF Counted
<1> QED BY <1>3, <1>6 DEF CInv

(* What is known of the holders after a call, from the three cases.         *)
LEMMA HeldAfter ==
  ASSUME CInv, NEW to, Called(to), rw'.reading \in Nat, rw'.writing \in Nat
  PROVE  /\ /\ to \notin {"reading", "writing"}
            /\ rw'.reading = rw.reading /\ rw'.writing = rw.writing
            => (HeldByReaders \/ HeldByWriter)'
         /\ rw.writing = 0 /\ rw'.writing = 0 /\ to # "writing" => HeldByReaders'
         /\ In(Holding) = 0 /\ rw'.writing = 1 /\ rw'.reading = 0 /\ to # "reading"
            => HeldByWriter'
         /\ In(Holding)' = 0 /\ rw'.writing = 0 => HeldByReaders'
         /\ In(Holding)' = In(Holding) - Bit(Last(pc[active]) \in Holding) + Bit(to \in Holding)
<1> DEFINE from == Last(pc[active])
<1>1. PICK stack \in Stacks : Last(stack) = to /\ Goto(stack)
  BY DEF Called, Goes
<1>2. Step(from, to)
  BY <1>1, Steps DEF CInv
<1>3. ASSUME NEW p \in {"reading", "writing"}
      PROVE  /\ to # p /\ AtOne({p}) = {} => AtOne({p})' = {}
             /\ In(Holding) = 0 => AtOne({p}) = {}
             /\ In(Holding)' = 0 => AtOne({p})' = {}
  BY <1>2 DEF Step
<1>4. HeldByReaders \/ HeldByWriter
  BY DEF CInv, Counted
<1>5. to \notin {"reading", "writing"} /\ rw'.reading = rw.reading /\ rw'.writing = rw.writing
      => (HeldByReaders \/ HeldByWriter)'
  BY <1>3, <1>4 DEF HeldByReaders, HeldByWriter
<1>6. rw.writing = 0 /\ rw'.writing = 0 /\ to # "writing" => HeldByReaders'
  BY <1>3, <1>4 DEF HeldByReaders, HeldByWriter
<1>7. In(Holding) = 0 /\ rw'.writing = 1 /\ rw'.reading = 0 /\ to # "reading" => HeldByWriter'
  BY <1>3 DEF HeldByWriter
<1>8. In(Holding)' = 0 /\ rw'.writing = 0 => HeldByReaders'
  BY <1>3 DEF HeldByReaders
<1>9. In(Holding)' = In(Holding) - Bit(from \in Holding) + Bit(to \in Holding)
  BY <1>2 DEF Step, Bit
<1> QED BY <1>5, <1>6, <1>7, <1>8, <1>9

-----------------------------------------------------------------------------
(* The loops of pthread_rwlock_rdlock and pthread_rwlock_wrlock.            *)
LEMMA BackOffStep ==
  ASSUME CInv, granted' \in [Threads -> BOOLEAN], NEW r, Without(r, Last(pc[active])),
         r.reading = rw.reading, r.writing = rw.writing, BackOff(r)
  PROVE  CInv'
<1>1. Called("rd_woken")
  BY CallsLead DEF BackOff, CInv
<1>2. rw' = [r EXCEPT !.bReaders = @ + 1] /\ r \in Counters
  BY DEF BackOff, Without, Counters
<1>3. /\ rw' \in Counters /\ rw'.reading = r.reading /\ rw'.writing = r.writing
      /\ rw'.bReaders = r.bReaders + 1 /\ rw'.bWriters = r.bWriters
  BY <1>2 DEF Counters
<1>4. Arrives(r, "rd_woken")
  BY <1>2, <1>3 DEF Arrives, Counters, Bit, Holding
<1>5. (HeldByReaders \/ HeldByWriter)'
  BY <1>1, <1>3, HeldAfter DEF Counters
<1> QED BY <1>1, <1>4, <1>5, Arrival

LEMMA ReadLoopStep ==
  ASSUME CInv, NEW r, Without(r, Last(pc[active])), NEW g \in BOOLEAN,
         r.reading = rw.reading, r.writing = rw.writing, ReadLoop(r, g)
  PROVE  CInv'
<1>1. granted' \in [Threads -> BOOLEAN]
  BY DEF ReadLoop, CInv, Kernel
<1>2. r \in Counters
  BY DEF Without, Counters
<1>3. CASE rw' = r /\ CondSignal(WritersLock, <<"back_off">>)
  <2>1. Called("back_off")
    BY <1>3, CallsLead DEF CInv
  <2>2. Arrives(r, "back_off")
    BY <1>2, <1>3 DEF Arrives, Counters, Bit, Holding
  <2>3. (HeldByReaders \/ HeldByWriter)'
    BY <1>2, <1>3, <2>1, HeldAfter DEF Counters
  <2> QED BY <1>1, <2>1, <2>2, <2>3, Arrival
<1>4. CASE BackOff(r)
  BY <1>1, <1>4, BackOffStep
<1>5. CASE ~(r.writing > 0) /\ rw' = [r EXCEPT !.reading = @ + 1] /\ MutexUnlock(Self, <<"reading">>)
  <2>1. Called("reading")
    BY <1>5, CallsLead DEF CInv, Places
  <2>2. /\ rw' \in Counters /\ rw'.reading = r.reading + 1 /\ rw'.writing = r.writing
        /\ rw'.bReaders = r.bReaders /\ rw'.bWriters = r.bWriters
    BY <1>2, <1>5 DEF Counters
  <2>3. Arrives(r, "reading")
    BY <1>2, <2>2 DEF Arrives, Counters, Bit, Holding
  <2>4. HeldByReaders'
    BY <1>2, <1>5, <2>1, <2>2, HeldAfter DEF Counters
  <2> QED BY <1>1, <2>1, <2>3, <2>4, Arrival
<1> QED BY <1>3, <1>4, <1>5 DEF ReadLoop

LEMMA WriteLoopStep ==
  ASSUME CInv, granted' = granted, NEW r, Without(r, Last(pc[active])),
         Last(pc[active]) \notin Holding,
         r.reading = rw.reading, r.writing = rw.writing, WriteLoop(r)
  PROVE  CInv'
<1>1. granted' \in [Threads -> BOOLEAN] /\ active \in Threads
  BY DEF CInv, Kernel
<1>2. r \in Counters
  BY DEF Without, Counters
<1>3. CASE /\ rw' = [r EXCEPT !.bWriters = @ + 1, !.prios = @ \cup {active}]
           /\ CondWait(WritersLock, Self, <<"wr_woken">>)
  <2>1. Called("wr_woken")
    BY <1>3, CallsLead DEF CInv
  <2>2. /\ rw' \in Counters /\ rw'.reading = r.reading /\ rw'.writing = r.writing
        /\ rw'.bReaders = r.bReaders /\ rw'.bWriters = r.bWriters + 1
    <3>1. r.bWriters + 1 \in Nat /\ r.prios \cup {active} \in SUBSET Threads
      BY <1>1, <1>2 DEF Counters
    <3>2. rw' = [reading |-> r.reading, writing |-> r.writing, bReaders |-> r.bReaders,
                 bWriters |-> r.bWriters + 1, prios |-> r.prios \cup {active}]
      BY <1>2, <1>3 DEF Counters
    <3> QED BY <3>1, <3>2, <1>2 DEF Counters
  <2>3. Arrives(r, "wr_woken")
    BY <1>2, <2>2 DEF Arrives, Counters, Bit, Holding
  <2>4. (HeldByReaders \/ HeldByWriter)'
    BY <2>1, <2>2, HeldAfter DEF Counters
  <2> QED BY <1>1, <2>1, <2>3, <2>4, Arrival
<1>4. CASE /\ ~(r.reading > 0 \/ r.writing > 0)
           /\ rw' = [r EXCEPT !.writing = @ + 1] /\ MutexUnlock(Self, <<"writing">>)
  <2>1. Called("writing")
    BY <1>4, CallsLead DEF CInv, Places
  <2>2. /\ rw' \in Counters /\ rw'.reading = r.reading /\ rw'.writing = r.writing + 1
        /\ rw'.bReaders = r.bReaders /\ rw'.bWriters = r.bWriters
    BY <1>2, <1>4 DEF Counters
  <2>3. Arrives(r, "writing")
    BY <1>2, <2>2 DEF Arrives, Counters, Bit, Holding
  <2>4. r.reading = 0 /\ r.writing = 0
    BY <1>2, <1>4 DEF Counters
  <2>5. In(Holding) = 0
    BY <2>4 DEF CInv, Counted
  <2>6. HeldByWriter'
    BY <2>1, <2>2, <2>4, <2>5, HeldAfter DEF Counters
  <2> QED BY <1>1, <2>1, <2>3, <2>6, Arrival
<1> QED BY <1>3, <1>4 DEF WriteLoop

-----------------------------------------------------------------------------
(* One step per action.                                                     *)
LEMMA CountersAre ==
  ASSUME CInv
  PROVE  /\ rw \in Counters /\ rw = [reading |-> rw.reading, writing |-> rw.writing,
                                     bReaders |-> rw.bReaders, bWriters |-> rw.bWriters,
                                     prios |-> rw.prios]
         /\ In(Holding) \in Nat /\ In({"rd_woken"}) \in Nat /\ In({"wr_woken"}) \in Nat
         /\ \A p : Last(pc[active]) = p /\ p \in Holding => In(Holding) >= 1
         /\ Last(pc[active]) = "rd_woken" => rw.bReaders >= 1
         /\ Last(pc[active]) = "wr_woken" => rw.bWriters >= 1
<1>1. rw \in Counters /\ active \in Threads
  BY DEF CInv, Kernel
<1>2. rw = [reading |-> rw.reading, writing |-> rw.writing, bReaders |-> rw.bReaders,
            bWriters |-> rw.bWriters, prios |-> rw.prios]
  BY <1>1 DEF Counters
<1>3. ASSUME NEW places
      PROVE  In(places) \in Nat /\ (Last(pc[active]) \in places => In(places) >= 1)
  <2>1. IsFiniteSet(AtOne(places)) /\ In(places) = Cardinality(AtOne(places))
    BY RwlockAssumption, FS_Subset DEF AtOne, In
  <2>2. Last(pc[active]) \in places => AtOne(places) # {}
    BY <1>1 DEF AtOne
  <2> QED BY <2>1, <2>2, FS_CardinalityType, FS_EmptySet
<1>4. rw.bReaders = In({"rd_woken"}) /\ rw.bWriters = In({"wr_woken"})
  BY DEF CInv, Counted
<1> QED BY <1>1, <1>2, <1>3, <1>4

(* A thread at a place the counters do not know.                            *)
LEMMA AsIs ==
  ASSUME CInv, Last(pc[active]) \notin Holding \cup {"rd_woken", "wr_woken"}
  PROVE  Without(rw, Last(pc[active]))
BY CountersAre DEF CInv, Counted, Without, Bit

LEMMA QuietCall ==
  ASSUME CInv, granted' = granted, rw' = rw, NEW from, NEW to, Last(pc[active]) = from, Called(to),
         \/ from = to
         \/ {from, to} \cap (Holding \cup {"rd_woken", "wr_woken"}) = {}
         \/ from \in Holding /\ to = "unlock"
  PROVE  CInv'
<1>1. PICK stack \in Stacks : Last(stack) = to /\ Goto(stack)
  BY DEF Called, Goes
<1>2. Frame
  BY DEF Frame, Called, CInv, Kernel
<1> QED BY <1>1, <1>2, QuietStep

LEMMA LockSteps ==
  ASSUME CInv, RdLock \/ WrLock \/ RwUnlock
  PROVE  CInv'
<1>1. CASE RdLock
  BY <1>1, PlaceIs, CallsLead, QuietCall DEF RdLock, CInv, Places, Holding
<1>2. CASE WrLock
  BY <1>2, PlaceIs, CallsLead, QuietCall DEF WrLock, CInv, Places, Holding
<1>3. CASE RwUnlock
  <2>1. Last(pc[active]) \in {"reading", "writing"}
    BY <1>3, PlaceIs DEF RwUnlock, CInv, Places
  <2>2. Called("unlock")
    BY <1>3, CallsLead DEF RwUnlock, CInv, Places
  <2> QED BY <1>3, <2>1, <2>2, QuietCall DEF RwUnlock, Holding
<1> QED BY <1>1, <1>2, <1>3

LEMMA ReadSteps ==
  ASSUME CInv, RdTest \/ RdBackOff \/ RdWoken
  PROVE  CInv'
<1>0. granted \in [Threads -> BOOLEAN] /\ active \in Threads
  BY DEF CInv, Kernel
<1>1. CASE RdTest
  <2>1. Last(pc[active]) = "rd"
    BY <1>1, PlaceIs DEF RdTest, CInv, Places
  <2>2. Without(rw, Last(pc[active]))
    BY <2>1, AsIs DEF Holding
  <2>3. AsUrgent \in BOOLEAN
    BY DEF AsUrgent
  <2> QED BY <1>1, <2>2, <2>3, ReadLoopStep DEF RdTest
<1>2. CASE RdBackOff
  <2>1. Last(pc[active]) = "back_off"
    BY <1>2, PlaceIs DEF RdBackOff, CInv, Places
  <2>2. Without(rw, Last(pc[active]))
    BY <2>1, AsIs DEF Holding
  <2> QED BY <1>0, <1>2, <2>2, BackOffStep DEF RdBackOff
<1>3. CASE RdWoken
  <2> DEFINE r == [rw EXCEPT !.bReaders = @ - 1]
  <2>1. Last(pc[active]) = "rd_woken"
    BY <1>3, PlaceIs DEF RdWoken, CInv, Places
  <2>2. /\ r \in Counters /\ r.reading = rw.reading /\ r.writing = rw.writing
        /\ r.bReaders = rw.bReaders - 1 /\ r.bWriters = rw.bWriters
    <3>1. rw.bReaders - 1 \in Nat
      BY <2>1, CountersAre DEF Counters
    <3> QED BY <3>1, CountersAre DEF Counters
  <2>3. Without(r, Last(pc[active]))
    BY <2>1, <2>2, CountersAre DEF CInv, Counted, Without, Bit, Holding
  <2>4. (rw.bWriters > 0 /\ (granted[active] \/ NotMoreUrgent)) \in BOOLEAN
    OBVIOUS
  <2>5. ReadLoop(r, rw.bWriters > 0 /\ (granted[active] \/ NotMoreUrgent))
    BY <1>3 DEF RdWoken
  <2> HIDE DEF r
  <2> QED BY <2>2, <2>3, <2>4, <2>5, ReadLoopStep
<1> QED BY <1>1, <1>2, <1>3

LEMMA WriteSteps ==
  ASSUME CInv, WrTest \/ WrWoken
  PROVE  CInv'
<1>1. CASE WrTest
  <2>1. Last(pc[active]) = "wr"
    BY <1>1, PlaceIs DEF WrTest, CInv, Places
  <2>2. Without(rw, Last(pc[active])) /\ Last(pc[active]) \notin Holding
    BY <2>1, AsIs DEF Holding
  <2> QED BY <1>1, <2>2, WriteLoopStep DEF WrTest
<1>2. CASE WrWoken
  <2> DEFINE r == [rw EXCEPT !.bWriters = @ - 1, !.prios = @ \ {active}]
  <2>1. Last(pc[active]) = "wr_woken"
    BY <1>2, PlaceIs DEF WrWoken, CInv, Places
  <2>2. /\ r \in Counters /\ r.reading = rw.reading /\ r.writing = rw.writing
        /\ r.bReaders = rw.bReaders /\ r.bWriters = rw.bWriters - 1
    <3>1. rw.bWriters - 1 \in Nat /\ rw.prios \ {active} \in SUBSET Threads
      BY <2>1, CountersAre DEF Counters
    <3>2. r = [reading |-> rw.reading, writing |-> rw.writing, bReaders |-> rw.bReaders,
               bWriters |-> rw.bWriters - 1, prios |-> rw.prios \ {active}]
      <4> DEFINE fewer == [rw EXCEPT !.bWriters = @ - 1]
      <4>1. fewer = [reading |-> rw.reading, writing |-> rw.writing, bReaders |-> rw.bReaders,
                     bWriters |-> rw.bWriters - 1, prios |-> rw.prios]
        BY CountersAre
      <4>2. r = [fewer EXCEPT !.prios = @ \ {active}]
        OBVIOUS
      <4> HIDE DEF fewer
      <4> QED BY <4>1, <4>2
    <3> QED BY <3>1, <3>2, CountersAre DEF Counters
  <2>3. Without(r, Last(pc[active])) /\ Last(pc[active]) \notin Holding
    BY <2>1, <2>2, CountersAre DEF CInv, Counted, Without, Bit, Holding
  <2>4. WriteLoop(r) /\ granted' = granted
    BY <1>2 DEF WrWoken
  <2> HIDE DEF r
  <2> QED BY <2>2, <2>3, <2>4, WriteLoopStep
<1> QED BY <1>1, <1>2

LEMMA UnlockSteps ==
  ASSUME CInv, UnlockTest \/ Leave
  PROVE  CInv'
<1>0. granted \in [Threads -> BOOLEAN]
  BY DEF CInv, Kernel
<1>1. CASE UnlockTest
  <2>1. Last(pc[active]) = "unlock" /\ In(Holding) >= 1 /\ In(Holding) \in Nat
    BY <1>1, PlaceIs, CountersAre DEF UnlockTest, CInv, Places, Holding
  <2>2. Called("leave")
    BY <1>1, CallsLead DEF UnlockTest, UnlockWriter, UnlockReader, CInv
  <2>3. In(Holding)' = In(Holding) - 1
    <3>1. rw'.reading \in Nat /\ rw'.writing \in Nat
      <4>1. rw.reading > 0 => rw.reading - 1 \in Nat
        BY CountersAre DEF Counters
      <4> QED BY <1>1, <4>1, CountersAre DEF UnlockTest, UnlockWriter, UnlockReader, Counters
    <3> QED BY <2>1, <2>2, <3>1, HeldAfter DEF Bit, Holding
  <2>4. CASE UnlockWriter
    <3>1. rw.writing = 1 /\ rw.reading = 0
      BY <2>4 DEF UnlockWriter, CInv, Counted, HeldByReaders, HeldByWriter
    <3> DEFINE r == [rw EXCEPT !.writing = 0]
    <3>2. /\ r \in Counters /\ r.reading = 0 /\ r.writing = 0
          /\ r.bReaders = rw.bReaders /\ r.bWriters = rw.bWriters
      <4>1. r = [reading |-> rw.reading, writing |-> 0, bReaders |-> rw.bReaders,
                 bWriters |-> rw.bWriters, prios |-> rw.prios]
        BY CountersAre DEF Counters
      <4> QED BY <4>1, <3>1, CountersAre DEF Counters
    <3>3. rw' = r
      BY <2>4 DEF UnlockWriter
    <3> HIDE DEF r
    <3>4. Without(r, "unlock")
      BY <3>1, <3>2, CountersAre DEF CInv, Counted, Without, Bit, Holding
    <3>5. Arrives(r, "leave")
      BY <3>2, <3>3 DEF Arrives, Bit, Holding, Counters
    <3>6. In(Holding)' = 0 /\ rw'.writing = 0 /\ rw'.reading \in Nat
      BY <2>3, <3>1, <3>2, <3>3 DEF CInv, Counted
    <3>7. HeldByReaders'
      BY <2>2, <3>6, HeldAfter
    <3> QED BY <1>0, <1>1, <2>1, <2>2, <3>4, <3>5, <3>7, Arrival DEF UnlockTest
  <2>5. CASE UnlockReader
    <3> DEFINE r == [rw EXCEPT !.reading = @ - 1]
    <3>1. /\ r \in Counters /\ r.reading = rw.reading - 1 /\ r.writing = 0 /\ rw.writing = 0
          /\ r.bReaders = rw.bReaders /\ r.bWriters = rw.bWriters
      <4>1. rw.reading - 1 \in Nat
        BY <2>5, CountersAre DEF UnlockReader, Counters
      <4> QED BY <2>5, <4>1, CountersAre DEF UnlockReader, Counters
    <3>2. rw' = r
      BY <2>5 DEF UnlockReader
    <3> HIDE DEF r
    <3>3. Without(r, "unlock")
      BY <3>1, CountersAre DEF CInv, Counted, Without, Bit, Holding, Counters
    <3>4. Arrives(r, "leave")
      BY <3>1, <3>2 DEF Arrives, Bit, Holding, Counters
    <3>5. HeldByReaders'
      BY <2>2, <3>1, <3>2, HeldAfter DEF Counters
    <3> QED BY <1>0, <1>1, <2>1, <2>2, <3>3, <3>4, <3>5, Arrival DEF UnlockTest
  <2> QED BY <1>1, <2>4, <2>5 DEF UnlockTest
<1>2. CASE Leave
  BY <1>2, PlaceIs, CallsLead, QuietCall DEF Leave, CInv, Places, Holding
<1> QED BY <1>1, <1>2

(* The second halves of calls return to the place below them.               *)
LEMMA HalfSteps ==
  ASSUME CInv, Release \/ Relock, UNCHANGED <<rw, granted>>
  PROVE  CInv'
<1>1. /\ phase = "run" /\ pc[active] \in Stacks
      /\ Head(pc[active]) = "release" \/ Head(pc[active]) = "relock"
  BY DEF Release, Relock, At, CInv, Kernel
<1>2. pc[active] \in Halves
  BY <1>1, StackIs DEF Stacks, Places
<1>3. PICK a, c, p : pc[active] = <<a, c, p>> /\ p \in Places
  BY <1>2 DEF Halves, Places
<1>4. SubSeq(pc[active], 3, Len(pc[active])) = <<p>> /\ Last(pc[active]) = p
  BY <1>3, StackIs
<1>5. MutexUnlock(coop[pc[active][2]], <<p>>) \/ MutexLock(coop[pc[active][2]], <<p>>)
  BY <1>4 DEF Release, Relock
<1>6. Called(p)
  BY <1>3, <1>5, CallsLead DEF CInv
<1> QED BY <1>4, <1>6, QuietCall

(* The dispatcher and what threads do besides the calls.                    *)
LEMMA OtherSteps ==
  ASSUME CInv, UNCHANGED <<rw, granted, pc, coop>>,
         active' \in Threads, phase' \in {"run", "yield"}, asleep' \subseteq Threads
  PROVE  CInv'
BY DEF CInv, Kernel, Counted, HeldByReaders, HeldByWriter, AtOne, In

LEMMA InitCInv == Init => CInv
<1> SUFFICES ASSUME Init PROVE CInv
  OBVIOUS
<1>1. Kernel
  BY StacksOf DEF Init, SyncInit, Kernel, Counters, Places
<1>2. \A t \in Threads : Last(pc[t]) = "user"
  BY StackIs DEF Init, SyncInit
<1>3. AtOne(Holding) = {} /\ AtOne({"rd_woken"}) = {} /\ AtOne({"wr_woken"}) = {}
      /\ AtOne({"writing"}) = {}
  BY <1>2 DEF AtOne, Holding
<1>4. In(Holding) = 0 /\ In({"rd_woken"}) = 0 /\ In({"wr_woken"}) = 0
  BY <1>3, FS_EmptySet DEF In, AtOne
<1>5. rw.reading = 0 /\ rw.writing = 0 /\ rw.bReaders = 0 /\ rw.bWriters = 0
  BY DEF Init
<1> QED BY <1>1, <1>3, <1>4, <1>5 DEF CInv, Counted, HeldByReaders

LEMMA NextCInv == CInv /\ [Next]_vars => CInv'
<1> SUFFICES ASSUME CInv, [Next]_vars PROVE CInv'
  OBVIOUS
<1>0. active \in Threads /\ phase \in {"run", "yield"} /\ asleep \subseteq Threads
  BY DEF CInv, Kernel
<1>1. CASE RdLock \/ WrLock \/ RwUnlock
  BY <1>1, LockSteps
<1>2. CASE RdTest \/ RdBackOff \/ RdWoken
  BY <1>2, ReadSteps
<1>3. CASE WrTest \/ WrWoken
  BY <1>3, WriteSteps
<1>4. CASE UnlockTest \/ Leave
  BY <1>4, UnlockSteps
<1>5. CASE (Release \/ Relock) /\ UNCHANGED <<rw, granted>>
  BY <1>5, HalfSteps
<1>6. CASE Dispatch /\ UNCHANGED <<rw, granted>>
  BY <1>0, <1>6, OtherSteps DEF Dispatch
<1>7. CASE (Yield(User) \/ Sleep(User)) /\ UNCHANGED <<rw, granted>>
  <2>1. asleep' \subseteq Threads
    BY <1>0, <1>7 DEF Yield, Sleep
  <2> QED BY <2>1, <1>0, <1>7, OtherSteps DEF Yield, Sleep
<1>8. CASE \E t \in Threads : Wake(t) /\ UNCHANGED <<rw, granted>>
  BY <1>0, <1>8, OtherSteps DEF Wake
<1>9. CASE UNCHANGED vars
  BY <1>0, <1>9, OtherSteps DEF vars, syncvars
<1> QED BY <1>1, <1>2, <1>3, <1>4, <1>5, <1>6, <1>7, <1>8, <1>9 DEF Next, Library

-----------------------------------------------------------------------------
(* The lists of blocked threads.  A thread may release the mutex without    *)
(* owning it (at back_off, and at leave after a broadcast), so that nothing *)
(* says that whoever is in the middle of a call owns it; but one that is    *)
(* outside, or has yet to lock it again, does not, and does not wait for it.*)
Outside == {"user", "reading", "writing", "relock"}
Engaged(s, t) == s.mux[Self].owner = t \/ t \in Queue(s, Self)

SInv ==
  /\ Lists(sync) /\ \A c \in Conds : ~IsFree(sync, c)
  /\ \A t \in Threads : pc[t] \in Halves => coop[pc[t][2]] = Self
  /\ \A t \in Threads : Engaged(sync, t) => Head(pc[t]) \notin Outside
  /\ phase = "run" => active \notin sync.queued

LEMMA SyncNext ==
  ASSUME Kernel, SInv, NEW r, Lists(r), sync' = r, \A c \in Conds : r.mux[c].owner # NULL,
         NEW stack \in Stacks, Goto(stack),
         \A c \in Conds : coop[c] = Self => coop'[c] = Self,
         stack \in Halves => coop'[stack[2]] = Self,
         Engaged(r, active) => Head(stack) \notin Outside,
         \A t \in Threads \ {active} : Engaged(r, t) => Engaged(sync, t),
         phase' = "run" => active' \notin r.queued
  PROVE  SInv'
<1>1. /\ pc' \in [Threads -> Stacks] /\ pc'[active] = stack /\ active \in Threads
      /\ \A t \in Threads \ {active} : pc'[t] = pc[t]
  BY DEF Kernel, Goto
<1>2. Lists(sync)' /\ \A c \in Conds : ~IsFree(sync, c)'
  BY NextLists
<1>3. \A h \in Halves : h[2] \in Conds
  BY NamesAre DEF Halves
<1>4. \A t \in Threads : pc'[t] \in Halves => coop'[pc'[t][2]] = Self
  <2> SUFFICES ASSUME NEW t \in Threads, pc'[t] \in Halves PROVE coop'[pc'[t][2]] = Self
    OBVIOUS
  <2>1. CASE t = active
    BY <2>1, <1>1
  <2>2. CASE t # active
    BY <2>2, <1>1, <1>3 DEF SInv
  <2> QED BY <2>1, <2>2
<1>5. \A t \in Threads : Engaged(r, t) => Head(pc'[t]) \notin Outside
  BY <1>1 DEF SInv
<1>6. \A t \in Threads : Engaged(sync, t)' => Head(pc'[t]) \notin Outside
  BY <1>5 DEF Engaged, Queue, ToSet
<1> QED BY <1>2, <1>4, <1>6 DEF SInv

LEMMA ActiveIs ==
  ASSUME Kernel, SInv, phase = "run"
  PROVE  /\ active \in Threads \ sync.queued /\ active \notin Queue(sync, Self)
         /\ sync.queued \subseteq Threads /\ Queue(sync, Self) \subseteq sync.queued
         /\ Head(pc[active]) \in Outside => sync.mux[Self].owner # active
BY NamesAre DEF Kernel, SInv, Lists, Typed, Engaged

LEMMA LockSync ==
  ASSUME Kernel, SInv, phase = "run", Head(pc[active]) \in Outside,
         NEW p \in Places \ Outside, MutexLock(Self, <<p>>)
  PROVE  SInv'
<1> DEFINE s == sync  r == Locked(sync, Self, active)
<1>1. /\ Lists(s) /\ active \in Threads \ s.queued /\ Self \in Muxes
      /\ \A n \in Mutexes : s.mux[n].owner # active
  BY ActiveIs, NamesAre, RwlockAssumption DEF SInv
<1>2. /\ Lists(r) /\ \A n \in Muxes \ {Self} : r.mux[n] = s.mux[n]
      /\ IsFree(s, Self) => /\ r.queued = s.queued
                            /\ r.mux[Self].owner = active /\ Queue(r, Self) = {}
      /\ ~IsFree(s, Self) => /\ r.queued = s.queued \cup {active}
                             /\ r.mux[Self].owner = s.mux[Self].owner
                             /\ Queue(r, Self) = Queue(s, Self) \cup {active}
  BY <1>1, LockedKeeps
<1> HIDE DEF r
<1>3. /\ sync' = r /\ UNCHANGED <<coop, active, asleep>>
      /\ phase' = IF ~IsFree(s, Self) THEN "yield" ELSE "run"
      /\ Goto(<<p>>)
  BY DEF MutexLock, YieldIf, r
<1>4. <<p>> \in Stacks /\ Head(<<p>>) \notin Outside /\ <<p>> \notin Halves
  BY StacksOf, StackIs DEF Halves, Outside, Places
<1>5. \A c \in Conds : r.mux[c].owner # NULL
  BY <1>2, NamesAre DEF SInv, IsFree
<1>6. \A t \in Threads \ {active} : Engaged(r, t) => Engaged(sync, t)
  BY <1>2 DEF Engaged
<1>7. phase' = "run" => active' \notin r.queued
  BY <1>1, <1>2, <1>3
<1> QED BY <1>2, <1>3, <1>4, <1>5, <1>6, <1>7, SyncNext

(* A release, by the owner or by another thread.                            *)
LEMMA Freed ==
  ASSUME NEW s, Lists(s), NEW t \in Threads \ s.queued
  PROVE  LET r == Unlocked(s, Self)
         IN /\ Lists(r) /\ t \notin r.queued /\ r.queued \subseteq s.queued
            /\ \A n \in Conds : r.mux[n] = s.mux[n]
            /\ ~Engaged(r, t) /\ \A u \in Threads : Engaged(r, u) => Engaged(s, u)
<1> DEFINE r == Unlocked(s, Self)
<1>1. /\ Lists(r) /\ \A n \in Muxes \ {Self} : r.mux[n] = s.mux[n]
      /\ t \notin r.queued /\ r.queued \subseteq s.queued
      /\ Queue(r, Self) \subseteq Queue(s, Self)
      /\ \/ r.mux[Self].owner = NULL /\ r.queued = s.queued
         \/ \E u \in Queue(s, Self) : /\ r.mux[Self].owner = u /\ u # t /\ u \in Threads
                                      /\ r.queued = s.queued \ {u}
  BY Released, NamesAre
<1>2. t \notin Queue(s, Self)
  BY NamesAre DEF Lists
<1> HIDE DEF r
<1>3. ~Engaged(r, t) /\ \A u \in Threads : Engaged(r, u) => Engaged(s, u)
  BY <1>1, <1>2, NamesAre DEF Engaged
<1> QED BY <1>1, <1>3, NamesAre DEF r

LEMMA UnlockSync ==
  ASSUME Kernel, SInv, phase = "run", NEW p \in Places, MutexUnlock(Self, <<p>>)
  PROVE  SInv'
<1> DEFINE s == sync  r == Unlocked(sync, Self)
<1>1. /\ Lists(r) /\ active \notin r.queued /\ r.queued \subseteq s.queued
      /\ \A n \in Conds : r.mux[n] = s.mux[n]
      /\ ~Engaged(r, active) /\ \A u \in Threads : Engaged(r, u) => Engaged(s, u)
  BY ActiveIs, Freed DEF SInv
<1> HIDE DEF r
<1>2. /\ sync' = r /\ UNCHANGED <<coop, active, asleep>> /\ Goto(<<p>>)
  BY DEF MutexUnlock, r
<1>3. <<p>> \in Stacks /\ <<p>> \notin Halves
  BY StacksOf, StackIs DEF Halves, Places
<1>4. \A c \in Conds : r.mux[c].owner # NULL
  BY <1>1 DEF SInv, IsFree
<1> QED BY <1>1, <1>2, <1>3, <1>4, SyncNext

LEMMA WaitSync ==
  ASSUME Kernel, SInv, phase = "run", NEW c \in Conds, NEW p, <<"relock", c, p>> \in Halves,
         CondWait(c, Self, <<p>>)
  PROVE  SInv'
<1> DEFINE s == sync  f == Unlocked(sync, Self)  r == Locked(f, c, active)
<1>1. /\ Lists(f) /\ active \notin f.queued /\ f.queued \subseteq s.queued
      /\ \A n \in Conds : f.mux[n] = s.mux[n]
      /\ ~Engaged(f, active) /\ \A u \in Threads : Engaged(f, u) => Engaged(s, u)
      /\ active \in Threads
  BY ActiveIs, Freed DEF SInv
<1> HIDE DEF f
<1>2. \A n \in Mutexes : f.mux[n].owner # active
  BY <1>1, RwlockAssumption DEF Engaged
<1>3. ~IsFree(f, c)
  BY <1>1 DEF SInv, IsFree
<1>4. /\ Lists(r) /\ \A n \in Muxes \ {c} : r.mux[n] = f.mux[n]
      /\ r.mux[c].owner = f.mux[c].owner
  BY <1>1, <1>2, <1>3, NamesAre, LockedKeeps
<1>5. /\ sync' = r /\ phase' = "yield" /\ Goto(<<"relock", c>> \o <<p>>)
      /\ coop' = [coop EXCEPT ![c] = Self]
  BY DEF CondWait, r, f
<1> HIDE DEF r
<1>6. /\ <<"relock", c>> \o <<p>> = <<"relock", c, p>> /\ <<"relock", c, p>> \in Stacks
      /\ <<"relock", c, p>>[2] = c
  BY StacksOf, StackIs
<1>7. Goto(<<"relock", c, p>>)
  BY <1>5, <1>6 DEF Goto
<1>8. coop'[c] = Self /\ \A d \in Conds : coop[d] = Self => coop'[d] = Self
  BY <1>5 DEF Kernel
<1>9. \A t \in Threads : Engaged(r, t) <=> Engaged(f, t)
  BY <1>4, NamesAre DEF Engaged, Queue
<1>10. \A d \in Conds : r.mux[d].owner # NULL
  BY <1>1, <1>4, NamesAre DEF SInv, IsFree
<1> QED BY <1>1, <1>4, <1>5, <1>6, <1>7, <1>8, <1>9, <1>10, SyncNext

LEMMA SignalSync ==
  ASSUME Kernel, SInv, phase = "run", NEW c \in Conds, NEW p \in Places \ Outside,
         <<"release", c, p>> \in Halves, CondSignal(c, <<p>>)
  PROVE  SInv'
<1>0. active \in Threads \ sync.queued /\ Lists(sync) /\ ~IsFree(sync, c)
      /\ \A d \in Conds : sync.mux[d].owner # NULL
  BY ActiveIs DEF SInv, IsFree
<1>1. CASE coop[c] = NULL
  <2>1. UNCHANGED <<sync, phase, coop, active, asleep>> /\ Goto(<<p>>)
    BY <1>1 DEF CondSignal
  <2>2. <<p>> \in Stacks /\ Head(<<p>>) \notin Outside /\ <<p>> \notin Halves
    BY StacksOf, StackIs DEF Halves, Outside, Places
  <2> QED BY <1>0, <2>1, <2>2, SyncNext
<1>2. CASE coop[c] # NULL
  <2> DEFINE r == Rearmed(Unlocked(sync, c), c)
  <2>1. /\ Lists(r) /\ \A n \in Muxes \ {c} : r.mux[n] = sync.mux[n]
        /\ r.mux[c].owner # NULL /\ r.queued \subseteq sync.queued
    BY <1>0, Signalled
  <2>2. sync' = r /\ UNCHANGED <<coop, active, asleep>> /\ Goto(<<"release", c>> \o <<p>>)
    BY <1>2 DEF CondSignal, r
  <2> HIDE DEF r
  <2>3. /\ <<"release", c>> \o <<p>> = <<"release", c, p>> /\ <<"release", c, p>> \in Stacks
        /\ <<"release", c, p>>[2] = c /\ Head(<<"release", c, p>>) \notin Outside
    BY StacksOf, StackIs DEF Outside
  <2>4. Goto(<<"release", c, p>>)
    BY <2>2, <2>3 DEF Goto
  <2>5. coop'[c] = Self
    BY <1>2, <2>2 DEF Kernel
  <2>6. \A t \in Threads : Engaged(r, t) <=> Engaged(sync, t)
    BY <2>1, NamesAre DEF Engaged, Queue
  <2>7. \A d \in Conds : r.mux[d].owner # NULL
    BY <1>0, <2>1, NamesAre
  <2> QED BY <1>0, <2>1, <2>2, <2>3, <2>4, <2>5, <2>6, <2>7, SyncNext
<1> QED BY <1>1, <1>2

LEMMA BroadcastSync ==
  ASSUME Kernel, SInv, phase = "run", CondBroadcast(ReadersLock, <<"leave">>)
  PROVE  SInv'
<1> DEFINE c == ReadersLock
<1>0. active \in Threads \ sync.queued /\ Lists(sync) /\ c \in Conds
      /\ \A d \in Conds : sync.mux[d].owner # NULL
  BY ActiveIs, NamesAre DEF SInv, IsFree
<1>1. <<"leave">> \in Stacks /\ Head(<<"leave">>) \notin Outside /\ <<"leave">> \notin Halves
  BY StacksOf, StackIs DEF Halves, Outside, Places
<1>2. UNCHANGED <<coop, active, asleep>> /\ Goto(<<"leave">>)
  BY DEF CondBroadcast
<1>3. CASE coop[c] = NULL
  <2>1. UNCHANGED <<sync, phase>>
    BY <1>3 DEF CondBroadcast
  <2> QED BY <1>0, <1>1, <1>2, <2>1, SyncNext
<1>4. CASE coop[c] # NULL
  <2> DEFINE w == AllWoken(sync, c)  a == OwnedBy(w, c, One)  r == Unlocked(a, Self)
  <2>1. coop[c] = Self
    BY <1>0, <1>4 DEF Kernel
  <2>2. /\ Lists(w) /\ \A n \in Muxes \ {c} : w.mux[n] = sync.mux[n]
        /\ w.queued \subseteq sync.queued
    BY <1>0, NamesAre, AllWokenKeeps
  <2> HIDE DEF w
  <2>3. /\ Lists(a) /\ \A n \in Muxes \ {c} : a.mux[n] = w.mux[n]
        /\ a.queued = w.queued /\ a.mux[c].owner = One
    BY <1>0, <2>2, OwnedKeeps
  <2>4. sync' = Unlocked([w EXCEPT !.mux[c].owner = One], Self)
    BY <1>4, <2>1 DEF CondBroadcast, w
  <2>5. sync' = r
    BY <2>4 DEF OwnedBy
  <2> HIDE DEF a
  <2>6. /\ Lists(r) /\ active \notin r.queued /\ r.queued \subseteq a.queued
        /\ \A n \in Conds : r.mux[n] = a.mux[n]
        /\ \A u \in Threads : Engaged(r, u) => Engaged(a, u)
    BY <1>0, <2>2, <2>3, Freed
  <2> HIDE DEF r
  <2>7. \A t \in Threads : Engaged(a, t) <=> Engaged(sync, t)
    BY <1>0, <2>2, <2>3, NamesAre DEF Engaged, Queue
  <2>8. \A d \in Conds : r.mux[d].owner # NULL
    BY <1>0, <2>2, <2>3, <2>6, NamesAre
  <2> QED BY <1>0, <1>1, <1>2, <2>5, <2>6, <2>7, <2>8, SyncNext
<1> QED BY <1>3, <1>4

LEMMA HalfSync ==
  ASSUME Kernel, SInv, Release \/ Relock
  PROVE  SInv'
<1>1. /\ phase = "run" /\ pc[active] \in Stacks /\ active \in Threads
      /\ Head(pc[active]) = "release" \/ Head(pc[active]) = "relock"
  BY DEF Release, Relock, At, Kernel
<1>2. pc[active] \in Halves
  BY <1>1, StackIs DEF Stacks, Places
<1>3. PICK a, c, p : pc[active] = <<a, c, p>> /\ p \in Places \ Outside
  BY <1>2 DEF Halves, Places, Outside
<1>4. SubSeq(pc[active], 3, Len(pc[active])) = <<p>> /\ coop[pc[active][2]] = Self
  BY <1>1, <1>2, <1>3, StackIs DEF SInv
<1>5. CASE Release
  <2>1. MutexUnlock(Self, <<p>>)
    BY <1>4, <1>5 DEF Release
  <2> QED BY <1>1, <1>3, <2>1, UnlockSync
<1>6. CASE Relock
  <2>1. MutexLock(Self, <<p>>) /\ Head(pc[active]) \in Outside
    BY <1>4, <1>6 DEF Relock, At, Outside
  <2> QED BY <1>1, <1>3, <2>1, LockSync
<1> QED BY <1>5, <1>6

LEMMA LibrarySync ==
  ASSUME Kernel, SInv,
         \/ RdLock \/ WrLock \/ RwUnlock \/ RdTest \/ RdBackOff \/ RdWoken
         \/ WrTest \/ WrWoken \/ UnlockTest \/ Leave
  PROVE  SInv'
<1>0. /\ {"reading", "writing", "leave"} \subseteq Places
      /\ {"rd", "wr", "unlock", "back_off", "leave"} \subseteq Places \ Outside
  BY DEF Places, Outside
<1>1. CASE RdLock
  BY <1>0, <1>1, LockSync DEF RdLock, At, Outside
<1>2. CASE WrLock
  BY <1>0, <1>2, LockSync DEF WrLock, At, Outside
<1>3. CASE RwUnlock
  BY <1>0, <1>3, LockSync DEF RwUnlock, At, Outside
<1>4. ASSUME phase = "run", NEW r, BackOff(r) PROVE SInv'
  BY <1>4, WaitSync, NamesAre, StacksOf DEF BackOff
<1>5. ASSUME phase = "run", NEW r, NEW g, ReadLoop(r, g) PROVE SInv'
  <2>1. \/ CondSignal(WritersLock, <<"back_off">>) \/ BackOff(r)
        \/ MutexUnlock(Self, <<"reading">>)
    BY <1>5 DEF ReadLoop
  <2> QED BY <1>0, <1>4, <1>5, <2>1, SignalSync, UnlockSync, NamesAre, StacksOf
<1>6. ASSUME phase = "run", NEW r, WriteLoop(r) PROVE SInv'
  <2>1. CondWait(WritersLock, Self, <<"wr_woken">>) \/ MutexUnlock(Self, <<"writing">>)
    BY <1>6 DEF WriteLoop
  <2> QED BY <1>0, <1>6, <2>1, WaitSync, UnlockSync, NamesAre, StacksOf
<1>7. CASE RdTest \/ RdBackOff \/ RdWoken
  BY <1>4, <1>5, <1>7 DEF RdTest, RdBackOff, RdWoken, At
<1>8. CASE WrTest \/ WrWoken
  BY <1>6, <1>8 DEF WrTest, WrWoken, At
<1>9. CASE UnlockTest
  <2>1. \/ CondSignal(WritersLock, <<"leave">>) \/ CondSignal(ReadersLock, <<"leave">>)
        \/ CondBroadcast(ReadersLock, <<"leave">>)
    BY <1>9 DEF UnlockTest, UnlockWriter, UnlockReader
  <2>2. phase = "run"
    BY <1>9 DEF UnlockTest, At
  <2> QED BY <1>0, <2>1, <2>2, SignalSync, BroadcastSync, NamesAre, StacksOf
<1>10. CASE Leave
  <2>1. "user" \in Places
    BY DEF Places
  <2> QED BY <1>10, <2>1, UnlockSync DEF Leave, At
<1> QED BY <1>1, <1>2, <1>3, <1>7, <1>8, <1>9, <1>10

LEMMA KernelSync ==
  ASSUME SInv, UNCHANGED <<sync, coop, pc>>, phase' = "run" => active' \notin sync.queued
  PROVE  SInv'
<1>1. \A c \in Conds : sync.mux[c].owner # NULL
  BY DEF SInv, IsFree
<1>2. Lists(sync)' /\ \A c \in Conds : ~IsFree(sync, c)'
  BY <1>1, NextLists DEF SInv
<1>3. \A t \in Threads : Engaged(sync, t)' <=> Engaged(sync, t)
  BY DEF Engaged, Queue, ToSet
<1> QED BY <1>2, <1>3 DEF SInv

-----------------------------------------------------------------------------
IInv == CInv /\ SInv

LEMMA InitIInv == Init => IInv
<1> SUFFICES ASSUME Init PROVE IInv
  OBVIOUS
<1>1. /\ \A m \in Muxes : sync.mux[m] = [owner |-> IF m \in Conds THEN One ELSE NULL,
                                         blocked |-> <<>>]
      /\ sync.queued = {}
      /\ sync = [mux |-> [m \in Muxes |-> [owner |-> IF m \in Conds THEN One ELSE NULL,
                                           blocked |-> <<>>]], queued |-> {}]
  BY DEF Init, SyncInit, Muxes
<1>2. \A m \in Muxes : Queue(sync, m) = {} /\ Distinct(sync.mux[m].blocked)
  BY <1>1 DEF Queue, ToSet, Distinct
<1>3. Typed(sync)
  BY <1>1 DEF Typed, MuxType
<1>4. Lists(sync) /\ \A c \in Conds : ~IsFree(sync, c)
  BY <1>1, <1>2, <1>3, SyncAssumption DEF Lists, IsFree, Muxes
<1>5. \A t \in Threads : pc[t] = <<"user">> /\ pc[t] \notin Halves
  BY StackIs DEF Init, SyncInit, Halves
<1>6. \A t \in Threads : ~Engaged(sync, t)
  BY <1>1, <1>2, NamesAre DEF Engaged
<1> QED BY <1>1, <1>4, <1>5, <1>6, InitCInv DEF IInv, SInv

LEMMA NextIInv == IInv /\ [Next]_vars => IInv'
<1> SUFFICES ASSUME IInv, [Next]_vars PROVE IInv'
  OBVIOUS
<1>0. Kernel /\ SInv /\ CInv
  BY DEF IInv, CInv
<1>1. CInv'
  BY <1>0, NextCInv
<1>2. CASE \/ RdLock \/ WrLock \/ RwUnlock \/ RdTest \/ RdBackOff \/ RdWoken
           \/ WrTest \/ WrWoken \/ UnlockTest \/ Leave
  BY <1>0, <1>1, <1>2, LibrarySync DEF IInv
<1>3. CASE Release \/ Relock
  BY <1>0, <1>1, <1>3, HalfSync DEF IInv
<1>4. CASE Dispatch \/ Yield(User) \/ Sleep(User) \/ \E t \in Threads : Wake(t)
  BY <1>0, <1>1, <1>4, KernelSync
     DEF IInv, Dispatch, IsMostUrgent, Ready, Yield, Sleep, Wake
<1>5. CASE UNCHANGED vars
  <2>1. phase' = "run" => active' \notin sync.queued
    BY <1>0, <1>5 DEF SInv, vars, syncvars
  <2> QED BY <1>0, <1>1, <1>5, <2>1, KernelSync DEF IInv, vars, syncvars
<1> QED BY <1>2, <1>3, <1>4, <1>5 DEF Next, Library

-----------------------------------------------------------------------------
(* The strengthened invariant of pthread_rwlock_rdlock, _wrlock and         *)
(* _unlock: the counters stand for what the threads do, and the lists of    *)
(* blocked threads are sound although the mutex inside is at times released *)
(* by a thread that does not own it.                                        *)
THEOREM Invariance == Spec => []IInv
BY InitIInv, NextIInv, PTL DEF Spec

(* The variables of the lock keep their types; the counters never exceed    *)
(* the number of threads.                                                   *)
THEOREM TypeCorrect == Spec => []TypeOK
<1>1. ASSUME IInv PROVE TypeOK
  <2>1. SyncTypeOK
    <3>1. sync \in [mux : [Mutexes \cup Conds -> [owner : Threads \cup {NULL, One},
                                                  blocked : Seq(Threads)]],
                    queued : SUBSET Threads]
      BY <1>1 DEF IInv, SInv, Lists, Typed, MuxType, Muxes
    <3> QED BY <1>1, <3>1, NamesAre DEF IInv, CInv, Kernel, SyncTypeOK
  <2>2. ASSUME NEW places PROVE In(places) \in 0 .. Cardinality(Threads)
    <3>1. AtOne(places) \subseteq Threads
      BY DEF AtOne
    <3> QED BY <3>1, RwlockAssumption, FS_Subset, FS_CardinalityType DEF In, AtOne
  <2>3. /\ rw \in Counters /\ rw.writing \in 0 .. 1
        /\ rw.reading + rw.writing \in 0 .. Cardinality(Threads)
        /\ rw.bReaders \in 0 .. Cardinality(Threads)
        /\ rw.bWriters \in 0 .. Cardinality(Threads)
    BY <1>1, <2>2 DEF IInv, CInv, Kernel, Counted, HeldByReaders, HeldByWriter
  <2>4. rw \in [reading : 0 .. Cardinality(Threads), writing : 0 .. 1,
                bReaders : 0 .. Cardinality(Threads), bWriters : 0 .. Cardinality(Threads),
                prios : SUBSET Threads]
    <3>1. Cardinality(Threads) \in Nat
      BY RwlockAssumption, FS_CardinalityType
    <3>2. rw.reading \in 0 .. Cardinality(Threads)
      BY <2>3, <3>1 DEF Counters
    <3> QED BY <2>3, <3>2 DEF Counters
  <2>5. \A t \in Threads : Last(pc[t]) \in Places
    BY <1>1, StackIs DEF IInv, CInv, Kernel, Stacks, Halves, Places
  <2> QED BY <1>1, <2>1, <2>4, <2>5 DEF TypeOK, IInv, CInv, Kernel
<1> QED BY <1>1, Invariance, PTL

(* A writer shares the lock with nobody: pthread_rwlock_wrlock returns only *)
(* when the counters of both kinds of holders are zero, and nobody else has *)
(* them changed by then.                                                    *)
THEOREM ExclusiveHolds == Spec => []Exclusive
<1>1. ASSUME IInv PROVE Exclusive
  <2> SUFFICES ASSUME NEW t \in Threads, NEW u \in Threads,
                      pc[t] = <<"writing">>, pc[u] \in {<<"reading">>, <<"writing">>}
               PROVE  t = u
    BY DEF Exclusive, Holds
  <2>1. /\ t \in AtOne({"writing"}) /\ t \in AtOne(Holding) /\ u \in AtOne(Holding)
        /\ pc[u] = <<"reading">> => u \in AtOne({"reading"})
    BY StackIs DEF AtOne, Holding
  <2>2. HeldByWriter /\ In(Holding) = 1
    BY <1>1, <2>1 DEF IInv, CInv, Counted, HeldByReaders, HeldByWriter
  <2>3. IsFiniteSet(AtOne(Holding)) /\ Cardinality(AtOne(Holding)) = 1
    BY <2>2, RwlockAssumption, FS_Subset DEF AtOne, In
  <2>4. PICK x : AtOne(Holding) = {x}
    BY <2>3, FS_Singleton
  <2> QED BY <2>1, <2>4
<1> QED BY <1>1, Invariance, PTL

(* The counters in the lock are what the threads in the three calls would   *)
(* say, so that the refusal EINVAL is never met by a holder.                *)
THEOREM CountersHold == Spec => []CountersOK
<1>1. IInv => CountersOK
  BY DEF IInv, CInv, Counted, CountersOK, Holding
<1> QED BY <1>1, Invariance, PTL

(* No waiter is lost or listed twice, and no assert of the primitives can   *)
(* fail, whichever thread releases the mutex inside of the lock.            *)
THEOREM WaitersHold == Spec => [](WaitersOK /\ SyncAsserts)
<1>1. IInv => WaitersOK /\ SyncAsserts
  BY ListsSuffice DEF IInv, SInv, SyncAsserts, Muxes
<1> QED BY <1>1, Invariance, PTL
=============================================================================
