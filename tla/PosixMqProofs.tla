--------------------------- MODULE PosixMqProofs ---------------------------
(****************************************************************************)
(* Proofs about a message queue and the two semaphores it is built on, for  *)
(* any threads of any priorities and any size of the ring: who is inside    *)
(* of the pool's section and what the queue's semaphore announces, then     *)
(* that qsort sorts, and with it that the queue is a priority queue.        *)
(****************************************************************************)
EXTENDS PosixMq, SequenceTheorems, FiniteSetTheorems, WellFoundedInduction, TLAPS

(* The places that a thread reaches only through a semaphore, and the       *)
(* threads that it has let through to them.  With the token these are the   *)
(* credit of the semaphore: what has been posted and is not used up.        *)
Past == [s \in Sems |-> IF s = "pool" THEN Inside ELSE {"fetch"}]
Through(s) == {t \in Threads : pc[t] \in Past[s] /\ ~Waits(t, s)}
Credit(s) == Cardinality(Through(s)) + sem[s].token

Distinct(b) == \A i, k \in 1 .. Len(b) : b[i] = b[k] => i = k

Kernel ==
  /\ sem \in [Sems -> [token : Nat, waiters : Seq(Threads)]]
  /\ active \in Threads /\ phase \in {"run", "yield"} /\ asleep \subseteq Threads
  /\ pc \in [Threads -> Places]
  /\ phase = "run" => \A s \in Sems : ~Waits(active, s)

SemOK(s) ==
  /\ Distinct(sem[s].waiters)
  /\ sem[s].waiters # <<>> => sem[s].token = 0
  /\ \A t \in Threads : Waits(t, s) => pc[t] \in Past[s]

Ring ==
  /\ mIdxIn \in Cells /\ mIdxOut \in Cells
  /\ Credit("pool") <= 1
  /\ Credit("queue") = Numb

IInv == Kernel /\ (\A s \in Sems : SemOK(s)) /\ Ring

-----------------------------------------------------------------------------
LEMMA Names ==
  /\ Sems = {"pool", "queue"} /\ Past["pool"] = Inside /\ Past["queue"] = {"fetch"}
  /\ \A s \in Sems : Past[s] \subseteq Places
BY DEF Sems, Past, Places

(* The list of waiters as a set, and what its two updates make of it.       *)
LEMMA ToSetIs ==
  ASSUME NEW b \in Seq(Threads)
  PROVE  ToSet(b) = {b[i] : i \in 1 .. Len(b)} /\ ToSet(b) \subseteq Threads
<1>1. Len(b) \in Nat /\ b \in [1 .. Len(b) -> Threads] /\ DOMAIN b = 1 .. Len(b)
  BY LenProperties
<1> QED BY <1>1 DEF ToSet

LEMMA JoinWaiters ==
  ASSUME NEW b \in Seq(Threads), NEW t \in Threads, Distinct(b), t \notin ToSet(b)
  PROVE  /\ Append(b, t) \in Seq(Threads) /\ Distinct(Append(b, t))
         /\ ToSet(Append(b, t)) = ToSet(b) \cup {t}
<1> DEFINE c == Append(b, t)
<1>1. /\ c \in Seq(Threads) /\ Len(c) = Len(b) + 1 /\ Len(b) \in Nat
      /\ \A i \in 1 .. Len(b) : c[i] = b[i]
      /\ c[Len(b) + 1] = t
  BY AppendProperties, LenProperties
<1> HIDE DEF c
<1>2. /\ ToSet(b) = {b[i] : i \in 1 .. Len(b)}
      /\ ToSet(c) = {c[i] : i \in 1 .. Len(c)}
  BY <1>1, ToSetIs
<1>3. Distinct(c)
  BY <1>1, <1>2 DEF Distinct
<1>4. ToSet(c) = ToSet(b) \cup {t}
  BY <1>1, <1>2
<1> QED BY <1>1, <1>3, <1>4 DEF c

LEMMA FirstWaiter ==
  ASSUME NEW b \in Seq(Threads), b # <<>>, Distinct(b)
  PROVE  /\ Tail(b) \in Seq(Threads) /\ Distinct(Tail(b))
         /\ \E t \in ToSet(b) : ToSet(Tail(b)) = ToSet(b) \ {t}
<1> DEFINE c == Tail(b)
<1>1. /\ c \in Seq(Threads) /\ Len(c) = Len(b) - 1 /\ Len(b) \in Nat \ {0}
      /\ \A i \in 1 .. Len(c) : c[i] = b[i + 1]
  BY HeadTailProperties, LenProperties, EmptySeq
<1> HIDE DEF c
<1>2. /\ ToSet(b) = {b[i] : i \in 1 .. Len(b)}
      /\ ToSet(c) = {c[i] : i \in 1 .. Len(c)}
  BY <1>1, ToSetIs
<1>3. \A i, k \in 1 .. Len(b) : b[i] = b[k] => i = k
  BY DEF Distinct
<1>4. \A i \in 1 .. Len(c) : i + 1 \in 1 .. Len(b) /\ i + 1 # 1
  BY <1>1
<1>5. Distinct(c)
  <2> SUFFICES ASSUME NEW i \in 1 .. Len(c), NEW k \in 1 .. Len(c), c[i] = c[k] PROVE i = k
    BY DEF Distinct
  <2>1. b[i + 1] = b[k + 1] /\ i + 1 \in 1 .. Len(b) /\ k + 1 \in 1 .. Len(b)
    BY <1>1, <1>4
  <2>2. i + 1 = k + 1
    BY <2>1, <1>3
  <2> QED BY <2>2
<1>6. b[1] \in ToSet(b) /\ 1 \in 1 .. Len(b)
  BY <1>1, <1>2
<1>7. ToSet(c) \subseteq ToSet(b) \ {b[1]}
  <2> SUFFICES ASSUME NEW i \in 1 .. Len(c) PROVE c[i] \in ToSet(b) \ {b[1]}
    BY <1>2
  <2> QED BY <1>1, <1>2, <1>3, <1>4, <1>6
<1>8. ToSet(b) \ {b[1]} \subseteq ToSet(c)
  <2> SUFFICES ASSUME NEW i \in 1 .. Len(b), i # 1 PROVE b[i] \in ToSet(c)
    BY <1>2
  <2>1. i - 1 \in 1 .. Len(c) /\ c[i - 1] = b[i]
    BY <1>1
  <2> QED BY <2>1, <1>2
<1>9. ToSet(c) = ToSet(b) \ {b[1]}
  BY <1>7, <1>8
<1> QED BY <1>1, <1>5, <1>6, <1>9 DEF c

-----------------------------------------------------------------------------
(* How one thread more or less changes the credit of a semaphore.           *)
LEMMA ThroughFinite ==
  ASSUME NEW A, A \subseteq Threads
  PROVE  IsFiniteSet(A) /\ Cardinality(A) \in Nat
BY MqAssumption, FS_Subset, FS_CardinalityType

LEMMA OneMore ==
  ASSUME NEW A, A \subseteq Threads, NEW t \in Threads
  PROVE  /\ t \notin A => Cardinality(A \cup {t}) = Cardinality(A) + 1
         /\ t \in A => /\ Cardinality(A \ {t}) = Cardinality(A) - 1
                       /\ Cardinality(A) - 1 \in Nat
<1>1. IsFiniteSet(A) /\ Cardinality(A) \in Nat
  BY ThroughFinite
<1>2. ASSUME t \in A PROVE Cardinality(A) - 1 \in Nat
  <2>1. IsFiniteSet(A \ {t}) /\ Cardinality(A \ {t}) \in Nat
    BY ThroughFinite
  <2>2. Cardinality(A \ {t}) = Cardinality(A) - 1
    BY <1>1, <1>2, FS_RemoveElement
  <2> QED BY <2>1, <2>2
<1> QED BY <1>1, <1>2, FS_AddElement, FS_RemoveElement

LEMMA CreditNat ==
  ASSUME Kernel, NEW s \in Sems
  PROVE  Credit(s) \in Nat
<1>1. Cardinality(Through(s)) \in Nat
  BY ThroughFinite DEF Through
<1>2. sem[s].token \in Nat
  BY DEF Kernel
<1> QED BY <1>1, <1>2 DEF Credit

One(b) == IF b THEN 1 ELSE 0

(* The running thread moves; the semaphore is left alone.                   *)
LEMMA MoveCredit ==
  ASSUME Kernel, phase = "run", NEW s \in Sems, SemOK(s), NEW next \in Places, Goto(next),
         sem'[s] = sem[s]
  PROVE  /\ pc' \in [Threads -> Places] /\ SemOK(s)'
         /\ \A t : Waits(t, s)' <=> Waits(t, s)
         /\ Credit(s)' = Credit(s) - One(pc[active] \in Past[s]) + One(next \in Past[s])
<1> DEFINE A == Through(s)  B == Through(s)'
<1>1. /\ pc' \in [Threads -> Places] /\ pc'[active] = next /\ active \in Threads
      /\ \A t \in Threads \ {active} : pc'[t] = pc[t]
  BY DEF Kernel, Goto
<1>2. ~Waits(active, s) /\ \A t : Waits(t, s)' <=> Waits(t, s)
  BY DEF Kernel, Waits
<1>3. A \subseteq Threads /\ (active \in A <=> pc[active] \in Past[s])
  BY <1>1, <1>2 DEF Through
<1>4. B = IF next \in Past[s] THEN A \cup {active} ELSE A \ {active}
  BY <1>1, <1>2 DEF Through
<1>5. SemOK(s)'
  BY <1>1, <1>2 DEF SemOK
<1>6. /\ Credit(s) = Cardinality(A) + sem[s].token /\ sem[s].token \in Nat
      /\ Credit(s)' = Cardinality(B) + sem[s].token
  BY DEF Credit, Kernel
<1> HIDE DEF A, B
<1>7. Cardinality(A) \in Nat
  BY <1>3, ThroughFinite
<1>8. Cardinality(B) = Cardinality(A) - One(pc[active] \in Past[s]) + One(next \in Past[s])
  <2>1. CASE active \in A /\ next \in Past[s]
    <3>1. B = A
      BY <2>1, <1>4
    <3> QED BY <2>1, <3>1, <1>3, <1>7 DEF One
  <2>2. CASE active \in A /\ next \notin Past[s]
    BY <2>2, <1>1, <1>3, <1>4, <1>7, OneMore DEF One
  <2>3. CASE active \notin A /\ next \in Past[s]
    BY <2>3, <1>1, <1>3, <1>4, <1>7, OneMore DEF One
  <2>4. CASE active \notin A /\ next \notin Past[s]
    <3>1. B = A
      BY <2>4, <1>4
    <3> QED BY <2>4, <3>1, <1>3, <1>7 DEF One
  <2> QED BY <2>1, <2>2, <2>3, <2>4
<1> DEFINE less == One(pc[active] \in Past[s])  more == One(next \in Past[s])
<1>9. less \in Nat /\ more \in Nat
  BY DEF One
<1> HIDE DEF less, more
<1>10. Credit(s)' = Credit(s) - less + more
  BY <1>6, <1>7, <1>8, <1>9 DEF less, more
<1> QED BY <1>1, <1>2, <1>5, <1>10 DEF less, more
(* sem_wait: the caller takes the token or joins the waiters.               *)
LEMMA WaitCredit ==
  ASSUME Kernel, phase = "run", NEW s \in Sems, SemOK(s), NEW next \in Past[s],
         pc[active] \notin Past[s], SemWait(s, next)
  PROVE  /\ sem' \in [Sems -> [token : Nat, waiters : Seq(Threads)]]
         /\ \A o \in Sems \ {s} : sem'[o] = sem[o]
         /\ phase' \in {"run", "yield"} /\ SemOK(s)' /\ Credit(s)' = Credit(s)
         /\ phase' = "run" => ~Waits(active, s)'
<1> DEFINE q == sem[s]  A == Through(s)  B == Through(s)'
<1>1. /\ pc'[active] = next /\ active \in Threads /\ active' = active
      /\ \A t \in Threads \ {active} : pc'[t] = pc[t]
  BY DEF Kernel, Goto, SemWait
<1>2. /\ q \in [token : Nat, waiters : Seq(Threads)] /\ q.token \in Nat /\ q.waiters \in Seq(Threads)
      /\ Distinct(q.waiters) /\ (q.waiters # <<>> => q.token = 0)
      /\ active \notin ToSet(q.waiters)
  BY DEF Kernel, SemOK, Waits
<1>3. A \subseteq Threads /\ active \notin A
  BY DEF Through
<1>4. CASE q.token > 0
  <2> DEFINE r == [token |-> q.token - 1, waiters |-> q.waiters]
  <2>1. sem' = [sem EXCEPT ![s] = r] /\ phase' = "run"
    <3>1. sem' = [sem EXCEPT ![s] = [q EXCEPT !.token = q.token - 1]] /\ phase' = "run"
      BY <1>4 DEF SemWait
    <3>2. [q EXCEPT !.token = q.token - 1] = r
      <4> HIDE DEF q
      <4> QED BY <1>2
    <3> QED BY <3>1, <3>2
  <2>2. /\ r \in [token : Nat, waiters : Seq(Threads)]
        /\ r.token = q.token - 1 /\ r.waiters = q.waiters
    BY <1>2, <1>4
  <2> HIDE DEF r
  <2>3. sem'[s] = r /\ sem' \in [Sems -> [token : Nat, waiters : Seq(Threads)]]
        /\ \A o \in Sems \ {s} : sem'[o] = sem[o]
    BY <2>1, <2>2 DEF Kernel
  <2>4. /\ \A t : Waits(t, s)' <=> Waits(t, s)
        /\ q.waiters = <<>>
    BY <1>2, <1>4, <2>2, <2>3 DEF Waits
  <2>5. SemOK(s)'
    BY <1>1, <1>2, <2>2, <2>3, <2>4 DEF SemOK
  <2>6. B = A \cup {active}
    BY <1>1, <1>2, <2>4 DEF Through, Waits
  <2>7. Credit(s) = Cardinality(A) + q.token /\ Credit(s)' = Cardinality(B) + r.token
    BY <2>3 DEF Credit
  <2>8. Cardinality(A) \in Nat /\ Cardinality(A \cup {active}) = Cardinality(A) + 1
    BY <1>1, <1>3, ThroughFinite, OneMore
  <2>9. ~Waits(active, s)'
    BY <1>1, <1>2, <2>4 DEF Waits
  <2>10. Credit(s)' = Credit(s)
    BY <1>2, <2>2, <2>6, <2>7, <2>8
  <2> QED BY <2>1, <2>3, <2>5, <2>9, <2>10
<1>5. CASE q.token = 0
  <2> DEFINE r == [token |-> q.token, waiters |-> Append(q.waiters, active)]
  <2>1. sem' = [sem EXCEPT ![s] = r] /\ phase' = "yield"
    <3>1. /\ sem' = [sem EXCEPT ![s] = [q EXCEPT !.waiters = Append(q.waiters, active)]]
          /\ phase' = "yield"
      BY <1>5 DEF SemWait
    <3>2. [q EXCEPT !.waiters = Append(q.waiters, active)] = r
      <4> HIDE DEF q
      <4> QED BY <1>2
    <3> QED BY <3>1, <3>2
  <2>2. /\ Append(q.waiters, active) \in Seq(Threads) /\ Distinct(Append(q.waiters, active))
        /\ ToSet(Append(q.waiters, active)) = ToSet(q.waiters) \cup {active}
    BY <1>1, <1>2, JoinWaiters
  <2>3. /\ r \in [token : Nat, waiters : Seq(Threads)]
        /\ r.token = 0 /\ r.waiters = Append(q.waiters, active)
    BY <1>2, <1>5, <2>2
  <2> HIDE DEF r
  <2>4. sem'[s] = r /\ sem' \in [Sems -> [token : Nat, waiters : Seq(Threads)]]
        /\ \A o \in Sems \ {s} : sem'[o] = sem[o]
    BY <2>1, <2>3 DEF Kernel
  <2>5. \A t : Waits(t, s)' <=> Waits(t, s) \/ t = active
    BY <2>2, <2>3, <2>4 DEF Waits
  <2>6. SemOK(s)'
    BY <1>1, <1>2, <2>2, <2>3, <2>4, <2>5 DEF SemOK
  <2>7. B = A
    BY <1>1, <1>3, <2>5 DEF Through
  <2>8. Credit(s)' = Credit(s)
    BY <1>5, <2>3, <2>4, <2>7 DEF Credit
  <2> QED BY <2>1, <2>4, <2>6, <2>8
<1> QED BY <1>2, <1>4, <1>5

(* sem_post: the token is put back, or the first waiter passes.             *)
LEMMA PostCredit ==
  ASSUME Kernel, phase = "run", NEW s \in Sems, SemOK(s), NEW next \in Places,
         SemPost(s, next)
  PROVE  /\ sem' \in [Sems -> [token : Nat, waiters : Seq(Threads)]]
         /\ \A o \in Sems \ {s} : sem'[o] = sem[o]
         /\ phase' \in {"run", "yield"} /\ SemOK(s)' /\ ~Waits(active, s)'
         /\ Credit(s)' = Credit(s) + 1 - One(pc[active] \in Past[s]) + One(next \in Past[s])
<1> DEFINE q == sem[s]  A == Through(s)
           B == IF next \in Past[s] THEN A \cup {active} ELSE A \ {active}
           less == One(pc[active] \in Past[s])  more == One(next \in Past[s])
<1>1. /\ pc'[active] = next /\ active \in Threads /\ active' = active
      /\ \A t \in Threads \ {active} : pc'[t] = pc[t]
  BY DEF Kernel, Goto, SemPost
<1>2. /\ q \in [token : Nat, waiters : Seq(Threads)] /\ q.token \in Nat /\ q.waiters \in Seq(Threads)
      /\ Distinct(q.waiters) /\ (q.waiters # <<>> => q.token = 0)
      /\ active \notin ToSet(q.waiters)
  BY DEF Kernel, SemOK, Waits
<1>3. A \subseteq Threads /\ (active \in A <=> pc[active] \in Past[s]) /\ Cardinality(A) \in Nat
  BY <1>1, <1>2, ThroughFinite DEF Through, Waits
<1>4. Cardinality(B) = Cardinality(A) - less + more /\ B \subseteq Threads
      /\ Cardinality(B) \in Nat
  <2> HIDE DEF A
  <2>1. CASE active \in A /\ next \in Past[s]
    <3>1. B = A
      BY <2>1
    <3> QED BY <2>1, <3>1, <1>3 DEF One
  <2>2. CASE active \in A /\ next \notin Past[s]
    BY <2>2, <1>1, <1>3, OneMore DEF One
  <2>3. CASE active \notin A /\ next \in Past[s]
    BY <2>3, <1>1, <1>3, OneMore DEF One
  <2>4. CASE active \notin A /\ next \notin Past[s]
    <3>1. B = A
      BY <2>4
    <3> QED BY <2>4, <3>1, <1>3 DEF One
  <2> QED BY <2>1, <2>2, <2>3, <2>4
<1>5. less \in Nat /\ more \in Nat
  BY DEF One
<1>6. CASE q.waiters = <<>>
  <2> DEFINE r == [token |-> q.token + 1, waiters |-> q.waiters]
  <2>1. sem' = [sem EXCEPT ![s] = r] /\ phase' = "run"
    <3>1. sem' = [sem EXCEPT ![s] = [q EXCEPT !.token = q.token + 1]] /\ phase' = "run"
      BY <1>6 DEF SemPost
    <3>2. [q EXCEPT !.token = q.token + 1] = r
      <4> HIDE DEF q
      <4> QED BY <1>2
    <3> QED BY <3>1, <3>2
  <2>2. /\ r \in [token : Nat, waiters : Seq(Threads)]
        /\ r.token = q.token + 1 /\ r.waiters = q.waiters
    BY <1>2
  <2> HIDE DEF r
  <2>3. sem'[s] = r /\ sem' \in [Sems -> [token : Nat, waiters : Seq(Threads)]]
        /\ \A o \in Sems \ {s} : sem'[o] = sem[o]
    BY <2>1, <2>2 DEF Kernel
  <2>4. ToSet(<<>>) = {}
    BY DEF ToSet
  <2>5. \A t : ~Waits(t, s)' /\ ~Waits(t, s)
    BY <1>6, <2>2, <2>3, <2>4 DEF Waits
  <2>6. SemOK(s)'
    BY <1>2, <1>6, <2>2, <2>3, <2>5 DEF SemOK
  <2>7. Through(s)' = B
    BY <1>1, <2>5 DEF Through
  <2>8. Credit(s) = Cardinality(A) + q.token /\ Credit(s)' = Cardinality(B) + (q.token + 1)
    BY <2>2, <2>3, <2>7 DEF Credit
  <2> HIDE DEF A, B, q, less, more
  <2>9. Credit(s)' = Credit(s) + 1 - less + more
    BY <1>2, <1>3, <1>4, <1>5, <2>8
  <2> QED BY <2>1, <2>3, <2>5, <2>6, <2>9 DEF less, more
<1>7. CASE q.waiters # <<>>
  <2> DEFINE r == [token |-> q.token, waiters |-> Tail(q.waiters)]
  <2>1. sem' = [sem EXCEPT ![s] = r] /\ phase' = "yield"
    <3>1. /\ sem' = [sem EXCEPT ![s] = [q EXCEPT !.waiters = Tail(q.waiters)]]
          /\ phase' = "yield"
      BY <1>7 DEF SemPost
    <3>2. [q EXCEPT !.waiters = Tail(q.waiters)] = r
      <4> DEFINE c == Tail(q.waiters)
      <4> HIDE DEF q, c, r
      <4>1. [q EXCEPT !.waiters = c] = [token |-> q.token, waiters |-> c]
        BY <1>2
      <4> QED BY <4>1 DEF c, r
    <3> QED BY <3>1, <3>2
  <2>2. /\ Tail(q.waiters) \in Seq(Threads) /\ Distinct(Tail(q.waiters))
        /\ \E t \in ToSet(q.waiters) : ToSet(Tail(q.waiters)) = ToSet(q.waiters) \ {t}
    BY <1>2, <1>7, FirstWaiter
  <2>3. PICK u \in ToSet(q.waiters) : ToSet(Tail(q.waiters)) = ToSet(q.waiters) \ {u}
    BY <2>2
  <2>4. /\ r \in [token : Nat, waiters : Seq(Threads)]
        /\ r.token = 0 /\ r.waiters = Tail(q.waiters) /\ q.token = 0
    BY <1>2, <1>7, <2>2
  <2> HIDE DEF r
  <2>5. sem'[s] = r /\ sem' \in [Sems -> [token : Nat, waiters : Seq(Threads)]]
        /\ \A o \in Sems \ {s} : sem'[o] = sem[o]
    BY <2>1, <2>4 DEF Kernel
  <2>6. \A t : Waits(t, s)' <=> Waits(t, s) /\ t # u
    BY <2>3, <2>4, <2>5 DEF Waits
  <2>7. u \in Threads /\ Waits(u, s) /\ pc[u] \in Past[s] /\ u # active /\ pc'[u] = pc[u]
    <3>1. u \in Threads /\ Waits(u, s) /\ u # active
      BY <1>2, <2>3, ToSetIs DEF Waits
    <3> QED BY <1>1, <3>1 DEF SemOK
  <2>8. SemOK(s)'
    <3>1. \A t \in Threads : Waits(t, s)' => pc'[t] \in Past[s]
      BY <1>1, <1>2, <2>6 DEF SemOK, Waits
    <3> QED BY <2>2, <2>4, <2>5, <3>1 DEF SemOK
  <2>9. Through(s)' = B \cup {u} /\ u \notin B
    <3>1. u \notin B
      BY <2>7 DEF Through
    <3>2. ~Waits(active, s)'
      BY <1>2, <1>1, <2>6 DEF Waits
    <3> QED BY <1>1, <2>6, <2>7, <3>1, <3>2 DEF Through
  <2>10. Credit(s) = Cardinality(A) + 0 /\ Credit(s)' = Cardinality(B \cup {u}) + 0
    BY <2>4, <2>5, <2>9 DEF Credit
  <2>11. Cardinality(B \cup {u}) = Cardinality(B) + 1
    BY <1>4, <2>7, <2>9, OneMore
  <2>12. ~Waits(active, s)'
    BY <1>1, <1>2, <2>6 DEF Waits
  <2> HIDE DEF A, B, q, less, more
  <2>13. Credit(s)' = Credit(s) + 1 - less + more
    BY <1>3, <1>4, <1>5, <2>10, <2>11
  <2> QED BY <2>1, <2>5, <2>8, <2>12, <2>13 DEF less, more
<1> QED BY <1>6, <1>7
-----------------------------------------------------------------------------
(* The ring: an index goes on to the next cell, around the end.             *)
LEMMA NextCellIs ==
  ASSUME NEW i \in Cells
  PROVE  NextCell(i) = IF i = MaxMsg - 1 THEN 0 ELSE i + 1
<1>1. MaxMsg \in Nat /\ MaxMsg >= 1 /\ i \in Nat /\ i <= MaxMsg - 1
  BY MqAssumption DEF Cells
<1>2. CASE i = MaxMsg - 1
  <2>1. MaxMsg % MaxMsg = 0
    BY <1>1
  <2> QED BY <1>1, <1>2, <2>1 DEF NextCell
<1>3. CASE i # MaxMsg - 1
  <2>1. i + 1 \in 0 .. MaxMsg - 1
    BY <1>1, <1>3
  <2>2. (i + 1) % MaxMsg = i + 1
    BY <1>1, <2>1
  <2> QED BY <1>3, <2>2 DEF NextCell
<1> QED BY <1>2, <1>3

LEMMA NumbIs ==
  ASSUME mIdxIn \in Cells, mIdxOut \in Cells
  PROVE  Numb \in 0 .. MaxMsg - 1
BY MqAssumption DEF Numb, Cells

LEMMA PutIn ==
  ASSUME mIdxIn \in Cells, mIdxOut \in Cells, ~Full,
         mIdxIn' = NextCell(mIdxIn), mIdxOut' = mIdxOut
  PROVE  mIdxIn' \in Cells /\ Numb' = Numb + 1
<1>1. mIdxIn' = IF mIdxIn = MaxMsg - 1 THEN 0 ELSE mIdxIn + 1
  BY NextCellIs
<1> QED BY <1>1, MqAssumption DEF Numb, Full, Cells

LEMMA TakeOut ==
  ASSUME mIdxIn \in Cells, mIdxOut \in Cells, Numb > 0,
         mIdxOut' = NextCell(mIdxOut), mIdxIn' = mIdxIn
  PROVE  mIdxOut' \in Cells /\ Numb' = Numb - 1
<1>1. mIdxOut' = IF mIdxOut = MaxMsg - 1 THEN 0 ELSE mIdxOut + 1
  BY NextCellIs
<1> QED BY <1>1, MqAssumption DEF Numb, Cells

-----------------------------------------------------------------------------
(* The steps.                                                               *)
SameRing == mIdxIn' = mIdxIn /\ mIdxOut' = mIdxOut

LEMMA RingKept ==
  ASSUME Ring, SameRing, Credit("pool")' <= 1, Credit("queue")' = Credit("queue")
  PROVE  Ring'
BY DEF Ring, SameRing, Numb

(* A call that goes through the pool's semaphore from outside of a section. *)
LEMMA EnterStep ==
  ASSUME IInv, SameRing, NEW from \in Places \ (Inside \cup {"fetch"}),
         NEW next \in Inside, At(from), SemWait("pool", next)
  PROVE  IInv'
<1>1. Kernel /\ phase = "run" /\ pc[active] = from /\ SemOK("pool") /\ SemOK("queue")
      /\ Goto(next) /\ active' = active /\ asleep' = asleep /\ "pool" \in Sems /\ "queue" \in Sems
      /\ next \in Places
  BY Names DEF IInv, At, SemWait
<1>2. /\ sem' \in [Sems -> [token : Nat, waiters : Seq(Threads)]] /\ sem'["queue"] = sem["queue"]
      /\ phase' \in {"run", "yield"} /\ SemOK("pool")' /\ Credit("pool")' = Credit("pool")
      /\ phase' = "run" => ~Waits(active, "pool")'
  BY <1>1, WaitCredit, Names
<1>3. /\ pc' \in [Threads -> Places] /\ SemOK("queue")'
      /\ \A t : Waits(t, "queue")' <=> Waits(t, "queue")
      /\ Credit("queue")' = Credit("queue") - One(from \in {"fetch"}) + One(next \in {"fetch"})
  BY <1>1, <1>2, MoveCredit, Names
<1>4. One(from \in {"fetch"}) = 0 /\ One(next \in {"fetch"}) = 0
  BY DEF One, Inside
<1>5. Credit("queue") \in Nat
  BY NumbIs DEF IInv, Ring
<1>6. Kernel'
  BY <1>1, <1>2, <1>3, Names DEF Kernel, Waits
<1>7. Ring'
  BY <1>2, <1>3, <1>4, <1>5, RingKept DEF IInv, Ring
<1> QED BY <1>2, <1>3, <1>6, <1>7, Names DEF IInv

(* The end of a section, with the way on outside of it.                     *)
LEMMA LeaveStep ==
  ASSUME IInv, SameRing, NEW from \in Inside, NEW next \in Places \ (Inside \cup {"fetch"}),
         At(from), SemPost("pool", next)
  PROVE  IInv'
<1>1. Kernel /\ phase = "run" /\ pc[active] = from /\ SemOK("pool") /\ SemOK("queue")
      /\ Goto(next) /\ active' = active /\ asleep' = asleep /\ "pool" \in Sems /\ "queue" \in Sems
  BY Names DEF IInv, At, SemPost
<1>2. /\ sem' \in [Sems -> [token : Nat, waiters : Seq(Threads)]] /\ sem'["queue"] = sem["queue"]
      /\ phase' \in {"run", "yield"} /\ SemOK("pool")' /\ ~Waits(active, "pool")'
      /\ Credit("pool")' = Credit("pool") + 1 - One(from \in Inside) + One(next \in Inside)
  BY <1>1, PostCredit, Names
<1>3. /\ pc' \in [Threads -> Places] /\ SemOK("queue")'
      /\ \A t : Waits(t, "queue")' <=> Waits(t, "queue")
      /\ Credit("queue")' = Credit("queue") - One(from \in {"fetch"}) + One(next \in {"fetch"})
  BY <1>1, <1>2, MoveCredit, Names
<1>4. /\ One(from \in {"fetch"}) = 0 /\ One(next \in {"fetch"}) = 0
      /\ One(from \in Inside) = 1 /\ One(next \in Inside) = 0
  BY DEF One, Inside
<1>5. Credit("queue") \in Nat /\ Credit("pool") \in Nat
  <2>1. Credit("pool") \in Nat
    BY <1>1, CreditNat
  <2> QED BY <2>1, NumbIs DEF IInv, Ring
<1>6. Kernel'
  BY <1>1, <1>2, <1>3, Names DEF Kernel, Waits
<1>7. Ring'
  BY <1>2, <1>3, <1>4, <1>5, RingKept DEF IInv, Ring
<1> QED BY <1>2, <1>3, <1>6, <1>7, Names DEF IInv

LEMMA SendStep ==
  ASSUME IInv, NEW m, NEW p, Send(m, p)
  PROVE  IInv'
<1>1. Kernel /\ phase = "run" /\ pc[active] = "send" /\ SemOK("pool") /\ SemOK("queue")
      /\ SemPost("queue", "sent") /\ Goto("sent") /\ active' = active /\ asleep' = asleep
      /\ "pool" \in Sems /\ "queue" \in Sems /\ "sent" \in Places
  BY Names DEF IInv, At, SemPost, Send, Places, Inside
<1>2. /\ sem' \in [Sems -> [token : Nat, waiters : Seq(Threads)]] /\ sem'["pool"] = sem["pool"]
      /\ phase' \in {"run", "yield"} /\ SemOK("queue")' /\ ~Waits(active, "queue")'
      /\ Credit("queue")' = Credit("queue") + 1 - One("send" \in {"fetch"}) + One("sent" \in {"fetch"})
  BY <1>1, PostCredit, Names
<1>3. /\ pc' \in [Threads -> Places] /\ SemOK("pool")'
      /\ \A t : Waits(t, "pool")' <=> Waits(t, "pool")
      /\ Credit("pool")' = Credit("pool") - One("send" \in Inside) + One("sent" \in Inside)
  BY <1>1, <1>2, MoveCredit, Names
<1>4. /\ One("send" \in {"fetch"}) = 0 /\ One("sent" \in {"fetch"}) = 0
      /\ One("send" \in Inside) = 1 /\ One("sent" \in Inside) = 1
  BY DEF One, Inside
<1>5. Credit("queue") = Numb /\ Numb \in Nat /\ Credit("pool") \in Nat /\ Credit("pool") <= 1
  <2>1. Credit("pool") \in Nat
    BY <1>1, CreditNat
  <2> QED BY <2>1, NumbIs DEF IInv, Ring
<1>6. Kernel'
  BY <1>1, <1>2, <1>3, Names DEF Kernel, Waits
<1>7. mIdxIn' \in Cells /\ Numb' = Numb + 1 /\ mIdxOut' = mIdxOut /\ mIdxOut \in Cells
  BY PutIn DEF IInv, Ring, Send
<1>8. Ring'
  BY <1>2, <1>3, <1>4, <1>5, <1>7 DEF Ring
<1> QED BY <1>2, <1>3, <1>6, <1>8, Names DEF IInv

(* The wait for a message, outside of the section.                          *)
LEMMA RecvWaitStep ==
  ASSUME IInv, RecvWait
  PROVE  IInv'
<1>1. Kernel /\ phase = "run" /\ pc[active] = "recv_wait" /\ SemOK("pool") /\ SemOK("queue")
      /\ SemWait("queue", "fetch") /\ Goto("fetch") /\ active' = active /\ asleep' = asleep
      /\ "pool" \in Sems /\ "queue" \in Sems /\ "fetch" \in Places /\ SameRing
  BY Names DEF IInv, At, SemWait, RecvWait, Places, Inside, SameRing, box
<1>2. /\ sem' \in [Sems -> [token : Nat, waiters : Seq(Threads)]] /\ sem'["pool"] = sem["pool"]
      /\ phase' \in {"run", "yield"} /\ SemOK("queue")' /\ Credit("queue")' = Credit("queue")
      /\ phase' = "run" => ~Waits(active, "queue")'
  BY <1>1, WaitCredit, Names
<1>3. /\ pc' \in [Threads -> Places] /\ SemOK("pool")'
      /\ \A t : Waits(t, "pool")' <=> Waits(t, "pool")
      /\ Credit("pool")' = Credit("pool") - One("recv_wait" \in Inside) + One("fetch" \in Inside)
  BY <1>1, <1>2, MoveCredit, Names
<1>4. One("recv_wait" \in Inside) = 0 /\ One("fetch" \in Inside) = 0
  BY DEF One, Inside
<1>5. Credit("pool") \in Nat /\ Credit("pool") <= 1
  BY <1>1, CreditNat DEF IInv, Ring
<1>6. Kernel'
  BY <1>1, <1>2, <1>3, Names DEF Kernel, Waits
<1>7. Ring'
  BY <1>1, <1>2, <1>3, <1>4, <1>5, RingKept DEF IInv
<1> QED BY <1>2, <1>3, <1>6, <1>7, Names DEF IInv

(* The running thread goes on without a call of a semaphore.                *)
LEMMA MoveBoth ==
  ASSUME IInv, phase = "run", UNCHANGED <<sem, active, phase, asleep>>, NEW next \in Places,
         Goto(next)
  PROVE  /\ Kernel' /\ \A s \in Sems : SemOK(s)'
         /\ \A s \in Sems : /\ Credit(s) \in Nat
                            /\ Credit(s)' = Credit(s) - One(pc[active] \in Past[s])
                                                      + One(next \in Past[s])
<1>1. Kernel /\ \A s \in Sems : SemOK(s)
  BY DEF IInv
<1>2. ASSUME NEW s \in Sems
      PROVE  /\ pc' \in [Threads -> Places] /\ SemOK(s)'
             /\ \A t : Waits(t, s)' <=> Waits(t, s)
             /\ Credit(s)' = Credit(s) - One(pc[active] \in Past[s]) + One(next \in Past[s])
  <2>1. sem'[s] = sem[s]
    OBVIOUS
  <2> QED BY <1>1, <2>1, MoveCredit
<1>3. Kernel'
  BY <1>1, <1>2, Names DEF Kernel
<1>4. \A s \in Sems : Credit(s) \in Nat
  BY <1>1, CreditNat
<1> QED BY <1>2, <1>3, <1>4

LEMMA FetchFinds ==
  ASSUME IInv, At("fetch")
  PROVE  Numb > 0
<1>1. active \in Through("queue") /\ Through("queue") \subseteq Threads /\ active \in Threads
  BY Names DEF Through, IInv, Kernel, At
<1>2. Cardinality(Through("queue")) - 1 \in Nat /\ Cardinality(Through("queue")) \in Nat
  BY <1>1, OneMore, ThroughFinite
<1>3. sem["queue"].token \in Nat
  BY Names DEF IInv, Kernel
<1> QED BY <1>2, <1>3 DEF Credit, IInv, Ring

LEMMA FetchStep ==
  ASSUME IInv, Fetch
  PROVE  IInv'
<1>1. /\ phase = "run" /\ pc[active] = "fetch" /\ Goto("user") /\ "user" \in Places
      /\ UNCHANGED <<sem, active, phase, asleep>> /\ active \in Threads /\ ~Waits(active, "queue")
  BY Names DEF Fetch, At, Places, IInv, Kernel
<1>2. /\ Kernel' /\ \A s \in Sems : SemOK(s)'
      /\ Credit("pool") \in Nat /\ Credit("queue") \in Nat
      /\ Credit("pool")' = Credit("pool") - One("fetch" \in Inside) + One("user" \in Inside)
      /\ Credit("queue")' = Credit("queue") - One("fetch" \in {"fetch"}) + One("user" \in {"fetch"})
  BY <1>1, MoveBoth, Names
<1>3. /\ One("fetch" \in {"fetch"}) = 1 /\ One("user" \in {"fetch"}) = 0
      /\ One("fetch" \in Inside) = 0 /\ One("user" \in Inside) = 0
  BY DEF One, Inside
<1>4. Numb > 0
  BY FetchFinds DEF Fetch
<1>5. mIdxOut' \in Cells /\ Numb' = Numb - 1 /\ mIdxIn' = mIdxIn /\ mIdxIn \in Cells
  BY <1>4, TakeOut DEF IInv, Ring, Fetch
<1>6. Ring'
  BY <1>2, <1>3, <1>5 DEF Ring, IInv
<1> QED BY <1>2, <1>6 DEF IInv

(* mq_open leaves the section without a post: the credit is lost.           *)
LEMMA OpenRefusedStep ==
  ASSUME IInv, OpenRefused
  PROVE  IInv'
<1>1. /\ phase = "run" /\ pc[active] = "open" /\ Goto("user") /\ "user" \in Places
      /\ UNCHANGED <<sem, active, phase, asleep>> /\ SameRing
  BY DEF OpenRefused, At, Places, SameRing, box
<1>2. /\ Kernel' /\ \A s \in Sems : SemOK(s)'
      /\ Credit("pool") \in Nat /\ Credit("queue") \in Nat
      /\ Credit("pool")' = Credit("pool") - One("open" \in Inside) + One("user" \in Inside)
      /\ Credit("queue")' = Credit("queue") - One("open" \in {"fetch"}) + One("user" \in {"fetch"})
  BY <1>1, MoveBoth, Names
<1>3. /\ One("open" \in {"fetch"}) = 0 /\ One("user" \in {"fetch"}) = 0
      /\ One("open" \in Inside) = 1 /\ One("user" \in Inside) = 0
  BY DEF One, Inside
<1>4. Ring'
  BY <1>1, <1>2, <1>3, RingKept DEF Ring, IInv
<1> QED BY <1>2, <1>4 DEF IInv
(* What the dispatcher and a thread outside of the queue do.                *)
LEMMA KernelStep ==
  ASSUME IInv, UNCHANGED <<sem, pc>>, SameRing, active' \in Threads,
         phase' \in {"run", "yield"}, asleep' \subseteq Threads,
         phase' = "run" => \A s \in Sems : ~Waits(active', s)
  PROVE  IInv'
<1>1. Kernel'
  BY DEF IInv, Kernel, Waits
<1>2. \A s \in Sems : Waits(active, s)' <=> Waits(active', s)
  BY DEF Waits
<1>3. \A s \in Sems : SemOK(s)' /\ Credit(s)' = Credit(s)
  BY DEF IInv, SemOK, Waits, Credit, Through
<1>4. Ring'
  BY <1>3, RingKept, Names DEF IInv, Ring
<1> QED BY <1>1, <1>3, <1>4 DEF IInv

LEMMA InitIInv == Init => IInv
<1> SUFFICES ASSUME Init PROVE IInv
  OBVIOUS
<1> DEFINE none == <<>>
<1>1. ToSet(none) = {} /\ none \in Seq(Threads) /\ Distinct(none)
  BY EmptySeq DEF ToSet, Distinct
<1>2. sem = [s \in Sems |-> [token |-> IF s = "pool" THEN 1 ELSE 0, waiters |-> none]]
  BY DEF Init
<1> HIDE DEF none
<1>3. ASSUME NEW s \in Sems
      PROVE  sem[s].token = (IF s = "pool" THEN 1 ELSE 0) /\ sem[s].waiters = none
  BY <1>2
<1>4. sem \in [Sems -> [token : Nat, waiters : Seq(Threads)]]
  BY <1>1, <1>2
<1>5. \A s \in Sems, t \in Threads : ~Waits(t, s)
  BY <1>1, <1>3 DEF Waits
<1>6. Kernel
  BY <1>4, <1>5 DEF Init, Kernel, Places
<1>7. ASSUME NEW s \in Sems PROVE SemOK(s)
  BY <1>1, <1>3, <1>5 DEF SemOK, none
<1>8. Credit("pool") = 1 /\ Credit("queue") = 0
  <2>1. \A s \in Sems : Through(s) = {}
    BY DEF Through, Init, Past, Inside
  <2>2. \A s \in Sems : Cardinality(Through(s)) = 0
    BY <2>1, FS_EmptySet
  <2>3. sem["pool"].token = 1 /\ sem["queue"].token = 0
    BY <1>3, Names
  <2> QED BY <2>2, <2>3, Names DEF Credit
<1>9. Ring
  BY <1>8, MqAssumption DEF Ring, Init, Cells, Numb
<1> QED BY <1>6, <1>7, <1>9 DEF IInv

LEMMA NextIInv == IInv /\ [Next]_vars => IInv'
<1> SUFFICES ASSUME IInv, [Next]_vars PROVE IInv'
  OBVIOUS
<1>1. \A p \in {"user", "recv_wait"} : p \in Places \ (Inside \cup {"fetch"})
  BY DEF Places, Inside
<1>2. \A p \in {"send", "sent", "recv", "open"} : p \in Inside
  BY DEF Inside
<1>3. CASE SendCall
  BY <1>1, <1>2, <1>3, EnterStep DEF SendCall, SameRing, box
<1>4. CASE SendFull
  BY <1>1, <1>2, <1>4, LeaveStep DEF SendFull, SameRing, box
<1>5. CASE SendEnd
  BY <1>1, <1>2, <1>5, LeaveStep DEF SendEnd, SameRing, box
<1>6. CASE \E m \in Msgs, p \in MsgPrios : Send(m, p)
  BY <1>6, SendStep
<1>7. CASE RecvCall
  BY <1>1, <1>2, <1>7, EnterStep DEF RecvCall, SameRing, box
<1>8. CASE RecvTest
  <2> DEFINE next == IF Refused THEN "user" ELSE "recv_wait"
  <2>1. At("recv") /\ SemPost("pool", next) /\ SameRing
    BY <1>8 DEF RecvTest, SameRing, box
  <2>2. next \in Places \ (Inside \cup {"fetch"}) /\ "recv" \in Inside
    BY <1>1, <1>2
  <2> HIDE DEF next
  <2> QED BY <2>1, <2>2, LeaveStep
<1>9. CASE RecvWait
  BY <1>9, RecvWaitStep
<1>10. CASE Fetch
  BY <1>10, FetchStep
<1>11. CASE OpenCall
  BY <1>1, <1>2, <1>11, EnterStep DEF OpenCall, SameRing, box
<1>12. CASE OpenRefused
  BY <1>12, OpenRefusedStep
<1>13. CASE Yield \/ Sleep
  BY <1>13, KernelStep DEF Yield, Sleep, SameRing, box, IInv, Kernel
<1>14. CASE \E t \in Threads : Wake(t)
  BY <1>14, KernelStep DEF Wake, SameRing, box, IInv, Kernel
<1>15. CASE Dispatch
  BY <1>15, KernelStep DEF Dispatch, Ready, SameRing, box, IInv, Kernel
<1>16. CASE UNCHANGED vars
  BY <1>16, KernelStep DEF vars, SameRing, box, IInv, Kernel
<1> QED BY <1>3, <1>4, <1>5, <1>6, <1>7, <1>8, <1>9, <1>10, <1>11, <1>12, <1>13, <1>14,
           <1>15, <1>16 DEF Next

-----------------------------------------------------------------------------
(* The invariant of the two semaphores and the ring, whatever threads call  *)
(* mq_send, mq_receive and the mq_open that fails, in whatever order.       *)
THEOREM Invariance == Spec => []IInv
<1>1. Init => IInv
  BY InitIInv
<1>2. IInv /\ [Next]_vars => IInv'
  BY NextIInv
<1> QED BY <1>1, <1>2, PTL DEF Spec

(* No two threads are inside of the section that mq_send, mq_receive and    *)
(* mq_open guard with poolAccessSem; the mq_open that returns without a     *)
(* sem_post closes the section and never opens it twice.                    *)
THEOREM PoolExclusiveHolds == Spec => []PoolExclusive
<1>1. IInv => PoolExclusive
  BY Names DEF IInv, Ring, Credit, Through, Holders, PoolExclusive
<1> QED BY <1>1, Invariance, PTL

(* The queue's semaphore and the receivers that it has let through stand    *)
(* for exactly the messages in the ring.                                    *)
THEOREM AnnouncedHolds == Spec => []Announced
<1>1. IInv => Announced
  <2> SUFFICES ASSUME IInv PROVE Announced
    OBVIOUS
  <2>1. Through("queue") = {t \in Threads : pc[t] = "fetch" /\ ~Waits(t, "queue")}
    BY Names DEF Through
  <2>2. Through("queue") \subseteq Threads /\ sem["queue"].token \in Nat
    BY Names DEF Through, IInv, Kernel
  <2>3. Cardinality(Through("queue")) \in Nat
    BY <2>2, ThroughFinite
  <2>4. Numb = Cardinality(Through("queue")) + sem["queue"].token
    BY DEF IInv, Ring, Credit
  <2>5. Numb = sem["queue"].token + Cardinality(Through("queue"))
    BY <2>2, <2>3, <2>4
  <2> QED BY <2>1, <2>5 DEF Announced
<1> QED BY <1>1, Invariance, PTL

(* mq_receive copies from messArray[mIdxOut] outside of the section and     *)
(* tests nothing: the ring is not empty when it does.                       *)
THEOREM FetchesFind == Spec => [](At("fetch") => Numb > 0)
<1>1. IInv => (At("fetch") => Numb > 0)
  BY FetchFinds
<1> QED BY <1>1, Invariance, PTL

-----------------------------------------------------------------------------
(* A set of numbers that is not empty has a least element.                  *)
LEMMA LeastNumber ==
  ASSUME NEW T \in SUBSET Nat, T # {}
  PROVE  \E x \in T : \A y \in T : x <= y
<1> DEFINE R == OpToRel(<, Nat)
<1>1. IsWellFoundedOn(R, Nat)
  BY NatLessThanWellFounded
<1>2. \A x, y \in Nat : <<x, y>> \in R <=> x < y
  BY DEF OpToRel
<1> HIDE DEF R
<1>3. PICK x \in T : \A y \in T : ~ (<<y, x>> \in R)
  BY <1>1, WFMin
<1>4. \A y \in T : ~(y < x)
  BY <1>2, <1>3
<1> QED BY <1>4

(* A recursion whose value at x depends on values of smaller measure only   *)
(* has a solution: there are approximations to every number of levels.      *)
Maps(X, V) == [X -> V]
Descends(X, F, m, N, step) ==
  /\ N \in Nat /\ m \in [X -> 0 .. N] /\ step \in [F -> F] /\ F # {}
  /\ \A f, g \in F, x \in X :
       (\A y \in X : m[y] < m[x] => f[y] = g[y]) => step[f][x] = step[g][x]

LEMMA RecursionSolved ==
  ASSUME NEW X, NEW V, NEW N, NEW m, NEW step, Descends(X, Maps(X, V), m, N, step)
  PROVE  \E f \in Maps(X, V) : f = step[f]
<1> USE DEF Maps
<1>a. /\ N \in Nat /\ m \in [X -> 0 .. N] /\ step \in [[X -> V] -> [X -> V]] /\ [X -> V] # {}
      /\ \A f, g \in [X -> V], x \in X :
           (\A y \in X : m[y] < m[x] => f[y] = g[y]) => step[f][x] = step[g][x]
  BY DEF Descends
<1> DEFINE Solves(f, n) == \A x \in X : m[x] < n => f[x] = step[f][x]
           Bad == {n \in Nat : \A f \in [X -> V] : ~Solves(f, n)}
<1>0. \A x \in X : m[x] \in Nat /\ m[x] <= N
  BY <1>a
<1>1. 0 \notin Bad
  <2>1. \A f \in [X -> V] : Solves(f, 0)
    BY <1>0
  <2> QED BY <2>1, <1>a
<1>2. ASSUME NEW n \in Nat, n \notin Bad PROVE n + 1 \notin Bad
  <2>1. PICK f \in [X -> V] : Solves(f, n)
    BY <1>2
  <2> DEFINE g == step[f]
  <2>2. g \in [X -> V]
    BY <1>a
  <2>3. Solves(g, n + 1)
    <3> SUFFICES ASSUME NEW x \in X, m[x] < n + 1 PROVE g[x] = step[g][x]
      OBVIOUS
    <3>1. \A y \in X : m[y] < m[x] => f[y] = g[y]
      <4> SUFFICES ASSUME NEW y \in X, m[y] < m[x] PROVE f[y] = g[y]
        OBVIOUS
      <4>1. m[y] < n
        BY <1>0
      <4> QED BY <2>1, <4>1
    <3> QED BY <1>a, <2>2, <3>1
  <2> QED BY <2>2, <2>3
<1>3. Bad = {}
  <2> SUFFICES ASSUME Bad # {} PROVE FALSE
    OBVIOUS
  <2>1. Bad \in SUBSET Nat
    OBVIOUS
  <2> HIDE DEF Bad
  <2>2. PICK n \in Bad : \A k \in Bad : n <= k
    BY <2>1, LeastNumber
  <2>3. n \in Nat /\ n # 0
    BY <1>1, <2>1
  <2>4. n - 1 \in Nat /\ n - 1 \notin Bad /\ n - 1 + 1 = n
    BY <2>1, <2>2, <2>3
  <2> QED BY <1>2, <2>4
<1>4. PICK f \in [X -> V] : Solves(f, N + 1)
  <2>1. N + 1 \in Nat
    BY <1>a
  <2>2. N + 1 \notin Bad
    BY <1>3
  <2> QED BY <2>1, <2>2, <1>a
<1>5. \A x \in X : f[x] = step[f][x]
  BY <1>0, <1>4, <1>a
<1>6. step[f] \in [X -> V]
  BY <1>a
<1> QED BY <1>5, <1>6

(* What is sorted: compMess is a strict order, and total where the numbers  *)
(* of arrival differ.                                                       *)
Entry == [msg : Msgs \cup {None}, prio : MsgPrios \cup {0}, inOrder : Nat]

(* compMess is irreflexive, asymmetric and negatively transitive.           *)
LEMMA CompMess ==
  ASSUME NEW a \in Entry, NEW b \in Entry, NEW c \in Entry
  PROVE  /\ ~SortsBefore(a, a)
         /\ SortsBefore(a, b) => ~SortsBefore(b, a)
         /\ SortsBefore(a, b) => SortsBefore(a, c) \/ SortsBefore(c, b)
         /\ a.inOrder # b.inOrder => SortsBefore(a, b) \/ SortsBefore(b, a)
<1>1. \A x \in Entry : x.prio \in Nat /\ x.inOrder \in Nat
  <2>1. MsgPrios \cup {0} \subseteq Nat
    BY MqAssumption
  <2> QED BY <2>1 DEF Entry
<1> QED BY <1>1 DEF SortsBefore

(* b has the entries of a, those from l to r in another order.              *)
Part(a, l, r) == {a[k] : k \in l .. r}
Unlike(a) == \A i, k \in DOMAIN a : a[i] = a[k] => i = k
Rearranged(a, b, l, r) ==
  /\ DOMAIN b = DOMAIN a
  /\ \A k \in DOMAIN a : k \notin l .. r => b[k] = a[k]
  /\ Part(b, l, r) = Part(a, l, r)
  /\ Unlike(a) => Unlike(b)

(* _swap exchanges two elements.                                            *)
LEMMA SwapIs ==
  ASSUME NEW D, NEW S, NEW a \in [D -> S], NEW i \in D, NEW j \in D
  PROVE  /\ _swap(a, i, j) \in [D -> S]
         /\ _swap(a, i, j)[i] = a[j] /\ _swap(a, i, j)[j] = a[i]
         /\ \A k \in D : k # i /\ k # j => _swap(a, i, j)[k] = a[k]
BY DEF _swap

LEMMA PartWithin ==
  ASSUME NEW a, NEW b, NEW l, NEW r, \A k \in l .. r : \E h \in l .. r : a[k] = b[h]
  PROVE  Part(a, l, r) \subseteq Part(b, l, r)
BY DEF Part

(* A swap inside of a range rearranges the range.                           *)
LEMMA SwapRearranges ==
  ASSUME NEW n \in Nat, NEW a \in [0 .. n - 1 -> Entry],
         NEW l \in 0 .. n - 1, NEW r \in 0 .. n - 1, NEW i \in l .. r, NEW j \in l .. r
  PROVE  Rearranged(a, _swap(a, i, j), l, r)
<1> DEFINE b == _swap(a, i, j)
           D == 0 .. n - 1
<1>1. /\ b \in [D -> Entry] /\ b[i] = a[j] /\ b[j] = a[i] /\ i \in D /\ j \in D
      /\ \A k \in D : k # i /\ k # j => b[k] = a[k]
  <2>1. i \in D /\ j \in D
    OBVIOUS
  <2> QED BY <2>1 DEF _swap
<1> HIDE DEF b
<1>2. DOMAIN b = DOMAIN a /\ DOMAIN a = D /\ \A k \in l .. r : k \in D
  BY <1>1
<1> HIDE DEF D
<1>3. Part(b, l, r) \subseteq Part(a, l, r)
  <2> SUFFICES ASSUME NEW k \in l .. r PROVE \E h \in l .. r : b[k] = a[h]
    BY PartWithin
  <2>1. CASE k = i
    BY <1>1, <2>1
  <2>2. CASE k = j
    BY <1>1, <2>2
  <2>3. CASE k # i /\ k # j
    BY <1>1, <1>2, <2>3
  <2> QED BY <2>1, <2>2, <2>3
<1>4. Part(a, l, r) \subseteq Part(b, l, r)
  <2> SUFFICES ASSUME NEW k \in l .. r PROVE \E h \in l .. r : a[k] = b[h]
    BY PartWithin
  <2>1. CASE k = i
    BY <1>1, <2>1
  <2>2. CASE k = j
    BY <1>1, <2>2
  <2>3. CASE k # i /\ k # j
    BY <1>1, <1>2, <2>3
  <2> QED BY <2>1, <2>2, <2>3
<1>5. ASSUME Unlike(a) PROVE Unlike(b)
  <2> SUFFICES ASSUME NEW h \in D, NEW k \in D, b[h] = b[k] PROVE h = k
    BY <1>2 DEF Unlike
  <2>1. \A x, y \in D : a[x] = a[y] => x = y
    BY <1>2, <1>5 DEF Unlike
  <2> DEFINE at(x) == IF x = i THEN j ELSE IF x = j THEN i ELSE x
  <2>2. b[h] = a[at(h)] /\ b[k] = a[at(k)] /\ at(h) \in D /\ at(k) \in D
    BY <1>1
  <2>3. at(h) = at(k)
    BY <2>1, <2>2
  <2> QED BY <2>3
<1> QED BY <1>1, <1>2, <1>3, <1>4, <1>5 DEF Rearranged, b

LEMMA RearrangedTwice ==
  ASSUME NEW a, NEW b, NEW c, NEW l, NEW r, Rearranged(a, b, l, r), Rearranged(b, c, l, r)
  PROVE  Rearranged(a, c, l, r)
BY DEF Rearranged

(* Rearranging a part of a range rearranges the range.                      *)
LEMMA RearrangedWithin ==
  ASSUME NEW a, NEW b, NEW l \in Int, NEW r \in Int, NEW i \in Int, NEW j \in Int,
         l <= i, j <= r, l .. r \subseteq DOMAIN a, Rearranged(a, b, i, j)
  PROVE  Rearranged(a, b, l, r)
<1>1. /\ DOMAIN b = DOMAIN a /\ Part(b, i, j) = Part(a, i, j) /\ (Unlike(a) => Unlike(b))
      /\ \A k \in DOMAIN a : k \notin i .. j => b[k] = a[k]
  BY DEF Rearranged
<1>2. \A k \in DOMAIN a : k \notin l .. r => b[k] = a[k]
  BY <1>1
<1>3. ASSUME NEW x, NEW y, DOMAIN y = DOMAIN x, Part(y, i, j) = Part(x, i, j),
             \A k \in DOMAIN x : k \notin i .. j => y[k] = x[k], DOMAIN x = DOMAIN a
      PROVE  Part(y, l, r) \subseteq Part(x, l, r)
  <2> SUFFICES ASSUME NEW k \in l .. r PROVE \E h \in l .. r : y[k] = x[h]
    BY DEF Part
  <2>1. CASE k \in i .. j
    <3>1. y[k] \in Part(x, i, j)
      BY <1>3, <2>1 DEF Part
    <3>2. PICK h \in i .. j : y[k] = x[h]
      BY <3>1 DEF Part
    <3> QED BY <3>2
  <2>2. CASE k \notin i .. j
    BY <1>3, <2>2
  <2> QED BY <2>1, <2>2
<1>4. Part(b, l, r) = Part(a, l, r)
  BY <1>1, <1>3
<1> QED BY <1>1, <1>2, <1>4 DEF Rearranged

(* The upward scan stops inside of the range, at the pivot if nowhere       *)
(* before.                                                                  *)
LEMMA ScanUpIs ==
  ASSUME NEW n \in Nat, NEW a \in [0 .. n - 1 -> Entry],
         NEW r \in 0 .. n - 1, NEW i \in -1 .. r - 1
  PROVE  /\ ScanUp(a, r, i) \in i + 1 .. r
         /\ ~SortsBefore(a[ScanUp(a, r, i)], a[r])
         /\ \A h \in i + 1 .. ScanUp(a, r, i) - 1 : SortsBefore(a[h], a[r])
<1> DEFINE T == {k \in Nat : k \in i + 1 .. r /\ ~SortsBefore(a[k], a[r])}
<1>1. r \in T /\ T \in SUBSET Nat
  BY CompMess
<1>2. PICK k \in T : \A h \in T : k <= h
  <2> HIDE DEF T
  <2> QED BY <1>1, LeastNumber
<1>3. \A h \in i + 1 .. k - 1 : SortsBefore(a[h], a[r])
  <2> SUFFICES ASSUME NEW h \in i + 1 .. k - 1, ~SortsBefore(a[h], a[r]) PROVE FALSE
    OBVIOUS
  <2>1. h \in T
    OBVIOUS
  <2> QED BY <1>2, <2>1
<1>4. k \in i + 1 .. r /\ ~SortsBefore(a[k], a[r])
  OBVIOUS
<1> HIDE DEF T
<1> QED BY <1>3, <1>4 DEF ScanUp

(* The downward scan stops inside of the range or in front of it.           *)
LEMMA ScanDownIs ==
  ASSUME NEW n \in Nat, NEW a \in [0 .. n - 1 -> Entry],
         NEW l \in 0 .. n - 1, NEW r \in 0 .. n - 1, NEW j \in l .. r
  PROVE  /\ ScanDown(a, l, r, j) \in l - 1 .. j - 1
         /\ ScanDown(a, l, r, j) # l - 1 => ~SortsBefore(a[r], a[ScanDown(a, l, r, j)])
         /\ \A h \in ScanDown(a, l, r, j) + 1 .. j - 1 : SortsBefore(a[r], a[h])
<1> DEFINE Ends(k) == k = l - 1 \/ ~SortsBefore(a[r], a[k])
           T == {d \in Nat : j - 1 - d \in l - 1 .. j - 1 /\ Ends(j - 1 - d)}
<1>1. j - l \in T /\ T \in SUBSET Nat
  OBVIOUS
<1>2. PICK d \in T : \A h \in T : d <= h
  <2> HIDE DEF T
  <2> QED BY <1>1, LeastNumber
<1> DEFINE k == j - 1 - d
<1>3. \A h \in k + 1 .. j - 1 : SortsBefore(a[r], a[h])
  <2> SUFFICES ASSUME NEW h \in k + 1 .. j - 1, ~SortsBefore(a[r], a[h]) PROVE FALSE
    OBVIOUS
  <2>1. j - 1 - h \in Nat /\ j - 1 - (j - 1 - h) = h /\ h \in l - 1 .. j - 1 /\ j - 1 - h < d
    OBVIOUS
  <2>2. j - 1 - h \in T
    BY <2>1
  <2> QED BY <1>2, <2>1, <2>2
<1>4. k \in l - 1 .. j - 1 /\ (k = l - 1 \/ ~SortsBefore(a[r], a[k]))
  OBVIOUS
<1> HIDE DEF T, k, Ends
<1> QED BY <1>3, <1>4 DEF ScanDown

(* The loop of _tk_quicksort.                                               *)
LoopStates(array, l, r) == [arr : Arrays(array), i : l - 1 .. r - 1, j : l .. r]
Up(s, r) == ScanUp(s.arr, r, s.i)
Down(s, l, r) == ScanDown(s.arr, l, r, s.j)
After(s, l, r) ==
  [arr |-> _swap(s.arr, Up(s, r), Down(s, l, r)), i |-> Up(s, r), j |-> Down(s, l, r)]
LoopTurn(f, l, r, s) ==
  IF Up(s, r) >= Down(s, l, r) THEN [arr |-> _swap(s.arr, Up(s, r), r), pivot |-> Up(s, r)]
  ELSE f[After(s, l, r)]

(* Arrays(array) is closed under swaps.                                     *)
LEMMA ArraysAre ==
  ASSUME NEW n \in Nat, NEW array \in [0 .. n - 1 -> Entry]
  PROVE  /\ array \in Arrays(array)
         /\ \A b \in Arrays(array) : b \in [0 .. n - 1 -> Entry] /\ Arrays(b) \subseteq Arrays(array)
         /\ \A b \in Arrays(array), i, j \in 0 .. n - 1 : _swap(b, i, j) \in Arrays(array)
<1> DEFINE R == {array[k] : k \in 0 .. n - 1}
<1>1. Arrays(array) = [0 .. n - 1 -> R] /\ R \subseteq Entry /\ array \in [0 .. n - 1 -> R]
  BY DEF Arrays
<1>2. ASSUME NEW b \in [0 .. n - 1 -> R]
      PROVE  /\ Arrays(b) \subseteq [0 .. n - 1 -> R]
             /\ \A i, j \in 0 .. n - 1 : _swap(b, i, j) \in [0 .. n - 1 -> R]
  <2> HIDE DEF R
  <2>1. Arrays(b) = [0 .. n - 1 -> {b[k] : k \in 0 .. n - 1}]
    BY <1>2 DEF Arrays
  <2>2. {b[k] : k \in 0 .. n - 1} \subseteq R
    BY <1>2
  <2> QED BY <1>2, <2>1, <2>2, SwapIs
<1> HIDE DEF R
<1> QED BY <1>1, <1>2

LEMMA SwapStays ==
  ASSUME NEW n \in Nat, NEW array \in [0 .. n - 1 -> Entry],
         NEW i \in 0 .. n - 1, NEW j \in 0 .. n - 1
  PROVE  _swap(array, i, j) \in Arrays(array)
BY ArraysAre

(* What the two scans of one turn find, and the state after it.             *)
LEMMA TurnIs ==
  ASSUME NEW n \in Nat, NEW array \in [0 .. n - 1 -> Entry],
         NEW l \in 0 .. n - 1, NEW r \in 0 .. n - 1, l <= r,
         NEW s \in LoopStates(array, l, r)
  PROVE  /\ s.arr \in [0 .. n - 1 -> Entry] /\ s.i \in l - 1 .. r - 1 /\ s.j \in l .. r
         /\ Up(s, r) \in s.i + 1 .. r /\ Down(s, l, r) \in l - 1 .. s.j - 1 /\ Up(s, r) \in l .. r
         /\ ~SortsBefore(s.arr[Up(s, r)], s.arr[r])
         /\ \A h \in s.i + 1 .. Up(s, r) - 1 : SortsBefore(s.arr[h], s.arr[r])
         /\ Down(s, l, r) # l - 1 => ~SortsBefore(s.arr[r], s.arr[Down(s, l, r)])
         /\ \A h \in Down(s, l, r) + 1 .. s.j - 1 : SortsBefore(s.arr[r], s.arr[h])
         /\ _swap(s.arr, Up(s, r), r) \in Arrays(array)
         /\ Up(s, r) < Down(s, l, r) => After(s, l, r) \in LoopStates(array, l, r)
<1> DEFINE up == Up(s, r)  down == Down(s, l, r)
<1>1. s.arr \in Arrays(array) /\ s.i \in l - 1 .. r - 1 /\ s.j \in l .. r
  BY DEF LoopStates
<1>2. s.arr \in [0 .. n - 1 -> Entry]
  BY <1>1, ArraysAre
<1>3. /\ up \in s.i + 1 .. r /\ ~SortsBefore(s.arr[up], s.arr[r])
      /\ \A h \in s.i + 1 .. up - 1 : SortsBefore(s.arr[h], s.arr[r])
  <2>1. s.i \in -1 .. r - 1
    BY <1>1
  <2> QED BY <1>2, <2>1, ScanUpIs DEF Up
<1>4. /\ down \in l - 1 .. s.j - 1 /\ (down # l - 1 => ~SortsBefore(s.arr[r], s.arr[down]))
      /\ \A h \in down + 1 .. s.j - 1 : SortsBefore(s.arr[r], s.arr[h])
  BY <1>1, <1>2, ScanDownIs DEF Down
<1> HIDE DEF up, down
<1>5. up \in l .. r /\ up \in 0 .. n - 1
  BY <1>1, <1>3
<1>6. _swap(s.arr, up, r) \in Arrays(array)
  BY <1>1, <1>5, ArraysAre
<1>7. ASSUME up < down PROVE After(s, l, r) \in LoopStates(array, l, r)
  <2>1. down \in 0 .. n - 1 /\ up \in l - 1 .. r - 1 /\ down \in l .. r
    BY <1>1, <1>3, <1>4, <1>5, <1>7
  <2>2. _swap(s.arr, up, down) \in Arrays(array)
    BY <1>1, <1>5, <2>1, ArraysAre
  <2>3. [arr |-> _swap(s.arr, up, down), i |-> up, j |-> down] \in LoopStates(array, l, r)
    BY <2>1, <2>2 DEF LoopStates
  <2> QED BY <2>3 DEF After, up, down
<1> QED BY <1>1, <1>2, <1>3, <1>4, <1>5, <1>6, <1>7 DEF up, down

(* The loop, as the recursive function that Parted chooses, exists.         *)
LEMMA LoopSolved ==
  ASSUME NEW n \in Nat, NEW array \in [0 .. n - 1 -> Entry],
         NEW l \in 0 .. n - 1, NEW r \in 0 .. n - 1, l <= r
  PROVE  \E f : /\ f = [s \in LoopStates(array, l, r) |-> LoopTurn(f, l, r, s)]
                /\ Parted(array, l, r) = f[[arr |-> array, i |-> l - 1, j |-> r]]
<1> DEFINE X == LoopStates(array, l, r)
           V == [arr : Arrays(array), pivot : l .. r]
           m == [s \in X |-> s.j - l]
           step == [f \in [X -> V] |-> [s \in X |-> LoopTurn(f, l, r, s)]]
           IsLoop(f) == f = [s \in X |-> LoopTurn(f, l, r, s)]
<1>1. m \in [X -> 0 .. r - l] /\ r - l \in Nat
  BY DEF LoopStates
<1>2. ASSUME NEW f \in [X -> V], NEW s \in X PROVE LoopTurn(f, l, r, s) \in V
  <2>1. /\ Up(s, r) \in l .. r /\ _swap(s.arr, Up(s, r), r) \in Arrays(array)
        /\ s.j \in l .. r /\ Down(s, l, r) \in l - 1 .. s.j - 1
        /\ Up(s, r) < Down(s, l, r) => After(s, l, r) \in X
    BY TurnIs
  <2> HIDE DEF X
  <2> QED BY <2>1 DEF LoopTurn
<1>3. step \in [[X -> V] -> [X -> V]]
  BY <1>2
<1>4. [X -> V] # {}
  <2>1. [arr |-> array, pivot |-> l] \in V
    BY ArraysAre
  <2>2. [s \in X |-> [arr |-> array, pivot |-> l]] \in [X -> V]
    BY <2>1
  <2> QED BY <2>2
<1>5. ASSUME NEW f \in [X -> V], NEW g \in [X -> V], NEW s \in X,
             \A y \in X : m[y] < m[s] => f[y] = g[y]
      PROVE  LoopTurn(f, l, r, s) = LoopTurn(g, l, r, s)
  <2> DEFINE next == After(s, l, r)
  <2>1. /\ s.j \in l .. r /\ Down(s, l, r) \in l - 1 .. s.j - 1 /\ Up(s, r) \in l .. r
        /\ Up(s, r) < Down(s, l, r) => next \in X
    BY TurnIs
  <2>2. next.j = Down(s, l, r)
    BY DEF After
  <2>3. Up(s, r) < Down(s, l, r) => m[next] < m[s]
    <3> SUFFICES ASSUME Up(s, r) < Down(s, l, r) PROVE m[next] < m[s]
      OBVIOUS
    <3>1. next \in X /\ s \in X
      BY <2>1
    <3> HIDE DEF X, next
    <3>2. m[next] = next.j - l /\ m[s] = s.j - l
      BY <3>1
    <3> HIDE DEF m
    <3>3. next.j < s.j /\ next.j \in Int /\ s.j \in Int /\ l \in Int
      BY <2>1, <2>2
    <3> QED BY <3>2, <3>3
  <2>4. Up(s, r) < Down(s, l, r) => f[next] = g[next]
    <3> HIDE DEF next, m, X
    <3> QED BY <1>5, <2>1, <2>3
  <2> QED BY <2>1, <2>4 DEF LoopTurn
<1>6. Descends(X, Maps(X, V), m, r - l, step)
  <2> SUFFICES \A f, g \in [X -> V], s \in X :
                 (\A y \in X : m[y] < m[s] => f[y] = g[y]) => step[f][s] = step[g][s]
    <3> HIDE DEF X, V, m, step
    <3> QED BY <1>1, <1>3, <1>4 DEF Descends, Maps
  <2>1. \A f \in [X -> V], s \in X : step[f][s] = LoopTurn(f, l, r, s)
    <3> HIDE DEF X, V
    <3> QED OBVIOUS
  <2> HIDE DEF X, V, m, step
  <2> QED BY <1>5, <2>1
<1>7. \E f \in [X -> V] : f = step[f]
  <2> HIDE DEF X, V, m, step, IsLoop
  <2>1. \E f \in Maps(X, V) : f = step[f]
    BY <1>6, RecursionSolved
  <2> QED BY <2>1 DEF Maps
<1>8. \E f : IsLoop(f)
  BY <1>7
<1> DEFINE h == CHOOSE f : IsLoop(f)
<1>9. IsLoop(h)
  BY <1>8
<1>10. Parted(array, l, r) = h[[arr |-> array, i |-> l - 1, j |-> r]]
  BY DEF Parted, LoopStates, LoopTurn, Up, Down, After
<1> HIDE DEF h
<1> QED BY <1>9, <1>10

(* What the loop keeps: the elements up to i do not sort behind the pivot,  *)
(* those from j on not before it; and what it leaves.                       *)
Scanned(s, l, r) ==
  /\ \A k \in l .. s.i : ~SortsBefore(s.arr[r], s.arr[k])
  /\ \A k \in s.j .. r : ~SortsBefore(s.arr[k], s.arr[r])
Divides(a, p, l, r) ==
  /\ p \in l .. r
  /\ \A k \in l .. p - 1 : ~SortsBefore(a[p], a[k])
  /\ \A k \in p + 1 .. r : ~SortsBefore(a[k], a[p])
PartedWell(a, parted, l, r) ==
  /\ parted.arr \in Arrays(a) /\ Rearranged(a, parted.arr, l, r)
  /\ Divides(parted.arr, parted.pivot, l, r)

LEMMA Asymmetric ==
  ASSUME NEW a \in Entry, NEW b \in Entry, SortsBefore(a, b)
  PROVE  ~SortsBefore(b, a)
BY CompMess

(* Where the scans have met, the last swap puts the pivot in its place.     *)
LEMMA TurnStops ==
  ASSUME NEW n \in Nat, NEW a \in [0 .. n - 1 -> Entry],
         NEW l \in 0 .. n - 1, NEW r \in 0 .. n - 1, l <= r,
         NEW i \in l - 1 .. r - 1, NEW j \in l .. r,
         NEW up \in i + 1 .. r, NEW down \in l - 1 .. j - 1, up \in l .. r, up >= down,
         \A k \in l .. i : ~SortsBefore(a[r], a[k]),
         \A k \in j .. r : ~SortsBefore(a[k], a[r]),
         ~SortsBefore(a[up], a[r]),
         \A h \in i + 1 .. up - 1 : SortsBefore(a[h], a[r]),
         \A h \in down + 1 .. j - 1 : SortsBefore(a[r], a[h])
  PROVE  Rearranged(a, _swap(a, up, r), l, r) /\ Divides(_swap(a, up, r), up, l, r)
<1> DEFINE b == _swap(a, up, r)
<1>1. /\ b[up] = a[r] /\ b[r] = a[up]
      /\ \A k \in 0 .. n - 1 : k # up /\ k # r => b[k] = a[k]
  BY DEF _swap
<1>2. Rearranged(a, b, l, r)
  <2>1. r \in l .. r
    OBVIOUS
  <2> QED BY <2>1, SwapRearranges
<1> HIDE DEF b
<1>3. \A k \in l .. r : a[k] \in Entry
  OBVIOUS
<1>4. ASSUME NEW k \in l .. up - 1 PROVE ~SortsBefore(b[up], b[k])
  <2>1. b[k] = a[k] /\ a[k] \in Entry /\ a[r] \in Entry
    BY <1>1, <1>3
  <2>2. CASE k <= i
    BY <1>1, <2>1, <2>2
  <2>3. CASE k > i
    <3>1. SortsBefore(a[k], a[r])
      BY <2>3
    <3> QED BY <1>1, <2>1, <3>1, Asymmetric
  <2> QED BY <2>2, <2>3
<1>5. ASSUME NEW k \in up + 1 .. r PROVE ~SortsBefore(b[k], b[up])
  <2>1. CASE k = r
    BY <1>1, <2>1
  <2>2. CASE k # r /\ k >= j
    BY <1>1, <2>2
  <2>3. CASE k # r /\ k < j
    <3>1. SortsBefore(a[r], a[k]) /\ b[k] = a[k] /\ a[k] \in Entry /\ a[r] \in Entry
      BY <1>1, <1>3, <2>3
    <3> QED BY <1>1, <3>1, Asymmetric
  <2> QED BY <2>1, <2>2, <2>3
<1> QED BY <1>2, <1>4, <1>5 DEF Divides, b

(* Otherwise the swap of the two elements found keeps what the loop has     *)
(* done.                                                                    *)
LEMMA TurnGoesOn ==
  ASSUME NEW n \in Nat, NEW a \in [0 .. n - 1 -> Entry],
         NEW l \in 0 .. n - 1, NEW r \in 0 .. n - 1, l <= r,
         NEW i \in l - 1 .. r - 1, NEW j \in l .. r,
         NEW up \in i + 1 .. r, NEW down \in l - 1 .. j - 1, up \in l .. r, up < down,
         \A k \in l .. i : ~SortsBefore(a[r], a[k]),
         \A k \in j .. r : ~SortsBefore(a[k], a[r]),
         ~SortsBefore(a[up], a[r]),
         \A h \in i + 1 .. up - 1 : SortsBefore(a[h], a[r]),
         ~SortsBefore(a[r], a[down]),
         \A h \in down + 1 .. j - 1 : SortsBefore(a[r], a[h])
  PROVE  /\ Rearranged(a, _swap(a, up, down), l, r)
         /\ \A k \in l .. up : ~SortsBefore(_swap(a, up, down)[r], _swap(a, up, down)[k])
         /\ \A k \in down .. r : ~SortsBefore(_swap(a, up, down)[k], _swap(a, up, down)[r])
<1> DEFINE b == _swap(a, up, down)
<1>1. /\ b[up] = a[down] /\ b[down] = a[up] /\ b[r] = a[r]
      /\ \A k \in 0 .. n - 1 : k # up /\ k # down => b[k] = a[k]
  BY DEF _swap
<1>2. Rearranged(a, b, l, r)
  <2>1. down \in l .. r
    OBVIOUS
  <2> QED BY <2>1, SwapRearranges
<1> HIDE DEF b
<1>3. \A k \in l .. r : a[k] \in Entry
  OBVIOUS
<1>4. ASSUME NEW k \in l .. up PROVE ~SortsBefore(b[r], b[k])
  <2>1. CASE k = up
    BY <1>1, <2>1
  <2>2. CASE k # up /\ k <= i
    BY <1>1, <2>2
  <2>3. CASE k # up /\ k > i
    <3>1. SortsBefore(a[k], a[r]) /\ b[k] = a[k] /\ a[k] \in Entry /\ a[r] \in Entry
      BY <1>1, <1>3, <2>3
    <3> QED BY <1>1, <3>1, Asymmetric
  <2> QED BY <2>1, <2>2, <2>3
<1>5. ASSUME NEW k \in down .. r PROVE ~SortsBefore(b[k], b[r])
  <2>1. CASE k = down
    BY <1>1, <2>1
  <2>2. CASE k # down /\ k >= j
    BY <1>1, <2>2
  <2>3. CASE k # down /\ k < j
    <3>1. SortsBefore(a[r], a[k]) /\ b[k] = a[k] /\ a[k] \in Entry /\ a[r] \in Entry
      BY <1>1, <1>3, <2>3
    <3> QED BY <1>1, <3>1, Asymmetric
  <2> QED BY <2>1, <2>2, <2>3
<1> QED BY <1>2, <1>4, <1>5 DEF b

(* By the distance from j to the left end: the loop leaves what it should.  *)
LEMMA LoopEnds ==
  ASSUME NEW n \in Nat, NEW array \in [0 .. n - 1 -> Entry],
         NEW l \in 0 .. n - 1, NEW r \in 0 .. n - 1, l <= r,
         NEW f, f = [s \in LoopStates(array, l, r) |-> LoopTurn(f, l, r, s)],
         NEW s0 \in LoopStates(array, l, r), Scanned(s0, l, r)
  PROVE  PartedWell(s0.arr, f[s0], l, r)
<1> DEFINE X == LoopStates(array, l, r)
           Bad == {s \in X : Scanned(s, l, r) /\ ~PartedWell(s.arr, f[s], l, r)}
           T == {s.j - l : s \in Bad}
<1> SUFFICES ASSUME Bad # {} PROVE FALSE
  OBVIOUS
<1>1. \A s \in X : s.arr \in Arrays(array) /\ s.i \in l - 1 .. r - 1 /\ s.j \in l .. r
  BY DEF LoopStates
<1> HIDE DEF X
<1>2. T \in SUBSET Nat /\ T # {}
  <2>1. \A s \in Bad : s \in X
    OBVIOUS
  <2> HIDE DEF Bad
  <2>2. \A s \in Bad : s.j - l \in Nat
    BY <1>1, <2>1
  <2> QED BY <2>2
<1>3. PICK s \in Bad : \A x \in Bad : s.j - l <= x.j - l
  <2> HIDE DEF T
  <2>1. PICK t \in T : \A x \in T : t <= x
    BY <1>2, LeastNumber
  <2> QED BY <2>1 DEF T
<1> DEFINE a == s.arr
           up == Up(s, r)
           down == Down(s, l, r)
           next == After(s, l, r)
<1>4. s \in LoopStates(array, l, r) /\ Scanned(s, l, r) /\ ~PartedWell(a, f[s], l, r)
  BY DEF X
<1>5. f[s] = IF up >= down THEN [arr |-> _swap(a, up, r), pivot |-> up] ELSE f[next]
  BY <1>4, TurnIs DEF LoopTurn
<1>6. /\ a \in [0 .. n - 1 -> Entry] /\ s.i \in l - 1 .. r - 1 /\ s.j \in l .. r
      /\ up \in s.i + 1 .. r /\ down \in l - 1 .. s.j - 1 /\ up \in l .. r
      /\ ~SortsBefore(a[up], a[r])
      /\ \A h \in s.i + 1 .. up - 1 : SortsBefore(a[h], a[r])
      /\ down # l - 1 => ~SortsBefore(a[r], a[down])
      /\ \A h \in down + 1 .. s.j - 1 : SortsBefore(a[r], a[h])
      /\ up < down => next \in LoopStates(array, l, r)
  <2> HIDE DEF Bad, T
  <2> QED BY <1>4, TurnIs
<1>7. /\ \A k \in l .. s.i : ~SortsBefore(a[r], a[k])
      /\ \A k \in s.j .. r : ~SortsBefore(a[k], a[r])
  BY <1>4 DEF Scanned
<1>8. CASE up >= down
  <2> HIDE DEF up, down, a
  <2>1. Rearranged(a, _swap(a, up, r), l, r) /\ Divides(_swap(a, up, r), up, l, r)
    BY <1>6, <1>7, <1>8, TurnStops
  <2>2. _swap(a, up, r) \in Arrays(a)
    <3>1. up \in 0 .. n - 1
      BY <1>6
    <3> QED BY <1>6, <3>1, SwapStays
  <2> QED BY <1>4, <1>5, <1>8, <2>1, <2>2 DEF PartedWell
<1>9. CASE up < down
  <2>1. next \in LoopStates(array, l, r) /\ next.arr = _swap(a, up, down) /\ next.i = up /\ next.j = down
    BY <1>6, <1>9 DEF After
  <2> HIDE DEF up, down, a, next
  <2>2. /\ Rearranged(a, next.arr, l, r)
        /\ \A k \in l .. up : ~SortsBefore(next.arr[r], next.arr[k])
        /\ \A k \in down .. r : ~SortsBefore(next.arr[k], next.arr[r])
    <3>1. ~SortsBefore(a[r], a[down])
      BY <1>6, <1>9
    <3>2. /\ Rearranged(a, _swap(a, up, down), l, r)
          /\ \A k \in l .. up : ~SortsBefore(_swap(a, up, down)[r], _swap(a, up, down)[k])
          /\ \A k \in down .. r : ~SortsBefore(_swap(a, up, down)[k], _swap(a, up, down)[r])
      <4> HIDE DEF Bad, T
      <4> QED BY <1>6, <1>7, <1>9, <3>1, TurnGoesOn
    <3> QED BY <2>1, <3>2
  <2>3. Scanned(next, l, r)
    BY <2>1, <2>2 DEF Scanned
  <2>4. PartedWell(next.arr, f[next], l, r)
    <3>1. next.j - l < s.j - l
      BY <1>6, <2>1
    <3>2. next \notin Bad
      <4> HIDE DEF Bad
      <4>1. \A x \in Bad : x.j \in l .. r
        BY <1>1 DEF Bad
      <4> QED BY <1>3, <1>6, <3>1, <4>1
    <3> QED BY <2>1, <2>3, <3>2 DEF X
  <2>5. next.arr \in Arrays(a)
    <3>1. up \in 0 .. n - 1 /\ down \in 0 .. n - 1
      BY <1>6, <1>9
    <3> QED BY <1>6, <2>1, <3>1, SwapStays
  <2>6. Arrays(next.arr) \subseteq Arrays(a)
    BY <1>6, <2>5, ArraysAre
  <2>7. PartedWell(a, f[next], l, r)
    BY <2>2, <2>4, <2>6, RearrangedTwice DEF PartedWell
  <2> QED BY <1>4, <1>5, <1>6, <1>9, <2>7
<1> QED BY <1>6, <1>8, <1>9

(* Parted: nothing before the pivot belongs behind it, nothing behind it    *)
(* before it.                                                               *)
LEMMA PartedIs ==
  ASSUME NEW n \in Nat, NEW array \in [0 .. n - 1 -> Entry],
         NEW l \in 0 .. n - 1, NEW r \in 0 .. n - 1, l <= r
  PROVE  PartedWell(array, Parted(array, l, r), l, r)
<1>1. PICK f : /\ f = [s \in LoopStates(array, l, r) |-> LoopTurn(f, l, r, s)]
               /\ Parted(array, l, r) = f[[arr |-> array, i |-> l - 1, j |-> r]]
  BY LoopSolved
<1> DEFINE s == [arr |-> array, i |-> l - 1, j |-> r]
<1>2. s \in LoopStates(array, l, r) /\ s.arr = array
  BY ArraysAre DEF LoopStates
<1>3. Scanned(s, l, r)
  <2>1. array[r] \in Entry
    OBVIOUS
  <2> QED BY <2>1, CompMess DEF Scanned
<1> HIDE DEF s
<1>4. PartedWell(s.arr, f[s], l, r)
  BY <1>1, <1>2, <1>3, LoopEnds
<1> QED BY <1>1, <1>2, <1>4 DEF s

(* The recursion of _tk_quicksort.                                          *)
SortStates(array, n) == [arr : Arrays(array), l : 0 .. n - 1 + 1, r : 0 - 1 .. n - 1]
Parts(s) == Parted(s.arr, s.l, s.r)
Lower(s) == [arr |-> Parts(s).arr, l |-> s.l, r |-> Parts(s).pivot - 1]
Upper(f, s) == [arr |-> f[Lower(s)], l |-> Parts(s).pivot + 1, r |-> s.r]
SortTurn(f, s) == IF s.r <= s.l THEN s.arr ELSE f[Upper(f, s)]
Length(s) == IF s.r <= s.l THEN 0 ELSE s.r - s.l

InOrder(b, l, r) == \A i, k \in l .. r : i < k => ~SortsBefore(b[k], b[i])
SortedWell(a, b, l, r) == b \in Arrays(a) /\ Rearranged(a, b, l, r) /\ InOrder(b, l, r)

(* The two calls of the recursion work on smaller ranges of such arrays.    *)
LEMMA SortTurnIs ==
  ASSUME NEW n \in Nat, NEW array \in [0 .. n - 1 -> Entry],
         NEW s \in SortStates(array, n), s.l < s.r
  PROVE  /\ s.arr \in [0 .. n - 1 -> Entry] /\ s.arr \in Arrays(array)
         /\ s.l \in 0 .. n - 1 /\ s.r \in 0 .. n - 1
         /\ PartedWell(s.arr, Parts(s), s.l, s.r)
         /\ Lower(s) \in SortStates(array, n) /\ Length(Lower(s)) < Length(s)
         /\ \A f : f[Lower(s)] \in Arrays(array) =>
                     Upper(f, s) \in SortStates(array, n) /\ Length(Upper(f, s)) < Length(s)
<1>1. s.arr \in Arrays(array) /\ s.l \in 0 .. n - 1 /\ s.r \in 0 .. n - 1
  BY DEF SortStates
<1>2. s.arr \in [0 .. n - 1 -> Entry]
  BY <1>1, ArraysAre
<1>3. PartedWell(s.arr, Parts(s), s.l, s.r)
  BY <1>1, <1>2, PartedIs DEF Parts
<1>4. Parts(s).pivot \in s.l .. s.r /\ Parts(s).arr \in Arrays(s.arr)
  BY <1>3 DEF PartedWell, Divides
<1>5. Parts(s).arr \in Arrays(array)
  BY <1>1, <1>4, ArraysAre
<1>6. Lower(s) \in SortStates(array, n)
  BY <1>1, <1>4, <1>5 DEF Lower, SortStates
<1>7. Length(Lower(s)) < Length(s)
  <2>1. Lower(s).l = s.l /\ Lower(s).r = Parts(s).pivot - 1
    BY DEF Lower
  <2> QED BY <1>1, <1>4, <2>1 DEF Length
<1>8. ASSUME NEW f, f[Lower(s)] \in Arrays(array)
      PROVE  Upper(f, s) \in SortStates(array, n) /\ Length(Upper(f, s)) < Length(s)
  <2>1. Upper(f, s) \in SortStates(array, n)
    BY <1>1, <1>4, <1>8 DEF Upper, SortStates
  <2>2. Upper(f, s).l = Parts(s).pivot + 1 /\ Upper(f, s).r = s.r
    BY DEF Upper
  <2>3. Length(Upper(f, s)) < Length(s)
    BY <1>1, <1>4, <2>2 DEF Length
  <2> QED BY <2>1, <2>3
<1> QED BY <1>1, <1>2, <1>3, <1>6, <1>7, <1>8

(* The recursion of _tk_quicksort has a solution, and qsort is its value.   *)
LEMMA SortSolved ==
  ASSUME NEW n \in Nat, n > 0, NEW array \in [0 .. n - 1 -> Entry]
  PROVE  \E f : /\ f = [s \in SortStates(array, n) |-> SortTurn(f, s)]
                /\ qsort(array, n) = f[[arr |-> array, l |-> 0, r |-> n - 1]]
<1> DEFINE X == SortStates(array, n)
           V == Arrays(array)
           m == [s \in X |-> Length(s)]
           step == [f \in [X -> V] |-> [s \in X |-> SortTurn(f, s)]]
           IsSort(f) == f = [s \in X |-> SortTurn(f, s)]
<1>0. \A s \in X : s.arr \in V /\ s.l \in 0 .. n /\ s.r \in -1 .. n - 1
  BY DEF SortStates
<1>1. m \in [X -> 0 .. n]
  <2>1. \A s \in X : Length(s) \in 0 .. n
    <3> HIDE DEF X
    <3> QED BY <1>0 DEF Length
  <2> QED BY <2>1
<1>2. ASSUME NEW f \in [X -> V], NEW s \in X PROVE SortTurn(f, s) \in V
  <2>1. CASE s.l < s.r
    <3>1. Lower(s) \in X /\ (f[Lower(s)] \in V => Upper(f, s) \in X)
      BY <2>1, SortTurnIs
    <3> HIDE DEF X, V
    <3>2. Upper(f, s) \in X
      BY <3>1
    <3> QED BY <1>0, <2>1, <3>2 DEF SortTurn
  <2>2. CASE ~(s.l < s.r)
    <3> HIDE DEF X, V
    <3> QED BY <1>0, <2>2 DEF SortTurn
  <2> QED BY <2>1, <2>2
<1>3. step \in [[X -> V] -> [X -> V]]
  <2> HIDE DEF X, V
  <2> QED BY <1>2
<1>4. [X -> V] # {}
  <2>1. array \in V
    BY ArraysAre
  <2>2. [s \in X |-> array] \in [X -> V]
    BY <2>1
  <2> QED BY <2>2
<1>5. ASSUME NEW f \in [X -> V], NEW g \in [X -> V], NEW s \in X,
             \A y \in X : m[y] < m[s] => f[y] = g[y]
      PROVE  SortTurn(f, s) = SortTurn(g, s)
  <2>1. CASE s.l < s.r
    <3>1. /\ Lower(s) \in X /\ Length(Lower(s)) < Length(s)
          /\ f[Lower(s)] \in V => Upper(f, s) \in X /\ Length(Upper(f, s)) < Length(s)
      BY <2>1, SortTurnIs
    <3> HIDE DEF V
    <3>2. f[Lower(s)] = g[Lower(s)]
      <4> HIDE DEF X
      <4> QED BY <1>5, <3>1
    <3>3. Upper(f, s) = Upper(g, s)
      BY <3>2 DEF Upper
    <3>4. Upper(f, s) \in X /\ Length(Upper(f, s)) < Length(s)
      <4> HIDE DEF X
      <4> QED BY <3>1
    <3>5. f[Upper(f, s)] = g[Upper(f, s)]
      <4> HIDE DEF X
      <4> QED BY <1>5, <3>4
    <3> QED BY <3>3, <3>5 DEF SortTurn
  <2>2. CASE ~(s.l < s.r)
    <3> HIDE DEF X, V
    <3> QED BY <1>0, <2>2 DEF SortTurn
  <2> QED BY <2>1, <2>2
<1>6. Descends(X, Maps(X, V), m, n, step)
  <2> SUFFICES \A f, g \in [X -> V], s \in X :
                 (\A y \in X : m[y] < m[s] => f[y] = g[y]) => step[f][s] = step[g][s]
    <3> HIDE DEF X, V, m, step
    <3> QED BY <1>1, <1>3, <1>4 DEF Descends, Maps
  <2> QED BY <1>5
<1>7. \E f \in [X -> V] : f = step[f]
  <2> HIDE DEF X, V, m, step, IsSort
  <2>1. \E f \in Maps(X, V) : f = step[f]
    BY <1>6, RecursionSolved
  <2> QED BY <2>1 DEF Maps
<1> DEFINE h == CHOOSE f : IsSort(f)
<1>8. IsSort(h)
  BY <1>7
<1>9. qsort(array, n) = h[[arr |-> array, l |-> 0, r |-> n - 1]]
  BY DEF qsort, _tk_quicksort, SortStates, SortTurn, Parts, Lower, Upper
<1> HIDE DEF h
<1> QED BY <1>8, <1>9

(* A divided range whose two sides are in order is in order.                *)
LEMMA SortJoins ==
  ASSUME NEW n \in Nat, NEW a \in [0 .. n - 1 -> Entry],
         NEW l \in 0 .. n - 1, NEW r \in 0 .. n - 1, NEW p \in l .. r,
         NEW b \in [0 .. n - 1 -> Entry], NEW c \in [0 .. n - 1 -> Entry],
         Divides(a, p, l, r),
         Rearranged(a, b, l, p - 1), InOrder(b, l, p - 1),
         Rearranged(b, c, p + 1, r), InOrder(c, p + 1, r)
  PROVE  InOrder(c, l, r)
<1>1. /\ \A k \in 0 .. n - 1 : k \notin p + 1 .. r => c[k] = b[k]
      /\ \A k \in 0 .. n - 1 : k \notin l .. p - 1 => b[k] = a[k]
  BY DEF Rearranged
<1>2. c[p] = a[p]
  BY <1>1
<1>3. ASSUME NEW k \in l .. p - 1 PROVE ~SortsBefore(c[p], c[k]) /\ c[k] = b[k]
  <2>1. c[k] = b[k]
    BY <1>1
  <2>2. b[k] \in Part(a, l, p - 1)
    BY DEF Part, Rearranged
  <2>3. PICK h \in l .. p - 1 : b[k] = a[h]
    BY <2>2 DEF Part
  <2> QED BY <1>2, <2>1, <2>3 DEF Divides
<1>4. ASSUME NEW k \in p + 1 .. r PROVE ~SortsBefore(c[k], c[p])
  <2>1. c[k] \in Part(b, p + 1, r)
    BY DEF Part, Rearranged
  <2>2. PICK h \in p + 1 .. r : c[k] = b[h]
    BY <2>1 DEF Part
  <2>3. b[h] = a[h]
    BY <1>1
  <2> QED BY <1>2, <2>2, <2>3 DEF Divides
<1>5. ASSUME NEW i \in l .. r, NEW k \in l .. r, i < k PROVE ~SortsBefore(c[k], c[i])
  <2>1. CASE k <= p - 1
    BY <1>3, <1>5, <2>1 DEF InOrder
  <2>2. CASE k = p
    BY <1>3, <1>5, <2>2
  <2>3. CASE i = p
    BY <1>4, <1>5, <2>3
  <2>4. CASE i < p /\ p < k
    <3>1. ~SortsBefore(c[p], c[i]) /\ ~SortsBefore(c[k], c[p])
      BY <1>3, <1>4, <2>4
    <3>2. c[k] \in Entry /\ c[i] \in Entry /\ c[p] \in Entry
      OBVIOUS
    <3> QED BY <3>1, <3>2, CompMess
  <2>5. CASE i >= p + 1
    BY <1>5, <2>5 DEF InOrder
  <2> QED BY <2>1, <2>2, <2>3, <2>4, <2>5
<1> QED BY <1>5 DEF InOrder

LEMMA RearrangedSame ==
  ASSUME NEW a, NEW l, NEW r
  PROVE  Rearranged(a, a, l, r)
BY DEF Rearranged

(* By the length of the range: it is put in order.                          *)
LEMMA SortEnds ==
  ASSUME NEW n \in Nat, NEW array \in [0 .. n - 1 -> Entry],
         NEW f, f = [s \in SortStates(array, n) |-> SortTurn(f, s)],
         NEW s0 \in SortStates(array, n)
  PROVE  SortedWell(s0.arr, f[s0], s0.l, s0.r)
<1> DEFINE X == SortStates(array, n)
           Bad == {s \in X : ~SortedWell(s.arr, f[s], s.l, s.r)}
           T == {Length(s) : s \in Bad}
<1> SUFFICES ASSUME Bad # {} PROVE FALSE
  OBVIOUS
<1>1. \A s \in X : s.arr \in Arrays(array) /\ s.l \in 0 .. n /\ s.r \in -1 .. n - 1
  BY DEF SortStates
<1> HIDE DEF X
<1>2. T \in SUBSET Nat /\ T # {}
  <2>1. \A s \in Bad : s \in X
    OBVIOUS
  <2> HIDE DEF Bad
  <2>2. \A s \in Bad : Length(s) \in Nat
    BY <1>1, <2>1 DEF Length
  <2> QED BY <2>2
<1>3. PICK s \in Bad : \A x \in Bad : Length(s) <= Length(x)
  <2> HIDE DEF T
  <2>1. PICK t \in T : \A x \in T : t <= x
    BY <1>2, LeastNumber
  <2> QED BY <2>1 DEF T
<1>4. s \in X /\ ~SortedWell(s.arr, f[s], s.l, s.r)
  OBVIOUS
<1>5. ASSUME NEW x \in X, Length(x) < Length(s) PROVE SortedWell(x.arr, f[x], x.l, x.r)
  <2> SUFFICES ASSUME x \in Bad PROVE FALSE
    OBVIOUS
  <2>1. Length(s) <= Length(x)
    BY <1>3
  <2>2. Length(s) \in Nat /\ Length(x) \in Nat
    <3> HIDE DEF Bad, T
    <3> QED BY <1>1, <1>4 DEF Length
  <2> QED BY <1>5, <2>1, <2>2
<1> HIDE DEF Bad, T
<1>6. f[s] = SortTurn(f, s)
  BY <1>4 DEF X
<1>7. s.arr \in [0 .. n - 1 -> Entry] /\ s.arr \in Arrays(s.arr)
  BY <1>1, <1>4, ArraysAre
<1>8. CASE ~(s.l < s.r)
  <2>1. f[s] = s.arr
    BY <1>1, <1>4, <1>6, <1>8 DEF SortTurn
  <2>2. InOrder(s.arr, s.l, s.r)
    BY <1>1, <1>4, <1>8 DEF InOrder
  <2> QED BY <1>4, <1>7, <2>1, <2>2, RearrangedSame DEF SortedWell
<1>9. CASE s.l < s.r
  <2> DEFINE a == Parts(s).arr
             p == Parts(s).pivot
             b == f[Lower(s)]
             c == f[Upper(f, s)]
  <2>1. /\ s.arr \in Arrays(array)
        /\ s.l \in 0 .. n - 1 /\ s.r \in 0 .. n - 1
        /\ PartedWell(s.arr, Parts(s), s.l, s.r)
        /\ Lower(s) \in X /\ Length(Lower(s)) < Length(s)
        /\ b \in Arrays(array) => Upper(f, s) \in X /\ Length(Upper(f, s)) < Length(s)
    BY <1>4, <1>9, SortTurnIs DEF X
  <2>2. f[s] = c
    BY <1>1, <1>4, <1>6, <1>9 DEF SortTurn
  <2>3. SortedWell(a, b, s.l, p - 1)
    <3>1. Lower(s).arr = a /\ Lower(s).l = s.l /\ Lower(s).r = p - 1
      BY DEF Lower
    <3> HIDE DEF a, b, p
    <3> QED BY <1>5, <2>1, <3>1 DEF b
  <2>4. SortedWell(b, c, p + 1, s.r) \/ b \notin Arrays(array)
    <3>1. Upper(f, s).arr = b /\ Upper(f, s).l = p + 1 /\ Upper(f, s).r = s.r
      BY DEF Upper
    <3> HIDE DEF b, p
    <3> QED BY <1>5, <2>1, <3>1 DEF c
  <2> HIDE DEF a, b, c, p
  <2>5. a \in Arrays(s.arr) /\ Rearranged(s.arr, a, s.l, s.r) /\ Divides(a, p, s.l, s.r)
        /\ p \in s.l .. s.r
    BY <2>1 DEF PartedWell, Divides, a, p
  <2>6. a \in [0 .. n - 1 -> Entry] /\ b \in Arrays(s.arr) /\ b \in [0 .. n - 1 -> Entry]
    <3>1. a \in [0 .. n - 1 -> Entry] /\ Arrays(a) \subseteq Arrays(s.arr) /\ b \in Arrays(a)
      BY <1>7, <2>3, <2>5, ArraysAre DEF SortedWell
    <3> QED BY <1>7, <3>1, ArraysAre
  <2>7. SortedWell(b, c, p + 1, s.r)
    BY <1>7, <2>1, <2>4, <2>6, ArraysAre
  <2>8. c \in Arrays(s.arr) /\ c \in [0 .. n - 1 -> Entry]
    <3>1. c \in Arrays(b) /\ Arrays(b) \subseteq Arrays(s.arr)
      BY <1>7, <2>6, <2>7, ArraysAre DEF SortedWell
    <3> QED BY <1>7, <3>1, ArraysAre
  <2>9. InOrder(c, s.l, s.r)
    BY <2>1, <2>3, <2>5, <2>6, <2>7, <2>8, SortJoins DEF SortedWell
  <2>10. Rearranged(s.arr, c, s.l, s.r)
    <3>1. /\ s.l .. s.r \subseteq DOMAIN a /\ s.l .. s.r \subseteq DOMAIN b
          /\ p - 1 <= s.r /\ s.l <= p + 1 /\ s.l <= s.l /\ s.r <= s.r
          /\ s.l \in Int /\ s.r \in Int /\ p - 1 \in Int /\ p + 1 \in Int
      BY <2>1, <2>5, <2>6
    <3>2. Rearranged(a, b, s.l, s.r)
      BY <2>3, <3>1, RearrangedWithin DEF SortedWell
    <3>3. Rearranged(b, c, s.l, s.r)
      BY <2>7, <3>1, RearrangedWithin DEF SortedWell
    <3> QED BY <2>5, <3>2, <3>3, RearrangedTwice
  <2> QED BY <1>4, <2>2, <2>8, <2>9, <2>10 DEF SortedWell
<1> QED BY <1>8, <1>9

(* qsort puts the array in order and loses nothing.                         *)
THEOREM QsortSorts ==
  ASSUME NEW n \in Nat, n > 0, NEW array \in [0 .. n - 1 -> Entry]
  PROVE  SortedWell(array, qsort(array, n), 0, n - 1)
<1>1. PICK f : /\ f = [s \in SortStates(array, n) |-> SortTurn(f, s)]
               /\ qsort(array, n) = f[[arr |-> array, l |-> 0, r |-> n - 1]]
  BY SortSolved
<1> DEFINE s == [arr |-> array, l |-> 0, r |-> n - 1]
<1>2. s \in SortStates(array, n) /\ s.arr = array /\ s.l = 0 /\ s.r = n - 1
  BY ArraysAre DEF SortStates
<1> HIDE DEF s
<1>3. SortedWell(s.arr, f[s], s.l, s.r)
  BY <1>1, <1>2, SortEnds
<1> QED BY <1>1, <1>2, <1>3 DEF s

-----------------------------------------------------------------------------
(* The ring, from its first unread message on.                              *)
LEMMA Remainder ==
  ASSUME NEW b \in 0 .. MaxMsg - 1
  PROVE  /\ b % MaxMsg = b /\ (b + MaxMsg) % MaxMsg = b /\ (b - MaxMsg) % MaxMsg = b
<1>1. MaxMsg \in Nat /\ MaxMsg > 0
  BY MqAssumption
<1>2. b % MaxMsg = b
  BY <1>1
<1>3. (b + MaxMsg) % MaxMsg = b
  BY <1>1
<1>4. (b - MaxMsg) % MaxMsg = b
  BY <1>1
<1> QED BY <1>2, <1>3, <1>4

Nth(out, k) == (out + k) % MaxMsg
Place(out, i) == (i - out) % MaxMsg

(* The k-th cell from out on, and its way back.                             *)
LEMMA NthIs ==
  ASSUME NEW out \in Cells, NEW k \in Cells
  PROVE  /\ Nth(out, k) = IF out + k < MaxMsg THEN out + k ELSE out + k - MaxMsg
         /\ Nth(out, k) \in Cells /\ Place(out, Nth(out, k)) = k
<1>1. MaxMsg \in Nat /\ MaxMsg > 0 /\ out \in 0 .. MaxMsg - 1 /\ k \in 0 .. MaxMsg - 1
  BY MqAssumption DEF Cells
<1>2. CASE out + k < MaxMsg
  <2>1. out + k \in 0 .. MaxMsg - 1
    BY <1>1, <1>2
  <2>2. Nth(out, k) = out + k
    BY <2>1, Remainder DEF Nth
  <2>3. out + k - out = k
    BY <1>1
  <2>4. Place(out, out + k) = k
    BY <1>1, <2>3, Remainder DEF Place
  <2> QED BY <1>2, <2>1, <2>2, <2>4 DEF Cells
<1>3. CASE ~(out + k < MaxMsg)
  <2> DEFINE b == out + k - MaxMsg
  <2>1. b \in 0 .. MaxMsg - 1 /\ b + MaxMsg = out + k
    BY <1>1, <1>3
  <2>2. Nth(out, k) = b
    BY <2>1, Remainder DEF Nth
  <2>3. b - out = k - MaxMsg
    BY <1>1
  <2>4. Place(out, b) = k
    BY <1>1, <2>3, Remainder DEF Place
  <2> QED BY <1>3, <2>1, <2>2, <2>4 DEF Cells
<1> QED BY <1>2, <1>3

LEMMA PlaceIs ==
  ASSUME NEW out \in Cells, NEW i \in Cells
  PROVE  Place(out, i) \in Cells /\ Nth(out, Place(out, i)) = i
<1>1. MaxMsg \in Nat /\ MaxMsg > 0 /\ out \in 0 .. MaxMsg - 1 /\ i \in 0 .. MaxMsg - 1
  BY MqAssumption DEF Cells
<1>2. CASE i >= out
  <2>1. i - out \in 0 .. MaxMsg - 1 /\ out + (i - out) = i
    BY <1>1, <1>2
  <2>2. Place(out, i) = i - out
    BY <2>1, Remainder DEF Place
  <2>3. (out + (i - out)) % MaxMsg = i
    BY <1>1, <2>1, Remainder
  <2> QED BY <2>1, <2>2, <2>3 DEF Cells, Nth
<1>3. CASE i < out
  <2> DEFINE b == i - out + MaxMsg
  <2>1. b \in 0 .. MaxMsg - 1 /\ b - MaxMsg = i - out /\ out + b = i + MaxMsg
    BY <1>1, <1>3
  <2>2. Place(out, i) = b
    BY <2>1, Remainder DEF Place
  <2>3. (out + b) % MaxMsg = i
    BY <1>1, <2>1, Remainder
  <2> QED BY <2>1, <2>2, <2>3 DEF Cells, Nth
<1> QED BY <1>1, <1>2, <1>3

Unrolled(array, out, n) == [k \in 0 .. n - 1 |-> array[Nth(out, k)]]

(* sortByPrio puts the n messages from out on in order and loses none.      *)
LEMMA SortedIs ==
  ASSUME NEW array \in [Cells -> Entry], NEW out \in Cells, NEW n \in 1 .. MaxMsg
  PROVE  /\ Sorted(array, out, n) \in [Cells -> Entry]
         /\ Unrolled(array, out, n) \in [0 .. n - 1 -> Entry]
         /\ SortedWell(Unrolled(array, out, n), Unrolled(Sorted(array, out, n), out, n), 0, n - 1)
<1> DEFINE a == Unrolled(array, out, n)
           b == qsort(a, n)
           c == Sorted(array, out, n)
<1>0. n \in Nat /\ n > 0 /\ \A k \in 0 .. n - 1 : k \in Cells
  BY MqAssumption DEF Cells
<1>1. a \in [0 .. n - 1 -> Entry]
  BY <1>0, NthIs DEF Unrolled
<1>2. SortedWell(a, b, 0, n - 1)
  <2> HIDE DEF a
  <2> QED BY <1>0, <1>1, QsortSorts
<1>3. b \in [0 .. n - 1 -> Entry]
  <2> HIDE DEF a
  <2> QED BY <1>0, <1>1, <1>2, ArraysAre DEF SortedWell
<1>4. c = [i \in Cells |-> IF Place(out, i) < n THEN b[Place(out, i)] ELSE array[i]]
  BY DEF Sorted, Unrolled, Nth, Place
<1> HIDE DEF b, c, a
<1>5. c \in [Cells -> Entry]
  <2> SUFFICES ASSUME NEW i \in Cells, Place(out, i) < n PROVE b[Place(out, i)] \in Entry
    BY <1>4
  <2>1. Place(out, i) \in 0 .. n - 1
    <3>1. Place(out, i) \in Nat
      BY PlaceIs, MqAssumption DEF Cells
    <3> QED BY <1>0, <3>1
  <2> QED BY <1>3, <2>1
<1>6. ASSUME NEW k \in 0 .. n - 1 PROVE c[Nth(out, k)] = b[k]
  <2>1. Nth(out, k) \in Cells /\ Place(out, Nth(out, k)) = k
    BY <1>0, NthIs
  <2> QED BY <1>0, <1>4, <2>1
<1>7. Unrolled(c, out, n) = b
  BY <1>3, <1>6 DEF Unrolled
<1> QED BY <1>1, <1>2, <1>5, <1>7 DEF a, c

(* What the unread part of the ring holds: messages with different numbers  *)
(* of arrival below the next one, in order.                                 *)
Written == [msg : Msgs, prio : MsgPrios, inOrder : Nat]
Holds(u, n, top) ==
  /\ \A k \in 0 .. n - 1 : u[k] \in Written /\ u[k].inOrder < top
  /\ \A i, k \in 0 .. n - 1 : u[i].inOrder = u[k].inOrder => i = k
  /\ InOrder(u, 0, n - 1)

(* One message more, with the next number of arrival, and sorted.           *)
LEMMA HoldsMore ==
  ASSUME NEW n \in Nat, NEW top \in Nat, NEW u, Holds(u, n, top),
         NEW v \in [0 .. n -> Entry], NEW w \in [0 .. n -> Entry],
         \A k \in 0 .. n - 1 : v[k] = u[k], v[n] \in Written, v[n].inOrder = top,
         SortedWell(v, w, 0, n)
  PROVE  /\ Holds(w, n + 1, top + 1)
         /\ Part(w, 0, n) = Part(u, 0, n - 1) \cup {v[n]}
<1>1. \A k \in 0 .. n : v[k] \in Written /\ v[k].inOrder < top + 1 /\ v[k].inOrder \in Nat
  <2> SUFFICES ASSUME NEW k \in 0 .. n
               PROVE  v[k] \in Written /\ v[k].inOrder < top + 1 /\ v[k].inOrder \in Nat
    OBVIOUS
  <2>1. v[k] \in Written /\ (v[k].inOrder < top \/ v[k].inOrder = top)
    BY DEF Holds
  <2>2. v[k].inOrder \in Nat
    BY <2>1 DEF Written
  <2> QED BY <2>1, <2>2
<1>2. ASSUME NEW i \in 0 .. n, NEW k \in 0 .. n, v[i].inOrder = v[k].inOrder PROVE i = k
  <2>1. CASE i = n \/ k = n
    <3>1. \A h \in 0 .. n - 1 : v[h].inOrder < top /\ v[h].inOrder \in Nat
      BY <1>1 DEF Holds
    <3> QED BY <1>2, <2>1, <3>1
  <2>2. CASE i # n /\ k # n
    BY <1>2, <2>2 DEF Holds
  <2> QED BY <2>1, <2>2
<1>3. Unlike(v) /\ DOMAIN v = 0 .. n
  BY <1>2 DEF Unlike
<1>4. /\ Unlike(w) /\ DOMAIN w = 0 .. n /\ Part(w, 0, n) = Part(v, 0, n)
      /\ InOrder(w, 0, n + 1 - 1)
  <2>1. n + 1 - 1 = n
    OBVIOUS
  <2> QED BY <1>3, <2>1 DEF SortedWell, Rearranged
<1>5. \A k \in 0 .. n : \E h \in 0 .. n : w[k] = v[h]
  <2> SUFFICES ASSUME NEW k \in 0 .. n PROVE \E h \in 0 .. n : w[k] = v[h]
    OBVIOUS
  <2>1. w[k] \in Part(v, 0, n)
    BY <1>4 DEF Part
  <2> QED BY <2>1 DEF Part
<1>6. \A k \in 0 .. n + 1 - 1 : w[k] \in Written /\ w[k].inOrder < top + 1
  <2> SUFFICES ASSUME NEW k \in 0 .. n PROVE w[k] \in Written /\ w[k].inOrder < top + 1
    OBVIOUS
  <2>1. PICK h \in 0 .. n : w[k] = v[h]
    BY <1>5
  <2> QED BY <1>1, <2>1
<1>7. \A i, k \in 0 .. n + 1 - 1 : w[i].inOrder = w[k].inOrder => i = k
  <2> SUFFICES ASSUME NEW i \in 0 .. n, NEW k \in 0 .. n, w[i].inOrder = w[k].inOrder
               PROVE  i = k
    OBVIOUS
  <2>1. PICK x \in 0 .. n : w[i] = v[x]
    BY <1>5
  <2>2. PICK y \in 0 .. n : w[k] = v[y]
    BY <1>5
  <2>3. x = y
    BY <2>1, <2>2, <1>2
  <2> QED BY <2>1, <2>2, <2>3, <1>4 DEF Unlike
<1>8. Part(v, 0, n) = Part(u, 0, n - 1) \cup {v[n]}
  <2>1. \A x : x \in Part(v, 0, n) <=> \E k \in 0 .. n : x = v[k]
    BY DEF Part
  <2>2. \A x : x \in Part(u, 0, n - 1) <=> \E k \in 0 .. n - 1 : x = u[k]
    BY DEF Part
  <2>3. \A k : k \in 0 .. n <=> k \in 0 .. n - 1 \/ k = n
    OBVIOUS
  <2> QED BY <2>1, <2>2, <2>3
<1> QED BY <1>4, <1>6, <1>7, <1>8 DEF Holds

(* The first message taken.                                                 *)
LEMMA HoldsLess ==
  ASSUME NEW n \in Nat, n > 0, NEW top \in Nat, NEW u, Holds(u, n, top), NEW w,
         \A k \in 0 .. n - 2 : w[k] = u[k + 1]
  PROVE  /\ Holds(w, n - 1, top)
         /\ Part(w, 0, n - 2) = Part(u, 0, n - 1) \ {u[0]}
<1>1. \A k \in 0 .. n - 2 : k + 1 \in 0 .. n - 1
  OBVIOUS
<1>2. \A k \in 0 .. n - 1 - 1 : w[k] \in Written /\ w[k].inOrder < top
  BY <1>1 DEF Holds
<1>3. ASSUME NEW i \in 0 .. n - 1 - 1, NEW k \in 0 .. n - 1 - 1, w[i].inOrder = w[k].inOrder
      PROVE  i = k
  <2>1. u[i + 1].inOrder = u[k + 1].inOrder /\ i + 1 \in 0 .. n - 1 /\ k + 1 \in 0 .. n - 1
    BY <1>3
  <2>2. i + 1 = k + 1
    BY <2>1 DEF Holds
  <2> QED BY <2>2
<1>4. InOrder(w, 0, n - 1 - 1)
  <2> SUFFICES ASSUME NEW i \in 0 .. n - 1 - 1, NEW k \in 0 .. n - 1 - 1, i < k
               PROVE  ~SortsBefore(w[k], w[i])
    BY DEF InOrder
  <2>1. i + 1 \in 0 .. n - 1 /\ k + 1 \in 0 .. n - 1 /\ i + 1 < k + 1
    OBVIOUS
  <2>2. w[i] = u[i + 1] /\ w[k] = u[k + 1]
    OBVIOUS
  <2> QED BY <2>1, <2>2 DEF Holds, InOrder
<1>5. \A x : x \in Part(w, 0, n - 2) <=> \E k \in 0 .. n - 2 : x = u[k + 1]
  BY DEF Part
<1>6. \A x : x \in Part(u, 0, n - 1) <=> \E k \in 0 .. n - 1 : x = u[k]
  BY DEF Part
<1>7. \A k \in 0 .. n - 1 : u[k] = u[0] => k = 0
  BY DEF Holds
<1>8. Part(w, 0, n - 2) \subseteq Part(u, 0, n - 1) \ {u[0]}
  BY <1>1, <1>5, <1>6, <1>7
<1>9. Part(u, 0, n - 1) \ {u[0]} \subseteq Part(w, 0, n - 2)
  <2> SUFFICES ASSUME NEW k \in 0 .. n - 1, k # 0 PROVE \E h \in 0 .. n - 2 : u[k] = u[h + 1]
    BY <1>5, <1>6
  <2>1. k - 1 \in 0 .. n - 2 /\ k - 1 + 1 = k
    OBVIOUS
  <2> QED BY <2>1
<1> QED BY <1>2, <1>3, <1>4, <1>8, <1>9 DEF Holds

(* The messages by the time of their arrival: there is one such list.       *)
ByAge(s, n, S) ==
  /\ {s[k] : k \in 1 .. n} = S
  /\ \A i, k \in 1 .. n : i < k => s[i].inOrder < s[k].inOrder

LEMMA OneList ==
  ASSUME NEW n \in Nat, NEW S, \A c \in S : c.inOrder \in Nat,
         NEW s \in [1 .. n -> S], NEW t \in [1 .. n -> S], ByAge(s, n, S), ByAge(t, n, S)
  PROVE  s = t
<1> DEFINE T == {k \in Nat : k \in 1 .. n /\ s[k] # t[k]}
<1>1. SUFFICES ASSUME T # {} PROVE FALSE
  <2> SUFFICES \A k \in 1 .. n : s[k] = t[k]
    OBVIOUS
  <2> QED BY <1>1
<1>2. PICK k \in T : \A x \in T : k <= x
  <2>1. T \in SUBSET Nat
    OBVIOUS
  <2> HIDE DEF T
  <2> QED BY <1>1, <2>1, LeastNumber
<1>3. k \in 1 .. n /\ s[k] # t[k] /\ \A x \in 1 .. k - 1 : s[x] = t[x]
  <2>1. k \in 1 .. n /\ s[k] # t[k]
    OBVIOUS
  <2>2. ASSUME NEW x \in 1 .. k - 1, s[x] # t[x] PROVE FALSE
    <3>1. x \in T /\ x < k
      BY <2>1, <2>2
    <3> QED BY <1>2, <3>1
  <2> QED BY <2>1, <2>2
<1> HIDE DEF T
<1>4. /\ \A i, j \in 1 .. n : i < j => s[i].inOrder < s[j].inOrder
      /\ \A i, j \in 1 .. n : i < j => t[i].inOrder < t[j].inOrder
      /\ \A i \in 1 .. n : s[i].inOrder \in Nat /\ t[i].inOrder \in Nat
      /\ \A i \in 1 .. n : \E j \in 1 .. n : s[i] = t[j]
      /\ \A i \in 1 .. n : \E j \in 1 .. n : t[i] = s[j]
  <2>1. /\ \A x \in S : \E j \in 1 .. n : x = t[j]
        /\ \A x \in S : \E j \in 1 .. n : x = s[j]
    BY DEF ByAge
  <2> QED BY <2>1 DEF ByAge
<1>5. PICK j \in 1 .. n : s[k] = t[j]
  BY <1>3, <1>4
<1>6. PICK i \in 1 .. n : t[k] = s[i]
  BY <1>3, <1>4
<1>7. j > k
  <2>1. j # k
    BY <1>3, <1>5
  <2>2. ASSUME j < k PROVE FALSE
    <3>1. s[j] = s[k]
      BY <1>3, <1>5, <2>2
    <3>2. s[j].inOrder < s[k].inOrder /\ s[j].inOrder \in Nat
      BY <1>3, <1>4, <2>2
    <3> QED BY <3>1, <3>2
  <2> QED BY <1>3, <2>1, <2>2
<1>8. i > k
  <2>1. i # k
    BY <1>3, <1>6
  <2>2. ASSUME i < k PROVE FALSE
    <3>1. t[i] = t[k]
      BY <1>3, <1>6, <2>2
    <3>2. t[i].inOrder < t[k].inOrder /\ t[i].inOrder \in Nat
      BY <1>3, <1>4, <2>2
    <3> QED BY <3>1, <3>2
  <2> QED BY <1>3, <2>1, <2>2
<1>9. s[k].inOrder < s[i].inOrder /\ t[k].inOrder < t[j].inOrder
  BY <1>3, <1>4, <1>7, <1>8
<1>10. s[k].inOrder \in Nat /\ t[k].inOrder \in Nat
  BY <1>3, <1>4
<1> QED BY <1>5, <1>6, <1>9, <1>10

(* A newer message goes to the end of the list.                             *)
LEMMA ListMore ==
  ASSUME NEW n \in Nat, NEW S, NEW s \in [1 .. n -> S], ByAge(s, n, S),
         NEW c, \A x \in S : x.inOrder < c.inOrder
  PROVE  ByAge([k \in 1 .. n + 1 |-> IF k <= n THEN s[k] ELSE c], n + 1, S \cup {c})
<1> DEFINE t == [k \in 1 .. n + 1 |-> IF k <= n THEN s[k] ELSE c]
<1>1. (\A k \in 1 .. n : t[k] = s[k]) /\ t[n + 1] = c
  OBVIOUS
<1>2. {t[k] : k \in 1 .. n + 1} = {s[k] : k \in 1 .. n} \cup {c}
  <2>1. \A k : k \in 1 .. n + 1 <=> k \in 1 .. n \/ k = n + 1
    OBVIOUS
  <2> HIDE DEF t
  <2> QED BY <1>1, <2>1
<1> HIDE DEF t
<1>3. ASSUME NEW i \in 1 .. n + 1, NEW k \in 1 .. n + 1, i < k
      PROVE  t[i].inOrder < t[k].inOrder
  <2>1. CASE k <= n
    BY <1>1, <1>3, <2>1 DEF ByAge
  <2>2. CASE k = n + 1
    <3>1. i \in 1 .. n
      BY <1>3, <2>2
    <3>2. t[i] = s[i] /\ s[i] \in S /\ t[k] = c
      BY <1>1, <2>2, <3>1
    <3> QED BY <3>2
  <2> QED BY <2>1, <2>2
<1> QED BY <1>2, <1>3 DEF ByAge, t

(* A message leaves the list.                                               *)
LEMMA ListLess ==
  ASSUME NEW n \in Nat, NEW S, NEW s \in [1 .. n -> S], ByAge(s, n, S),
         \A x \in S : x.inOrder \in Nat, NEW q \in 1 .. n
  PROVE  ByAge([k \in 1 .. n - 1 |-> IF k < q THEN s[k] ELSE s[k + 1]], n - 1, S \ {s[q]})
<1> DEFINE t == [k \in 1 .. n - 1 |-> IF k < q THEN s[k] ELSE s[k + 1]]
           old(k) == IF k < q THEN k ELSE k + 1
<1>1. \A k \in 1 .. n - 1 : t[k] = s[old(k)] /\ old(k) \in 1 .. n /\ old(k) # q
  OBVIOUS
<1>2. \A k \in 1 .. n : k # q => \E h \in 1 .. n - 1 : old(h) = k
  <2> SUFFICES ASSUME NEW k \in 1 .. n, k # q PROVE \E h \in 1 .. n - 1 : old(h) = k
    OBVIOUS
  <2>1. CASE k < q
    <3>1. k \in 1 .. n - 1 /\ old(k) = k
      BY <2>1
    <3> QED BY <3>1
  <2>2. CASE k > q
    <3>1. k - 1 \in 1 .. n - 1 /\ old(k - 1) = k
      BY <2>2
    <3> QED BY <3>1
  <2> QED BY <2>1, <2>2
<1>3. \A i, k \in 1 .. n - 1 : i < k => old(i) < old(k)
  OBVIOUS
<1> HIDE DEF t, old
<1>4. \A i, k \in 1 .. n : s[i] = s[k] => i = k
  <2> SUFFICES ASSUME NEW i \in 1 .. n, NEW k \in 1 .. n, s[i] = s[k], i # k PROVE FALSE
    OBVIOUS
  <2>1. s[i].inOrder < s[k].inOrder \/ s[k].inOrder < s[i].inOrder
    BY DEF ByAge
  <2>2. s[i].inOrder \in Nat
    OBVIOUS
  <2> QED BY <2>1, <2>2
<1>5. {t[k] : k \in 1 .. n - 1} = {s[k] : k \in 1 .. n} \ {s[q]}
  <2>1. \A x : x \in {t[k] : k \in 1 .. n - 1} <=> \E k \in 1 .. n - 1 : x = t[k]
    OBVIOUS
  <2>2. \A x : x \in {s[k] : k \in 1 .. n} <=> \E k \in 1 .. n : x = s[k]
    OBVIOUS
  <2>3. \A x : x \in {t[k] : k \in 1 .. n - 1} => x \in {s[k] : k \in 1 .. n} \ {s[q]}
    BY <1>1, <1>4, <2>1, <2>2
  <2>4. \A x : x \in {s[k] : k \in 1 .. n} \ {s[q]} => x \in {t[k] : k \in 1 .. n - 1}
    BY <1>1, <1>2, <2>1, <2>2
  <2> QED BY <2>3, <2>4
<1>6. \A i, k \in 1 .. n - 1 : i < k => t[i].inOrder < t[k].inOrder
  BY <1>1, <1>3 DEF ByAge
<1> QED BY <1>5, <1>6 DEF ByAge, t

(* Arrived, of any n messages S that can be listed by age.                  *)
Listed(n, S) ==
  LET s == CHOOSE s \in [1 .. n -> S] : ByAge(s, n, S) IN [k \in 1 .. n |-> Abstract(s[k])]
Lists(s, n, S) ==
  n \in Nat /\ (\A c \in S : c.inOrder \in Nat) /\ s \in [1 .. n -> S] /\ ByAge(s, n, S)

(* Whatever list by age there is, it is the one Listed takes.               *)
LEMMA ListedIs ==
  ASSUME NEW n, NEW S, NEW s, Lists(s, n, S)
  PROVE  Listed(n, S) = [k \in 1 .. n |-> Abstract(s[k])]
<1> DEFINE t == CHOOSE t \in [1 .. n -> S] : ByAge(t, n, S)
<1>1. t \in [1 .. n -> S] /\ ByAge(t, n, S)
  BY DEF Lists
<1>2. Listed(n, S) = [k \in 1 .. n |-> Abstract(t[k])]
  BY DEF Listed
<1> HIDE DEF t
<1>3. t = s
  BY <1>1, OneList DEF Lists
<1> QED BY <1>2, <1>3

LEMMA FunctionIsSeq ==
  ASSUME NEW n \in Nat, NEW R, NEW f \in [1 .. n -> R]
  PROVE  f \in Seq(R) /\ Len(f) = n
<1>1. f \in Seq(R)
  BY SeqDef
<1> QED BY <1>1, LenProperties

(* RemoveAt, element by element.                                            *)
LEMMA RemoveAtIs ==
  ASSUME NEW R, NEW b \in Seq(R), NEW q \in 1 .. Len(b)
  PROVE  /\ RemoveAt(b, q) \in Seq(R) /\ Len(RemoveAt(b, q)) = Len(b) - 1
         /\ \A k \in 1 .. Len(b) - 1 : RemoveAt(b, q)[k] = IF k < q THEN b[k] ELSE b[k + 1]
<1> DEFINE x == SubSeq(b, 1, q - 1)
           y == SubSeq(b, q + 1, Len(b))
<1>1. Len(b) \in Nat /\ \A i \in 1 .. Len(b) : b[i] \in R
  BY LenProperties, ElementOfSeq
<1>2. x \in Seq(R) /\ Len(x) = q - 1 /\ \A i \in 1 .. q - 1 : x[i] = b[i]
  <2>1. \A i \in 1 .. q - 1 : b[i] \in R
    BY <1>1
  <2>2. /\ x \in Seq(R) /\ Len(x) = (IF 1 <= q - 1 THEN q - 1 - 1 + 1 ELSE 0)
        /\ \A i \in 1 .. q - 1 - 1 + 1 : x[i] = b[1 + i - 1]
    BY <2>1, SubSeqProperties
  <2> HIDE DEF x
  <2> QED BY <2>2
<1>3. y \in Seq(R) /\ Len(y) = Len(b) - q /\ \A i \in 1 .. Len(b) - q : y[i] = b[q + i]
  <2>1. \A i \in q + 1 .. Len(b) : b[i] \in R
    BY <1>1
  <2>2. /\ y \in Seq(R)
        /\ Len(y) = (IF q + 1 <= Len(b) THEN Len(b) - (q + 1) + 1 ELSE 0)
        /\ \A i \in 1 .. Len(b) - (q + 1) + 1 : y[i] = b[q + 1 + i - 1]
    BY <1>1, <2>1, SubSeqProperties
  <2> HIDE DEF y
  <2>3. Len(y) = Len(b) - q
    BY <1>1, <2>2
  <2>4. ASSUME NEW i \in 1 .. Len(b) - q PROVE y[i] = b[q + i]
    <3>1. i \in 1 .. Len(b) - (q + 1) + 1 /\ q + 1 + i - 1 = q + i
      BY <1>1
    <3> QED BY <2>2, <3>1
  <2> QED BY <2>2, <2>3, <2>4
<1> HIDE DEF x, y
<1>4. RemoveAt(b, q) = x \o y
  BY DEF RemoveAt, x, y
<1>5. /\ x \o y \in Seq(R) /\ Len(x \o y) = Len(x) + Len(y)
      /\ \A i \in 1 .. Len(x) + Len(y) : (x \o y)[i] = IF i <= Len(x) THEN x[i] ELSE y[i - Len(x)]
  BY <1>2, <1>3, ConcatProperties
<1>6. ASSUME NEW k \in 1 .. Len(b) - 1
      PROVE  (x \o y)[k] = IF k < q THEN b[k] ELSE b[k + 1]
  <2>1. k \in 1 .. Len(x) + Len(y) /\ (k <= Len(x) <=> k < q)
    BY <1>1, <1>2, <1>3
  <2>2. CASE k < q
    BY <1>2, <1>5, <2>1, <2>2
  <2>3. CASE ~(k < q)
    <3>1. k - Len(x) \in 1 .. Len(b) - q /\ q + (k - Len(x)) = k + 1
      BY <1>1, <1>2, <2>3
    <3> QED BY <1>3, <1>5, <2>1, <2>3, <3>1
  <2> QED BY <2>2, <2>3
<1> QED BY <1>1, <1>2, <1>3, <1>4, <1>5, <1>6

LEMMA ListedSeq ==
  ASSUME NEW n, NEW S, NEW s, Lists(s, n, S)
  PROVE  /\ Listed(n, S) \in Seq({Abstract(c) : c \in S}) /\ Len(Listed(n, S)) = n
         /\ \A k \in 1 .. n : Listed(n, S)[k] = Abstract(s[k])
<1>1. Listed(n, S) = [k \in 1 .. n |-> Abstract(s[k])]
  BY ListedIs
<1>2. Listed(n, S) \in [1 .. n -> {Abstract(c) : c \in S}]
  BY <1>1 DEF Lists
<1>3. n \in Nat
  BY DEF Lists
<1> QED BY <1>1, <1>2, <1>3, FunctionIsSeq

WithNewest(S2, S, c) ==
  S2 = S \cup {c} /\ c.inOrder \in Nat /\ \A x \in S : x.inOrder < c.inOrder

LEMMA ListedMore ==
  ASSUME NEW n, NEW S, NEW s, Lists(s, n, S), NEW c, NEW S2, WithNewest(S2, S, c)
  PROVE  /\ \E t : Lists(t, n + 1, S2)
         /\ Listed(n + 1, S2) = Append(Listed(n, S), Abstract(c))
<1> DEFINE t == [k \in 1 .. n + 1 |-> IF k <= n THEN s[k] ELSE c]
           R == {Abstract(x) : x \in S2}
           b == Listed(n, S)
<1>0. S2 = S \cup {c} /\ c.inOrder \in Nat /\ \A x \in S : x.inOrder < c.inOrder
  BY DEF WithNewest
<1>1. n \in Nat /\ (\A x \in S : x.inOrder \in Nat) /\ s \in [1 .. n -> S] /\ ByAge(s, n, S)
  BY DEF Lists
<1>2. t \in [1 .. n + 1 -> S2] /\ t[n + 1] = c /\ \A k \in 1 .. n : t[k] = s[k]
  BY <1>0, <1>1
<1>3. ByAge(t, n + 1, S2)
  BY <1>0, <1>1, ListMore
<1>4. n + 1 \in Nat /\ \A x \in S2 : x.inOrder \in Nat
  BY <1>0, <1>1
<1> HIDE DEF t
<1>5. Lists(t, n + 1, S2)
  BY <1>2, <1>3, <1>4 DEF Lists
<1>6. /\ Listed(n + 1, S2) \in Seq(R) /\ Len(Listed(n + 1, S2)) = n + 1
      /\ \A k \in 1 .. n + 1 : Listed(n + 1, S2)[k] = Abstract(t[k])
  BY <1>5, ListedSeq
<1>7. /\ b \in Seq({Abstract(x) : x \in S}) /\ Len(b) = n
      /\ \A k \in 1 .. n : b[k] = Abstract(s[k])
  BY ListedSeq
<1>8. {Abstract(x) : x \in S} \subseteq R /\ Abstract(c) \in R
  BY <1>0
<1> HIDE DEF R, b
<1>9. b \in Seq(R)
  BY <1>7, <1>8, SeqMonotonic
<1>10. /\ Append(b, Abstract(c)) \in Seq(R) /\ Len(Append(b, Abstract(c))) = n + 1
       /\ \A k \in 1 .. n : Append(b, Abstract(c))[k] = b[k]
       /\ Append(b, Abstract(c))[n + 1] = Abstract(c)
  BY <1>7, <1>8, <1>9, AppendProperties
<1>11. ASSUME NEW k \in 1 .. n + 1 PROVE Listed(n + 1, S2)[k] = Append(b, Abstract(c))[k]
  <2>1. CASE k = n + 1
    BY <1>2, <1>4, <1>6, <1>10, <2>1
  <2>2. CASE k # n + 1
    <3>1. k \in 1 .. n
      BY <1>1, <2>2
    <3> QED BY <1>2, <1>6, <1>7, <1>10, <3>1
  <2> QED BY <2>1, <2>2
<1>12. Listed(n + 1, S2) = Append(b, Abstract(c))
  BY <1>6, <1>10, <1>11, SeqEqual
<1> QED BY <1>5, <1>12 DEF b

LEMMA ListedLess ==
  ASSUME NEW n, NEW S, NEW s, Lists(s, n, S), NEW q \in 1 .. n
  PROVE  /\ \E t : Lists(t, n - 1, S \ {s[q]})
         /\ Listed(n - 1, S \ {s[q]}) = RemoveAt(Listed(n, S), q)
<1> DEFINE t == [k \in 1 .. n - 1 |-> IF k < q THEN s[k] ELSE s[k + 1]]
           S2 == S \ {s[q]}
           R == {Abstract(x) : x \in S}
           b == Listed(n, S)
<1>1. n \in Nat /\ (\A x \in S : x.inOrder \in Nat) /\ s \in [1 .. n -> S] /\ ByAge(s, n, S)
  BY DEF Lists
<1>2. \A k \in 1 .. n - 1 : t[k] = IF k < q THEN s[k] ELSE s[k + 1]
  OBVIOUS
<1>3. ByAge(t, n - 1, S2)
  BY <1>1, ListLess
<1>4. n - 1 \in Nat /\ \A x \in S2 : x.inOrder \in Nat
  BY <1>1
<1>5. t \in [1 .. n - 1 -> S2]
  <2>1. t = [k \in 1 .. n - 1 |-> t[k]]
    OBVIOUS
  <2> HIDE DEF t, S2
  <2>2. \A k \in 1 .. n - 1 : t[k] \in S2
    BY <1>3 DEF ByAge
  <2> QED BY <2>1, <2>2
<1> HIDE DEF t, S2
<1>6. Lists(t, n - 1, S2)
  BY <1>3, <1>4, <1>5 DEF Lists
<1>7. /\ Listed(n - 1, S2) \in Seq({Abstract(x) : x \in S2}) /\ Len(Listed(n - 1, S2)) = n - 1
      /\ \A k \in 1 .. n - 1 : Listed(n - 1, S2)[k] = Abstract(t[k])
  BY <1>6, ListedSeq
<1>8. b \in Seq(R) /\ Len(b) = n /\ \A k \in 1 .. n : b[k] = Abstract(s[k])
  BY ListedSeq
<1>9. {Abstract(x) : x \in S2} \subseteq R
  BY DEF S2
<1> HIDE DEF R, b
<1>10. Listed(n - 1, S2) \in Seq(R)
  BY <1>7, <1>9, SeqMonotonic
<1>11. /\ RemoveAt(b, q) \in Seq(R) /\ Len(RemoveAt(b, q)) = n - 1
       /\ \A k \in 1 .. n - 1 : RemoveAt(b, q)[k] = IF k < q THEN b[k] ELSE b[k + 1]
  BY <1>8, RemoveAtIs
<1>12. ASSUME NEW k \in 1 .. n - 1 PROVE Listed(n - 1, S2)[k] = RemoveAt(b, q)[k]
  <2>1. k \in 1 .. n /\ k + 1 \in 1 .. n
    BY <1>1
  <2> QED BY <1>2, <1>7, <1>8, <1>11, <2>1
<1>13. Listed(n - 1, S2) = RemoveAt(b, q)
  BY <1>7, <1>10, <1>11, <1>12, SeqEqual
<1> QED BY <1>6, <1>13 DEF S2, b

-----------------------------------------------------------------------------
(* The ring holds messages in order, which can be listed by age.            *)
RingOrder ==
  /\ mess \in [Cells -> Entry] /\ lastInOrder \in Nat
  /\ Holds(Unrolled(mess, mIdxOut, Numb), Numb, lastInOrder)
  /\ \E s : Lists(s, Numb, Unread)

LEMMA UnreadIs == Unread = Part(Unrolled(mess, mIdxOut, Numb), 0, Numb - 1)
BY DEF Unread, Part, Unrolled, Nth

(* mIdxIn is the cell behind the last unread message.                       *)
LEMMA NextIs ==
  ASSUME mIdxIn \in Cells, mIdxOut \in Cells
  PROVE  Numb \in Cells /\ Nth(mIdxOut, Numb) = mIdxIn
<1>1. MaxMsg \in Nat /\ mIdxIn \in 0 .. MaxMsg - 1 /\ mIdxOut \in 0 .. MaxMsg - 1
  BY MqAssumption DEF Cells
<1>2. Numb \in Cells
  BY NumbIs DEF Cells
<1>3. Nth(mIdxOut, Numb) = IF mIdxOut + Numb < MaxMsg THEN mIdxOut + Numb ELSE mIdxOut + Numb - MaxMsg
  BY <1>2, NthIs
<1> QED BY <1>1, <1>2, <1>3 DEF Numb

Put(a, i, c) == [a EXCEPT ![i] = c]

(* The ring with one message more, sorted anew.                             *)
LEMMA PutInOrder ==
  ASSUME NEW out \in Cells, NEW n \in Nat, n + 1 <= MaxMsg, NEW top \in Nat,
         NEW a \in [Cells -> Entry], Holds(Unrolled(a, out, n), n, top),
         NEW c \in Written, c.inOrder = top,
         NEW b, b = Sorted(Put(a, Nth(out, n), c), out, n + 1)
  PROVE  /\ b \in [Cells -> Entry]
         /\ Holds(Unrolled(b, out, n + 1), n + 1, top + 1)
         /\ Part(Unrolled(b, out, n + 1), 0, n) = Part(Unrolled(a, out, n), 0, n - 1) \cup {c}
<1> DEFINE u == Unrolled(a, out, n)
           in == Nth(out, n)
           array == Put(a, in, c)
           v == Unrolled(array, out, n + 1)
           w == Unrolled(b, out, n + 1)
<1>1. c \in Entry
  BY DEF Written, Entry
<1>2. \A k \in 0 .. n : k \in Cells
  BY MqAssumption DEF Cells
<1>3. in \in Cells /\ Place(out, in) = n
  BY <1>2, NthIs
<1>4. array \in [Cells -> Entry] /\ array[in] = c /\ \A i \in Cells : i # in => array[i] = a[i]
  BY <1>1, <1>3 DEF Put
<1>5. n + 1 \in 1 .. MaxMsg /\ n + 1 - 1 = n
  BY MqAssumption
<1>6. v = [k \in 0 .. n |-> array[Nth(out, k)]] /\ u = [k \in 0 .. n - 1 |-> a[Nth(out, k)]]
  BY <1>5 DEF Unrolled
<1>7. b \in [Cells -> Entry] /\ v \in [0 .. n -> Entry] /\ SortedWell(v, w, 0, n)
  <2>1. b = Sorted(array, out, n + 1)
    OBVIOUS
  <2>2. array \in [Cells -> Entry]
    BY <1>4
  <2> DEFINE N == n + 1
  <2>3. N \in 1 .. MaxMsg /\ N - 1 = n
    BY <1>5
  <2>4. v = Unrolled(array, out, N) /\ w = Unrolled(b, out, N) /\ b = Sorted(array, out, N)
    BY <2>1
  <2> HIDE DEF array, N, v, w
  <2>5. /\ Sorted(array, out, N) \in [Cells -> Entry]
        /\ Unrolled(array, out, N) \in [0 .. N - 1 -> Entry]
        /\ SortedWell(Unrolled(array, out, N), Unrolled(Sorted(array, out, N), out, N), 0, N - 1)
    BY <2>2, <2>3, SortedIs
  <2> QED BY <2>3, <2>4, <2>5
<1>8. w \in [0 .. n -> Entry]
  <2>1. w = [k \in 0 .. n |-> b[Nth(out, k)]]
    BY <1>5 DEF Unrolled
  <2> HIDE DEF w
  <2> QED BY <1>2, <1>7, <2>1, NthIs
<1> HIDE DEF array, in
<1>9. v[n] = c
  BY <1>4, <1>6 DEF in
<1>10. ASSUME NEW k \in 0 .. n - 1 PROVE v[k] = u[k]
  <2>1. Nth(out, k) \in Cells /\ Place(out, Nth(out, k)) = k /\ k # n /\ k \in 0 .. n
    BY <1>2, NthIs
  <2>2. Nth(out, k) # in
    BY <1>3, <2>1
  <2> QED BY <1>4, <1>6, <2>1, <2>2
<1> HIDE DEF u, v, w
<1>11. Holds(u, n, top)
  BY DEF u
<1>12. Holds(w, n + 1, top + 1) /\ Part(w, 0, n) = Part(u, 0, n - 1) \cup {c}
  BY <1>7, <1>8, <1>9, <1>10, <1>11, HoldsMore
<1> QED BY <1>7, <1>12 DEF u, w

(* mq_send adds the newest message to those that have arrived.              *)
LEMMA SendOrder ==
  ASSUME mIdxIn \in Cells, mIdxOut \in Cells, RingOrder,
         NEW m \in Msgs, NEW p \in MsgPrios, Send(m, p)
  PROVE  RingOrder' /\ Arrived' = Append(Arrived, [msg |-> m, prio |-> p])
<1> DEFINE c == [msg |-> m, prio |-> p, inOrder |-> lastInOrder]
           n == Numb
           u == Unrolled(mess, mIdxOut, n)
           w == Unrolled(mess', mIdxOut, n + 1)
<1>1. /\ Numb' = n + 1 /\ mIdxOut' = mIdxOut /\ lastInOrder' = lastInOrder + 1
      /\ n \in Nat /\ n + 1 <= MaxMsg /\ n \in Cells /\ Nth(mIdxOut, n) = mIdxIn
  <2>1. Numb' = n + 1
    BY PutIn DEF Send
  <2>2. n \in Nat /\ n + 1 <= MaxMsg
    BY NumbIs, MqAssumption
  <2> QED BY <2>1, <2>2, NextIs DEF Send
<1>2. mess' = Sorted(Put(mess, Nth(mIdxOut, n), c), mIdxOut, n + 1)
  BY <1>1 DEF Send, Put
<1>3. mess \in [Cells -> Entry] /\ lastInOrder \in Nat /\ Holds(u, n, lastInOrder)
  BY DEF RingOrder
<1>4. c \in Written /\ c.inOrder = lastInOrder /\ Abstract(c) = [msg |-> m, prio |-> p]
  BY <1>3 DEF Written, Abstract
<1> HIDE DEF c, n
<1>5. /\ mess' \in [Cells -> Entry] /\ Holds(w, n + 1, lastInOrder + 1)
      /\ Part(w, 0, n) = Part(u, 0, n - 1) \cup {c}
  BY <1>1, <1>2, <1>3, <1>4, PutInOrder
<1>6. Unread = Part(u, 0, n - 1)
  BY UnreadIs DEF n
<1>7. Unread' = Unread \cup {c}
  <2>1. Unread' = Part(Unrolled(mess', mIdxOut', Numb'), 0, Numb' - 1)
    BY DEF Unread, Part, Unrolled, Nth
  <2>2. Unread' = Part(w, 0, n + 1 - 1) /\ n + 1 - 1 = n
    BY <1>1, <2>1
  <2> QED BY <1>5, <1>6, <2>2
<1>8. WithNewest(Unread', Unread, c)
  BY <1>3, <1>4, <1>6, <1>7 DEF Part, Holds, WithNewest
<1>9. PICK s : Lists(s, n, Unread)
  BY DEF RingOrder, n
<1>10. /\ \E t : Lists(t, n + 1, Unread')
       /\ Listed(n + 1, Unread') = Append(Listed(n, Unread), Abstract(c))
  BY <1>8, <1>9, ListedMore
<1>11. Arrived = Listed(n, Unread) /\ Arrived' = Listed(Numb', Unread')
  BY DEF Arrived, ByArrival, Listed, ByAge, n
<1>12. RingOrder'
  BY <1>1, <1>3, <1>5, <1>7, <1>10 DEF RingOrder
<1> QED BY <1>1, <1>4, <1>7, <1>10, <1>11, <1>12

(* mq_receive: the first message of the ring is the one to be received.     *)
LEMMA FetchOrder ==
  ASSUME mIdxIn \in Cells, mIdxOut \in Cells, RingOrder, Numb > 0, Fetch
  PROVE  RingOrder' /\ Pq!Receive(active)
<1> DEFINE n == Numb
           u == Unrolled(mess, mIdxOut, n)
           w == Unrolled(mess, mIdxOut', n - 1)
           c == mess[mIdxOut]
<1>1. /\ Numb' = n - 1 /\ n \in Nat /\ n > 0 /\ n <= MaxMsg /\ mIdxOut' \in Cells
      /\ UNCHANGED <<mess, mIdxIn, lastInOrder, sent>>
      /\ got' = [got EXCEPT ![active] = c.msg]
      /\ mIdxOut' = IF mIdxOut = MaxMsg - 1 THEN 0 ELSE mIdxOut + 1
  BY TakeOut, NumbIs, NextCellIs, MqAssumption DEF Fetch
<1>2. mess \in [Cells -> Entry] /\ lastInOrder \in Nat /\ Holds(u, n, lastInOrder)
  BY DEF RingOrder
<1>3. Unread = Part(u, 0, n - 1)
  BY UnreadIs
<1> HIDE DEF n, c
<1>4. u[0] = c
  <2>1. 0 \in Cells /\ 0 \in 0 .. n - 1 /\ mIdxOut + 0 < MaxMsg /\ mIdxOut + 0 = mIdxOut
    BY <1>1, MqAssumption DEF Cells
  <2>2. Nth(mIdxOut, 0) = mIdxOut
    BY <2>1, NthIs
  <2> QED BY <2>1, <2>2 DEF Unrolled, c
<1>5. ASSUME NEW k \in 0 .. n - 2 PROVE w[k] = u[k + 1]
  <2>1. k \in 0 .. n - 1 - 1 /\ k + 1 \in 0 .. n - 1 /\ k \in Cells /\ k + 1 \in Cells
    BY <1>1, MqAssumption DEF Cells
  <2>2. /\ Nth(mIdxOut', k) = IF mIdxOut' + k < MaxMsg THEN mIdxOut' + k ELSE mIdxOut' + k - MaxMsg
        /\ Nth(mIdxOut, k + 1) = IF mIdxOut + (k + 1) < MaxMsg THEN mIdxOut + (k + 1)
                                 ELSE mIdxOut + (k + 1) - MaxMsg
    BY <1>1, <2>1, NthIs
  <2>3. Nth(mIdxOut', k) = Nth(mIdxOut, k + 1)
    BY <1>1, <2>1, <2>2, MqAssumption DEF Cells
  <2> QED BY <2>1, <2>3 DEF Unrolled
<1>6. \A k \in 1 .. n - 1 : ~SortsBefore(u[k], u[0])
  BY <1>1, <1>2 DEF Holds, InOrder
<1> HIDE DEF u, w
<1>7. Holds(w, n - 1, lastInOrder) /\ Part(w, 0, n - 2) = Part(u, 0, n - 1) \ {u[0]}
  BY <1>1, <1>2, <1>5, HoldsLess
<1>8. Unread' = Unread \ {c}
  <2>1. Unread' = Part(Unrolled(mess', mIdxOut', Numb'), 0, Numb' - 1)
    BY DEF Unread, Part, Unrolled, Nth
  <2>2. Unread' = Part(w, 0, n - 1 - 1) /\ n - 1 - 1 = n - 2
    BY <1>1, <2>1 DEF w
  <2> QED BY <1>3, <1>4, <1>7, <2>2
<1>9. PICK s : Lists(s, n, Unread)
  BY DEF RingOrder, n
<1>10. PICK q \in 1 .. n : s[q] = c
  <2>1. c \in Unread
    <3>1. 0 \in 0 .. n - 1
      BY <1>1
    <3> QED BY <1>3, <1>4, <3>1 DEF Part
  <2>2. {s[k] : k \in 1 .. n} = Unread
    BY <1>9 DEF Lists, ByAge
  <2> QED BY <2>1, <2>2
<1>11. /\ \E t : Lists(t, n - 1, Unread \ {c})
       /\ Listed(n - 1, Unread \ {c}) = RemoveAt(Listed(n, Unread), q)
  BY <1>9, <1>10, ListedLess
<1>12. Arrived = Listed(n, Unread) /\ Arrived' = Listed(Numb', Unread')
  BY DEF Arrived, ByArrival, Listed, ByAge, n
<1>13. Arrived' = RemoveAt(Arrived, q)
  BY <1>1, <1>8, <1>11, <1>12
<1>14. Len(Arrived) = n /\ \A k \in 1 .. n : Arrived[k] = Abstract(s[k])
  BY <1>9, <1>12, ListedSeq
<1>15. \A x \in Unread : x \in Written /\ (x = c \/ ~SortsBefore(x, c))
  <2> SUFFICES ASSUME NEW k \in 0 .. n - 1
               PROVE  u[k] \in Written /\ (u[k] = c \/ ~SortsBefore(u[k], c))
    BY <1>3 DEF Part
  <2>1. u[k] \in Written
    BY <1>2 DEF Holds
  <2>2. k = 0 \/ k \in 1 .. n - 1
    BY <1>1
  <2> QED BY <1>4, <1>6, <2>1, <2>2
<1>16. ASSUME NEW i \in 1 .. n
       PROVE  \/ Arrived[q].prio > Arrived[i].prio
              \/ Arrived[q].prio = Arrived[i].prio /\ q <= i
  <2>1. s[i] \in Unread /\ c \in Unread
    BY <1>9, <1>10 DEF Lists
  <2>2. /\ Arrived[q].prio = c.prio /\ Arrived[i].prio = s[i].prio
        /\ s[i].prio \in Nat /\ c.prio \in Nat /\ s[i].inOrder \in Nat /\ c.inOrder \in Nat
    <3>1. \A x \in Written : x.prio \in Nat /\ x.inOrder \in Nat
      BY MqAssumption DEF Written
    <3> QED BY <1>10, <1>14, <1>15, <2>1, <3>1 DEF Abstract
  <2>3. i < q => s[i].inOrder < c.inOrder
    BY <1>9, <1>10 DEF Lists, ByAge
  <2>4. CASE s[i] = c
    <3>1. ~(i < q)
      BY <2>2, <2>3, <2>4
    <3> QED BY <1>1, <2>2, <2>4, <3>1
  <2>5. CASE ~SortsBefore(s[i], c)
    BY <1>1, <2>2, <2>3, <2>5 DEF SortsBefore
  <2> QED BY <1>15, <2>1, <2>4, <2>5
<1>17. RingOrder'
  BY <1>1, <1>2, <1>7, <1>8, <1>11 DEF RingOrder, w
<1>18. got' = [got EXCEPT ![active] = Arrived[q].msg] /\ sent' = sent
  <2>1. Arrived[q].msg = c.msg
    BY <1>10, <1>14 DEF Abstract
  <2> QED BY <1>1, <2>1
<1>19. Pq!Receive(active)
  <2>1. q \in 1 .. Len(Arrived) /\ \A i \in 1 .. Len(Arrived) :
          \/ Arrived[q].prio > Arrived[i].prio
          \/ Arrived[q].prio = Arrived[i].prio /\ q <= i
    BY <1>14, <1>16
  <2> QED BY <1>13, <1>18, <2>1 DEF Pq!Receive, Pq!RemoveAt, RemoveAt
<1> QED BY <1>17, <1>19

LEMMA OrderKept ==
  ASSUME RingOrder, UNCHANGED <<box, bufs>>
  PROVE  RingOrder' /\ UNCHANGED <<Arrived, sent, got>>
<1>1. /\ mess' = mess /\ mIdxIn' = mIdxIn /\ mIdxOut' = mIdxOut /\ lastInOrder' = lastInOrder
      /\ sent' = sent /\ got' = got
  BY DEF box, bufs
<1>2. Numb' = Numb /\ Unread' = Unread
  BY <1>1 DEF Numb, Unread
<1>3. Arrived = Listed(Numb, Unread) /\ Arrived' = Listed(Numb', Unread')
  BY DEF Arrived, ByArrival, Listed, ByAge
<1> QED BY <1>1, <1>2, <1>3 DEF RingOrder

LEMMA OrderInit ==
  ASSUME Init
  PROVE  RingOrder /\ Pq!Init
<1>1. Numb = 0 /\ Unread = {} /\ lastInOrder = 0
  BY DEF Init, Numb, Unread
<1>2. mess \in [Cells -> Entry]
  BY DEF Init, Entry
<1>3. Holds(Unrolled(mess, mIdxOut, Numb), Numb, lastInOrder)
  BY <1>1 DEF Holds, InOrder
<1> DEFINE none == [k \in 1 .. 0 |-> k]
<1>4. Lists(none, 0, {})
  BY DEF Lists, ByAge
<1>5. RingOrder
  BY <1>1, <1>2, <1>3, <1>4 DEF RingOrder
<1>6. Arrived = Listed(0, {})
  BY <1>1 DEF Arrived, ByArrival, Listed, ByAge
<1>7. Arrived = <<>>
  <2> HIDE DEF none
  <2> DEFINE R == {Abstract(c) : c \in {}}
  <2>1. Listed(0, {}) \in Seq(R) /\ Len(Listed(0, {})) = 0
    BY <1>4, ListedSeq
  <2> HIDE DEF R
  <2> QED BY <1>6, <2>1, EmptySeq
<1> QED BY <1>5, <1>7 DEF Pq!Init, Init

LEMMA OrderStep ==
  ASSUME IInv, RingOrder, [Next]_vars
  PROVE  RingOrder' /\ [Pq!Next]_<<Arrived, sent, got>>
<1>1. mIdxIn \in Cells /\ mIdxOut \in Cells /\ active \in Threads
  BY DEF IInv, Kernel, Ring
<1>2. CASE \E m \in Msgs, p \in MsgPrios : Send(m, p)
  <2>1. PICK m \in Msgs, p \in MsgPrios : Send(m, p)
    BY <1>2
  <2>2. RingOrder' /\ Arrived' = Append(Arrived, [msg |-> m, prio |-> p])
    BY <1>1, <2>1, SendOrder
  <2>3. [msg |-> m, prio |-> p] \in Pq!Messages
    BY DEF Pq!Messages
  <2>4. sent' = [msg |-> m, prio |-> p] /\ got' = got
    BY <2>1 DEF Send
  <2>5. Pq!Send([msg |-> m, prio |-> p])
    BY <2>2, <2>4 DEF Pq!Send
  <2> QED BY <2>2, <2>3, <2>5 DEF Pq!Next
<1>3. CASE Fetch
  <2>1. Numb > 0
    BY <1>3, FetchFinds DEF Fetch
  <2>2. RingOrder' /\ Pq!Receive(active)
    BY <1>1, <1>3, <2>1, FetchOrder
  <2> QED BY <1>1, <2>2 DEF Pq!Next
<1>4. CASE UNCHANGED <<box, bufs>>
  BY <1>4, OrderKept
<1>5. CASE SendCall \/ SendFull \/ SendEnd
  BY <1>4, <1>5 DEF SendCall, SendFull, SendEnd
<1>6. CASE RecvCall \/ RecvTest \/ RecvWait
  BY <1>4, <1>6 DEF RecvCall, RecvTest, RecvWait
<1>7. CASE OpenCall \/ OpenRefused
  BY <1>4, <1>7 DEF OpenCall, OpenRefused
<1>8. CASE Yield \/ Sleep \/ Dispatch \/ \E t \in Threads : Wake(t)
  BY <1>4, <1>8 DEF Yield, Sleep, Dispatch, Wake
<1>9. CASE UNCHANGED vars
  BY <1>4, <1>9 DEF vars
<1> QED BY <1>2, <1>3, <1>5, <1>6, <1>7, <1>8, <1>9 DEF Next

(* The ring is in order with every step, whatever the threads do and        *)
(* however it has wrapped around.                                           *)
THEOREM OrderHolds == Spec => []RingOrder
<1>1. Init => RingOrder
  BY OrderInit
<1>2. IInv /\ RingOrder /\ [Next]_vars => RingOrder'
  BY OrderStep
<1> QED BY <1>1, <1>2, Invariance, PTL DEF Spec

(* A message queue is a priority queue: mq_send adds to it and mq_receive   *)
(* takes from it the oldest of the most important messages, each once.      *)
THEOREM Implements == Spec => IsPrioQueue
<1>1. Init => Pq!Init
  BY OrderInit
<1>2. IInv /\ RingOrder /\ [Next]_vars => [Pq!Next]_<<Arrived, sent, got>>
  BY OrderStep
<1> QED BY <1>1, <1>2, Invariance, OrderHolds, PTL DEF Spec, IsPrioQueue, Pq!Spec

(* The buffers, the ring, the semaphores and the threads keep their types:  *)
(* what a receiver finds in its buffer is a message that was sent.          *)
THEOREM TypeCorrect == Spec => []TypeOK
<1> DEFINE Got == got \in [Threads -> Msgs \cup {None}]
<1>1. Init => Got
  BY DEF Init
<1>2. ASSUME IInv, RingOrder, Got, [Next]_vars PROVE Got'
  <2>1. CASE Fetch
    <3>1. mess[mIdxOut].msg \in Msgs \cup {None}
      BY <1>2 DEF IInv, Ring, RingOrder, Entry
    <3>2. got' = [got EXCEPT ![active] = mess[mIdxOut].msg]
      BY <2>1 DEF Fetch
    <3> QED BY <1>2, <3>1, <3>2
  <2>2. CASE got' = got
    BY <1>2, <2>2
  <2>3. CASE \E m \in Msgs, p \in MsgPrios : Send(m, p)
    BY <2>2, <2>3 DEF Send
  <2>4. CASE SendCall \/ SendFull \/ SendEnd \/ RecvCall \/ RecvTest \/ RecvWait
    BY <2>2, <2>4 DEF SendCall, SendFull, SendEnd, RecvCall, RecvTest, RecvWait, bufs
  <2>5. CASE OpenCall \/ OpenRefused \/ Yield \/ Sleep \/ Dispatch \/ \E t \in Threads : Wake(t)
    BY <2>2, <2>5 DEF OpenCall, OpenRefused, Yield, Sleep, Dispatch, Wake, bufs
  <2>6. CASE UNCHANGED vars
    BY <2>2, <2>6 DEF vars, bufs
  <2> QED BY <1>2, <2>1, <2>3, <2>4, <2>5, <2>6 DEF Next
<1>3. IInv /\ RingOrder /\ Got => TypeOK
  BY DEF IInv, Kernel, Ring, RingOrder, Entry, TypeOK
<1> HIDE DEF Got
<1> QED BY <1>1, <1>2, <1>3, Invariance, OrderHolds, PTL DEF Spec
=============================================================================
