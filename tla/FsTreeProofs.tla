---------------------------- MODULE FsTreeProofs ----------------------------
(****************************************************************************)
(* Proofs about the tree of inodes, for any names and any number of inodes. *)
(****************************************************************************)
EXTENDS FsTree, SequenceTheorems, FiniteSetTheorems, WellFoundedInduction, TLAPS

(* The inodes are numbered in the order of their creation, each after the   *)
(* one it belongs to; every inode is listed once, where it belongs, and no  *)
(* two of one list share a name.                                            *)
Inodes(c) == 0 .. c - 1

Numbered ==
  /\ \E c \in 1 .. MaxNodes : Nodes = Inodes(c)
  /\ DOMAIN belong = Nodes /\ DOMAIN kids = Nodes
  /\ mounted \subseteq Nodes

Children(n) == {i \in Nodes \ {Root} : belong[i] = n}

Linked ==
  /\ \A n \in Nodes \ {Root} : belong[n] \in Nodes /\ belong[n] < n
  /\ \A n \in Nodes : kids[n] \in Seq(Nodes) /\ ToSet(kids[n]) = Children(n)

Named ==
  /\ \A n \in Nodes \ {Root} : name[n] \in Names
  /\ name[Root] = "root"
  /\ \A m, n \in Nodes \ {Root} : belong[m] = belong[n] /\ name[m] = name[n] => m = n

IInv == Numbered /\ Linked /\ Named

-----------------------------------------------------------------------------
(* A set of numbers that is not empty has a least element.                  *)
LEMMA LeastNumber ==
  ASSUME NEW T \in SUBSET Nat, T # {}
  PROVE  \E x \in T : \A y \in T : x <= y
<1> DEFINE R == OpToRel(<, Nat)
<1>1. IsWellFoundedOn(R, Nat)
  BY NatLessThanWellFounded
<1>2. \A x, y \in Nat : <<x, y>> \in R <=> x < y
  BY DEF OpToRel
<1> HIDE DEF R
<1>3. PICK x \in T : \A y \in T : ~ (<<y, x>> \in R)
  BY <1>1, WFMin
<1>4. \A y \in T : ~(y < x)
  BY <1>2, <1>3
<1> QED BY <1>4

(* A recursion over 0 .. N that takes every number back to a smaller one    *)
(* has one solution.                                                        *)
Back(N, b) == \A k \in 1 .. N : b[k] \in 0 .. k - 1
Steps(N, V, G) == \A k \in 1 .. N : \A v \in V : G[k][v] \in V
Unfolds(f, N, v, b, G) == f[0] = v /\ \A k \in 1 .. N : f[k] = G[k][f[b[k]]]
Parallel(f, g, N, b) == \A k \in 1 .. N : f[b[k]] = g[b[k]] => f[k] = g[k]

LEMMA RecursionSolved ==
  ASSUME NEW N \in Nat, NEW V, NEW v \in V, NEW b, Back(N, b), NEW G, Steps(N, V, G)
  PROVE  \E f \in [0 .. N -> V] : Unfolds(f, N, v, b, G)
<1> DEFINE Upto(f, n) == /\ f \in [0 .. N -> V]
                         /\ \A k \in 0 .. n : f[k] = IF k = 0 THEN v ELSE G[k][f[b[k]]]
           Bad == {n \in 0 .. N : \A f : ~Upto(f, n)}
<1>1. 0 \notin Bad
  <2>1. Upto([k \in 0 .. N |-> v], 0)
    OBVIOUS
  <2> QED BY <2>1
<1>2. ASSUME NEW n \in 1 .. N, n - 1 \notin Bad PROVE n \notin Bad
  <2>1. n - 1 \in 0 .. N
    OBVIOUS
  <2>2. PICK f : Upto(f, n - 1)
    BY <1>2, <2>1
  <2>3. b[n] \in 0 .. n - 1 /\ G[n][f[b[n]]] \in V
    <3>1. b[n] \in 0 .. n - 1
      BY DEF Back
    <3>2. f[b[n]] \in V
      BY <3>1, <2>2
    <3> QED BY <3>1, <3>2 DEF Steps
  <2> DEFINE g == [k \in 0 .. N |-> IF k = n THEN G[n][f[b[n]]] ELSE f[k]]
  <2>4. g \in [0 .. N -> V]
    BY <2>2, <2>3
  <2>5. ASSUME NEW k \in 0 .. n PROVE g[k] = IF k = 0 THEN v ELSE G[k][g[b[k]]]
    <3>1. CASE k = n
      <4>1. g[n] = G[n][f[b[n]]] /\ g[b[n]] = f[b[n]] /\ n # 0
        BY <2>3
      <4> HIDE DEF g
      <4>2. g[n] = G[n][g[b[n]]]
        BY <4>1
      <4> QED BY <4>1, <4>2, <3>1
    <3>2. CASE k # n
      <4>1. k \in 0 .. n - 1 /\ g[k] = f[k]
        BY <3>2
      <4>2. k # 0 => b[k] \in 0 .. k - 1
        BY <4>1 DEF Back
      <4>3. k # 0 => g[b[k]] = f[b[k]]
        BY <4>1, <4>2
      <4> QED BY <4>1, <4>3, <2>2
    <3> QED BY <3>1, <3>2
  <2>6. Upto(g, n)
    BY <2>4, <2>5
  <2> QED BY <2>6
<1>3. Bad = {}
  <2> SUFFICES ASSUME Bad # {} PROVE FALSE
    OBVIOUS
  <2>1. Bad \in SUBSET Nat /\ Bad \subseteq 0 .. N
    OBVIOUS
  <2> HIDE DEF Bad
  <2>2. PICK n \in Bad : \A k \in Bad : n <= k
    BY <2>1, LeastNumber
  <2>3. n \in 1 .. N /\ n - 1 \notin Bad
    BY <1>1, <2>1, <2>2
  <2> QED BY <1>2, <2>2, <2>3
<1>4. PICK f : Upto(f, N)
  BY <1>3
<1>5. f \in [0 .. N -> V] /\ f[0] = v /\ \A k \in 1 .. N : f[k] = G[k][f[b[k]]]
  BY <1>4
<1> QED BY <1>5 DEF Unfolds

(* Induction along such a recursion.                                        *)
LEMMA RecursionsAgree ==
  ASSUME NEW N \in Nat, NEW b, Back(N, b), NEW f, NEW g, f[0] = g[0], Parallel(f, g, N, b)
  PROVE  \A k \in 0 .. N : f[k] = g[k]
<1> DEFINE Bad == {k \in 0 .. N : f[k] # g[k]}
<1> SUFFICES ASSUME Bad # {} PROVE FALSE
  OBVIOUS
<1>1. Bad \in SUBSET Nat /\ Bad \subseteq 0 .. N /\ \A k \in Bad : f[k] # g[k]
  OBVIOUS
<1>2. \A k \in 0 .. N : k \notin Bad => f[k] = g[k]
  OBVIOUS
<1> HIDE DEF Bad
<1>3. PICK n \in Bad : \A k \in Bad : n <= k
  BY <1>1, LeastNumber
<1>4. n \in 1 .. N
  BY <1>1
<1>5. b[n] \in 0 .. n - 1
  BY <1>4 DEF Back
<1>6. b[n] \in 0 .. N /\ b[n] \notin Bad
  BY <1>1, <1>3, <1>4, <1>5
<1> QED BY <1>1, <1>2, <1>4, <1>6 DEF Parallel

LEMMA PrefixesAgree ==
  ASSUME NEW N \in Nat, NEW f, NEW g, f[0] = g[0],
         \A k \in 1 .. N : f[k - 1] = g[k - 1] => f[k] = g[k]
  PROVE  f[N] = g[N]
<1> DEFINE b == [k \in 1 .. N |-> k - 1]
<1>1. Back(N, b)
  BY DEF Back
<1>2. Parallel(f, g, N, b)
  BY DEF Parallel
<1> HIDE DEF b
<1>3. \A k \in 0 .. N : f[k] = g[k]
  BY <1>1, <1>2, RecursionsAgree
<1> QED BY <1>3

(* Functions on one set that agree on it are the same.                      *)
LEMMA SameFunction ==
  ASSUME NEW D, NEW f, NEW g, f = [x \in D |-> f[x]], g = [x \in D |-> g[x]],
         \A x \in D : f[x] = g[x]
  PROVE  f = g
OBVIOUS

-----------------------------------------------------------------------------
(* Walks.                                                                   *)
Searches == [at : Nodes \cup {Nil}, stop : BOOLEAN, fault : BOOLEAN]

LEMMA RootIs ==
  ASSUME Numbered
  PROVE  /\ Root \in Nodes /\ Nodes \in SUBSET Nat /\ Nil \notin Nodes
         /\ Start \in Searches /\ "root" \notin Names
<1>1. Root \in Nodes /\ Nodes \in SUBSET Nat
  BY FsAssumption DEF Numbered, Inodes, Root
<1>2. Nil \notin Nodes
  BY <1>1, FsAssumption
<1> QED BY <1>1, <1>2, FsAssumption DEF Start, Searches

(* The first of a set of indices.                                           *)
LEMMA MinIs ==
  ASSUME NEW S \in SUBSET Nat, S # {}
  PROVE  Min(S) \in S /\ \A i \in S : Min(S) <= i
BY LeastNumber DEF Min

LEMMA FirstNamedIs ==
  ASSUME NEW l \in Seq(Nodes), NEW x
  PROVE  \/ FirstNamed(l, x) = Nil /\ \A n \in ToSet(l) : name[n] # x
         \/ FirstNamed(l, x) \in ToSet(l) /\ name[FirstNamed(l, x)] = x
<1> DEFINE hits == {i \in 1 .. Len(l) : name[l[i]] = x}
<1>1. Len(l) \in Nat /\ ToSet(l) = {l[i] : i \in 1 .. Len(l)}
  BY LenProperties DEF ToSet
<1>2. hits \in SUBSET Nat /\ FirstNamed(l, x) = IF hits = {} THEN Nil ELSE l[Min(hits)]
  BY DEF FirstNamed
<1>3. CASE hits = {}
  <2>1. \A i \in 1 .. Len(l) : name[l[i]] # x
    BY <1>3
  <2> QED BY <2>1, <1>1, <1>2, <1>3
<1>4. CASE hits # {}
  <2>1. Min(hits) \in hits
    BY <1>2, <1>4, MinIs
  <2> QED BY <2>1, <1>1, <1>2, <1>4
<1> QED BY <1>3, <1>4

(* What follows an inode in its list belongs where it does.                 *)
LEMMA SiblingsAre ==
  ASSUME IInv, NEW n \in Nodes
  PROVE  /\ Siblings(n) \in Seq(Nodes)
         /\ \A m \in ToSet(Siblings(n)) :
              n # Root /\ m \in Nodes \ {Root} /\ belong[m] = belong[n]
<1> DEFINE l == kids[belong[n]]
           i == CHOOSE k \in DOMAIN l : l[k] = n
<1>1. CASE n = Root
  <2>1. Siblings(n) = <<>>
    BY <1>1 DEF Siblings
  <2>2. ToSet(<<>>) = {}
    BY DEF ToSet
  <2> QED BY <2>1, <2>2
<1>2. CASE n # Root
  <2>1. /\ belong[n] \in Nodes /\ l \in Seq(Nodes) /\ n \in ToSet(l)
        /\ \A m \in ToSet(l) : m \in Nodes \ {Root} /\ belong[m] = belong[n]
    BY <1>2 DEF IInv, Linked, Children
  <2>2. Len(l) \in Nat /\ DOMAIN l = 1 .. Len(l) /\ \A k \in 1 .. Len(l) : l[k] \in ToSet(l)
    BY <2>1, LenProperties DEF ToSet
  <2>3. i \in 1 .. Len(l)
    BY <2>1, <2>2 DEF ToSet
  <2>4. Siblings(n) = SubSeq(l, 1 + i, Len(l))
    BY <1>2 DEF Siblings
  <2> HIDE DEF l, i
  <2>5. 1 + i \in Int /\ Len(l) \in Int /\ \A k \in 1 + i .. Len(l) : l[k] \in Nodes
    BY <2>1, <2>2, <2>3
  <2> DEFINE s == SubSeq(l, 1 + i, Len(l))
  <2>6. /\ s \in Seq(Nodes)
        /\ Len(s) = IF 1 + i <= Len(l) THEN Len(l) - (1 + i) + 1 ELSE 0
        /\ \A k \in 1 .. Len(l) - (1 + i) + 1 : s[k] = l[1 + i + k - 1]
    BY <2>5, SubSeqProperties
  <2> HIDE DEF s
  <2>7. ASSUME NEW m \in ToSet(s) PROVE m \in ToSet(l)
    <3>1. PICK k \in 1 .. Len(s) : m = s[k]
      BY <2>6, <2>7, LenProperties DEF ToSet
    <3>2. CASE 1 + i <= Len(l)
      <4>1. k \in 1 .. Len(l) - (1 + i) + 1
        BY <3>2, <2>6
      <4>2. 1 + i + k - 1 \in 1 .. Len(l)
        BY <4>1, <2>2, <2>3
      <4> QED BY <3>1, <4>1, <4>2, <2>6, <2>2
    <3>3. CASE ~(1 + i <= Len(l))
      <4>1. Len(s) = 0
        BY <3>3, <2>6
      <4> QED BY <4>1
    <3> QED BY <3>2, <3>3
  <2> QED BY <2>1, <2>4, <2>6, <2>7 DEF s
<1> QED BY <1>1, <1>2

(* What the search reads: the children of an inode that has some, or an     *)
(* inode itself and what follows it.                                        *)
LEMMA ListedIs ==
  ASSUME IInv, NEW n \in Nodes
  PROVE  /\ Listed(n) \in Seq(Nodes)
         /\ kids[n] # <<>> => ToSet(Listed(n)) = Children(n)
         /\ kids[n] = <<>> => \A m \in ToSet(Listed(n)) :
                   m = n \/ (n # Root /\ m \in Nodes \ {Root} /\ belong[m] = belong[n])
<1>1. CASE kids[n] # <<>>
  BY <1>1 DEF Listed, IInv, Linked
<1>2. CASE kids[n] = <<>>
  <2> DEFINE s == Siblings(n)
  <2>1. /\ s \in Seq(Nodes)
        /\ \A m \in ToSet(s) : n # Root /\ m \in Nodes \ {Root} /\ belong[m] = belong[n]
    BY SiblingsAre
  <2>2. Listed(n) = <<n>> \o s
    BY <1>2 DEF Listed
  <2> HIDE DEF s
  <2>3. <<n>> \in Seq(Nodes) /\ Len(<<n>>) = 1 /\ <<n>>[1] = n
    OBVIOUS
  <2>4. /\ <<n>> \o s \in Seq(Nodes) /\ Len(<<n>> \o s) = 1 + Len(s)
        /\ \A k \in 1 .. 1 + Len(s) : (<<n>> \o s)[k] = IF k <= 1 THEN <<n>>[k] ELSE s[k - 1]
    BY <2>1, <2>3, ConcatProperties
  <2> DEFINE w == <<n>> \o s
  <2> HIDE DEF w
  <2>5. ASSUME NEW m \in ToSet(w) PROVE m = n \/ m \in ToSet(s)
    <3>1. PICK k \in 1 .. 1 + Len(s) : m = w[k]
      BY <2>4, <2>5, LenProperties DEF ToSet, w
    <3>2. CASE k = 1
      BY <3>1, <3>2, <2>3, <2>4 DEF w
    <3>3. CASE k # 1
      <4>1. k - 1 \in 1 .. Len(s) /\ m = s[k - 1]
        BY <3>1, <3>3, <2>1, <2>4, LenProperties DEF w
      <4> QED BY <4>1, <2>1, LenProperties DEF ToSet
    <3> QED BY <3>2, <3>3
  <2> QED BY <1>2, <2>1, <2>2, <2>4, <2>5 DEF w
<1> QED BY <1>1, <1>2

LEMMA OnwardTyped ==
  ASSUME IInv, NEW s \in Searches, NEW x
  PROVE  Onward(s, x) \in Searches
<1>1. CASE s.stop \/ s.at = Nil \/ s.at \in mounted
  BY <1>1 DEF Onward, Searches
<1>2. CASE ~(s.stop \/ s.at = Nil \/ s.at \in mounted)
  <2>1. s.at \in Nodes /\ Onward(s, x) = [s EXCEPT !.at = FirstNamed(Listed(s.at), x)]
    BY <1>2 DEF Onward, Searches
  <2>2. Listed(s.at) \in Seq(Nodes)
    BY <2>1, ListedIs
  <2>3. ToSet(Listed(s.at)) \subseteq Nodes
    BY <2>2, LenProperties DEF ToSet
  <2>4. FirstNamed(Listed(s.at), x) \in Nodes \cup {Nil}
    BY <2>2, <2>3, FirstNamedIs
  <2> QED BY <2>1, <2>4 DEF Searches
<1> QED BY <1>1, <1>2

(* A walk is as long as its path; one more name takes it on from where the  *)
(* names before have led.                                                   *)
(* The equation that Walk's recursion solves.                               *)
Takes(f, p) ==
  f = [k \in 0 .. Len(p) |-> IF k = 0 THEN Start ELSE Onward(f[k - 1], p[k])]

LEMMA TakesAt ==
  ASSUME NEW p, Len(p) \in Nat, NEW f, Takes(f, p)
  PROVE  f[0] = Start /\ \A k \in 1 .. Len(p) : f[k] = Onward(f[k - 1], p[k])
<1> DEFINE F == [k \in 0 .. Len(p) |-> IF k = 0 THEN Start ELSE Onward(f[k - 1], p[k])]
<1>1. f = F
  BY DEF Takes
<1>2. 0 \in 0 .. Len(p) /\ \A k \in 1 .. Len(p) : k \in 0 .. Len(p) /\ k # 0
  OBVIOUS
<1>3. F[0] = Start
  BY <1>2
<1>4. ASSUME NEW k \in 1 .. Len(p) PROVE F[k] = Onward(f[k - 1], p[k])
  BY <1>2
<1> HIDE DEF F
<1> QED BY <1>1, <1>3, <1>4

LEMMA WalkExists ==
  ASSUME IInv, NEW p, Len(p) \in Nat
  PROVE  \E f \in [0 .. Len(p) -> Searches] : Takes(f, p)
<1> DEFINE N == Len(p)
           b == [k \in 1 .. N |-> k - 1]
           G == [k \in 1 .. N |-> [s \in Searches |-> Onward(s, p[k])]]
<1>1. N \in Nat
  OBVIOUS
<1>2. Start \in Searches
  BY RootIs DEF IInv
<1>3. Back(N, b)
  BY <1>1 DEF Back
<1>4. \A k \in 1 .. N : \A s \in Searches : G[k][s] = Onward(s, p[k])
  OBVIOUS
<1>5. \A k \in 1 .. N : b[k] = k - 1 /\ k - 1 \in 0 .. N
  BY <1>1
<1>6. Steps(N, Searches, G)
  BY <1>4, OnwardTyped DEF Steps
<1> HIDE DEF G, b, N
<1>7. PICK f \in [0 .. N -> Searches] : Unfolds(f, N, Start, b, G)
  BY <1>1, <1>2, <1>3, <1>6, RecursionSolved
<1>8. ASSUME NEW k \in 1 .. N PROVE f[k] = Onward(f[k - 1], p[k])
  <2>1. f[k] = G[k][f[k - 1]]
    BY <1>5, <1>7 DEF Unfolds
  <2>2. f[k - 1] \in Searches
    BY <1>5, <1>7
  <2> QED BY <2>1, <2>2, <1>4
<1> DEFINE g == [k \in 0 .. N |-> IF k = 0 THEN Start ELSE Onward(f[k - 1], p[k])]
<1>9. ASSUME NEW k \in 0 .. N PROVE f[k] = g[k]
  <2>1. CASE k = 0
    BY <2>1, <1>7 DEF Unfolds
  <2>2. CASE k # 0
    <3>1. k \in 1 .. N
      BY <2>2, <1>1
    <3>2. f[k] = Onward(f[k - 1], p[k])
      BY <1>8, <3>1
    <3> QED BY <2>2, <3>2
  <2> QED BY <2>1, <2>2
<1>10. f = [k \in 0 .. N |-> f[k]] /\ g = [k \in 0 .. N |-> g[k]]
  BY <1>7
<1> HIDE DEF g
<1>11. f = g
  BY <1>9, <1>10, SameFunction
<1> QED BY <1>7, <1>11 DEF Takes, g, N

LEMMA WalkIs ==
  ASSUME IInv, NEW p \in Seq(Names)
  PROVE  \E f \in [0 .. Len(p) -> Searches] :
           /\ Walk(p) = f[Len(p)] /\ f[0] = Start
           /\ \A k \in 1 .. Len(p) : f[k] = Onward(f[k - 1], p[k])
<1> DEFINE after == CHOOSE f : Takes(f, p)
<1>1. Len(p) \in Nat
  BY LenProperties
<1>2. Walk(p) = after[Len(p)]
  BY DEF Walk, Takes
<1>3. PICK f \in [0 .. Len(p) -> Searches] : Takes(f, p)
  BY <1>1, WalkExists
<1>4. Takes(after, p)
  BY <1>3
<1> HIDE DEF after
<1>5. /\ f[0] = Start /\ \A k \in 1 .. Len(p) : f[k] = Onward(f[k - 1], p[k])
      /\ after[0] = Start /\ \A k \in 1 .. Len(p) : after[k] = Onward(after[k - 1], p[k])
  BY <1>1, <1>3, <1>4, TakesAt
<1>6. f[0] = after[0]
  BY <1>5
<1>7. \A k \in 1 .. Len(p) : f[k - 1] = after[k - 1] => f[k] = after[k]
  BY <1>5
<1>8. f[Len(p)] = after[Len(p)]
  BY <1>1, <1>6, <1>7, PrefixesAgree
<1>9. Walk(p) = f[Len(p)]
  BY <1>2, <1>8
<1> QED BY <1>3, <1>5, <1>9

LEMMA FrontIs ==
  ASSUME NEW S, NEW p \in Seq(S), p # <<>>
  PROVE  /\ Len(p) \in Nat \ {0} /\ Front(p) \in Seq(S) /\ Len(Front(p)) = Len(p) - 1
         /\ \A k \in 1 .. Len(p) - 1 : Front(p)[k] = p[k]
         /\ Last(p) = p[Len(p)] /\ Last(p) \in S
<1>1. Len(p) \in Nat \ {0} /\ p \in [1 .. Len(p) -> S]
  BY EmptySeq, LenProperties
<1> DEFINE q == SubSeq(p, 1, Len(p) - 1)
<1>2. 1 \in Int /\ Len(p) - 1 \in Int /\ \A k \in 1 .. Len(p) - 1 : p[k] \in S
  BY <1>1
<1>3. /\ q \in Seq(S) /\ Len(q) = IF 1 <= Len(p) - 1 THEN Len(p) - 1 - 1 + 1 ELSE 0
      /\ \A k \in 1 .. Len(p) - 1 - 1 + 1 : q[k] = p[1 + k - 1]
  BY <1>2, SubSeqProperties
<1>4. Front(p) = q
  BY DEF Front
<1> HIDE DEF q
<1>5. Len(q) = Len(p) - 1
  <2>1. CASE 1 <= Len(p) - 1
    BY <1>1, <1>3, <2>1
  <2>2. CASE Len(p) = 1
    BY <1>1, <1>3, <2>2
  <2>3. 1 <= Len(p) - 1 \/ Len(p) = 1
    BY <1>1
  <2> QED BY <2>1, <2>2, <2>3
<1>6. ASSUME NEW k \in 1 .. Len(p) - 1 PROVE q[k] = p[k]
  <2>1. k \in 1 .. Len(p) - 1 - 1 + 1 /\ 1 + k - 1 = k
    BY <1>1
  <2> QED BY <2>1, <1>3
<1>7. Last(p) = p[Len(p)] /\ Last(p) \in S
  BY <1>1 DEF Last
<1>8. Len(p) \in Nat \ {0}
  BY <1>1
<1>9. q \in Seq(S) /\ Len(q) = Len(p) - 1 /\ \A k \in 1 .. Len(p) - 1 : q[k] = p[k]
  BY <1>3, <1>5, <1>6
<1> QED BY <1>4, <1>7, <1>8, <1>9

LEMMA WalkTyped ==
  ASSUME IInv, NEW p \in Seq(Names)
  PROVE  Walk(p) \in Searches
BY WalkIs, LenProperties

LEMMA WalkStarts ==
  ASSUME IInv
  PROVE  Walk(<<>>) = Start
<1>1. <<>> \in Seq(Names) /\ Len(<<>>) = 0
  BY EmptySeq
<1> QED BY <1>1, WalkIs

LEMMA WalkFurther ==
  ASSUME IInv, NEW p \in Seq(Names), p # <<>>
  PROVE  Walk(p) = Onward(Walk(Front(p)), Last(p)) /\ Walk(Front(p)) \in Searches
<1> DEFINE q == Front(p)  N == Len(p) - 1
<1>1. /\ Len(p) \in Nat \ {0} /\ q \in Seq(Names) /\ Len(q) = N /\ N \in Nat
      /\ \A k \in 1 .. N : q[k] = p[k]
      /\ Last(p) = p[Len(p)]
  BY FrontIs
<1> HIDE DEF q
<1>2. PICK f \in [0 .. Len(p) -> Searches] :
        /\ Walk(p) = f[Len(p)] /\ f[0] = Start
        /\ \A k \in 1 .. Len(p) : f[k] = Onward(f[k - 1], p[k])
  BY WalkIs
<1>3. PICK g \in [0 .. Len(q) -> Searches] :
        /\ Walk(q) = g[Len(q)] /\ g[0] = Start
        /\ \A k \in 1 .. Len(q) : g[k] = Onward(g[k - 1], q[k])
  BY <1>1, WalkIs
<1>4. \A k \in 1 .. N : f[k - 1] = g[k - 1] => f[k] = g[k]
  BY <1>1, <1>2, <1>3
<1>5. f[0] = g[0]
  BY <1>2, <1>3
<1>6. N \in Nat
  BY <1>1
<1>7. Walk(q) = g[N] /\ Walk(q) \in Searches
  <2>1. Walk(q) = g[N]
    BY <1>1, <1>3
  <2>2. N \in 0 .. Len(q)
    BY <1>1
  <2>3. g[N] \in Searches
    BY <1>3, <2>2
  <2> QED BY <2>1, <2>3
<1> HIDE DEF N
<1>8. f[N] = g[N]
  BY <1>4, <1>5, <1>6, PrefixesAgree
<1>9. Walk(q) = f[N] /\ Walk(q) \in Searches
  BY <1>7, <1>8
<1>10. Walk(p) = Onward(f[N], Last(p))
  BY <1>1, <1>2 DEF N
<1> QED BY <1>9, <1>10 DEF q

-----------------------------------------------------------------------------
(* Lines and paths.                                                         *)
Lines(c) == {l \in Seq(Inodes(c)) : Len(l) > 0 /\ \A i \in 2 .. Len(l) : l[i] # Root}

IsLine(l, c, b) ==
  /\ l \in [Inodes(c) -> Lines(c)]
  /\ l[Root] = <<Root>>
  /\ \A n \in Inodes(c) \ {Root} : l[n] = Append(l[b[n]], n)

LEMMA AppendIs ==
  ASSUME NEW S, NEW s \in Seq(S), NEW x \in S
  PROVE  /\ Append(s, x) \in Seq(S) /\ Len(s) \in Nat /\ Len(Append(s, x)) = Len(s) + 1
         /\ Append(s, x)[Len(s) + 1] = x
         /\ \A i \in 1 .. Len(s) : Append(s, x)[i] = s[i]
<1>1. Append(s, x) \in Seq(S)
  BY AppendProperties
<1>2. Len(s) \in Nat
  BY LenProperties
<1>3. Len(Append(s, x)) = Len(s) + 1 /\ Append(s, x)[Len(s) + 1] = x
  BY AppendProperties
<1>4. \A i \in 1 .. Len(s) : Append(s, x)[i] = s[i]
  BY AppendProperties
<1> QED BY <1>1, <1>2, <1>3, <1>4

LEMMA LineGrows ==
  ASSUME NEW c \in Nat \ {0}, NEW n \in Inodes(c) \ {Root}, NEW v \in Lines(c)
  PROVE  Append(v, n) \in Lines(c)
<1>1. v \in Seq(Inodes(c)) /\ Len(v) > 0 /\ \A i \in 2 .. Len(v) : v[i] # Root
  BY DEF Lines
<1>2. n \in Inodes(c) /\ n # Root
  OBVIOUS
<1>3. /\ Append(v, n) \in Seq(Inodes(c)) /\ Len(v) \in Nat
      /\ Len(Append(v, n)) = Len(v) + 1 /\ Append(v, n)[Len(v) + 1] = n
      /\ \A i \in 1 .. Len(v) : Append(v, n)[i] = v[i]
  BY <1>1, <1>2, AppendIs
<1>4. ASSUME NEW i \in 2 .. Len(v) + 1 PROVE Append(v, n)[i] # Root
  <2>1. CASE i = Len(v) + 1
    BY <2>1, <1>2, <1>3
  <2>2. CASE i # Len(v) + 1
    <3>1. i \in 1 .. Len(v) /\ i \in 2 .. Len(v)
      BY <2>2, <1>3
    <3> QED BY <3>1, <1>1, <1>3
  <2> QED BY <2>1, <2>2
<1> DEFINE w == Append(v, n)
<1>5. w \in Seq(Inodes(c)) /\ Len(w) > 0 /\ \A i \in 2 .. Len(w) : w[i] # Root
  BY <1>3, <1>4
<1> HIDE DEF w
<1>6. w \in Lines(c)
  BY <1>5 DEF Lines
<1> QED BY <1>6 DEF w

(* The equation that Line solves.                                           *)
Follows(f, c, b) ==
  f = [n \in Inodes(c) |-> IF n = Root THEN <<Root>> ELSE Append(f[b[n]], n)]

LEMMA FollowsAt ==
  ASSUME NEW c \in Nat \ {0}, NEW b, NEW f, Follows(f, c, b)
  PROVE  /\ f = [n \in Inodes(c) |-> f[n]]
         /\ f[Root] = <<Root>>
         /\ \A n \in Inodes(c) \ {Root} : f[n] = Append(f[b[n]], n)
<1> DEFINE F == [n \in Inodes(c) |-> IF n = Root THEN <<Root>> ELSE Append(f[b[n]], n)]
<1>1. f = F
  BY DEF Follows
<1>2. Root \in Inodes(c)
  BY DEF Inodes, Root
<1>3. F = [n \in Inodes(c) |-> F[n]] /\ F[Root] = <<Root>>
  BY <1>2
<1>4. \A n \in Inodes(c) \ {Root} : F[n] = Append(f[b[n]], n)
  OBVIOUS
<1> HIDE DEF F
<1> QED BY <1>1, <1>3, <1>4

LEMMA LineExists ==
  ASSUME NEW c \in Nat \ {0}, NEW b, Back(c - 1, b)
  PROVE  \E f \in [Inodes(c) -> Lines(c)] : Follows(f, c, b)
<1> DEFINE N == c - 1
           V == Lines(c)
           G == [n \in 1 .. N |-> [v \in V |-> Append(v, n)]]
<1>1. N \in Nat /\ Inodes(c) = 0 .. N /\ Root = 0 /\ Back(N, b)
  BY DEF Inodes, Root
<1>2. <<Root>> \in V
  <2>1. <<Root>> \in Seq(Inodes(c)) /\ Len(<<Root>>) = 1
    BY <1>1
  <2> QED BY <2>1 DEF Lines
<1>3. ASSUME NEW n \in 1 .. N, NEW v \in V PROVE Append(v, n) \in V
  <2>1. n \in Inodes(c) \ {Root}
    BY <1>1
  <2> QED BY <2>1, LineGrows
<1> HIDE DEF V
<1>4. \A n \in 1 .. N : \A v \in V : G[n][v] = Append(v, n)
  OBVIOUS
<1> HIDE DEF G, N
<1>5. Steps(N, V, G)
  BY <1>3, <1>4 DEF Steps
<1>6. PICK f \in [0 .. N -> V] : Unfolds(f, N, <<Root>>, b, G)
  BY <1>1, <1>2, <1>5, RecursionSolved
<1>7. ASSUME NEW n \in 1 .. N PROVE f[n] = Append(f[b[n]], n)
  <2>1. b[n] \in 0 .. n - 1
    BY <1>1 DEF Back
  <2>2. b[n] \in 0 .. N
    BY <1>1, <2>1
  <2>3. f[b[n]] \in V /\ f[n] = G[n][f[b[n]]]
    BY <1>6, <2>2 DEF Unfolds
  <2> QED BY <1>4, <2>3
<1> DEFINE g == [n \in Inodes(c) |-> IF n = Root THEN <<Root>> ELSE Append(f[b[n]], n)]
<1>8. ASSUME NEW n \in Inodes(c) PROVE f[n] = g[n]
  <2>1. CASE n = Root
    BY <2>1, <1>1, <1>6 DEF Unfolds
  <2>2. CASE n # Root
    <3>1. n \in 1 .. N
      BY <2>2, <1>1
    <3>2. f[n] = Append(f[b[n]], n)
      BY <1>7, <3>1
    <3> QED BY <2>2, <3>2
  <2> QED BY <2>1, <2>2
<1>9. f = [n \in Inodes(c) |-> f[n]] /\ g = [n \in Inodes(c) |-> g[n]]
  BY <1>1, <1>6
<1> HIDE DEF g
<1>10. f = g
  BY <1>8, <1>9, SameFunction
<1>11. f \in [Inodes(c) -> Lines(c)]
  BY <1>1, <1>6 DEF V
<1> QED BY <1>10, <1>11 DEF Follows, g

LEMMA LineUnique ==
  ASSUME NEW c \in Nat \ {0}, NEW b, Back(c - 1, b), NEW l, Follows(l, c, b)
  PROVE  IsLine(l, c, b)
<1>1. PICK f \in [Inodes(c) -> Lines(c)] : Follows(f, c, b)
  BY LineExists
<1>2. /\ f[Root] = <<Root>> /\ \A n \in Inodes(c) \ {Root} : f[n] = Append(f[b[n]], n)
      /\ l[Root] = <<Root>> /\ \A n \in Inodes(c) \ {Root} : l[n] = Append(l[b[n]], n)
      /\ l = [n \in Inodes(c) |-> l[n]]
  BY <1>1, FollowsAt
<1> DEFINE N == c - 1
<1>3. N \in Nat /\ Inodes(c) = 0 .. N /\ Root = 0 /\ Inodes(c) \ {Root} = 1 .. N /\ Back(N, b)
  BY DEF Inodes, Root
<1> HIDE DEF N
<1>4. f[0] = l[0]
  BY <1>2, <1>3
<1>5. Parallel(f, l, N, b)
  BY <1>2, <1>3 DEF Parallel
<1>6. \A n \in 0 .. N : f[n] = l[n]
  BY <1>3, <1>4, <1>5, RecursionsAgree
<1>7. \A n \in Inodes(c) : l[n] \in Lines(c)
  BY <1>1, <1>3, <1>6
<1>8. l \in [Inodes(c) -> Lines(c)]
  BY <1>2, <1>7
<1> QED BY <1>2, <1>8 DEF IsLine

LEMMA LineSolved ==
  ASSUME NEW c \in Nat \ {0}, NEW b, Back(c - 1, b),
         NEW l, l = CHOOSE f : f = [n \in Inodes(c) |->
                                     IF n = Root THEN <<Root>> ELSE Append(f[b[n]], n)]
  PROVE  IsLine(l, c, b)
<1>1. l = CHOOSE f : Follows(f, c, b)
  BY DEF Follows
<1>2. \E f : Follows(f, c, b)
  BY LineExists
<1>3. Follows(l, c, b)
  BY <1>1, <1>2
<1> QED BY <1>3, LineUnique

LEMMA LineNow ==
  ASSUME Numbered, Linked
  PROVE  \E c \in Nat \ {0} : Nodes = Inodes(c) /\ IsLine(Line, c, belong)
<1>1. PICK c \in 1 .. MaxNodes : Nodes = Inodes(c)
  BY DEF Numbered
<1>2. c \in Nat \ {0} /\ \A n \in 1 .. c - 1 : n \in Nodes \ {Root}
  BY <1>1, FsAssumption DEF Inodes, Root
<1>3. Back(c - 1, belong)
  BY <1>1, <1>2 DEF Back, Linked, Inodes
<1>4. Line = CHOOSE f : f = [n \in Inodes(c) |->
                               IF n = Root THEN <<Root>> ELSE Append(f[belong[n]], n)]
  BY <1>1 DEF Line
<1> QED BY <1>1, <1>2, <1>3, <1>4, LineSolved

LEMMA LineNext ==
  ASSUME Numbered', Linked'
  PROVE  \E c \in Nat \ {0} : Nodes' = Inodes(c) /\ IsLine(Line', c, belong')
<1>1. PICK c \in 1 .. MaxNodes : Nodes' = Inodes(c)
  BY DEF Numbered
<1>2. c \in Nat \ {0} /\ \A n \in 1 .. c - 1 : n \in Nodes' \ {Root}
  BY <1>1, FsAssumption DEF Inodes, Root
<1>3. Back(c - 1, belong')
  BY <1>1, <1>2 DEF Back, Linked, Inodes
<1>4. Line' = CHOOSE f : f = [n \in Inodes(c) |->
                                IF n = Root THEN <<Root>> ELSE Append(f[belong'[n]], n)]
  BY <1>1 DEF Line
<1> QED BY <1>1, <1>2, <1>3, <1>4, LineSolved

LEMMA LineIs ==
  ASSUME IInv, NEW n \in Nodes
  PROVE  /\ Line[n] \in Seq(Nodes) /\ Len(Line[n]) \in Nat \ {0}
         /\ \A i \in 2 .. Len(Line[n]) : Line[n][i] # Root
         /\ Line[n][Len(Line[n])] = n
         /\ n = Root => Line[n] = <<Root>>
         /\ n # Root => /\ belong[n] \in Nodes /\ belong[n] < n
                        /\ Len(Line[n]) = Len(Line[belong[n]]) + 1
                        /\ \A i \in 1 .. Len(Line[belong[n]]) : Line[n][i] = Line[belong[n]][i]
<1>1. PICK c \in Nat \ {0} : Nodes = Inodes(c) /\ IsLine(Line, c, belong)
  BY LineNow DEF IInv
<1>2. \A m \in Nodes : /\ Line[m] \in Seq(Nodes) /\ Len(Line[m]) \in Nat \ {0}
                       /\ \A i \in 2 .. Len(Line[m]) : Line[m][i] # Root
  <2> TAKE m \in Nodes
  <2>1. Line[m] \in Lines(c)
    BY <1>1 DEF IsLine
  <2> QED BY <2>1, <1>1, LenProperties DEF Lines
<1>3. CASE n = Root
  <2>1. Line[n] = <<Root>>
    BY <1>1, <1>3 DEF IsLine
  <2>2. Len(<<Root>>) = 1 /\ <<Root>>[1] = Root
    OBVIOUS
  <2> QED BY <2>1, <2>2, <1>2, <1>3
<1>4. CASE n # Root
  <2>1. belong[n] \in Nodes /\ belong[n] < n
    BY <1>4 DEF IInv, Linked
  <2>2. Line[n] = Append(Line[belong[n]], n)
    BY <1>1, <1>4 DEF IsLine
  <2>3. Line[belong[n]] \in Seq(Nodes)
    BY <1>2, <2>1
  <2> DEFINE l == Line[belong[n]]
  <2> HIDE DEF l
  <2>4. /\ Append(l, n) \in Seq(Nodes) /\ Len(l) \in Nat /\ Len(Append(l, n)) = Len(l) + 1
        /\ Append(l, n)[Len(l) + 1] = n
        /\ \A i \in 1 .. Len(l) : Append(l, n)[i] = l[i]
    BY <2>3, AppendIs DEF l
  <2> QED BY <1>2, <1>4, <2>1, <2>2, <2>4 DEF l
<1> QED BY <1>3, <1>4

LEMMA PathIs ==
  ASSUME IInv, NEW n \in Nodes
  PROVE  /\ PathOf(n) \in Seq(Names) /\ Len(PathOf(n)) = Len(Line[n]) - 1
         /\ n = Root => PathOf(n) = <<>>
         /\ n # Root => /\ PathOf(n) # <<>> /\ Front(PathOf(n)) = PathOf(belong[n])
                        /\ Last(PathOf(n)) = name[n]
<1>1. ASSUME NEW m \in Nodes
      PROVE  /\ PathOf(m) \in Seq(Names) /\ Len(PathOf(m)) = Len(Line[m]) - 1
             /\ Len(Line[m]) - 1 \in Nat
             /\ \A i \in 1 .. Len(Line[m]) - 1 : PathOf(m)[i] = name[Line[m][i + 1]]
  <2> DEFINE l == Line[m]  N == Len(l) - 1
             f == [i \in 1 .. N |-> name[l[i + 1]]]
  <2>1. /\ l \in [1 .. Len(l) -> Nodes] /\ Len(l) \in Nat \ {0}
        /\ \A i \in 2 .. Len(l) : l[i] # Root
    BY LineIs, LenProperties
  <2>2. PathOf(m) = f
    BY DEF PathOf
  <2> HIDE DEF l
  <2>3. N \in Nat
    BY <2>1
  <2>4. ASSUME NEW i \in 1 .. N PROVE name[l[i + 1]] \in Names
    <3>1. i + 1 \in 2 .. Len(l) /\ i + 1 \in 1 .. Len(l)
      BY <2>1
    <3>2. l[i + 1] \in Nodes \ {Root}
      BY <2>1, <3>1
    <3> QED BY <3>2 DEF IInv, Named
  <2> HIDE DEF N
  <2>5. f \in [1 .. N -> Names]
    BY <2>4
  <2>6. f \in Seq(Names)
    BY <2>3, <2>5, SeqDef
  <2>7. Len(f) = N
    BY <2>3, <2>6, LenProperties
  <2> QED BY <2>2, <2>3, <2>6, <2>7 DEF l, N
<1>2. CASE n = Root
  <2>1. Line[n] = <<Root>> /\ Len(<<Root>>) = 1
    BY <1>2, LineIs
  <2>2. Len(PathOf(n)) = 0
    BY <2>1, <1>1
  <2> QED BY <1>1, <1>2, <2>2, EmptySeq
<1>3. CASE n # Root
  <2> DEFINE b == belong[n]  p == PathOf(n)  q == PathOf(b)  k == Len(Line[b])
  <2>1. /\ b \in Nodes /\ Len(Line[n]) = k + 1 /\ k \in Nat \ {0}
        /\ \A i \in 1 .. k : Line[n][i] = Line[b][i]
        /\ Line[n][k + 1] = n
    <3>1. b \in Nodes /\ Len(Line[n]) = k + 1 /\ \A i \in 1 .. k : Line[n][i] = Line[b][i]
      BY <1>3, LineIs
    <3>2. k \in Nat \ {0}
      BY <3>1, LineIs
    <3>3. Line[n][Len(Line[n])] = n
      BY LineIs
    <3> QED BY <3>1, <3>2, <3>3
  <2> HIDE DEF b
  <2>2. /\ p \in Seq(Names) /\ Len(p) = k
        /\ \A i \in 1 .. k : p[i] = name[Line[n][i + 1]]
    BY <1>1, <2>1
  <2>3. /\ q \in Seq(Names) /\ Len(q) = k - 1
        /\ \A i \in 1 .. k - 1 : q[i] = name[Line[b][i + 1]]
    BY <1>1, <2>1
  <2> HIDE DEF p, q, k
  <2>4. p # <<>>
    BY <2>1, <2>2, EmptySeq
  <2>5. /\ Front(p) \in Seq(Names) /\ Len(Front(p)) = k - 1
        /\ \A i \in 1 .. k - 1 : Front(p)[i] = p[i]
        /\ Last(p) = p[k]
    BY <2>2, <2>4, FrontIs
  <2>6. ASSUME NEW i \in 1 .. k - 1 PROVE Front(p)[i] = q[i]
    <3>1. i + 1 \in 1 .. k /\ i \in 1 .. k
      BY <2>1
    <3>2. p[i] = name[Line[n][i + 1]] /\ q[i] = name[Line[b][i + 1]] /\ Front(p)[i] = p[i]
      BY <3>1, <2>2, <2>3, <2>5
    <3>3. Line[n][i + 1] = Line[b][i + 1]
      BY <3>1, <2>1
    <3> QED BY <3>2, <3>3
  <2>7. Front(p) = q
    BY <2>3, <2>5, <2>6, SeqEqual
  <2>8. Last(p) = name[n]
    <3>1. k \in 1 .. k
      BY <2>1
    <3> QED BY <3>1, <2>1, <2>2, <2>5
  <2> QED BY <1>1, <1>3, <2>4, <2>7, <2>8 DEF p, q, b
<1> QED BY <1>2, <1>3

-----------------------------------------------------------------------------
(* Whatever is in the tree is found.                                        *)
Above(n) == {i \in 1 .. Len(Line[n]) - 1 : Line[n][i] \in mounted}
Outmost(n) == IF Above(n) = {} THEN n ELSE Line[n][Min(Above(n))]
Leads(n) == Walk(PathOf(n)).at = Outmost(n) /\ (Walk(PathOf(n)).stop <=> Above(n) # {})

LEMMA RootAbove ==
  ASSUME IInv
  PROVE  Above(Root) = {}
<1>1. Root \in Nodes
  BY RootIs DEF IInv
<1>2. Line[Root] = <<Root>> /\ Len(<<Root>>) = 1
  BY <1>1, LineIs
<1> DEFINE N == Len(Line[Root]) - 1
<1>3. N = 0
  BY <1>2
<1> HIDE DEF N
<1>4. Above(Root) = {i \in 1 .. N : Line[Root][i] \in mounted}
  BY DEF Above, N
<1> QED BY <1>3, <1>4

LEMMA RootLeads ==
  ASSUME IInv
  PROVE  Leads(Root)
<1>1. Root \in Nodes
  BY RootIs DEF IInv
<1>2. Walk(PathOf(Root)) = Start
  BY <1>1, PathIs, WalkStarts
<1>3. Above(Root) = {}
  BY RootAbove
<1> QED BY <1>2, <1>3 DEF Leads, Outmost, Start

LEMMA AboveKid ==
  ASSUME IInv, NEW n \in Nodes \ {Root}
  PROVE  LET k == Len(Line[belong[n]])
         IN /\ Above(belong[n]) \subseteq 1 .. k - 1
            /\ Above(n) = Above(belong[n]) \cup (IF belong[n] \in mounted THEN {k} ELSE {})
<1> DEFINE b == belong[n]  k == Len(Line[b])
<1>1. /\ b \in Nodes /\ Len(Line[n]) = k + 1 /\ k \in Nat \ {0}
      /\ \A i \in 1 .. k : Line[n][i] = Line[b][i]
      /\ Line[b][k] = b
  <2>1. b \in Nodes /\ Len(Line[n]) = k + 1 /\ \A i \in 1 .. k : Line[n][i] = Line[b][i]
    BY LineIs
  <2> QED BY <2>1, LineIs
<1> HIDE DEF b
<1>2. Above(b) = {i \in 1 .. k - 1 : Line[b][i] \in mounted}
  BY DEF Above
<1>3. Above(n) = {i \in 1 .. k : Line[n][i] \in mounted}
  BY <1>1 DEF Above
<1> HIDE DEF k
<1>4. \A i : i \in 1 .. k <=> i \in 1 .. k - 1 \/ i = k
  BY <1>1
<1>5. /\ Above(b) \subseteq 1 .. k - 1
      /\ Above(n) = Above(b) \cup (IF b \in mounted THEN {k} ELSE {})
  BY <1>1, <1>2, <1>3, <1>4
<1> QED BY <1>5 DEF b, k

LEMMA KidLeads ==
  ASSUME IInv, NEW n \in Nodes \ {Root}, Leads(belong[n])
  PROVE  Leads(n)
<1> DEFINE b == belong[n]  s == Walk(PathOf(b))  k == Len(Line[b])
<1>1. /\ b \in Nodes /\ Len(Line[n]) = k + 1 /\ k \in Nat \ {0}
      /\ \A i \in 1 .. k : Line[n][i] = Line[b][i]
      /\ Line[b][k] = b
  <2>1. b \in Nodes /\ Len(Line[n]) = k + 1 /\ \A i \in 1 .. k : Line[n][i] = Line[b][i]
    BY LineIs
  <2> QED BY <2>1, LineIs
<1>2. Walk(PathOf(n)) = Onward(s, name[n]) /\ s \in Searches
  BY PathIs, WalkFurther
<1>3. s.at = Outmost(b) /\ (s.stop <=> Above(b) # {})
  BY DEF Leads
<1>4. n \in Children(b)
  BY DEF Children
<1> HIDE DEF b, s
<1>5. /\ Above(b) \subseteq 1 .. k - 1
      /\ Above(n) = Above(b) \cup (IF b \in mounted THEN {k} ELSE {})
  BY AboveKid DEF b
<1> HIDE DEF k
<1>6. CASE Above(b) # {}
  <2>1. Walk(PathOf(n)) = s
    BY <1>2, <1>3, <1>6 DEF Onward
  <2>2. /\ Above(b) \in SUBSET Nat /\ Above(n) \in SUBSET Nat /\ Above(n) # {}
    BY <1>1, <1>5, <1>6
  <2> DEFINE x == Min(Above(b))  y == Min(Above(n))
  <2>3. /\ x \in Above(b) /\ \A i \in Above(b) : x <= i
        /\ y \in Above(n) /\ \A i \in Above(n) : y <= i
    BY <1>6, <2>2, MinIs
  <2> HIDE DEF x, y
  <2>4. x \in Above(n) /\ x \in 1 .. k - 1 /\ y <= x
    BY <1>5, <2>3
  <2>5. y \in Above(b)
    BY <1>1, <1>5, <2>3, <2>4
  <2>6. x = y
    BY <2>2, <2>3, <2>4, <2>5
  <2>7. Line[n][y] = Line[b][x]
    BY <1>1, <2>4, <2>6
  <2> QED BY <1>3, <1>6, <2>1, <2>2, <2>7 DEF Leads, Outmost, x, y
<1>7. CASE Above(b) = {} /\ b \in mounted
  <2>1. s.at = b /\ ~s.stop /\ b # Nil
    BY <1>1, <1>3, <1>7, RootIs DEF Outmost, IInv
  <2>2. Walk(PathOf(n)).at = b /\ Walk(PathOf(n)).stop
    BY <1>2, <1>7, <2>1 DEF Onward, Searches
  <2>3. Above(n) = {k}
    BY <1>5, <1>7
  <2>4. Min(Above(n)) = k
    BY <1>1, <2>3, MinIs
  <2>5. Line[n][k] = b
    BY <1>1
  <2> QED BY <2>2, <2>3, <2>4, <2>5 DEF Leads, Outmost
<1>8. CASE Above(b) = {} /\ b \notin mounted
  <2>1. s.at = b /\ ~s.stop /\ b # Nil
    BY <1>1, <1>3, <1>8, RootIs DEF Outmost, IInv
  <2>2. Walk(PathOf(n)) = [s EXCEPT !.at = FirstNamed(Listed(b), name[n])]
    BY <1>2, <1>8, <2>1 DEF Onward
  <2>3. kids[b] \in Seq(Nodes) /\ ToSet(kids[b]) = Children(b) /\ kids[b] # <<>>
    <3>1. kids[b] \in Seq(Nodes) /\ ToSet(kids[b]) = Children(b)
      BY <1>1 DEF IInv, Linked
    <3>2. ToSet(<<>>) = {}
      BY DEF ToSet
    <3> QED BY <3>1, <3>2, <1>4
  <2>4. Listed(b) = kids[b]
    BY <2>3 DEF Listed
  <2>5. FirstNamed(Listed(b), name[n]) = n
    <3> DEFINE m == FirstNamed(kids[b], name[n])
    <3>1. \/ m = Nil /\ \A i \in ToSet(kids[b]) : name[i] # name[n]
          \/ m \in ToSet(kids[b]) /\ name[m] = name[n]
      BY <2>3, FirstNamedIs
    <3> HIDE DEF m
    <3>2. m \in Children(b) /\ name[m] = name[n]
      BY <3>1, <2>3, <1>4
    <3>3. m = n
      BY <3>2, <1>4 DEF Children, IInv, Named
    <3> QED BY <3>3, <2>4 DEF m
  <2>6. Above(n) = {}
    BY <1>5, <1>8
  <2> QED BY <1>2, <2>1, <2>2, <2>5, <2>6 DEF Leads, Outmost, Searches
<1> QED BY <1>6, <1>7, <1>8

LEMMA AllLead ==
  ASSUME IInv
  PROVE  Findable
<1> DEFINE Lost == {n \in Nodes : ~Leads(n)}
<1>1. Nodes \in SUBSET Nat
  BY RootIs DEF IInv
<1>2. Lost = {}
  <2> SUFFICES ASSUME Lost # {} PROVE FALSE
    OBVIOUS
  <2>1. PICK n \in Lost : \A m \in Lost : n <= m
    <3>1. Lost \in SUBSET Nat
      BY <1>1
    <3> HIDE DEF Lost
    <3> QED BY <3>1, LeastNumber
  <2>2. n \in Nodes \ {Root} /\ ~Leads(n)
    BY RootLeads
  <2>3. belong[n] \in Nodes /\ belong[n] < n
    BY <2>2, LineIs
  <2>4. Leads(belong[n])
    <3>1. belong[n] \notin Lost
      <4>1. belong[n] \in Nat /\ n \in Nat
        BY <1>1, <2>2, <2>3
      <4> HIDE DEF Lost
      <4> QED BY <4>1, <2>1, <2>3
    <3> QED BY <3>1, <2>3
  <2> QED BY <2>2, <2>4, KidLeads
<1> QED BY <1>2 DEF Findable, Leads, Outmost, Above

-----------------------------------------------------------------------------
(* A search that stops has stopped at a mounted inode; one that has not has *)
(* met none on the way, and has not read past one.                          *)
Prefix(p, k) == isearch(SubSeq(p, 1, k))
Strays(p) == \E k \in 0 .. Len(p) - 1 : Prefix(p, k) \in mounted \/ kids[Prefix(p, k)] = <<>>
Exact(p) == isearch(p) = Nil \/ PathOf(isearch(p)) = p \/ Strays(p)

(* What holds of the search for a path of any length.                       *)
Sought(p) ==
  LET s == Walk(p)
  IN /\ s.stop => Strays(p)
     /\ s.at # Nil => PathOf(s.at) = p \/ Strays(p)
     /\ s.at # Nil /\ ~s.stop => Above(s.at) = {}

LEMMA PrefixIs ==
  ASSUME IInv, NEW p \in Seq(Names), p # <<>>
  PROVE  /\ Prefix(p, Len(p) - 1) = isearch(Front(p))
         /\ Strays(Front(p)) => Strays(p)
<1> DEFINE q == Front(p)
<1>1. /\ Len(p) \in Nat \ {0} /\ q \in Seq(Names) /\ Len(q) = Len(p) - 1
      /\ \A k \in 1 .. Len(p) - 1 : q[k] = p[k]
  BY FrontIs
<1>2. SubSeq(p, 1, Len(p) - 1) = q
  BY DEF Front
<1>3. ASSUME NEW k \in 0 .. Len(q) - 1 PROVE SubSeq(q, 1, k) = SubSeq(p, 1, k)
  <2> HIDE DEF q
  <2>1. /\ SubSeq(q, 1, k) = [i \in 1 .. 1 + k - 1 |-> q[i + 1 - 1]]
        /\ SubSeq(p, 1, k) = [i \in 1 .. 1 + k - 1 |-> p[i + 1 - 1]]
    BY <1>1
  <2> QED BY <1>1, <2>1
<1>4. Prefix(p, Len(p) - 1) = isearch(q)
  BY <1>2 DEF Prefix
<1> HIDE DEF q
<1>5. ASSUME NEW k \in 0 .. Len(q) - 1 PROVE k \in 0 .. Len(p) - 1 /\ Prefix(q, k) = Prefix(p, k)
  <2>1. k \in 0 .. Len(p) - 1
    BY <1>1
  <2>2. SubSeq(q, 1, k) = SubSeq(p, 1, k)
    BY <1>3
  <2> QED BY <2>1, <2>2 DEF Prefix
<1>6. Strays(q) => Strays(p)
  BY <1>5 DEF Strays
<1> QED BY <1>4, <1>6 DEF q

LEMMA SameFront ==
  ASSUME NEW S, NEW p \in Seq(S), NEW q \in Seq(S), p # <<>>, q # <<>>,
         Front(p) = Front(q), Last(p) = Last(q)
  PROVE  p = q
<1>1. /\ Len(p) \in Nat \ {0} /\ Len(Front(p)) = Len(p) - 1
      /\ \A k \in 1 .. Len(p) - 1 : Front(p)[k] = p[k]
      /\ Last(p) = p[Len(p)]
  BY FrontIs
<1>2. /\ Len(q) \in Nat \ {0} /\ Len(Front(q)) = Len(q) - 1
      /\ \A k \in 1 .. Len(q) - 1 : Front(q)[k] = q[k]
      /\ Last(q) = q[Len(q)]
  BY FrontIs
<1>3. Len(p) = Len(q)
  BY <1>1, <1>2
<1>4. ASSUME NEW i \in 1 .. Len(p) PROVE p[i] = q[i]
  <2>1. CASE i = Len(p)
    BY <2>1, <1>1, <1>2, <1>3
  <2>2. CASE i # Len(p)
    <3>1. i \in 1 .. Len(p) - 1 /\ i \in 1 .. Len(q) - 1
      BY <2>2, <1>1, <1>3
    <3> QED BY <3>1, <1>1, <1>2
  <2> QED BY <2>1, <2>2
<1> QED BY <1>3, <1>4, SeqEqual

LEMMA StartSought ==
  ASSUME IInv
  PROVE  Sought(<<>>)
<1>1. Root \in Nodes /\ Walk(<<>>) = Start
  BY RootIs, WalkStarts DEF IInv
<1>2. PathOf(Root) = <<>>
  BY <1>1, PathIs
<1>3. Above(Root) = {}
  BY <1>1, RootAbove
<1> QED BY <1>1, <1>2, <1>3 DEF Sought, Start

LEMMA OnwardSought ==
  ASSUME IInv, NEW p \in Seq(Names), p # <<>>, Sought(Front(p))
  PROVE  Sought(p)
<1> DEFINE q == Front(p)  s == Walk(q)  w == Walk(p)  d == s.at
<1>1. w = Onward(s, Last(p)) /\ s \in Searches
  BY WalkFurther
<1>2. Prefix(p, Len(p) - 1) = d /\ (Strays(q) => Strays(p))
  BY PrefixIs DEF isearch
<1>3. /\ s.stop => Strays(q)
      /\ d # Nil => PathOf(d) = q \/ Strays(q)
      /\ d # Nil /\ ~s.stop => Above(d) = {}
  BY DEF Sought
<1>4. Len(p) - 1 \in 0 .. Len(p) - 1
  BY FrontIs
<1>5. d \in mounted \/ kids[d] = <<>> => Strays(p)
  BY <1>2, <1>4 DEF Strays
<1> SUFFICES /\ w.stop => Strays(p)
             /\ w.at # Nil => PathOf(w.at) = p \/ Strays(p)
             /\ w.at # Nil /\ ~w.stop => Above(w.at) = {}
  BY DEF Sought
<1> HIDE DEF q, s, w, d
<1>6. CASE s.stop
  <2>1. w = s
    BY <1>1, <1>6 DEF Onward
  <2> QED BY <2>1, <1>2, <1>3, <1>6
<1>7. CASE ~s.stop /\ d = Nil
  <2>1. w.at = Nil /\ ~w.stop
    BY <1>1, <1>7 DEF Onward, Searches, d
  <2> QED BY <2>1
<1>8. CASE ~s.stop /\ d # Nil /\ d \in mounted
  <2>1. w.stop
    BY <1>1, <1>8 DEF Onward, Searches, d
  <2> QED BY <2>1, <1>5, <1>8
<1>9. CASE ~s.stop /\ d # Nil /\ d \notin mounted
  <2>1. d \in Nodes /\ Above(d) = {}
    BY <1>1, <1>3, <1>9 DEF Searches, d
  <2>2. ~w.stop /\ w.at = FirstNamed(Listed(d), Last(p))
    BY <1>1, <1>9 DEF Onward, Searches, d
  <2>3. /\ Listed(d) \in Seq(Nodes) /\ ToSet(Listed(d)) \subseteq Nodes
        /\ kids[d] # <<>> => ToSet(Listed(d)) = Children(d)
        /\ kids[d] = <<>> => \A m \in ToSet(Listed(d)) :
                  m = d \/ (d # Root /\ m \in Nodes \ {Root} /\ belong[m] = belong[d])
    <3>1. Listed(d) \in Seq(Nodes)
      BY <2>1, ListedIs
    <3>2. ToSet(Listed(d)) \subseteq Nodes
      BY <3>1, LenProperties DEF ToSet
    <3> QED BY <2>1, <3>1, <3>2, ListedIs
  <2>4. \/ w.at = Nil
        \/ w.at \in ToSet(Listed(d)) /\ name[w.at] = Last(p)
    BY <2>2, <2>3, FirstNamedIs
  <2>5. CASE w.at = Nil
    BY <2>2, <2>5
  <2>6. CASE kids[d] = <<>> /\ w.at # Nil
    <3>1. \/ w.at = d
          \/ d # Root /\ w.at \in Nodes \ {Root} /\ belong[w.at] = belong[d]
      BY <2>3, <2>4, <2>6
    <3>2. Above(w.at) = {}
      BY <2>1, <3>1, AboveKid
    <3> QED BY <3>2, <1>5, <2>2, <2>6
  <2>7. CASE kids[d] # <<>> /\ w.at # Nil
    <3>1. w.at \in Nodes \ {Root} /\ belong[w.at] = d /\ name[w.at] = Last(p)
      BY <2>3, <2>4, <2>7 DEF Children
    <3>2. Above(w.at) = {}
      BY <1>9, <2>1, <3>1, AboveKid
    <3>3. /\ PathOf(w.at) \in Seq(Names) /\ PathOf(w.at) # <<>>
          /\ Front(PathOf(w.at)) = PathOf(d) /\ Last(PathOf(w.at)) = Last(p)
      BY <3>1, PathIs
    <3>4. PathOf(d) = q => PathOf(w.at) = p
      BY <3>3, SameFront DEF q
    <3> QED BY <3>2, <3>4, <1>2, <1>3, <1>9, <2>2
  <2> QED BY <2>5, <2>6, <2>7
<1> QED BY <1>6, <1>7, <1>8, <1>9

LEMMA AllSought ==
  ASSUME IInv, NEW p \in Seq(Names)
  PROVE  Sought(p)
<1> DEFINE Failed == {q \in Seq(Names) : ~Sought(q)}
           Lengths == {Len(q) : q \in Failed}
<1> SUFFICES ASSUME Failed # {} PROVE FALSE
  OBVIOUS
<1>1. Lengths \in SUBSET Nat /\ Lengths # {}
  BY LenProperties
<1>2. PICK n \in Lengths : \A m \in Lengths : n <= m
  <2> HIDE DEF Lengths
  <2> QED BY <1>1, LeastNumber
<1>3. PICK q \in Failed : Len(q) = n
  OBVIOUS
<1>4. q \in Seq(Names) /\ ~Sought(q) /\ q # <<>>
  BY StartSought
<1>5. Front(q) \in Seq(Names) /\ Len(Front(q)) = n - 1 /\ n \in Nat
  BY <1>3, <1>4, FrontIs
<1>6. Len(Front(q)) \notin Lengths
  <2> HIDE DEF Lengths
  <2> QED BY <1>2, <1>5
<1>7. Sought(Front(q))
  BY <1>5, <1>6
<1> QED BY <1>4, <1>7, OnwardSought

LEMMA PathsAre ==
  \A p \in Paths : p \in Seq(Names)
<1> TAKE p \in Paths
<1>1. PICK k \in 0 .. MaxDepth : p \in [1 .. k -> Names]
  BY DEF Paths
<1>2. k \in Nat
  BY FsAssumption
<1> QED BY <1>1, <1>2, SeqDef

LEMMA AllExact ==
  ASSUME IInv
  PROVE  LookupExact
<1>1. \A p \in Paths : Exact(p)
  BY PathsAre, AllSought DEF Exact, Sought, isearch
<1> QED BY <1>1 DEF LookupExact, Exact, Strays, Prefix

-----------------------------------------------------------------------------
(* The invariant holds.                                                     *)
LEMMA InitIInv ==
  Init => IInv
<1> SUFFICES ASSUME Init PROVE IInv
  OBVIOUS
<1>1. /\ Nodes = {Root} /\ Root = 0 /\ Nodes = Inodes(1)
      /\ DOMAIN belong = {Root} /\ DOMAIN kids = {Root} /\ kids[Root] = <<>>
      /\ name[Root] = "root" /\ mounted = {}
  BY DEF Init, Nodes, Root, Inodes
<1>2. 1 \in 1 .. MaxNodes
  BY FsAssumption
<1>3. Numbered
  BY <1>1, <1>2 DEF Numbered
<1>4. ToSet(<<>>) = {} /\ <<>> \in Seq(Nodes) /\ \A n : Children(n) = {}
  BY <1>1 DEF ToSet, Children
<1>5. Linked
  BY <1>1, <1>4 DEF Linked
<1>6. Named
  BY <1>1 DEF Named
<1> QED BY <1>3, <1>5, <1>6 DEF IInv

(* Where imknod puts the new inode: no mounted inode is on the way, and no  *)
(* child has the name already.                                              *)
LEMMA Free ==
  ASSUME IInv, NEW p \in Seq(Names), p # <<>>, MayMake(p)
  PROVE  /\ isearch(Front(p)) \in Nodes \ mounted /\ Above(isearch(Front(p))) = {}
         /\ \A n \in Children(isearch(Front(p))) : name[n] # Last(p)
<1> DEFINE q == Front(p)  s == Walk(q)  d == s.at
<1>1. Walk(p) = Onward(s, Last(p)) /\ s \in Searches /\ q \in Seq(Names)
  BY WalkFurther, FrontIs
<1>2. d = isearch(q) /\ d # Nil /\ Walk(p) = Absent
  BY DEF MayMake, isearch
<1>3. d # Nil /\ ~s.stop => Above(d) = {}
  BY <1>1, AllSought DEF Sought
<1> HIDE DEF q, s
<1>4. Walk(p).at = Nil /\ ~Walk(p).stop
  BY <1>2 DEF Absent
<1>5. ~s.stop
  BY <1>1, <1>2, <1>4 DEF Onward
<1>6. d \notin mounted
  BY <1>1, <1>2, <1>4, <1>5 DEF Onward, Searches
<1>7. d \in Nodes
  BY <1>1, <1>2 DEF Searches
<1>8. FirstNamed(Listed(d), Last(p)) = Nil
  BY <1>1, <1>2, <1>4, <1>5, <1>6 DEF Onward, Searches
<1>9. Listed(d) \in Seq(Nodes) /\ Nil \notin ToSet(Listed(d))
  <2>1. Listed(d) \in Seq(Nodes)
    BY <1>7, ListedIs
  <2>2. ToSet(Listed(d)) \subseteq Nodes
    BY <2>1, LenProperties DEF ToSet
  <2> QED BY <2>1, <2>2, RootIs DEF IInv
<1>10. \A n \in ToSet(Listed(d)) : name[n] # Last(p)
  BY <1>8, <1>9, FirstNamedIs
<1>11. Children(d) \subseteq ToSet(Listed(d))
  <2>1. CASE kids[d] # <<>>
    BY <2>1, <1>7, ListedIs
  <2>2. CASE kids[d] = <<>>
    <3>1. ToSet(<<>>) = {}
      BY DEF ToSet
    <3> QED BY <2>2, <3>1, <1>7 DEF IInv, Linked
  <2> QED BY <2>1, <2>2
<1> QED BY <1>2, <1>3, <1>5, <1>6, <1>7, <1>10, <1>11 DEF q

(* What mknod changes: inode c is made, and listed last where it belongs.   *)
Makes(c, d, x) ==
  /\ c \in 1 .. MaxNodes - 1 /\ Nodes = Inodes(c)
  /\ d \in Nodes \ mounted /\ Above(d) = {}
  /\ x \in Names /\ \A n \in Children(d) : name[n] # x
  /\ Nodes' = Nodes \cup {c} /\ DOMAIN belong' = Nodes' /\ DOMAIN kids' = Nodes'
  /\ \A n \in Nodes : /\ name'[n] = name[n] /\ belong'[n] = belong[n]
                       /\ kids'[n] = IF n = d THEN Append(kids[n], c) ELSE kids[n]
  /\ name'[c] = x /\ belong'[c] = d /\ kids'[c] = <<>>
  /\ mounted' = mounted

LEMMA MkNodMakes ==
  ASSUME IInv, NEW p \in Paths, NEW m, MkNod(p, m)
  PROVE  \E c, d, x : Makes(c, d, x)
<1> DEFINE d == isearch(Front(p))
           With(f, x, c) == [n \in Nodes \cup {c} |-> IF n = c THEN x ELSE f[n]]
<1>1. PICK c \in 1 .. MaxNodes : Nodes = Inodes(c)
  BY DEF IInv, Numbered
<1>2. Cardinality(Nodes) = c /\ c \in Nat
  <2>1. c \in Nat \ {0} /\ MaxNodes \in Nat
    BY FsAssumption
  <2>2. Cardinality(0 .. c - 1) = c
    BY <2>1, FS_Interval
  <2> QED BY <1>1, <2>1, <2>2 DEF Inodes
<1>3. /\ p # <<>> /\ c < MaxNodes /\ MayMake(p)
      /\ name' = With(name, Last(p), c) /\ belong' = With(belong, d, c)
      /\ kids' = With([kids EXCEPT ![d] = Append(@, c)], <<>>, c)
      /\ mounted' = mounted
  BY <1>2 DEF MkNod
<1>4. /\ d \in Nodes \ mounted /\ Above(d) = {} /\ Last(p) \in Names
      /\ \A n \in Children(d) : name[n] # Last(p)
  BY <1>3, PathsAre, Free, FrontIs
<1> HIDE DEF d
<1>5. c \in 1 .. MaxNodes - 1 /\ c \notin Nodes
  BY <1>1, <1>2, <1>3, FsAssumption DEF Inodes
<1>6. Nodes' = Nodes \cup {c} /\ DOMAIN belong' = Nodes' /\ DOMAIN kids' = Nodes'
  BY <1>3 DEF Nodes
<1>7. DOMAIN kids = Nodes
  BY DEF IInv, Numbered
<1>8. \A n \in Nodes : /\ name'[n] = name[n] /\ belong'[n] = belong[n]
                       /\ kids'[n] = IF n = d THEN Append(kids[n], c) ELSE kids[n]
  BY <1>3, <1>4, <1>5, <1>7
<1>9. name'[c] = Last(p) /\ belong'[c] = d /\ kids'[c] = <<>>
  BY <1>3
<1>10. Makes(c, d, Last(p))
  BY <1>1, <1>3, <1>4, <1>5, <1>6, <1>8, <1>9 DEF Makes
<1> QED BY <1>10

LEMMA MakesKeeps ==
  ASSUME IInv, NEW c, NEW d, NEW x, Makes(c, d, x)
  PROVE  IInv'
<1>1. /\ c \in 1 .. MaxNodes - 1 /\ Nodes = Inodes(c)
      /\ d \in Nodes /\ x \in Names /\ \A n \in Children(d) : name[n] # x
      /\ Nodes' = Nodes \cup {c} /\ DOMAIN belong' = Nodes' /\ DOMAIN kids' = Nodes'
      /\ name'[c] = x /\ belong'[c] = d /\ kids'[c] = <<>> /\ mounted' = mounted
  BY DEF Makes
<1>2. \A n \in Nodes : /\ name'[n] = name[n] /\ belong'[n] = belong[n]
                       /\ kids'[n] = IF n = d THEN Append(kids[n], c) ELSE kids[n]
  BY DEF Makes
<1>3. c \notin Nodes /\ c + 1 \in 1 .. MaxNodes /\ Inodes(c) \cup {c} = Inodes(c + 1)
      /\ c # Root /\ Root \in Nodes /\ d < c
  BY <1>1, FsAssumption DEF Inodes, Root
<1>4. Numbered'
  <2>1. Nodes' = Inodes(c + 1)
    BY <1>1, <1>3
  <2>2. mounted' \subseteq Nodes'
    BY <1>1 DEF IInv, Numbered
  <2> QED BY <1>1, <1>3, <2>1, <2>2 DEF Numbered
<1>5. \A n \in Nodes' \ {Root} : belong'[n] \in Nodes' /\ belong'[n] < n
  BY <1>1, <1>2, <1>3 DEF IInv, Linked
<1>6. ASSUME NEW n \in Nodes' PROVE kids'[n] \in Seq(Nodes') /\ ToSet(kids'[n]) = Children(n)'
  <2>1. Children(n)' = {i \in Nodes' \ {Root} : belong'[i] = n}
    BY DEF Children
  <2>2. CASE n = c
    <3>1. Children(n)' = {}
      <4>1. belong'[c] # c
        BY <1>1, <1>3
      <4>2. \A i \in Nodes \ {Root} : belong'[i] # c
        BY <1>2, <1>3 DEF IInv, Linked
      <4> QED BY <4>1, <4>2, <2>1, <2>2, <1>1
    <3>2. ToSet(<<>>) = {}
      BY DEF ToSet
    <3> QED BY <1>1, <2>2, <3>1, <3>2
  <2>3. CASE n # c
    <3> DEFINE l == kids[n]
    <3>1. n \in Nodes /\ l \in Seq(Nodes) /\ ToSet(l) = Children(n)
      BY <2>3, <1>1 DEF IInv, Linked
    <3>2. Children(n)' = IF n = d THEN Children(n) \cup {c} ELSE Children(n)
      BY <2>1, <1>1, <1>2, <1>3 DEF Children
    <3>3. l \in Seq(Nodes')
      BY <3>1, <1>1
    <3>4. kids'[n] = IF n = d THEN Append(l, c) ELSE l
      BY <1>2, <3>1
    <3> HIDE DEF l
    <3>5. CASE n # d
      BY <3>1, <3>2, <3>3, <3>4, <3>5
    <3>6. CASE n = d
      <4> DEFINE w == Append(l, c)
      <4>1. /\ w \in Seq(Nodes') /\ Len(l) \in Nat /\ Len(w) = Len(l) + 1
            /\ w[Len(l) + 1] = c /\ \A i \in 1 .. Len(l) : w[i] = l[i]
        BY <3>3, <1>1, AppendIs
      <4> HIDE DEF w
      <4>2. ToSet(w) = {w[i] : i \in 1 .. Len(l) + 1} /\ ToSet(l) = {l[i] : i \in 1 .. Len(l)}
        BY <4>1, <3>3, LenProperties DEF ToSet
      <4>3. \A i : i \in 1 .. Len(l) + 1 <=> i \in 1 .. Len(l) \/ i = Len(l) + 1
        BY <4>1
      <4>4. ToSet(w) = ToSet(l) \cup {c}
        BY <4>1, <4>2, <4>3
      <4> QED BY <4>1, <4>4, <3>1, <3>2, <3>4, <3>6 DEF w
    <3> QED BY <3>5, <3>6
  <2> QED BY <2>2, <2>3
<1>7. Linked'
  BY <1>5, <1>6 DEF Linked
<1>8. /\ \A n \in Nodes' \ {Root} : name'[n] \in Names
      /\ name'[Root] = "root"
  BY <1>1, <1>2, <1>3 DEF IInv, Named
<1>9. ASSUME NEW m \in Nodes' \ {Root}, NEW n \in Nodes' \ {Root},
             belong'[m] = belong'[n], name'[m] = name'[n]
      PROVE  m = n
  <2>1. CASE m # c /\ n # c
    <3>1. m \in Nodes \ {Root} /\ n \in Nodes \ {Root}
      BY <2>1, <1>1
    <3> QED BY <3>1, <1>2, <1>9 DEF IInv, Named
  <2>2. \A i \in Nodes' \ {Root} : i # c => ~(belong'[i] = d /\ name'[i] = x)
    BY <1>1, <1>2 DEF Children
  <2> QED BY <2>1, <2>2, <1>1, <1>9
<1>10. Named'
  BY <1>8, <1>9 DEF Named
<1> QED BY <1>4, <1>7, <1>10 DEF IInv

LEMMA OthersKeep ==
  ASSUME IInv, UNCHANGED <<name, belong, kids>>, mounted' \subseteq Nodes
  PROVE  IInv'
BY DEF IInv, Numbered, Linked, Named, Nodes, Children

LEMMA NextIInv ==
  ASSUME IInv, [Next]_vars
  PROVE  IInv'
<1>0. mounted \subseteq Nodes
  BY DEF IInv, Numbered
<1>1. ASSUME NEW p \in Paths, NEW m \in Modes, MkNod(p, m) PROVE IInv'
  BY <1>1, MkNodMakes, MakesKeeps
<1>2. ASSUME NEW p \in Paths, FollowNull(p) PROVE IInv'
  BY <1>0, <1>2, OthersKeep DEF FollowNull
<1>3. ASSUME NEW p \in Paths, NEW s \in Paths, mount(s, p) PROVE IInv'
  <2>1. Walk(p).at \in Nodes
    <3>1. isearch(p) # Nil
      BY <1>3 DEF mount, IsA
    <3> QED BY <3>1, PathsAre, WalkTyped DEF isearch, Searches
  <2> QED BY <1>0, <1>3, <2>1, OthersKeep DEF mount, isearch
<1>4. ASSUME NEW p \in Paths, umount2(p) PROVE IInv'
  BY <1>0, <1>4, OthersKeep DEF umount2
<1>5. CASE UNCHANGED vars
  BY <1>0, <1>5, OthersKeep DEF vars
<1> QED BY <1>1, <1>2, <1>3, <1>4, <1>5 DEF Next

-----------------------------------------------------------------------------
(* The inodes that lead to one stay when others are made.                   *)
LEMMA LineKept ==
  ASSUME IInv, IInv', Nodes \subseteq Nodes', \A n \in Nodes : belong'[n] = belong[n]
  PROVE  \A n \in Nodes : Line'[n] = Line[n]
<1> DEFINE old == Line  new == Line'
<1>1. PICK c \in Nat \ {0} : Nodes = Inodes(c) /\ IsLine(old, c, belong)
  BY LineNow DEF IInv
<1>2. PICK e \in Nat \ {0} : Nodes' = Inodes(e) /\ IsLine(new, e, belong')
  BY LineNext DEF IInv
<1> HIDE DEF old, new
<1>3. c - 1 \in Nat /\ Inodes(c) = 0 .. c - 1
  BY DEF Inodes
<1>4. \A n \in 1 .. c - 1 : n \in Nodes \ {Root} /\ n \in Nodes'
  BY <1>1, <1>3 DEF Root
<1>5. Back(c - 1, belong)
  BY <1>1, <1>3, <1>4 DEF Back, IInv, Linked, Inodes
<1>6. old[0] = new[0]
  BY <1>1, <1>2 DEF IsLine, Root
<1>7. Parallel(old, new, c - 1, belong)
  <2> SUFFICES ASSUME NEW n \in 1 .. c - 1, old[belong[n]] = new[belong[n]]
               PROVE  old[n] = new[n]
    BY DEF Parallel
  <2>1. n \in Inodes(c) \ {Root} /\ n \in Inodes(e) \ {Root} /\ belong'[n] = belong[n]
    BY <1>1, <1>2, <1>4
  <2>2. old[n] = Append(old[belong[n]], n) /\ new[n] = Append(new[belong[n]], n)
    BY <1>1, <1>2, <2>1 DEF IsLine
  <2> QED BY <2>2
<1>8. \A n \in 0 .. c - 1 : old[n] = new[n]
  BY <1>3, <1>5, <1>6, <1>7, RecursionsAgree
<1> QED BY <1>1, <1>3, <1>8 DEF old, new

LEMMA MakesFree ==
  ASSUME IInv, NEW c, NEW d, NEW x, Makes(c, d, x), NEW n \in Nodes' \ Nodes
  PROVE  Range(Line'[belong'[n]]) \cap mounted = {}
<1>1. /\ d \in Nodes \ mounted /\ Above(d) = {}
      /\ Nodes' = Nodes \cup {c} /\ belong'[c] = d
      /\ \A m \in Nodes : belong'[m] = belong[m]
  BY DEF Makes
<1>2. IInv'
  BY MakesKeeps
<1>3. Line'[belong'[n]] = Line[d]
  <2>1. n = c
    BY <1>1
  <2>2. Line'[d] = Line[d]
    BY <1>1, <1>2, LineKept
  <2> QED BY <1>1, <2>1, <2>2
<1> DEFINE l == Line[d]
<1>4. l \in Seq(Nodes) /\ Len(l) \in Nat \ {0} /\ l[Len(l)] = d
  BY <1>1, LineIs
<1>5. \A i \in 1 .. Len(l) - 1 : l[i] \notin mounted
  BY <1>1 DEF Above
<1> HIDE DEF l
<1>6. \A i \in 1 .. Len(l) : l[i] \notin mounted
  <2> TAKE i \in 1 .. Len(l)
  <2>1. i \in 1 .. Len(l) - 1 \/ i = Len(l)
    BY <1>4
  <2> QED BY <2>1, <1>1, <1>4, <1>5
<1>7. Range(l) = {l[i] : i \in 1 .. Len(l)}
  BY <1>4, LenProperties DEF Range
<1> QED BY <1>3, <1>6, <1>7 DEF l

LEMMA NextFree ==
  ASSUME IInv, [Next]_vars, NEW n \in Nodes' \ Nodes
  PROVE  Range(Line'[belong'[n]]) \cap mounted = {}
<1>1. PICK p \in Paths, m \in Modes : MkNod(p, m)
  BY DEF Next, vars, Nodes, FollowNull, mount, umount2
<1> QED BY <1>1, MkNodMakes, MakesFree

(* The tree is one at any time: inodes are numbered in the order of their   *)
(* creation, listed where they belong, and siblings differ in name.         *)
THEOREM Invariance == Spec => []IInv
<1>1. Init => IInv
  BY InitIInv
<1>2. IInv /\ [Next]_vars => IInv'
  BY NextIInv
<1> QED BY <1>1, <1>2, PTL DEF Spec

(* isearch finds whatever imknod has made, or the outermost mounted inode   *)
(* on the way to it.                                                        *)
THEOREM WhatIsMadeIsFound == Spec => []Findable
<1>1. IInv => Findable
  BY AllLead
<1> QED BY <1>1, Invariance, PTL

(* isearch finds another inode than the one whose path it is given only by  *)
(* way of a mounted or a childless inode.                                   *)
THEOREM SearchIsExact == Spec => []LookupExact
<1>1. IInv => LookupExact
  BY AllExact
<1> QED BY <1>1, Invariance, PTL

(* imknod makes nothing below a mounted inode.                              *)
THEOREM MountsStayCovered == Spec => NothingBelowMounts
<1>1. IInv /\ [Next]_vars
      => [\A n \in Nodes' \ Nodes : Range(Line'[belong'[n]]) \cap mounted = {}]_vars
  BY NextFree
<1> QED BY <1>1, Invariance, PTL DEF Spec, NothingBelowMounts
=============================================================================
