-------------------------- MODULE DpcManager_proofs --------------------------
(***************************************************************************)
(* Proofs about DpcManager, for any DPCs, numbers of list entries and      *)
(* bounds: its types, the timers of a verification and of the periodic     *)
(* test, the fallback that stays in the list, and what the device may      *)
(* switch to.                                                              *)
(***************************************************************************)
EXTENDS DpcManager, FiniteSetTheorems, WellFoundedInduction, TLAPS

-----------------------------------------------------------------------------
(* Sets of places *)

\* A set of naturals that is not empty has a least element
LEMMA LeastElement ==
  ASSUME NEW T, T \subseteq Nat, T # {}
  PROVE  \E x \in T : \A y \in T : x <= y
<1> DEFINE R == OpToRel(<, Nat)
<1>1. IsWellFoundedOn(R, Nat)
  BY NatLessThanWellFounded
<1>2. PICK x \in T : \A y \in T : ~(<<y, x>> \in R)
  <2> HIDE DEF R
  <2>1. QED
    BY <1>1, WFMin
<1>3. \A y \in T : ~(y < x)
  <2>1. ASSUME NEW y \in T, y < x PROVE <<y, x>> \in R
    BY <2>1 DEF OpToRel
  <2>2. QED
    BY <1>2, <2>1
<1>4. QED
  BY <1>3

\* What First gives is a place of the set, if there is one
LEMMA FirstIn ==
  ASSUME NEW I, I \subseteq Nat \ {0}
  PROVE  /\ First(I) \in I \cup {NoDPC}
         /\ (I # {}) => First(I) \in I
         /\ (First(I) = NoDPC) <=> (I = {})
         /\ \A i \in I : First(I) <= i
<1>1. ASSUME I # {} PROVE Min(I) \in I /\ \A y \in I : Min(I) <= y
  <2>1. \E x \in I : \A y \in I : x <= y
    BY <1>1, LeastElement
  <2>2. QED
    BY <2>1 DEF Min
<1>2. QED
  BY <1>1 DEF First, NoDPC

\* The number of places in K up to i: where the DPC at i comes in SubList(l, K)
Rank(K, i) == Cardinality({j \in K : j <= i})

\* The places of a list up to i are finitely many
LEMMA RankType ==
  ASSUME NEW N \in Nat, NEW K \in SUBSET (1..N), NEW i
  PROVE  /\ IsFiniteSet(K) /\ Cardinality(K) \in Nat
         /\ IsFiniteSet({j \in K : j <= i}) /\ Rank(K, i) \in Nat /\ Rank(K, i) <= Cardinality(K)
<1>1. IsFiniteSet(1..N)
  BY FS_Interval
<1>2. IsFiniteSet(K)
  BY <1>1, FS_Subset
<1>3. QED
  BY <1>2, FS_Subset, FS_CardinalityType DEF Rank

\* The rank grows by one at every place of the set
LEMMA RankNext ==
  ASSUME NEW N \in Nat, NEW K \in SUBSET (1..N), NEW i \in Nat
  PROVE  /\ Rank(K, 0) = 0 /\ Rank(K, N) = Cardinality(K)
         /\ Rank(K, i + 1) = IF i + 1 \in K THEN Rank(K, i) + 1 ELSE Rank(K, i)
<1>0. \A j \in K : j \in Int /\ 1 <= j /\ j <= N
  OBVIOUS
<1>1. {j \in K : j <= 0} = {} /\ {j \in K : j <= N} = K
  <2>1. \A j \in K : ~(j <= 0) /\ j <= N
    BY <1>0
  <2>2. QED
    BY <2>1, Zenon
<1>2. Rank(K, 0) = 0 /\ Rank(K, N) = Cardinality(K)
  BY <1>1, FS_EmptySet DEF Rank
<1> DEFINE A == {j \in K : j <= i}
<1>3. IsFiniteSet(A) /\ i + 1 \notin A
  <2>1. IsFiniteSet(A)
    BY RankType
  <2>2. QED
    BY <2>1
<1>4. CASE i + 1 \in K
  <2>1. {j \in K : j <= i + 1} = A \cup {i + 1}
    <3>1. \A j \in K : j <= i + 1 <=> (j <= i \/ j = i + 1)
      BY <1>0
    <3>2. QED
      BY <1>4, <3>1, Zenon
  <2>2. Cardinality(A \cup {i + 1}) = Cardinality(A) + 1
    <3> HIDE DEF A
    <3>1. QED
      BY <1>3, FS_AddElement
  <2>3. QED
    BY <1>2, <1>4, <2>1, <2>2 DEF Rank
<1>5. CASE i + 1 \notin K
  <2>1. {j \in K : j <= i + 1} = A
    <3>1. \A j \in K : j <= i + 1 <=> (j <= i \/ j = i + 1)
      BY <1>0
    <3>2. QED
      BY <1>5, <3>1, Zenon
  <2>2. QED
    BY <1>2, <1>5, <2>1 DEF Rank
<1>6. QED
  BY <1>4, <1>5

\* Different places have different ranks, in their order
LEMMA RankGrows ==
  ASSUME NEW N \in Nat, NEW K \in SUBSET (1..N), NEW i \in K, NEW k \in K, i < k
  PROVE  Rank(K, i) < Rank(K, k)
<1> DEFINE A == {j \in K : j <= i}
           B == {j \in K : j <= k}
<1>0. \A j \in K : j \in Int
  OBVIOUS
<1>1. IsFiniteSet(A) /\ IsFiniteSet(B) /\ k \notin A /\ A \cup {k} \subseteq B
  <2>1. IsFiniteSet(A) /\ IsFiniteSet(B)
    BY RankType
  <2>2. k \notin A /\ A \cup {k} \subseteq B
    <3>1. ~(k <= i) /\ k <= k /\ \A j \in K : j <= i => j <= k
      BY <1>0
    <3>2. QED
      BY <3>1, Zenon
  <2>3. QED
    BY <2>1, <2>2
<1>2. Cardinality(A) \in Nat /\ Cardinality(B) \in Nat
  BY RankType DEF Rank
<1> HIDE DEF A, B
<1>3. Cardinality(A \cup {k}) = Cardinality(A) + 1
  BY <1>1, FS_AddElement
<1>4. Cardinality(A \cup {k}) <= Cardinality(B)
  BY <1>1, FS_Subset
<1>5. QED
  BY <1>2, <1>3, <1>4 DEF Rank, A, B

\* Every number up to the size of the set is the rank of a place in it
LEMMA RankOnto ==
  ASSUME NEW N \in Nat, NEW K \in SUBSET (1..N), NEW n \in 1..Cardinality(K)
  PROVE  \E i \in K : Rank(K, i) = n
<1> DEFINE T == {i \in Nat : Rank(K, i) >= n}
<1>0. \A k \in Nat : Rank(K, k) \in Nat
  BY RankType
<1>1. N \in T
  BY RankNext, RankType
<1>2. PICK i \in T : \A k \in T : i <= k
  BY <1>1, LeastElement
<1>3. i # 0 /\ i \in Nat /\ Rank(K, i) \in Nat /\ n \in Nat
  <2>0. Cardinality(K) \in Nat
    BY RankType
  <2>1. n \in Nat /\ n >= 1
    BY <2>0
  <2>2. Rank(K, 0) = 0
    BY RankNext
  <2>3. QED
    BY <1>0, <1>2, <2>1, <2>2
<1>4. i - 1 \in Nat /\ i - 1 \notin T
  BY <1>2, <1>3
<1>5. Rank(K, i - 1) < n /\ Rank(K, i - 1) \in Nat
  BY <1>0, <1>3, <1>4
<1>6. Rank(K, i) = IF i \in K THEN Rank(K, i - 1) + 1 ELSE Rank(K, i - 1)
  <2>1. (i - 1) + 1 = i
    BY <1>3
  <2>2. QED
    BY <1>4, <2>1, RankNext
<1>7. QED
  BY <1>2, <1>3, <1>5, <1>6

\* SubList takes the DPCs at the places in K, and only them
LEMMA SubListDPCs ==
  ASSUME NEW S, NEW l \in Seq(S), NEW K \in SUBSET DOMAIN l
  PROVE  /\ SubList(l, K) \in Seq(S) /\ Len(SubList(l, K)) = Cardinality(K)
         /\ Cardinality(K) \in Nat
         /\ DOMAIN SubList(l, K) = 1..Cardinality(K)
         /\ \A n \in 1..Cardinality(K) :
              \E i \in K : Rank(K, i) = n /\ SubList(l, K)[n] = l[i]
         /\ \A i \in K : Rank(K, i) \in 1..Cardinality(K) /\ SubList(l, K)[Rank(K, i)] = l[i]
<1> DEFINE N == Len(l)
           C == Cardinality(K)
           nth(n) == CHOOSE i \in K : Cardinality({j \in K : j <= i}) = n
<1>1. N \in Nat /\ K \in SUBSET (1..N) /\ DOMAIN l = 1..N
  OBVIOUS
<1>2. C \in Nat
  BY <1>1, RankType
<1>3. \A n \in 1..C : nth(n) \in K /\ Rank(K, nth(n)) = n
  <2>1. ASSUME NEW n \in 1..C PROVE \E i \in K : Cardinality({j \in K : j <= i}) = n
    BY <1>1, RankOnto DEF Rank
  <2>2. QED
    BY <2>1 DEF Rank
<1>4. \A i \in K : Rank(K, i) \in 1..C
  <2>1. ASSUME NEW i \in K PROVE Rank(K, i) # 0
    <3>1. i \in Nat /\ i - 1 \in Nat /\ (i - 1) + 1 = i
      BY <1>1
    <3>2. Rank(K, (i - 1) + 1) = Rank(K, i - 1) + 1 /\ Rank(K, i - 1) \in Nat
      <4>1. Rank(K, (i - 1) + 1) = IF (i - 1) + 1 \in K THEN Rank(K, i - 1) + 1 ELSE Rank(K, i - 1)
        BY <1>1, <3>1, RankNext
      <4>2. Rank(K, i - 1) \in Nat
        BY <1>1, RankType
      <4>3. QED
        BY <3>1, <4>1, <4>2
    <3>3. QED
      BY <3>1, <3>2
  <2>2. \A i \in K : Rank(K, i) \in Nat /\ Rank(K, i) <= C
    BY <1>1, RankType
  <2>3. QED
    BY <1>2, <2>1, <2>2
<1>5. \A i \in K : nth(Rank(K, i)) = i
  <2>1. ASSUME NEW i \in K PROVE nth(Rank(K, i)) = i
    <3>1. nth(Rank(K, i)) \in K /\ Rank(K, nth(Rank(K, i))) = Rank(K, i)
      BY <1>3, <1>4
    <3> DEFINE k == nth(Rank(K, i))
    <3>2. k \in K /\ Rank(K, k) = Rank(K, i) /\ k \in Nat /\ i \in Nat
      BY <1>1, <3>1
    <3> HIDE DEF k
    <3>3. ~(k < i) /\ ~(i < k)
      <4>1. Rank(K, i) \in Nat
        BY <1>4
      <4>2. ~(k < i)
        <5>1. ASSUME k < i PROVE Rank(K, k) < Rank(K, i)
          BY <1>1, <3>2, <5>1, RankGrows
        <5>2. QED
          BY <3>2, <4>1, <5>1
      <4>3. ~(i < k)
        <5>1. ASSUME i < k PROVE Rank(K, i) < Rank(K, k)
          BY <1>1, <3>2, <5>1, RankGrows
        <5>2. QED
          BY <3>2, <4>1, <5>1
      <4>4. QED
        BY <4>2, <4>3
    <3>4. k = i
      BY <3>2, <3>3
    <3>5. QED
      BY <3>4 DEF k
  <2>2. QED
    BY <2>1
<1>6. SubList(l, K) = [n \in 1..C |-> l[nth(n)]]
  BY DEF SubList
<1> HIDE DEF C, nth
<1>7. SubList(l, K) \in Seq(S) /\ Len(SubList(l, K)) = C /\ DOMAIN SubList(l, K) = 1..C
  BY <1>1, <1>2, <1>3, <1>6
<1>8. \A n \in 1..C : SubList(l, K)[n] = l[nth(n)]
  BY <1>6
<1>9. QED
  BY <1>2, <1>3, <1>4, <1>5, <1>7, <1>8 DEF C

-----------------------------------------------------------------------------
(* The invariant.  It is stated for a struct s, because a handler passes through several of
   them.  CurrentIndex stays in the list although removeAllDPCbyKey leaves it alone, because
   there is at most one manual DPC and another one is inserted for it.  The rest is about what
   a verification leaves behind: unless the LPS or radio silence has kept restartVerify from
   testing, one that is in progress is about a DPC that may be tested, and one that is over
   has found the DPC that works, if there is one. *)

Mgrs == [list : Seq(DPC), cur : Nat, inProgress : BOOLEAN, elapsed : 0..Patience,
         connWorks : BOOLEAN, test : BOOLEAN, better : BOOLEAN, pend : {"off", "armed", "due"},
         async : BOOLEAN, lps : BOOLEAN,
         rs : [want : BOOLEAN, imposed : BOOLEAN, changing : BOOLEAN],
         hasGCP : BOOLEAN, enableLastResort : BOOLEAN, lastResort : BOOLEAN, avail : BOOLEAN,
         pc : {"idle", "loop"}]

OneManual(l) ==
  \A i, j \in DOMAIN l : l[i].key = "manual" /\ l[j].key = "manual" => i = j
Distinct(l) == \A i, j \in DOMAIN l : SameDPC(l[i], l[j]) => i = j
UsableList(l) == \A i \in DOMAIN l : IsDPCUsable(l[i])

\* A list of DPCs as the manager keeps it
ListOK(l) ==
  /\ l \in Seq(DPC) /\ OneManual(l) /\ Distinct(l)
  /\ AllUsable => UsableList(l)

\* A struct with its index in the list
Sound(s) == s \in Mgrs /\ ListOK(s.list) /\ s.cur \in NoDPC..Len(s.list)

\* A verification under way is about a DPC, and one that waits has its timer
Timers(s) ==
  /\ s.pc = "loop" => s.inProgress /\ s.cur # NoDPC
  /\ s.pc = "idle" /\ s.inProgress /\ s.cur # NoDPC => s.pend # "off"

\* Nothing keeps restartVerify from testing
Free(s) == ~s.lps /\ ~s.rs.want /\ ~s.rs.imposed /\ ~s.rs.changing

SomeWorks(l) == \E i \in DOMAIN l : WasDPCWorking(l[i])
Testable(l) == {i \in DOMAIN l : IsDPCTestable(l[i])}

\* A verification that is over has found a DPC that works, if there is one
Settled(s) ==
  s.pc = "idle" /\ ~s.inProgress /\ (s.hasGCP \/ s.cur # NoDPC) /\ SomeWorks(s.list)
    => s.cur # NoDPC /\ WasDPCWorking(s.list[s.cur])

\* One that is in progress is about a DPC that may be tested; otherwise the timer is running
Going(s) ==
  /\ s.inProgress => s.cur \in Testable(s.list)
  /\ s.pc = "idle" /\ s.hasGCP /\ s.list # <<>> => s.test \/ s.inProgress

OuterTypes ==
  /\ net \in [Cfgs -> NetStates] /\ deleted \in 0..MaxInputs /\ held \in BOOLEAN
  /\ inputs \in 0..MaxInputs /\ netChanges \in 0..MaxNet /\ reboots \in 0..MaxReboots
  /\ deleted <= inputs

\* The invariant for a struct, with h for held and n for deleted
Fine(s, h, n) ==
  /\ Sound(s) /\ Timers(s)
  /\ AllUsable /\ ~h => Free(s) /\ Settled(s)
  /\ AllUsable /\ ~h /\ n = 0 => Going(s)

DpcInv == Fine(m, held, deleted) /\ OuterTypes

\* The longest wait
LEMMA PatienceType == Patience \in Nat
<1> DEFINE T == {waitForIfRetries, waitForAsyncRetries, waitForIPDNSRetries, waitForWwanRetries}
<1>1. T \subseteq Nat
  BY DpcAssumption
<1>2. \E x \in T : \A y \in T : x >= y
  BY <1>1
<1>3. Max(T) \in T
  BY <1>2 DEF Max
<1>4. QED
  BY <1>1, <1>3 DEF Patience

\* The fields of a struct
LEMMA MgrFields ==
  ASSUME NEW s \in Mgrs
  PROVE  /\ s.list \in Seq(DPC) /\ s.cur \in Nat /\ s.inProgress \in BOOLEAN
         /\ s.elapsed \in 0..Patience /\ s.connWorks \in BOOLEAN /\ s.test \in BOOLEAN
         /\ s.better \in BOOLEAN /\ s.pend \in {"off", "armed", "due"} /\ s.async \in BOOLEAN
         /\ s.lps \in BOOLEAN /\ s.rs \in [want : BOOLEAN, imposed : BOOLEAN, changing : BOOLEAN]
         /\ s.hasGCP \in BOOLEAN /\ s.enableLastResort \in BOOLEAN /\ s.lastResort \in BOOLEAN
         /\ s.avail \in BOOLEAN /\ s.pc \in {"idle", "loop"}
         /\ s.rs.want \in BOOLEAN /\ s.rs.imposed \in BOOLEAN /\ s.rs.changing \in BOOLEAN
  BY DEF Mgrs

\* runVerify enters the loop or does nothing
LEMMA RunVerify ==
  ASSUME NEW s, Sound(s)
  PROVE  LET t == runVerify(s) IN
         /\ Sound(t)
         /\ t.list = s.list /\ t.cur = s.cur /\ t.inProgress = s.inProgress
         /\ t.hasGCP = s.hasGCP /\ t.lps = s.lps /\ t.rs = s.rs /\ t.pend = s.pend
         /\ t.enableLastResort = s.enableLastResort /\ t.lastResort = s.lastResort
         /\ (s.inProgress /\ s.cur # NoDPC) => t.pc = "loop"
         /\ ~(s.inProgress /\ s.cur # NoDPC) => t = s
<1>1. s \in Mgrs /\ s.cur \in DOMAIN s.list <=> s.cur # NoDPC
  BY MgrFields DEF Sound, NoDPC
<1>2. CASE s.inProgress /\ s.cur # NoDPC
  <2>1. runVerify(s) = [s EXCEPT !.test = FALSE, !.better = FALSE, !.pc = "loop"]
    BY <1>1, <1>2 DEF runVerify, haveCurrentDPC, Sound
  <2>2. QED
    BY <1>2, <2>1 DEF Sound, Mgrs
<1>3. CASE ~(s.inProgress /\ s.cur # NoDPC)
  <2>1. runVerify(s) = s
    BY <1>1, <1>3 DEF runVerify, haveCurrentDPC, Sound
  <2>2. QED
    BY <1>3, <2>1
<1>4. QED
  BY <1>2, <1>3

-----------------------------------------------------------------------------
(* The list *)

\* InsertAt moves the DPCs from place i on by one
LEMMA Inserted ==
  ASSUME NEW l \in Seq(DPC), NEW i \in 1..(Len(l) + 1), NEW e \in DPC
  PROVE  LET r == InsertAt(l, i, e) IN
         /\ r \in Seq(DPC) /\ Len(r) = Len(l) + 1 /\ r[i] = e
         /\ \A j \in 1..Len(r) : j < i => r[j] = l[j]
         /\ \A j \in 1..Len(r) : j > i => r[j] = l[j - 1]
<1> DEFINE a == SubSeq(l, 1, i - 1)
           b == SubSeq(l, i, Len(l))
           c == a \o <<e>>
<1>0. Len(l) \in Nat /\ i \in Nat
  OBVIOUS
<1>1. a \in Seq(DPC) /\ Len(a) = i - 1 /\ \A j \in 1..(i - 1) : a[j] = l[j]
  BY <1>0
<1>2. b \in Seq(DPC) /\ Len(b) = Len(l) - i + 1 /\ \A j \in 1..(Len(l) - i + 1) : b[j] = l[i + j - 1]
  BY <1>0
<1> HIDE DEF a, b
<1>3. c \in Seq(DPC) /\ Len(c) = i /\ c[i] = e /\ \A j \in 1..(i - 1) : c[j] = l[j]
  BY <1>0, <1>1
<1> HIDE DEF c
<1> DEFINE r == c \o b
<1>4. r \in Seq(DPC) /\ Len(r) = Len(l) + 1
  BY <1>0, <1>2, <1>3
<1>5. \A j \in 1..Len(r) : r[j] = IF j <= i THEN c[j] ELSE b[j - i]
  BY <1>0, <1>2, <1>3
<1>6. InsertAt(l, i, e) = r
  BY DEF InsertAt, r, c, b, a
<1> HIDE DEF r
<1>7. r[i] = e
  BY <1>0, <1>3, <1>4, <1>5
<1>8. ASSUME NEW j \in 1..Len(r), j < i PROVE r[j] = l[j]
  BY <1>0, <1>3, <1>4, <1>5, <1>8
<1>9. ASSUME NEW j \in 1..Len(r), j > i PROVE r[j] = l[j - 1]
  <2>1. j - i \in 1..(Len(l) - i + 1) /\ i + (j - i) - 1 = j - 1
    BY <1>0, <1>4, <1>9
  <2>2. r[j] = b[j - i]
    BY <1>0, <1>4, <1>5, <1>9
  <2>3. b[j - i] = l[i + (j - i) - 1]
    BY <1>2, <2>1
  <2>4. QED
    BY <2>1, <2>2, <2>3
<1>10. QED
  BY <1>4, <1>6, <1>7, <1>8, <1>9

\* RemoveAt moves the DPCs behind place i by one
LEMMA Removed ==
  ASSUME NEW S, NEW l \in Seq(S), NEW i \in 1..Len(l)
  PROVE  LET r == RemoveAt(l, i) IN
         /\ r \in Seq(S) /\ Len(r) = Len(l) - 1
         /\ \A j \in 1..Len(r) : j < i => r[j] = l[j]
         /\ \A j \in 1..Len(r) : j >= i => r[j] = l[j + 1]
<1> DEFINE a == SubSeq(l, 1, i - 1)
           b == SubSeq(l, i + 1, Len(l))
<1>0. Len(l) \in Nat /\ i \in Nat
  OBVIOUS
<1>1. a \in Seq(S) /\ Len(a) = i - 1 /\ \A j \in 1..(i - 1) : a[j] = l[j]
  BY <1>0
<1>2. b \in Seq(S) /\ Len(b) = Len(l) - i /\ \A j \in 1..(Len(l) - i) : b[j] = l[i + j]
  BY <1>0
<1> HIDE DEF a, b
<1> DEFINE r == a \o b
<1>4. r \in Seq(S) /\ Len(r) = Len(l) - 1
  <2>0. a \in Seq(S) /\ b \in Seq(S)
    BY <1>1, <1>2
  <2>1. r \in Seq(S) /\ Len(r) = Len(a) + Len(b)
    BY <2>0
  <2>2. (i - 1) + (Len(l) - i) = Len(l) - 1
    BY <1>0
  <2>3. QED
    BY <1>1, <1>2, <2>1, <2>2
<1>5. \A j \in 1..Len(r) : r[j] = IF j < i THEN a[j] ELSE b[j - (i - 1)]
  BY <1>0, <1>1, <1>2
<1>6. RemoveAt(l, i) = r
  BY DEF RemoveAt, r, b, a
<1> HIDE DEF r
<1>8. ASSUME NEW j \in 1..Len(r), j < i PROVE r[j] = l[j]
  BY <1>0, <1>1, <1>4, <1>5, <1>8
<1>9. ASSUME NEW j \in 1..Len(r), j >= i PROVE r[j] = l[j + 1]
  <2>1. j - (i - 1) \in 1..(Len(l) - i) /\ i + (j - (i - 1)) = j + 1
    BY <1>0, <1>4, <1>9
  <2>2. r[j] = b[j - (i - 1)]
    BY <1>0, <1>4, <1>5, <1>9
  <2>3. b[j - (i - 1)] = l[i + (j - (i - 1))]
    BY <1>2, <2>1
  <2>4. QED
    BY <2>1, <2>2, <2>3
<1>10. QED
  BY <1>4, <1>6, <1>8, <1>9

\* A DPC found by lookupDPC is the same or has the same content
LEMMA LookupDPC ==
  ASSUME NEW l \in Seq(DPC), NEW d
  PROVE  LET i == lookupDPC(l, d) IN
         /\ i \in NoDPC..Len(l)
         /\ i # NoDPC => i \in DOMAIN l /\ (SameDPC(l[i], d) \/ MostlyEqual(l[i], d))
         /\ (\E k \in DOMAIN l : SameDPC(l[k], d)) => i # NoDPC /\ SameDPC(l[i], d)
         /\ (\E k \in DOMAIN l : MostlyEqual(l[k], d)) => i # NoDPC
<1> DEFINE same == {i \in DOMAIN l : SameDPC(l[i], d)}
           equal == {i \in DOMAIN l : MostlyEqual(l[i], d)}
           I == IF same # {} THEN same ELSE equal
<1>1. lookupDPC(l, d) = First(I)
  BY DEF lookupDPC
<1>2. DOMAIN l = 1..Len(l) /\ Len(l) \in Nat
  OBVIOUS
<1>3. I \subseteq DOMAIN l
  OBVIOUS
<1>4. I \subseteq Nat \ {0}
  BY <1>2, <1>3
<1>5. First(I) \in I \cup {NoDPC} /\ ((I # {}) => First(I) \in I)
  <2> HIDE DEF I
  <2>1. QED
    BY <1>4, FirstIn
<1>6. First(I) # NoDPC => First(I) \in I
  BY <1>5
<1>6a. \A i \in I : i # NoDPC /\ i \in DOMAIN l
  <2> HIDE DEF I
  <2>1. QED
    BY <1>3, <1>4 DEF NoDPC
<1>7. First(I) \in NoDPC..Len(l)
  <2> HIDE DEF I
  <2>1. QED
    BY <1>2, <1>3, <1>5 DEF NoDPC
<1>8. ASSUME NEW i \in I PROVE SameDPC(l[i], d) \/ MostlyEqual(l[i], d)
  OBVIOUS
<1>9. ASSUME \E k \in DOMAIN l : SameDPC(l[k], d)
      PROVE  I # {} /\ \A i \in I : SameDPC(l[i], d)
  BY <1>9
<1>10. ASSUME \E k \in DOMAIN l : MostlyEqual(l[k], d) PROVE I # {}
  BY <1>10
<1> HIDE DEF I
<1>11. QED
  BY <1>1, <1>3, <1>5, <1>6, <1>6a, <1>7, <1>8, <1>9, <1>10

\* Two lists with the same DPCs, place by place: r has at j what l has at f[j]
LEMMA SameListOK ==
  ASSUME NEW l, ListOK(l), NEW r \in Seq(DPC), NEW f \in [DOMAIN r -> DOMAIN l],
         \A j \in DOMAIN r : r[j] = l[f[j]],
         \A j, k \in DOMAIN r : f[j] = f[k] => j = k
  PROVE  ListOK(r)
<1>1. OneManual(r)
  BY DEF ListOK, OneManual
<1>2. Distinct(r)
  BY DEF ListOK, Distinct
<1>3. AllUsable => UsableList(r)
  BY DEF ListOK, UsableList
<1>4. QED
  BY <1>1, <1>2, <1>3 DEF ListOK

\* A DPC that is not in a list yet may be inserted into it
LEMMA InsertedOK ==
  ASSUME NEW l, ListOK(l), NEW i \in 1..(Len(l) + 1), NEW e \in DPC,
         AllUsable => IsDPCUsable(e),
         \A k \in DOMAIN l : ~SameDPC(l[k], e),
         e.key = "manual" => \A k \in DOMAIN l : l[k].key # "manual"
  PROVE  LET r == InsertAt(l, i, e) IN
         /\ ListOK(r) /\ Len(r) = Len(l) + 1 /\ i \in DOMAIN r /\ r[i] = e
         /\ \A k \in DOMAIN l : \E j \in DOMAIN r : r[j] = l[k]
         /\ \A j \in DOMAIN r : j = i \/ \E k \in DOMAIN l : r[j] = l[k]
<1> DEFINE r == InsertAt(l, i, e)
           f(j) == IF j < i THEN j ELSE j - 1
<1>0. l \in Seq(DPC) /\ Len(l) \in Nat /\ DOMAIN l = 1..Len(l) /\ i \in Nat
  BY DEF ListOK
<1>1. /\ r \in Seq(DPC) /\ Len(r) = Len(l) + 1 /\ r[i] = e
      /\ \A j \in 1..Len(r) : j < i => r[j] = l[j]
      /\ \A j \in 1..Len(r) : j > i => r[j] = l[j - 1]
  <2> HIDE DEF f
  <2>1. i \in 1..(Len(l) + 1) /\ e \in DPC
    OBVIOUS
  <2>2. QED
    BY <1>0, <2>1, Inserted
<1>2. DOMAIN r = 1..Len(r) /\ i \in DOMAIN r
  BY <1>0, <1>1
<1> HIDE DEF r
<1>3. \A j \in DOMAIN r : j # i => f(j) \in DOMAIN l /\ r[j] = l[f(j)]
  BY <1>0, <1>1, <1>2
<1>4. \A j, k \in DOMAIN r : j # i /\ k # i /\ f(j) = f(k) => j = k
  BY <1>0, <1>1, <1>2
<1>5. ASSUME NEW k \in DOMAIN l PROVE \E j \in DOMAIN r : j # i /\ f(j) = k
  <2>1. CASE k < i
    BY <1>0, <1>1, <1>2, <2>1
  <2>2. CASE k >= i
    <3>1. k + 1 \in DOMAIN r /\ k + 1 # i /\ f(k + 1) = k
      BY <1>0, <1>1, <1>2, <2>2
    <3>2. QED
      BY <3>1
  <2>3. QED
    BY <1>0, <2>1, <2>2
<1> HIDE DEF f
<1>6. OneManual(r)
  <2>1. SUFFICES ASSUME NEW j \in DOMAIN r, NEW k \in DOMAIN r,
                        r[j].key = "manual", r[k].key = "manual"
                 PROVE  j = k
    BY DEF OneManual
  <2>2. CASE j = i \/ k = i
    BY <1>1, <1>3, <2>1, <2>2
  <2>3. CASE j # i /\ k # i
    BY <1>3, <1>4, <2>1, <2>3 DEF ListOK, OneManual
  <2>4. QED
    BY <2>2, <2>3
<1>7. Distinct(r)
  <2>1. SUFFICES ASSUME NEW j \in DOMAIN r, NEW k \in DOMAIN r, SameDPC(r[j], r[k])
                 PROVE  j = k
    BY DEF Distinct
  <2>2. CASE j = i \/ k = i
    BY <1>1, <1>3, <2>1, <2>2 DEF SameDPC
  <2>3. CASE j # i /\ k # i
    BY <1>3, <1>4, <2>1, <2>3 DEF ListOK, Distinct
  <2>4. QED
    BY <2>2, <2>3
<1>8. AllUsable => UsableList(r)
  BY <1>1, <1>3 DEF ListOK, UsableList
<1>9. \A k \in DOMAIN l : \E j \in DOMAIN r : r[j] = l[k]
  BY <1>3, <1>5
<1>10. \A j \in DOMAIN r : j = i \/ \E k \in DOMAIN l : r[j] = l[k]
  BY <1>3
<1>11. ListOK(r)
  BY <1>1, <1>6, <1>7, <1>8 DEF ListOK
<1>12. QED
  BY <1>1, <1>2, <1>9, <1>10, <1>11 DEF r

\* A DPC may be removed from a list
LEMMA RemovedOK ==
  ASSUME NEW l, ListOK(l), NEW i \in DOMAIN l
  PROVE  LET r == RemoveAt(l, i) IN
         /\ ListOK(r) /\ Len(r) = Len(l) - 1
         /\ \A k \in DOMAIN l : k # i => \E j \in DOMAIN r : r[j] = l[k]
         /\ \A j \in DOMAIN r : \E k \in DOMAIN l : k # i /\ r[j] = l[k]
<1> DEFINE r == RemoveAt(l, i)
           f == [j \in DOMAIN r |-> IF j < i THEN j ELSE j + 1]
<1>0. l \in Seq(DPC) /\ Len(l) \in Nat /\ DOMAIN l = 1..Len(l) /\ i \in 1..Len(l)
  BY DEF ListOK
<1>1. /\ r \in Seq(DPC) /\ Len(r) = Len(l) - 1
      /\ \A j \in 1..Len(r) : j < i => r[j] = l[j]
      /\ \A j \in 1..Len(r) : j >= i => r[j] = l[j + 1]
  BY <1>0, Removed
<1>2. DOMAIN r = 1..Len(r)
  BY <1>1
<1> HIDE DEF r
<1>3. \A j \in DOMAIN r : f[j] \in DOMAIN l /\ f[j] # i /\ r[j] = l[f[j]]
  <2>1. SUFFICES ASSUME NEW j \in DOMAIN r PROVE f[j] \in DOMAIN l /\ f[j] # i /\ r[j] = l[f[j]]
    OBVIOUS
  <2>2. j \in 1..Len(r) /\ f[j] = (IF j < i THEN j ELSE j + 1)
    BY <1>2
  <2> HIDE DEF f
  <2>3. CASE j < i
    BY <1>0, <1>1, <2>2, <2>3
  <2>4. CASE j >= i
    BY <1>0, <1>1, <2>2, <2>4
  <2>5. QED
    BY <1>0, <2>2, <2>3, <2>4
<1>4. \A j, k \in DOMAIN r : f[j] = f[k] => j = k
  BY <1>0, <1>1, <1>2
<1>5. ASSUME NEW k \in DOMAIN l, k # i PROVE \E j \in DOMAIN r : f[j] = k
  <2>1. CASE k < i
    <3>1. k \in DOMAIN r
      BY <1>0, <1>1, <1>2, <2>1
    <3>2. f[k] = k
      BY <2>1, <3>1
    <3>3. QED
      BY <3>1, <3>2
  <2>2. CASE k > i
    <3>1. k - 1 \in DOMAIN r
      BY <1>0, <1>1, <1>2, <2>2
    <3>2. f[k - 1] = k
      BY <1>0, <2>2, <3>1
    <3>3. QED
      BY <3>1, <3>2
  <2>3. QED
    BY <1>0, <1>5, <2>1, <2>2
<1>6. f \in [DOMAIN r -> DOMAIN l]
  BY <1>3
<1> HIDE DEF f
<1>7. ListOK(r)
  BY <1>1, <1>3, <1>4, <1>6, SameListOK
<1>8. QED
  BY <1>1, <1>3, <1>5, <1>7 DEF r

\* Some DPCs of a list, in their order
LEMMA SubListOK ==
  ASSUME NEW l, ListOK(l), NEW K \in SUBSET DOMAIN l
  PROVE  LET r == SubList(l, K) IN
         /\ ListOK(r)
         /\ \A k \in K : \E j \in DOMAIN r : r[j] = l[k]
         /\ \A j \in DOMAIN r : \E k \in K : r[j] = l[k]
<1> DEFINE r == SubList(l, K)
           C == Cardinality(K)
<1>0. l \in Seq(DPC) /\ DOMAIN l = 1..Len(l) /\ Len(l) \in Nat
  BY DEF ListOK
<1>1. /\ r \in Seq(DPC) /\ DOMAIN r = 1..C
      /\ \A n \in 1..C : \E i \in K : Rank(K, i) = n /\ r[n] = l[i]
      /\ \A i \in K : Rank(K, i) \in 1..C /\ r[Rank(K, i)] = l[i]
  BY <1>0, SubListDPCs
<1> HIDE DEF r, C
<1> DEFINE f == [n \in DOMAIN r |-> CHOOSE i \in K : Rank(K, i) = n /\ r[n] = l[i]]
<1>2. \A n \in DOMAIN r : f[n] \in K /\ Rank(K, f[n]) = n /\ r[n] = l[f[n]]
  BY <1>1
<1>3. f \in [DOMAIN r -> DOMAIN l]
  BY <1>2
<1> HIDE DEF f
<1>3a. \A j, k \in DOMAIN r : f[j] = f[k] => j = k
  BY <1>2
<1>4. ListOK(r)
  <2>1. r \in Seq(DPC) /\ \A j \in DOMAIN r : r[j] = l[f[j]]
    BY <1>1, <1>2
  <2>2. QED
    BY <1>3, <1>3a, <2>1, SameListOK
<1>5. QED
  BY <1>1, <1>4 DEF r

\* The place insertDPC chooses
LEMMA InsertDPC ==
  ASSUME NEW l, ListOK(l), NEW e \in DPC, AllUsable => IsDPCUsable(e),
         \A k \in DOMAIN l : ~SameDPC(l[k], e),
         e.key = "manual" => \A k \in DOMAIN l : l[k].key # "manual"
  PROVE  LET r == insertDPC(l, e) IN
         /\ ListOK(r) /\ Len(r) = Len(l) + 1
         /\ \E j \in DOMAIN r : r[j] = e
         /\ \A k \in DOMAIN l : \E j \in DOMAIN r : r[j] = l[k]
         /\ \A j \in DOMAIN r : r[j] = e \/ \E k \in DOMAIN l : r[j] = l[k]
<1> DEFINE I == {i \in DOMAIN l : e.prio > l[i].prio} \cup {Len(l) + 1}
<1>0. l \in Seq(DPC) /\ DOMAIN l = 1..Len(l) /\ Len(l) \in Nat
  BY DEF ListOK
<1>1. I \subseteq 1..(Len(l) + 1) /\ I # {} /\ I \subseteq Nat \ {0}
  BY <1>0
<1>2. insertDPC(l, e) = InsertAt(l, First(I), e)
  BY DEF insertDPC
<1> HIDE DEF I
<1>3. First(I) \in 1..(Len(l) + 1)
  BY <1>1, FirstIn
<1>4. QED
  BY <1>2, <1>3, InsertedOK

\* A DPC as it comes: not tested yet
Untested(d) == d \in DPC /\ d.last = "none" /\ d.recent = FALSE /\ (AllUsable => IsDPCUsable(d))

\* The list with a new or changed DPC in it
Put(l, d) ==
  LET i == lookupDPC(l, d) IN IF i # NoDPC THEN updateDPC(l, i, d) ELSE insertDPC(l, d)

\* What becomes of a DPC e when d comes: it stays, is replaced, or gets another priority
Becomes(e, x, d) ==
  \/ x = e
  \/ x = d /\ SameDPC(d, e)
  \/ x.last = e.last /\ x.recent = e.recent /\ MostlyEqual(x, e) /\ x.cfg = d.cfg

\* Every DPC but the new one was in the list, and nothing gets lost
LEMMA PutOK ==
  ASSUME NEW l, ListOK(l), NEW d, Untested(d),
         d.key = "manual" => \A k \in DOMAIN l : l[k].key # "manual"
  PROVE  LET r == Put(l, d) IN
         /\ ListOK(r) /\ Len(r) \in Nat \ {0} /\ Len(r) >= Len(l)
         /\ d.key = "manual" => Len(r) = Len(l) + 1
         /\ \A k \in DOMAIN l : \E j \in DOMAIN r : Becomes(l[k], r[j], d)
         /\ \A j \in DOMAIN r : r[j] = d \/ \E k \in DOMAIN l : Becomes(l[k], r[j], d)
         /\ (l = <<>> \/ d.key = "manual") => \E j \in DOMAIN r : r[j] = d
<1> DEFINE i == lookupDPC(l, d)
           r == Put(l, d)
<1>0. l \in Seq(DPC) /\ DOMAIN l = 1..Len(l) /\ Len(l) \in Nat /\ d \in DPC
  BY DEF ListOK, Untested
<1>1. /\ i \in NoDPC..Len(l)
      /\ i # NoDPC => i \in DOMAIN l /\ (SameDPC(l[i], d) \/ MostlyEqual(l[i], d))
      /\ (\E k \in DOMAIN l : SameDPC(l[k], d)) => i # NoDPC /\ SameDPC(l[i], d)
  BY <1>0, LookupDPC
<1> HIDE DEF i
<1>2. CASE i = NoDPC
  <2>1. r = insertDPC(l, d)
    BY <1>2 DEF Put, i
  <2>2. /\ ListOK(r) /\ Len(r) = Len(l) + 1
        /\ \E j \in DOMAIN r : r[j] = d
        /\ \A k \in DOMAIN l : \E j \in DOMAIN r : r[j] = l[k]
        /\ \A j \in DOMAIN r : r[j] = d \/ \E k \in DOMAIN l : r[j] = l[k]
    <3>1. \A k \in DOMAIN l : ~SameDPC(l[k], d)
      BY <1>1, <1>2
    <3>2. AllUsable => IsDPCUsable(d)
      BY DEF Untested
    <3> HIDE DEF r
    <3>3. QED
      BY <1>0, <2>1, <3>1, <3>2, InsertDPC
  <2> HIDE DEF r
  <2>3. QED
    BY <1>0, <2>2 DEF Becomes, r
<1>3. CASE i # NoDPC /\ l[i].prio = d.prio
  <2>1. r = [l EXCEPT ![i] = d] /\ i \in DOMAIN l
    BY <1>1, <1>3 DEF Put, i, updateDPC
  <2>2. SameDPC(l[i], d)
    BY <1>1, <1>3 DEF SameDPC, MostlyEqual
  <2>3. r \in Seq(DPC) /\ DOMAIN r = DOMAIN l /\ Len(r) = Len(l) /\ r[i] = d
        /\ \A j \in DOMAIN l : j # i => r[j] = l[j]
    BY <1>0, <2>1
  <2> HIDE DEF r
  <2>4. \A j \in DOMAIN l : r[j].key = l[j].key /\ r[j].prio = l[j].prio
    BY <2>2, <2>3 DEF SameDPC
  <2>5. OneManual(r) /\ Distinct(r)
    BY <2>3, <2>4 DEF ListOK, OneManual, Distinct, SameDPC
  <2>6. AllUsable => UsableList(r)
    BY <2>3 DEF ListOK, UsableList, Untested
  <2>7. ListOK(r)
    BY <2>3, <2>5, <2>6 DEF ListOK
  <2>8. d.key # "manual" /\ l # <<>>
    BY <1>0, <2>1, <2>2 DEF SameDPC
  <2>9. \A k \in DOMAIN l : Becomes(l[k], r[k], d)
    BY <2>2, <2>3 DEF Becomes, SameDPC
  <2>10. \A k \in DOMAIN l : \E j \in DOMAIN r : Becomes(l[k], r[j], d)
    BY <2>3, <2>9
  <2>11. \A j \in DOMAIN r : r[j] = d \/ \E k \in DOMAIN l : Becomes(l[k], r[j], d)
    BY <2>3, <2>9
  <2>12. Len(r) \in Nat \ {0} /\ Len(r) >= Len(l)
    BY <1>0, <2>1, <2>3
  <2>13. QED
    BY <2>7, <2>8, <2>10, <2>11, <2>12, Zenon DEF r
<1>4. CASE i # NoDPC /\ l[i].prio # d.prio
  <2> DEFINE q == RemoveAt(l, i)
             e == [d EXCEPT !.last = l[i].last, !.ever = l[i].ever, !.recent = l[i].recent]
  <2>1. r = insertDPC(q, e) /\ i \in DOMAIN l
    BY <1>1, <1>4 DEF Put, i, updateDPC
  <2>2. MostlyEqual(l[i], d) /\ \A k \in DOMAIN l : ~SameDPC(l[k], d)
    BY <1>1, <1>4 DEF SameDPC
  <2>3. /\ e \in DPC /\ e.key = d.key /\ e.prio = d.prio /\ e.cfg = d.cfg
        /\ e.last = l[i].last /\ e.recent = l[i].recent
    <3>1. l[i] \in DPC
      BY <1>0, <2>1
    <3>2. QED
      BY <1>0, <3>1 DEF DPC
  <2>4. /\ ListOK(q) /\ Len(q) = Len(l) - 1
        /\ \A k \in DOMAIN l : k # i => \E j \in DOMAIN q : q[j] = l[k]
        /\ \A j \in DOMAIN q : \E k \in DOMAIN l : k # i /\ q[j] = l[k]
    BY <2>1, RemovedOK
  <2> HIDE DEF q, e, r
  <2>5. \A k \in DOMAIN q : ~SameDPC(q[k], e)
    BY <2>2, <2>3, <2>4 DEF SameDPC
  <2>6. AllUsable => IsDPCUsable(e)
    BY <2>3 DEF Untested, IsDPCUsable
  <2>7. d.key # "manual" /\ e.key # "manual" /\ l # <<>>
    BY <1>0, <2>1, <2>2, <2>3 DEF MostlyEqual
  <2>8. /\ ListOK(r) /\ Len(r) = Len(q) + 1
        /\ \E j \in DOMAIN r : r[j] = e
        /\ \A k \in DOMAIN q : \E j \in DOMAIN r : r[j] = q[k]
        /\ \A j \in DOMAIN r : r[j] = e \/ \E k \in DOMAIN q : r[j] = q[k]
    BY <2>1, <2>3, <2>4, <2>5, <2>6, <2>7, InsertDPC
  <2>9. Becomes(l[i], e, d)
    BY <2>2, <2>3 DEF Becomes, MostlyEqual
  <2>10. \A k \in DOMAIN l : \E j \in DOMAIN r : Becomes(l[k], r[j], d)
    <3>1. SUFFICES ASSUME NEW k \in DOMAIN l PROVE \E j \in DOMAIN r : Becomes(l[k], r[j], d)
      OBVIOUS
    <3>2. CASE k = i
      BY <2>8, <2>9, <3>2
    <3>3. CASE k # i
      <4>1. PICK j \in DOMAIN q : q[j] = l[k]
        BY <2>4, <3>3
      <4>2. PICK x \in DOMAIN r : r[x] = q[j]
        BY <2>8
      <4>3. QED
        BY <4>1, <4>2 DEF Becomes
    <3>4. QED
      BY <3>2, <3>3
  <2>11. \A j \in DOMAIN r : r[j] = d \/ \E k \in DOMAIN l : Becomes(l[k], r[j], d)
    <3>1. SUFFICES ASSUME NEW j \in DOMAIN r PROVE \E k \in DOMAIN l : Becomes(l[k], r[j], d)
      OBVIOUS
    <3>2. CASE r[j] = e
      BY <2>1, <2>9, <3>2
    <3>3. CASE r[j] # e
      <4>1. PICK x \in DOMAIN q : r[j] = q[x]
        BY <2>8, <3>3
      <4>2. PICK k \in DOMAIN l : q[x] = l[k]
        BY <2>4
      <4>3. QED
        BY <4>1, <4>2 DEF Becomes
    <3>4. QED
      BY <3>2, <3>3
  <2>12. Len(r) = Len(l) /\ Len(l) # 0
    BY <1>0, <2>1, <2>4, <2>8
  <2>13. QED
    BY <1>0, <2>7, <2>8, <2>10, <2>11, <2>12 DEF r
<1>5. QED
  BY <1>2, <1>3, <1>4

\* removeAllDPCbyKey leaves the DPCs of other sources; there is at most one manual DPC
LEMMA RemoveManual ==
  ASSUME NEW l, ListOK(l)
  PROVE  LET r == removeAllDPCbyKey(l, "manual") IN
         /\ ListOK(r) /\ Len(r) \in Nat /\ Len(r) + 1 >= Len(l)
         /\ \A j \in DOMAIN r : r[j].key # "manual"
         /\ \A j \in DOMAIN r : \E k \in DOMAIN l : r[j] = l[k]
         /\ \A k \in DOMAIN l : l[k].key # "manual" => \E j \in DOMAIN r : r[j] = l[k]
<1> DEFINE K == {i \in DOMAIN l : l[i].key # "manual"}
           r == SubList(l, K)
<1>0. l \in Seq(DPC) /\ DOMAIN l = 1..Len(l) /\ Len(l) \in Nat
  BY DEF ListOK
<1>1. K \in SUBSET DOMAIN l /\ r = removeAllDPCbyKey(l, "manual")
  BY DEF removeAllDPCbyKey
<1>2. \A k \in DOMAIN l : l[k].key # "manual" <=> k \in K
  OBVIOUS
<1>3. IsFiniteSet(DOMAIN l) /\ Cardinality(DOMAIN l) = Len(l)
  BY <1>0, FS_Interval
<1>4. Cardinality(K) + 1 >= Len(l)
  <2>1. CASE \A k \in DOMAIN l : l[k].key # "manual"
    <3>1. K = DOMAIN l
      BY <1>2, <2>1
    <3> HIDE DEF K
    <3>2. QED
      BY <1>0, <1>3, <3>1
  <2>2. CASE \E k \in DOMAIN l : l[k].key = "manual"
    <3>1. PICK x \in DOMAIN l : l[x].key = "manual"
      BY <2>2
    <3>2. K = DOMAIN l \ {x}
      BY <1>2, <3>1 DEF ListOK, OneManual
    <3> HIDE DEF K
    <3>3. Cardinality(DOMAIN l \ {x}) = Cardinality(DOMAIN l) - 1
      BY <1>3, FS_RemoveElement
    <3>4. QED
      BY <1>0, <1>3, <3>2, <3>3
  <2>3. QED
    BY <2>1, <2>2
<1> HIDE DEF K
<1>5. Len(r) = Cardinality(K) /\ Cardinality(K) \in Nat
  BY <1>0, <1>1, SubListDPCs
<1>6. /\ ListOK(r)
      /\ \A k \in K : \E j \in DOMAIN r : r[j] = l[k]
      /\ \A j \in DOMAIN r : \E k \in K : r[j] = l[k]
  BY <1>1, SubListOK
<1> HIDE DEF r
<1>7. \A j \in DOMAIN r : r[j].key # "manual" /\ \E k \in DOMAIN l : r[j] = l[k]
  BY <1>1, <1>2, <1>6
<1>8. \A k \in DOMAIN l : l[k].key # "manual" => \E j \in DOMAIN r : r[j] = l[k]
  BY <1>2, <1>6
<1>9. QED
  BY <1>1, <1>4, <1>5, <1>6, <1>7, <1>8

\* What compressDPCL keeps: the first DPC, the current one and one that works
LEMMA Retained ==
  ASSUME NEW s, s.list \in Seq(DPC)
  PROVE  /\ retained(s) \in SUBSET DOMAIN s.list
         /\ s.list # <<>> => 1 \in retained(s)
         /\ s.cur \in DOMAIN s.list => s.cur \in retained(s)
         /\ SomeWorks(s.list) => \E i \in retained(s) : WasDPCWorking(s.list[i])
<1> DEFINE l == s.list
           W == {i \in DOMAIN l : WasDPCWorking(l[i])}
<1>0. DOMAIN l = 1..Len(l) /\ Len(l) \in Nat
  OBVIOUS
<1>1. retained(s) \in SUBSET DOMAIN l
  BY DEF retained
<1>2. ASSUME NEW i \in DOMAIN l, i = 1 \/ i = s.cur PROVE i \in retained(s)
  BY <1>2 DEF retained
<1>3. ASSUME NEW i \in DOMAIN l, WasDPCWorking(l[i]), ~\E j \in 1..(i - 1) : WasDPCWorking(l[j])
      PROVE  i \in retained(s)
  BY <1>3 DEF retained
<1>4. ASSUME SomeWorks(l) PROVE \E i \in retained(s) : WasDPCWorking(l[i])
  <2>1. W # {} /\ W \subseteq Nat
    BY <1>0, <1>4 DEF SomeWorks
  <2>2. PICK i \in W : \A y \in W : i <= y
    BY <2>1, LeastElement
  <2>3. ~\E j \in 1..(i - 1) : WasDPCWorking(l[j])
    <3>1. SUFFICES ASSUME NEW j \in 1..(i - 1), WasDPCWorking(l[j]) PROVE FALSE
      OBVIOUS
    <3>2. i \in Nat /\ j \in DOMAIN l /\ ~(i <= j)
      BY <1>0, <2>1, <2>2
    <3>3. QED
      BY <2>2, <3>1, <3>2
  <2>4. QED
    BY <1>3, <2>2, <2>3
<1>5. l # <<>> => 1 \in DOMAIN l
  BY <1>0
<1>6. QED
  BY <1>1, <1>2, <1>4, <1>5

\* compressDPCL keeps the current DPC, the first one and one that works
LEMMA Compressed ==
  ASSUME NEW s, Sound(s)
  PROVE  LET t == compressDPCL(s) IN
         /\ Sound(t)
         /\ t.inProgress = s.inProgress /\ t.pc = s.pc /\ t.pend = s.pend /\ t.test = s.test
         /\ t.hasGCP = s.hasGCP /\ t.lps = s.lps /\ t.rs = s.rs
         /\ s.inProgress => t = s
         /\ (t.cur = NoDPC) <=> (s.cur = NoDPC)
         /\ s.cur # NoDPC => t.list[t.cur] = s.list[s.cur]
         /\ s.list # <<>> => t.list # <<>> /\ t.list[1] = s.list[1]
         /\ \A j \in DOMAIN t.list : \E k \in DOMAIN s.list : t.list[j] = s.list[k]
         /\ SomeWorks(t.list) <=> SomeWorks(s.list)
<1> DEFINE K == retained(s)
           r == SubList(s.list, K)
           t == compressDPCL(s)
           c == Cardinality({i \in K : i <= s.cur})
<1>0. /\ s \in Mgrs /\ s.list \in Seq(DPC) /\ ListOK(s.list) /\ s.cur \in Nat
      /\ DOMAIN s.list = 1..Len(s.list) /\ Len(s.list) \in Nat /\ s.cur \in NoDPC..Len(s.list)
      /\ s.cur # NoDPC => s.cur \in DOMAIN s.list
      /\ s.inProgress \in BOOLEAN /\ s.lastResort \in BOOLEAN
  BY MgrFields DEF Sound, NoDPC
<1>1. CASE s.inProgress
  BY <1>0, <1>1 DEF compressDPCL
<1>2. CASE ~s.inProgress
  <2>1. /\ K \in SUBSET DOMAIN s.list
        /\ s.list # <<>> => 1 \in K
        /\ s.cur \in DOMAIN s.list => s.cur \in K
        /\ SomeWorks(s.list) => \E i \in K : WasDPCWorking(s.list[i])
    BY <1>0, Retained
  <2> HIDE DEF K
  <2>2. /\ Len(r) = Cardinality(K) /\ Cardinality(K) \in Nat /\ DOMAIN r = 1..Cardinality(K)
        /\ r \in Seq(DPC)
        /\ \A i \in K : Rank(K, i) \in 1..Cardinality(K) /\ r[Rank(K, i)] = s.list[i]
    BY <1>0, <2>1, SubListDPCs
  <2>3. /\ ListOK(r)
        /\ \A k \in K : \E j \in DOMAIN r : r[j] = s.list[k]
        /\ \A j \in DOMAIN r : \E k \in K : r[j] = s.list[k]
    BY <1>0, <2>1, SubListOK
  <2>4. c = Rank(K, s.cur)
    BY DEF Rank
  <2>5. Rank(K, 0) = 0 /\ (0 + 1 \in K => Rank(K, 0 + 1) = Rank(K, 0) + 1)
    BY <1>0, <2>1, RankNext
  <2> HIDE DEF r, c
  <2>6. 1 \in K => r[1] = s.list[1] /\ r # <<>>
    BY <2>2, <2>5
  <2>7. IF s.cur = NoDPC THEN c = NoDPC ELSE c \in DOMAIN r /\ r[c] = s.list[s.cur] /\ c # NoDPC
    BY <1>0, <2>1, <2>2, <2>4, <2>5 DEF NoDPC
  <2>8. c \in Nat /\ c \in NoDPC..Len(r)
    BY <2>2, <2>7 DEF NoDPC
  <2>9. t = [s EXCEPT !.list = r, !.cur = c,
              !.lastResort = @ /\ \A i \in DOMAIN s.list \ K : s.list[i].key # "lastresort"]
    BY <1>2 DEF compressDPCL, K, r, c
  <2> DEFINE b == s.lastResort /\ \A i \in DOMAIN s.list \ K : s.list[i].key # "lastresort"
  <2>10. b \in BOOLEAN
    OBVIOUS
  <2>11. t = [s EXCEPT !.list = r, !.cur = c, !.lastResort = b]
    BY <2>9
  <2> HIDE DEF b, t
  <2>12. /\ t \in Mgrs /\ t.list = r /\ t.cur = c
         /\ t.inProgress = s.inProgress /\ t.pc = s.pc /\ t.pend = s.pend /\ t.test = s.test
         /\ t.hasGCP = s.hasGCP /\ t.lps = s.lps /\ t.rs = s.rs
    BY <1>0, <2>2, <2>8, <2>10, <2>11 DEF Mgrs
  <2>13. Sound(t)
    BY <2>3, <2>8, <2>12 DEF Sound
  <2>14. \A j \in DOMAIN t.list : \E k \in DOMAIN s.list : t.list[j] = s.list[k]
    BY <2>1, <2>3, <2>12
  <2>15. SomeWorks(t.list) <=> SomeWorks(s.list)
    <3>1. SomeWorks(r) => SomeWorks(s.list)
      BY <2>1, <2>3 DEF SomeWorks
    <3>2. SomeWorks(s.list) => SomeWorks(r)
      BY <2>1, <2>3 DEF SomeWorks
    <3>3. QED
      BY <2>12, <3>1, <3>2
  <2>16. QED
    BY <1>2, <2>1, <2>6, <2>7, <2>12, <2>13, <2>14, <2>15 DEF t
<1>3. QED
  BY <1>0, <1>1, <1>2

-----------------------------------------------------------------------------
(* Verification *)

\* What getNextTestableDPCIndex finds may be tested
LEMMA NextTestable ==
  ASSUME NEW s, s.list \in Seq(DPC), NEW start \in Int
  PROVE  LET i == getNextTestableDPCIndex(s, start) IN
         /\ i # NoDPC => i \in Testable(s.list)
         /\ i = NoDPC => Testable(s.list) = {}
<1> DEFINE T == Testable(s.list)
           ahead == {i \in T : i >= start}
           I == IF ahead # {} THEN ahead ELSE T
<1>1. getNextTestableDPCIndex(s, start) = First(I)
  BY DEF getNextTestableDPCIndex, Testable
<1>2. T \subseteq Nat \ {0}
  <2>1. DOMAIN s.list = 1..Len(s.list) /\ Len(s.list) \in Nat
    OBVIOUS
  <2>2. QED
    BY <2>1 DEF Testable
<1> HIDE DEF T
<1>3. I \subseteq T /\ (I = {} => T = {})
  OBVIOUS
<1> HIDE DEF I
<1>4. First(I) \in I \cup {NoDPC} /\ ((First(I) = NoDPC) <=> (I = {}))
  BY <1>2, <1>3, FirstIn
<1>5. QED
  BY <1>1, <1>3, <1>4 DEF T

\* A DPC that has worked or has not been tested may be tested
LEMMA WorksTestable ==
  ASSUME NEW s, Sound(s), AllUsable
  PROVE  /\ \A i \in DOMAIN s.list : s.list[i].last # "bad" => i \in Testable(s.list)
         /\ SomeWorks(s.list) => Testable(s.list) # {}
         /\ \A i \in DOMAIN s.list : ~s.list[i].recent => i \in Testable(s.list)
<1>1. \A i \in DOMAIN s.list : IsDPCUsable(s.list[i])
  BY DEF Sound, ListOK, UsableList
<1>2. \A i \in DOMAIN s.list : s.list[i].last # "bad" => i \in Testable(s.list)
  BY <1>1 DEF Testable, IsDPCTestable
<1>3. \A i \in DOMAIN s.list : ~s.list[i].recent => i \in Testable(s.list)
  BY <1>1 DEF Testable, IsDPCTestable
<1>4. SomeWorks(s.list) => Testable(s.list) # {}
  BY <1>2 DEF SomeWorks, WasDPCWorking
<1>5. QED
  BY <1>2, <1>3, <1>4

\* A struct in which a verification may be started: if it is not, the periodic test goes on
MayGoOn(s) ==
  /\ s.inProgress => s.cur \in Testable(s.list)
  /\ s.hasGCP /\ s.list # <<>> /\ ~s.inProgress => s.test \/ Testable(s.list) # {}

\* startVerify begins to test a DPC, unless a verification is in progress, radio silence is
\* imposed or there is none to test
LEMMA StartVerify ==
  ASSUME NEW s, Sound(s)
  PROVE  LET t == startVerify(s) IN
         /\ Sound(t) /\ t.list = s.list /\ t.lps = s.lps /\ t.rs = s.rs
         /\ t.hasGCP = s.hasGCP
         /\ \/ t = s /\ (Free(s) => s.inProgress \/ Testable(s.list) = {})
            \/ t.pc = "loop" /\ t.inProgress /\ t.cur \in Testable(t.list) /\ t.cur # NoDPC
<1> DEFINE i == getNextTestableDPCIndex(s, 1)
           t == startVerify(s)
           u == setupVerify(s, i)
<1>0. s \in Mgrs /\ s.list \in Seq(DPC) /\ s.rs.imposed \in BOOLEAN /\ s.rs.changing \in BOOLEAN
  BY MgrFields DEF Sound
<1>1. (i # NoDPC => i \in Testable(s.list)) /\ (i = NoDPC => Testable(s.list) = {})
  <2>1. 1 \in Int
    OBVIOUS
  <2>2. QED
    BY <1>0, <2>1, NextTestable
<1> HIDE DEF i
<1>2. CASE \/ s.inProgress
           \/ haveCurrentDPC(s) /\ ~s.rs.changing /\ s.rs.imposed
           \/ i = NoDPC
  <2>1. t = s
    BY <1>2 DEF startVerify, i
  <2>2. Free(s) => s.inProgress \/ Testable(s.list) = {}
    BY <1>1, <1>2 DEF Free
  <2>3. QED
    BY <2>1, <2>2
<1>3. CASE ~ \/ s.inProgress
             \/ haveCurrentDPC(s) /\ ~s.rs.changing /\ s.rs.imposed
             \/ i = NoDPC
  <2>1. t = runVerify(u)
    BY <1>3 DEF startVerify, i
  <2>2. i \in Testable(s.list) /\ i # NoDPC
    BY <1>1, <1>3
  <2>3. i \in 1..Len(s.list) /\ i \in Nat
    BY <1>0, <2>2 DEF Testable
  <2>4. /\ u \in Mgrs /\ u.list = s.list /\ u.cur = i /\ u.inProgress /\ u.lps = s.lps
        /\ u.rs = s.rs /\ u.hasGCP = s.hasGCP
    <3> DEFINE e == IF s.hasGCP THEN 0 ELSE Patience
    <3>1. e \in 0..Patience
      BY PatienceType
    <3>2. u = [s EXCEPT !.cur = i, !.inProgress = TRUE, !.elapsed = e]
      BY DEF setupVerify
    <3> HIDE DEF u, e
    <3>3. QED
      BY <1>0, <2>3, <3>1, <3>2 DEF Mgrs
  <2> HIDE DEF u
  <2>5. Sound(u)
    BY <2>3, <2>4 DEF Sound, NoDPC
  <2>6. QED
    BY <2>1, <2>2, <2>4, <2>5, RunVerify DEF t
<1>4. QED
  BY <1>2, <1>3

\* So does restartVerify, unless the LPS config is in use
LEMMA RestartVerify ==
  ASSUME NEW s, Sound(s)
  PROVE  LET t == restartVerify(s) IN
         /\ Sound(t) /\ t.list = s.list /\ t.lps = s.lps /\ t.rs = s.rs
         /\ t.hasGCP = s.hasGCP
         /\ \/ t = s /\ (Free(s) => s.inProgress \/ Testable(s.list) = {})
            \/ t.pc = "loop" /\ t.inProgress /\ t.cur \in Testable(t.list) /\ t.cur # NoDPC
<1>1. CASE areAllMgmtPortUsingLpsConfig(s)
  BY <1>1 DEF restartVerify, areAllMgmtPortUsingLpsConfig, Free
<1>2. CASE ~areAllMgmtPortUsingLpsConfig(s)
  BY <1>2, StartVerify DEF restartVerify
<1>3. QED
  BY <1>1, <1>2

\* What starting a verification leaves behind
LEMMA Started ==
  ASSUME NEW s, Sound(s), Timers(s), s.pc = "idle", NEW h \in BOOLEAN, NEW n,
         AllUsable /\ ~h => Free(s),
         AllUsable /\ ~h /\ n = 0 => MayGoOn(s)
  PROVE  Fine(startVerify(s), h, n) /\ Fine(restartVerify(s), h, n)
<1>1. ASSUME NEW t, Sound(t), t.list = s.list, t.lps = s.lps, t.rs = s.rs, t.hasGCP = s.hasGCP,
             \/ t = s /\ (Free(s) => s.inProgress \/ Testable(s.list) = {})
             \/ t.pc = "loop" /\ t.inProgress /\ t.cur \in Testable(t.list) /\ t.cur # NoDPC
      PROVE  Fine(t, h, n)
  <2>1. Timers(t)
    BY <1>1 DEF Timers
  <2>2. AllUsable /\ ~h => Free(t)
    BY <1>1 DEF Free
  <2>3. ASSUME AllUsable, ~h PROVE Settled(t)
    <3>1. CASE t = s
      BY <1>1, <2>3, <3>1, WorksTestable DEF Settled
    <3>2. CASE t.pc = "loop"
      BY <3>2 DEF Settled
    <3>3. QED
      BY <1>1, <3>1, <3>2
  <2>4. ASSUME AllUsable, ~h, n = 0 PROVE Going(t)
    <3>1. CASE t = s
      BY <1>1, <2>4, <3>1 DEF Going, MayGoOn
    <3>2. CASE t.pc = "loop" /\ t.inProgress /\ t.cur \in Testable(t.list)
      BY <3>2 DEF Going
    <3>3. QED
      BY <1>1, <3>1, <3>2
  <2>5. QED
    BY <1>1, <2>1, <2>2, <2>3, <2>4 DEF Fine
<1>2. Fine(startVerify(s), h, n)
  <2> DEFINE t == startVerify(s)
  <2>1. /\ Sound(t) /\ t.list = s.list /\ t.lps = s.lps /\ t.rs = s.rs
         /\ t.hasGCP = s.hasGCP
         /\ \/ t = s /\ (Free(s) => s.inProgress \/ Testable(s.list) = {})
            \/ t.pc = "loop" /\ t.inProgress /\ t.cur \in Testable(t.list) /\ t.cur # NoDPC
    BY StartVerify
  <2> HIDE DEF t
  <2>2. Fine(t, h, n)
    BY <1>1, <2>1
  <2>3. QED
    BY <2>2 DEF t
<1>3. Fine(restartVerify(s), h, n)
  <2> DEFINE t == restartVerify(s)
  <2>1. /\ Sound(t) /\ t.list = s.list /\ t.lps = s.lps /\ t.rs = s.rs
         /\ t.hasGCP = s.hasGCP
         /\ \/ t = s /\ (Free(s) => s.inProgress \/ Testable(s.list) = {})
            \/ t.pc = "loop" /\ t.inProgress /\ t.cur \in Testable(t.list) /\ t.cur # NoDPC
    BY RestartVerify
  <2> HIDE DEF t
  <2>2. Fine(t, h, n)
    BY <1>1, <2>1
  <2>3. QED
    BY <2>2 DEF t
<1>4. QED
  BY <1>2, <1>3

\* runVerify and resumeVerifyIfAsyncDone keep the invariant
LEMMA RunFine ==
  ASSUME NEW s, NEW h \in BOOLEAN, NEW n, Fine(s, h, n)
  PROVE  Fine(runVerify(s), h, n) /\ Fine(resumeVerifyIfAsyncDone(s), h, n)
<1> DEFINE t == runVerify(s)
<1>1. /\ Sound(s) /\ Sound(t)
      /\ t.list = s.list /\ t.cur = s.cur /\ t.inProgress = s.inProgress
      /\ t.hasGCP = s.hasGCP /\ t.lps = s.lps /\ t.rs = s.rs /\ t.pend = s.pend
      /\ (s.inProgress /\ s.cur # NoDPC) => t.pc = "loop"
      /\ ~(s.inProgress /\ s.cur # NoDPC) => t = s
  BY RunVerify DEF Fine
<1> HIDE DEF t
<1>2. CASE t = s
  BY <1>2 DEF t, resumeVerifyIfAsyncDone
<1>3. CASE s.inProgress /\ s.cur # NoDPC
  <2>1. Timers(t)
    BY <1>1, <1>3 DEF Timers
  <2>2. Free(s) => Free(t)
    BY <1>1 DEF Free
  <2>3. Settled(t)
    BY <1>1, <1>3 DEF Settled
  <2>4. Going(s) => Going(t)
    BY <1>1, <1>3 DEF Going
  <2>5. Fine(t, h, n)
    BY <1>1, <2>1, <2>2, <2>3, <2>4 DEF Fine
  <2>6. QED
    BY <2>5 DEF t, resumeVerifyIfAsyncDone
<1>4. QED
  BY <1>1, <1>2, <1>3

\* The network as the current DPC finds it
LEMMA CurrentNet ==
  ASSUME NEW s, Sound(s), s.cur # NoDPC, OuterTypes
  PROVE  /\ haveCurrentDPC(s) /\ s.cur \in DOMAIN s.list /\ s.list[s.cur] \in DPC
         /\ effective(s, currentDPC(s).cfg) \in Cfgs
         /\ currentNet(s) \in AllNetStates
<1>1. s.cur \in DOMAIN s.list /\ s.list[s.cur] \in DPC
  BY MgrFields DEF Sound, NoDPC
<1>2. s.list[s.cur].cfg \in Cfgs
  BY <1>1 DEF DPC
<1>3. effective(s, currentDPC(s).cfg) \in Cfgs
  BY <1>2, DpcAssumption DEF effective, currentDPC
<1>4. currentNet(s) \in AllNetStates
  BY <1>3, DpcAssumption DEF currentNet, OuterTypes
<1>5. QED
  BY <1>1, <1>3, <1>4 DEF haveCurrentDPC

\* What a test may find
LEMMA VerdictType ==
  ASSUME NEW x \in AllNetStates, NEW t \in Nat
  PROVE  verdict(x, t) \in DPCStates \ {"None", "AsyncWait"}
<1>1. {waitForIfRetries, waitForAsyncRetries, waitForIPDNSRetries, waitForWwanRetries} \subseteq Nat
  BY DpcAssumption
<1>2. QED
  BY <1>1 DEF verdict, AllNetStates, DPCStates, Waits

\* A list in which only the results of one DPC have changed
LEMMA ResultsChanged ==
  ASSUME NEW s, Sound(s), NEW i \in DOMAIN s.list, NEW e \in DPC, NEW t \in Mgrs,
         e.key = s.list[i].key, e.prio = s.list[i].prio, e.cfg = s.list[i].cfg,
         t.list = [s.list EXCEPT ![i] = e], t.cur = s.cur
  PROVE  /\ Sound(t) /\ DOMAIN t.list = DOMAIN s.list /\ t.list[i] = e
         /\ \A j \in DOMAIN s.list : j # i => t.list[j] = s.list[j]
         /\ \A j \in DOMAIN s.list : SameDPC(t.list[j], s.list[j]) /\ MostlyEqual(t.list[j], s.list[j])
<1>1. s.list \in Seq(DPC) /\ ListOK(s.list) /\ Len(s.list) \in Nat
  BY MgrFields DEF Sound
<1>2. /\ t.list \in Seq(DPC) /\ DOMAIN t.list = DOMAIN s.list /\ Len(t.list) = Len(s.list)
      /\ t.list[i] = e /\ \A j \in DOMAIN s.list : j # i => t.list[j] = s.list[j]
  BY <1>1
<1>3. \A j \in DOMAIN s.list : /\ t.list[j].key = s.list[j].key /\ t.list[j].prio = s.list[j].prio
                               /\ t.list[j].cfg = s.list[j].cfg
  BY <1>2
<1>4. OneManual(t.list) /\ Distinct(t.list)
  BY <1>1, <1>2, <1>3 DEF ListOK, OneManual, Distinct, SameDPC
<1>5. AllUsable => UsableList(t.list)
  BY <1>1, <1>2, <1>3 DEF ListOK, UsableList, IsDPCUsable
<1>6. ListOK(t.list)
  BY <1>2, <1>4, <1>5 DEF ListOK
<1>7. QED
  BY <1>2, <1>3, <1>6 DEF Sound, SameDPC, MostlyEqual

\* verifyDPC changes the results of the current DPC
LEMMA VerifyDPC ==
  ASSUME NEW s, Sound(s), s.cur # NoDPC, OuterTypes, NEW a \in BOOLEAN
  PROVE  LET u == verifyDPC(s, a) IN
         /\ Sound(u) /\ u.cur = s.cur /\ u.inProgress = s.inProgress /\ u.pc = s.pc
         /\ u.hasGCP = s.hasGCP /\ u.lps = s.lps /\ u.rs = s.rs
         /\ DOMAIN u.list = DOMAIN s.list
         /\ \A j \in DOMAIN s.list : j # s.cur => u.list[j] = s.list[j]
         /\ \A j \in DOMAIN s.list : SameDPC(u.list[j], s.list[j]) /\ MostlyEqual(u.list[j], s.list[j])
         /\ currentState(u) \in DPCStates \ {"None"}
         /\ currentState(u) \in Waits => /\ u.list[u.cur].last = s.list[s.cur].last
                                         /\ u.list[u.cur].recent = s.list[s.cur].recent
         /\ currentState(u) \in {"Success", "RemoteWait"} => u.list[u.cur].last = "good"
<1> DEFINE x == currentNet(s)
           res == IF x # "assigned" /\ a /\ s.elapsed < waitForAsyncRetries
                  THEN "AsyncWait" ELSE verdict(x, s.elapsed)
           d == [currentDPC(s) EXCEPT !.state = res]
           e == CASE res \in {"Success", "RemoteWait"} ->
                          [d EXCEPT !.last = "good", !.ever = TRUE, !.recent = FALSE]
                     [] res \in {"Fail", "FailWithIPAndDNS"} ->
                          [d EXCEPT !.last = "bad", !.recent = TRUE]
                     [] res \in Waits -> d
           l == [s.list EXCEPT ![s.cur] = e]
           u == verifyDPC(s, a)
<1>0. s \in Mgrs /\ s.list \in Seq(DPC) /\ s.elapsed \in Nat
  BY MgrFields, PatienceType DEF Sound
<1>1. s.cur \in DOMAIN s.list /\ s.list[s.cur] \in DPC /\ x \in AllNetStates
  BY CurrentNet
<1> HIDE DEF x
<1>2. verdict(x, s.elapsed) \in DPCStates \ {"None", "AsyncWait"}
  BY <1>0, <1>1, VerdictType
<1>3. res \in DPCStates \ {"None"}
  <2>1. "AsyncWait" \in DPCStates /\ "AsyncWait" # "None"
    BY DEF DPCStates, Waits
  <2>2. QED
    BY <1>2, <2>1
<1>4. u = [s EXCEPT !.pend = "off", !.async = (res = "AsyncWait"), !.list = l]
  BY <1>0 DEF verifyDPC, x, currentDPC
<1> HIDE DEF res
<1>5. d \in DPC /\ d.key = s.list[s.cur].key /\ d.prio = s.list[s.cur].prio
      /\ d.cfg = s.list[s.cur].cfg /\ d.last = s.list[s.cur].last
      /\ d.recent = s.list[s.cur].recent /\ d.state = res
  BY <1>1, <1>3 DEF DPC, currentDPC
<1> HIDE DEF d
<1>6. /\ e \in DPC /\ e.key = s.list[s.cur].key /\ e.prio = s.list[s.cur].prio
      /\ e.cfg = s.list[s.cur].cfg /\ e.state = res
      /\ res \in Waits => e.last = s.list[s.cur].last /\ e.recent = s.list[s.cur].recent
      /\ res \in {"Success", "RemoteWait"} => e.last = "good"
  <2>1. CASE res \in {"Success", "RemoteWait"}
    <3>1. e = [d EXCEPT !.last = "good", !.ever = TRUE, !.recent = FALSE] /\ res \notin Waits
      BY <2>1 DEF Waits
    <3> HIDE DEF e
    <3>2. QED
      BY <1>5, <2>1, <3>1 DEF DPC
  <2>2. CASE res \in {"Fail", "FailWithIPAndDNS"}
    <3>1. e = [d EXCEPT !.last = "bad", !.recent = TRUE] /\ res \notin Waits
          /\ res \notin {"Success", "RemoteWait"}
      BY <2>2 DEF Waits
    <3> HIDE DEF e
    <3>2. QED
      BY <1>5, <2>2, <3>1 DEF DPC
  <2>3. CASE res \in Waits
    <3>1. e = d /\ res \notin {"Success", "RemoteWait"}
      BY <2>3 DEF Waits
    <3> HIDE DEF e
    <3>2. QED
      BY <1>5, <2>3, <3>1
  <2>4. QED
    BY <1>3, <2>1, <2>2, <2>3 DEF DPCStates
<1> HIDE DEF e
<1>7. l \in Seq(DPC)
  BY <1>0, <1>1, <1>6
<1>8. (res = "AsyncWait") \in BOOLEAN
  OBVIOUS
<1> HIDE DEF u, l
<1>9. /\ u \in Mgrs /\ u.list = l /\ u.cur = s.cur /\ u.inProgress = s.inProgress /\ u.pc = s.pc
      /\ u.hasGCP = s.hasGCP /\ u.lps = s.lps /\ u.rs = s.rs
  BY <1>0, <1>4, <1>7, <1>8 DEF Mgrs
<1>10. /\ Sound(u) /\ DOMAIN u.list = DOMAIN s.list /\ u.list[s.cur] = e
       /\ \A j \in DOMAIN s.list : j # s.cur => u.list[j] = s.list[j]
       /\ \A j \in DOMAIN s.list : SameDPC(u.list[j], s.list[j]) /\ MostlyEqual(u.list[j], s.list[j])
  <2>1. u.list = [s.list EXCEPT ![s.cur] = e]
    BY <1>9 DEF l
  <2>2. QED
    BY <1>1, <1>6, <1>9, <2>1, ResultsChanged
<1>11. currentState(u) = res
  BY <1>1, <1>6, <1>9, <1>10 DEF currentState, haveCurrentDPC, currentDPC
<1>12. QED
  BY <1>3, <1>6, <1>9, <1>10, <1>11 DEF u

\* The end of a verification: it has found a DPC that works, if there is one
LEMMA EndVerify ==
  ASSUME NEW s, Sound(s), s.list # <<>>, NEW works \in BOOLEAN, NEW h \in BOOLEAN, NEW n,
         AllUsable /\ ~h =>
           Free(s) /\ (SomeWorks(s.list) => s.cur # NoDPC /\ WasDPCWorking(s.list[s.cur]))
  PROVE  Fine(endVerify(s, works), h, n)
<1> DEFINE v == [s EXCEPT !.inProgress = FALSE, !.pc = "idle", !.better = TestBetter /\ s.cur # 1]
           t == compressDPCL(v)
           w == [t EXCEPT !.connWorks = @ \/ works, !.test = TRUE]
<1>0. s \in Mgrs
  BY DEF Sound
<1>1. /\ v \in Mgrs /\ v.list = s.list /\ v.cur = s.cur /\ v.inProgress = FALSE /\ v.pc = "idle"
      /\ v.hasGCP = s.hasGCP /\ v.lps = s.lps /\ v.rs = s.rs
  <2>1. (TestBetter /\ s.cur # 1) \in BOOLEAN
    OBVIOUS
  <2>2. QED
    BY <1>0, <2>1 DEF Mgrs
<1> HIDE DEF v
<1>2. Sound(v)
  BY <1>1 DEF Sound
<1>3. /\ Sound(t)
      /\ t.inProgress = FALSE /\ t.pc = "idle" /\ t.lps = s.lps /\ t.rs = s.rs
      /\ (t.cur = NoDPC) <=> (s.cur = NoDPC)
      /\ s.cur # NoDPC => t.list[t.cur] = s.list[s.cur]
      /\ t.list # <<>> /\ (SomeWorks(t.list) <=> SomeWorks(s.list))
  BY <1>1, <1>2, Compressed
<1> HIDE DEF t
<1>4. endVerify(s, works) = IF IsDPCUntested(t.list[1]) THEN restartVerify(t) ELSE w
  BY DEF endVerify, t, v
<1>5. Timers(t)
  BY <1>3 DEF Timers
<1>6. AllUsable /\ ~h => Free(t)
  BY <1>3 DEF Free
<1>7. CASE IsDPCUntested(t.list[1])
  <2>1. 1 \in DOMAIN t.list
    BY <1>3, MgrFields DEF Sound
  <2>2. 1 \in Testable(t.list)
    BY <1>7, <2>1 DEF Testable, IsDPCUntested, IsDPCTestable
  <2>3. MayGoOn(t)
    BY <1>3, <2>2 DEF MayGoOn
  <2>4. QED
    BY <1>3, <1>4, <1>5, <1>6, <1>7, <2>3, Started
<1>8. CASE ~IsDPCUntested(t.list[1])
  <2>1. t \in Mgrs /\ t.connWorks \in BOOLEAN
    BY <1>3, MgrFields DEF Sound
  <2>2. (t.connWorks \/ works) \in BOOLEAN
    OBVIOUS
  <2>3. /\ w \in Mgrs /\ w.list = t.list /\ w.cur = t.cur /\ w.inProgress = FALSE
        /\ w.pc = "idle" /\ w.lps = t.lps /\ w.rs = t.rs /\ w.test = TRUE
    BY <1>3, <2>1, <2>2 DEF Mgrs
  <2> HIDE DEF w
  <2>4. Sound(w) /\ Timers(w) /\ (Free(t) => Free(w)) /\ Going(w)
    BY <1>3, <2>3 DEF Sound, Timers, Free, Going
  <2>5. AllUsable /\ ~h => Settled(w)
    BY <1>3, <2>3 DEF Settled
  <2>6. QED
    BY <1>4, <1>6, <1>8, <2>4, <2>5 DEF Fine
<1>9. QED
  BY <1>7, <1>8

\* One DPC of the loop of runVerify
LEMMA LoopFine ==
  ASSUME NEW s, NEW h \in BOOLEAN, NEW n, Fine(s, h, n), s.pc = "loop", OuterTypes,
         NEW a \in BOOLEAN
  PROVE  Fine(afterTest(verifyDPC(s, a)), h, n)
<1> DEFINE u == verifyDPC(s, a)
           res == currentState(u)
           next == getNextTestableDPCIndex(u, u.cur + 1)
<1>0. Sound(s) /\ s.inProgress /\ s.cur # NoDPC
  BY DEF Fine, Timers
<1>1. /\ Sound(u) /\ u.cur = s.cur /\ u.inProgress = s.inProgress /\ u.pc = s.pc
      /\ u.hasGCP = s.hasGCP /\ u.lps = s.lps /\ u.rs = s.rs
      /\ DOMAIN u.list = DOMAIN s.list
      /\ \A j \in DOMAIN s.list : MostlyEqual(u.list[j], s.list[j])
      /\ res \in DPCStates \ {"None"}
      /\ res \in Waits => /\ u.list[u.cur].last = s.list[s.cur].last
                          /\ u.list[u.cur].recent = s.list[s.cur].recent
      /\ res \in {"Success", "RemoteWait"} => u.list[u.cur].last = "good"
  BY <1>0, VerifyDPC
<1> HIDE DEF u
<1>2. u \in Mgrs /\ u.list \in Seq(DPC) /\ u.cur \in DOMAIN u.list /\ u.cur # NoDPC /\ u.list # <<>>
      /\ 1 \in DOMAIN u.list /\ u.cur \in Nat
  BY <1>0, <1>1, MgrFields DEF Sound, NoDPC
<1>3. AllUsable /\ ~h => Free(u)
  BY <1>1 DEF Fine, Free
<1>4. afterTest(u) =
        CASE res \in Waits -> [u EXCEPT !.pend = "armed", !.pc = "idle"]
          [] res \in {"Success", "RemoteWait"} -> endVerify(u, TRUE)
          [] OTHER -> IF IsDPCUntested(u.list[1]) \/ WasDPCWorking(u.list[1])
                      THEN setupVerify(u, 1)
                      ELSE IF next = NoDPC THEN endVerify(u, FALSE) ELSE setupVerify(u, next)
  BY DEF afterTest
<1>5. (next # NoDPC => next \in Testable(u.list)) /\ (next = NoDPC => Testable(u.list) = {})
  <2>1. u.cur + 1 \in Int
    BY <1>2
  <2>2. QED
    BY <1>2, <2>1, NextTestable
<1> HIDE DEF res, next
<1>6. ASSUME NEW i \in DOMAIN u.list, AllUsable => i \in Testable(u.list)
      PROVE  Fine(setupVerify(u, i), h, n)
  <2> DEFINE t == setupVerify(u, i)
  <2>1. i \in Nat /\ i # NoDPC /\ i \in NoDPC..Len(u.list)
    BY <1>2 DEF NoDPC
  <2>2. /\ t \in Mgrs /\ t.list = u.list /\ t.cur = i /\ t.inProgress = TRUE /\ t.pc = "loop"
        /\ t.lps = u.lps /\ t.rs = u.rs
    <3> DEFINE e == IF u.hasGCP THEN 0 ELSE Patience
    <3>1. e \in 0..Patience
      BY PatienceType
    <3>2. t = [u EXCEPT !.cur = i, !.inProgress = TRUE, !.elapsed = e]
      BY DEF setupVerify
    <3> HIDE DEF t, e
    <3>3. QED
      BY <1>1, <1>2, <2>1, <3>1, <3>2 DEF Mgrs
  <2> HIDE DEF t
  <2>3. Sound(t) /\ Timers(t) /\ (Free(u) => Free(t)) /\ Settled(t)
    BY <1>1, <2>1, <2>2 DEF Sound, Timers, Free, Settled
  <2>4. AllUsable => Going(t)
    BY <1>6, <2>2 DEF Going
  <2>5. Fine(t, h, n)
    BY <1>3, <2>3, <2>4 DEF Fine
  <2>6. QED
    BY <2>5 DEF t
<1>7. CASE res \in Waits
  <2> DEFINE t == [u EXCEPT !.pend = "armed", !.pc = "idle"]
  <2>1. afterTest(u) = t
    <3>1. res \notin {"Success", "RemoteWait"}
      BY <1>7 DEF Waits
    <3>2. QED
      BY <1>4, <1>7, <3>1
  <2>2. /\ t \in Mgrs /\ t.list = u.list /\ t.cur = u.cur /\ t.inProgress = TRUE /\ t.pc = "idle"
        /\ t.lps = u.lps /\ t.rs = u.rs /\ t.pend = "armed"
    BY <1>0, <1>1, <1>2 DEF Mgrs
  <2> HIDE DEF t
  <2>3. Sound(t) /\ Timers(t) /\ (Free(u) => Free(t)) /\ Settled(t)
    BY <1>1, <2>2 DEF Sound, Timers, Free, Settled
  <2>4. s.cur \in Testable(s.list) => u.cur \in Testable(u.list)
    BY <1>1, <1>2, <1>7 DEF Testable, IsDPCTestable, IsDPCUsable, MostlyEqual
  <2>5. AllUsable /\ ~h /\ n = 0 => Going(t)
    BY <1>0, <2>2, <2>4 DEF Going, Fine
  <2>6. QED
    BY <1>3, <2>1, <2>3, <2>5 DEF Fine, u
<1>8. CASE res \in {"Success", "RemoteWait"}
  <2>1. res \notin Waits
    BY <1>8 DEF Waits
  <2>2. afterTest(u) = endVerify(u, TRUE)
    BY <1>4, <1>8, <2>1
  <2>3. WasDPCWorking(u.list[u.cur])
    BY <1>1, <1>8 DEF WasDPCWorking
  <2>4. Fine(endVerify(u, TRUE), h, n)
    BY <1>1, <1>2, <1>3, <2>3, EndVerify
  <2>5. QED
    BY <2>2, <2>4 DEF u
<1>9. CASE res \notin Waits \cup {"Success", "RemoteWait"}
  <2>1. afterTest(u) =
          IF IsDPCUntested(u.list[1]) \/ WasDPCWorking(u.list[1]) THEN setupVerify(u, 1)
          ELSE IF next = NoDPC THEN endVerify(u, FALSE) ELSE setupVerify(u, next)
    BY <1>4, <1>9
  <2>2. CASE IsDPCUntested(u.list[1]) \/ WasDPCWorking(u.list[1])
    <3>1. u.list[1].last # "bad"
      BY <2>2 DEF IsDPCUntested, WasDPCWorking
    <3>2. AllUsable => 1 \in Testable(u.list)
      BY <1>1, <1>2, <3>1, WorksTestable
    <3>3. Fine(setupVerify(u, 1), h, n)
      BY <1>2, <1>6, <3>2
    <3>4. QED
      BY <2>1, <2>2, <3>3 DEF u
  <2>3. CASE ~(IsDPCUntested(u.list[1]) \/ WasDPCWorking(u.list[1])) /\ next = NoDPC
    <3>1. AllUsable => ~SomeWorks(u.list)
      BY <1>1, <1>5, <2>3, WorksTestable
    <3>2. Fine(endVerify(u, FALSE), h, n)
      BY <1>1, <1>2, <1>3, <3>1, EndVerify
    <3>3. QED
      BY <2>1, <2>3, <3>2 DEF u
  <2>4. CASE ~(IsDPCUntested(u.list[1]) \/ WasDPCWorking(u.list[1])) /\ next # NoDPC
    <3>1. next \in Testable(u.list) /\ next \in DOMAIN u.list
      BY <1>5, <2>4 DEF Testable
    <3>2. Fine(setupVerify(u, next), h, n)
      BY <1>6, <3>1
    <3>3. QED
      BY <2>1, <2>4, <3>2 DEF u
  <2>5. QED
    BY <2>2, <2>3, <2>4
<1>10. QED
  BY <1>7, <1>8, <1>9

-----------------------------------------------------------------------------
(* Commands *)

\* The struct with another list, before it is compressed
Moved(s, l) == [s EXCEPT !.list = l, !.cur = IF haveCurrentDPC(s) THEN placeOf(s, l) ELSE @]

\* CurrentIndex stays in the list, at the same DPC or at one that works
LEMMA MovedSound ==
  ASSUME NEW s \in Mgrs, NEW l, ListOK(l), s.cur \in DOMAIN s.list \/ s.cur \in NoDPC..Len(l)
  PROVE  LET v == Moved(s, l) IN
         /\ changeList(s, l) = compressDPCL(v)
         /\ Sound(v) /\ v.list = l /\ v.inProgress = s.inProgress /\ v.pc = s.pc /\ v.pend = s.pend
         /\ v.test = s.test /\ v.hasGCP = s.hasGCP /\ v.lps = s.lps /\ v.rs = s.rs
         /\ s.cur \notin DOMAIN s.list => v.cur = s.cur
         /\ s.cur \in DOMAIN s.list /\ v.cur # NoDPC =>
              \/ v.cur = lookupDPC(l, s.list[s.cur]) /\ v.cur = s.cur
              \/ WasDPCWorking(l[v.cur])
         /\ s.cur \in DOMAIN s.list /\ lookupDPC(l, s.list[s.cur]) = s.cur => v.cur = s.cur
<1> DEFINE v == Moved(s, l)
           i == lookupDPC(l, currentDPC(s))
           p == placeOf(s, l)
           c == IF haveCurrentDPC(s) THEN p ELSE s.cur
<1>0. l \in Seq(DPC) /\ Len(l) \in Nat /\ DOMAIN l = 1..Len(l)
  BY DEF ListOK
<1>1. i \in NoDPC..Len(l)
  BY <1>0, LookupDPC
<1>2. i = lookupDPC(l, s.list[s.cur])
  BY DEF currentDPC
<1> HIDE DEF i
<1>3. p = IF i = s.cur THEN i
          ELSE IF i # NoDPC THEN IF WasDPCWorking(l[i]) THEN i ELSE NoDPC
          ELSE IF l # <<>> /\ WasDPCWorking(l[1]) THEN 1 ELSE NoDPC
  BY DEF placeOf, i
<1> HIDE DEF p
<1>4. p \in NoDPC..Len(l)
  BY <1>0, <1>1, <1>3 DEF NoDPC
<1>5. /\ p # NoDPC => (p = i /\ p = s.cur) \/ WasDPCWorking(l[p])
      /\ i = s.cur => p = s.cur
  BY <1>3
<1>6. c \in NoDPC..Len(l) /\ c \in Nat
  BY <1>0, <1>4 DEF haveCurrentDPC, NoDPC
<1>7. v = [s EXCEPT !.list = l, !.cur = c]
  BY DEF Moved, p
<1>8. changeList(s, l) = compressDPCL(v)
  BY DEF changeList, Moved
<1>9. s.cur \notin DOMAIN s.list => c = s.cur
  BY DEF haveCurrentDPC
<1>10. s.cur \in DOMAIN s.list => c = p
  BY DEF haveCurrentDPC
<1> HIDE DEF v, c
<1>11. /\ v \in Mgrs /\ v.list = l /\ v.inProgress = s.inProgress /\ v.pc = s.pc /\ v.pend = s.pend
       /\ v.test = s.test /\ v.hasGCP = s.hasGCP /\ v.lps = s.lps /\ v.rs = s.rs /\ v.cur = c
  BY <1>0, <1>6, <1>7 DEF Mgrs
<1>12. Sound(v)
  BY <1>6, <1>11 DEF Sound
<1>13. QED
  BY <1>2, <1>5, <1>8, <1>9, <1>10, <1>11, <1>12 DEF v

\* The struct without a manual DPC, if another one comes
WithoutManual(s, d) ==
  IF d.key = "manual" THEN [s EXCEPT !.list = removeAllDPCbyKey(@, "manual")] ELSE s

\* A DPC under verification that is updated, replaced or left alone can still be tested
LEMMA StillTestable ==
  ASSUME NEW s, Sound(s), NEW t, Sound(t), NEW d, Untested(d), AllUsable, Testable(s.list) # {},
         \A k \in DOMAIN s.list : \E j \in DOMAIN t.list : Becomes(s.list[k], t.list[j], d)
  PROVE  Testable(t.list) # {}
<1>1. PICK k \in DOMAIN s.list : IsDPCTestable(s.list[k])
  BY DEF Testable
<1>2. PICK j \in DOMAIN t.list : Becomes(s.list[k], t.list[j], d)
  BY <1>1
<1>3. \A i \in DOMAIN t.list : IsDPCUsable(t.list[i])
  BY DEF Sound, ListOK, UsableList
<1>4. t.list[j].last = "bad" => ~t.list[j].recent
  BY <1>1, <1>2 DEF Becomes, IsDPCTestable, Untested
<1>5. QED
  BY <1>2, <1>3, <1>4 DEF Testable, IsDPCTestable

\* What doAddDPC makes of the list and of CurrentIndex, step by step: without the manual DPC, if
\* another one comes (t), with the new DPC (l), with the index moved (v), compressed (c) and with
\* no verification in progress (w)
PutsWell(s, d, t, l, v, c, w) ==
  /\ t \in Mgrs /\ ListOK(t.list) /\ Len(t.list) \in Nat /\ t.cur = s.cur
  /\ d.key = "manual" => \A k \in DOMAIN t.list : t.list[k].key # "manual"
  /\ d.key # "manual" => t.list = s.list
  /\ \A j \in DOMAIN t.list : \E k \in DOMAIN s.list : t.list[j] = s.list[k]
  /\ \A k \in DOMAIN s.list : s.list[k].key # "manual" =>
       \E j \in DOMAIN t.list : t.list[j] = s.list[k]
  /\ ListOK(l) /\ Len(l) \in Nat \ {0}
  /\ \A k \in DOMAIN t.list : \E j \in DOMAIN l : Becomes(t.list[k], l[j], d)
  /\ (t.list = <<>> \/ d.key = "manual") => \E j \in DOMAIN l : l[j] = d
  /\ Sound(v) /\ v.list = l /\ v.inProgress = s.inProgress
  /\ v.enableLastResort = s.enableLastResort
  /\ t.cur \notin DOMAIN t.list => v.cur = s.cur
  /\ t.cur \in DOMAIN t.list /\ v.cur # NoDPC =>
       \/ v.cur = lookupDPC(l, t.list[t.cur]) /\ v.cur = t.cur
       \/ WasDPCWorking(l[v.cur])
  /\ t.cur \in DOMAIN t.list /\ lookupDPC(l, t.list[t.cur]) = t.cur => v.cur = t.cur
  /\ putDPC(t, d) = c
  /\ Sound(c) /\ (v.inProgress => c = v) /\ c.list[1] = l[1] /\ c.list # <<>>
  /\ Sound(w) /\ w.list = c.list /\ w.cur = c.cur /\ w.inProgress = FALSE /\ w.pc = "idle"
  /\ w.test = s.test /\ w.hasGCP = s.hasGCP /\ w.lps = s.lps /\ w.rs = s.rs

LEMMA PutParts ==
  ASSUME NEW s, Sound(s), s.pc = "idle", NEW d, Untested(d)
  PROVE  LET t == WithoutManual(s, d)
             l == Put(t.list, d)
             v == Moved(t, l)
             c == compressDPCL(v)
             w == [c EXCEPT !.inProgress = FALSE]
         IN  PutsWell(s, d, t, l, v, c, w)
<1> DEFINE t == WithoutManual(s, d)
           l == Put(t.list, d)
           v == Moved(t, l)
           c == compressDPCL(v)
           w == [c EXCEPT !.inProgress = FALSE]
<1>0. s \in Mgrs /\ ListOK(s.list) /\ Len(s.list) \in Nat /\ s.cur \in NoDPC..Len(s.list)
      /\ DOMAIN s.list = 1..Len(s.list)
  BY MgrFields DEF Sound
<1>1. /\ t \in Mgrs /\ ListOK(t.list) /\ Len(t.list) \in Nat /\ t.cur = s.cur
      /\ t.inProgress = s.inProgress /\ t.pc = s.pc /\ t.test = s.test
      /\ t.enableLastResort = s.enableLastResort
      /\ t.hasGCP = s.hasGCP /\ t.lps = s.lps /\ t.rs = s.rs
      /\ d.key = "manual" => \A k \in DOMAIN t.list : t.list[k].key # "manual"
      /\ d.key # "manual" => t.list = s.list
      /\ Len(t.list) + 1 >= Len(s.list)
      /\ \A j \in DOMAIN t.list : \E k \in DOMAIN s.list : t.list[j] = s.list[k]
      /\ \A k \in DOMAIN s.list : s.list[k].key # "manual" =>
           \E j \in DOMAIN t.list : t.list[j] = s.list[k]
  <2>1. CASE d.key = "manual"
    <3> DEFINE r == removeAllDPCbyKey(s.list, "manual")
    <3>1. /\ ListOK(r) /\ Len(r) \in Nat /\ Len(r) + 1 >= Len(s.list)
          /\ \A j \in DOMAIN r : r[j].key # "manual"
          /\ \A j \in DOMAIN r : \E k \in DOMAIN s.list : r[j] = s.list[k]
          /\ \A k \in DOMAIN s.list : s.list[k].key # "manual" => \E j \in DOMAIN r : r[j] = s.list[k]
      BY <1>0, RemoveManual
    <3>2. t = [s EXCEPT !.list = r]
      BY <2>1 DEF WithoutManual
    <3>3. r \in Seq(DPC)
      BY <3>1 DEF ListOK
    <3> HIDE DEF t, r
    <3>4. /\ t \in Mgrs /\ t.list = r /\ t.cur = s.cur
          /\ t.inProgress = s.inProgress /\ t.pc = s.pc /\ t.test = s.test
          /\ t.enableLastResort = s.enableLastResort
          /\ t.hasGCP = s.hasGCP /\ t.lps = s.lps /\ t.rs = s.rs
      BY <1>0, <3>2, <3>3 DEF Mgrs
    <3>5. QED
      BY <2>1, <3>1, <3>4
  <2>2. CASE d.key # "manual"
    BY <1>0, <2>2 DEF WithoutManual
  <2>3. QED
    BY <2>1, <2>2
<1> HIDE DEF t
<1>2. /\ ListOK(l) /\ Len(l) \in Nat \ {0} /\ Len(l) >= Len(t.list)
      /\ d.key = "manual" => Len(l) = Len(t.list) + 1
      /\ \A k \in DOMAIN t.list : \E j \in DOMAIN l : Becomes(t.list[k], l[j], d)
      /\ (t.list = <<>> \/ d.key = "manual") => \E j \in DOMAIN l : l[j] = d
  BY <1>1, PutOK
<1> HIDE DEF l
<1>3. t.cur \in NoDPC..Len(l)
  <2>1. CASE d.key = "manual"
    BY <1>0, <1>1, <1>2, <2>1 DEF NoDPC
  <2>2. CASE d.key # "manual"
    BY <1>0, <1>1, <1>2, <2>2 DEF NoDPC
  <2>3. QED
    BY <2>1, <2>2
<1>4. /\ changeList(t, l) = c
      /\ Sound(v) /\ v.list = l /\ v.inProgress = s.inProgress /\ v.pc = s.pc
      /\ v.test = s.test /\ v.hasGCP = s.hasGCP /\ v.lps = s.lps /\ v.rs = s.rs
      /\ t.cur \notin DOMAIN t.list => v.cur = s.cur
      /\ t.cur \in DOMAIN t.list /\ v.cur # NoDPC =>
           \/ v.cur = lookupDPC(l, t.list[t.cur]) /\ v.cur = t.cur
           \/ WasDPCWorking(l[v.cur])
      /\ t.cur \in DOMAIN t.list /\ lookupDPC(l, t.list[t.cur]) = t.cur => v.cur = t.cur
  BY <1>1, <1>2, <1>3, MovedSound
<1>a. v.enableLastResort = s.enableLastResort
  BY <1>1 DEF Moved, Mgrs
<1>5. putDPC(t, d) = c
  <2>1. putDPC(t, d) = changeList(t, l)
    BY DEF putDPC, l, Put
  <2>2. QED
    BY <1>4, <2>1
<1> HIDE DEF v
<1>6. /\ Sound(c)
      /\ c.pc = s.pc /\ c.test = s.test /\ c.hasGCP = s.hasGCP /\ c.lps = s.lps /\ c.rs = s.rs
      /\ v.inProgress => c = v
      /\ c.list[1] = l[1] /\ c.list # <<>>
  <2>1. v.list # <<>>
    BY <1>2, <1>4
  <2>2. QED
    BY <1>4, <2>1, Compressed
<1> HIDE DEF c
<1>7. /\ Sound(w) /\ w.list = c.list /\ w.cur = c.cur /\ w.inProgress = FALSE /\ w.pc = "idle" /\ w.test = s.test
      /\ w.hasGCP = s.hasGCP /\ w.lps = s.lps /\ w.rs = s.rs
  <2>1. c \in Mgrs
    BY <1>6 DEF Sound
  <2>2. /\ w \in Mgrs /\ w.list = c.list /\ w.cur = c.cur /\ w.inProgress = FALSE /\ w.pc = "idle"
        /\ w.test = s.test /\ w.hasGCP = s.hasGCP /\ w.lps = s.lps /\ w.rs = s.rs
    BY <1>6, <2>1 DEF Mgrs
  <2> HIDE DEF w
  <2>3. QED
    BY <1>6, <2>2 DEF Sound
<1> HIDE DEF w
<1>8. PutsWell(s, d, t, l, v, c, w)
  BY <1>1, <1>2, <1>4, <1>a, <1>5, <1>6, <1>7 DEF PutsWell
<1>9. QED
  BY <1>8 DEF t, l, v, c, w

\* doAddDPC with a DPC that is not the current one already
LEMMA PutFine ==
  ASSUME NEW s, Sound(s), s.pc = "idle", NEW d, Untested(d), NEW h \in BOOLEAN, NEW n,
         AllUsable /\ ~h => Free(s),
         AllUsable /\ ~h /\ n = 0 => Going(s)
  PROVE  Fine(restartVerify([putDPC(WithoutManual(s, d), d) EXCEPT !.inProgress = FALSE]), h, n)
<1> DEFINE t == WithoutManual(s, d)
           l == Put(t.list, d)
           v == Moved(t, l)
           c == compressDPCL(v)
           w == [c EXCEPT !.inProgress = FALSE]
<1>0. s \in Mgrs /\ ListOK(s.list) /\ Len(s.list) \in Nat /\ s.cur \in NoDPC..Len(s.list)
      /\ DOMAIN s.list = 1..Len(s.list)
  BY MgrFields DEF Sound
<1>0a. PutsWell(s, d, t, l, v, c, w)
  BY PutParts
<1> HIDE DEF t, l, v, c, w
<1>1. /\ t \in Mgrs /\ ListOK(t.list) /\ Len(t.list) \in Nat
      /\ d.key = "manual" => \A k \in DOMAIN t.list : t.list[k].key # "manual"
      /\ d.key # "manual" => t.list = s.list
      /\ \A j \in DOMAIN t.list : \E k \in DOMAIN s.list : t.list[j] = s.list[k]
  BY <1>0a DEF PutsWell
<1>2. /\ ListOK(l) /\ Len(l) \in Nat \ {0}
      /\ \A k \in DOMAIN t.list : \E j \in DOMAIN l : Becomes(t.list[k], l[j], d)
      /\ (t.list = <<>> \/ d.key = "manual") => \E j \in DOMAIN l : l[j] = d
  BY <1>0a DEF PutsWell
<1>4. v.list = l /\ v.inProgress = s.inProgress
  BY <1>0a DEF PutsWell
<1>5. putDPC(t, d) = c
  BY <1>0a DEF PutsWell
<1>6. /\ Sound(c) /\ (v.inProgress => c = v) /\ c.list[1] = l[1] /\ c.list # <<>>
  BY <1>0a DEF PutsWell
<1>7. /\ Sound(w) /\ w.list = c.list /\ w.inProgress = FALSE /\ w.pc = "idle" /\ w.test = s.test
      /\ w.hasGCP = s.hasGCP /\ w.lps = s.lps /\ w.rs = s.rs
  BY <1>0a DEF PutsWell
<1>8. ASSUME AllUsable, Going(s) PROVE MayGoOn(w)
  <2> HIDE DEF w
  <2>1. CASE s.test
    BY <1>7, <2>1 DEF MayGoOn
  <2>2. CASE ~s.hasGCP
    BY <1>7, <2>2 DEF MayGoOn
  <2>3. CASE s.list = <<>>
    <3>1. t.list \in Seq(DPC) /\ DOMAIN t.list = 1..Len(t.list)
      BY <1>1 DEF ListOK
    <3>2. Len(t.list) = 0
      <4>2. DOMAIN s.list = {}
        BY <2>3
      <4>3. 1 \notin DOMAIN t.list
        BY <1>1, <4>2
      <4>4. QED
        BY <1>1, <3>1, <4>3
    <3>3. lookupDPC(t.list, d) = NoDPC
      <4>1. lookupDPC(t.list, d) \in NoDPC..Len(t.list)
        BY <3>1, LookupDPC
      <4>2. QED
        BY <3>2, <4>1 DEF NoDPC
    <3>4. l = insertDPC(t.list, d)
      BY <3>3 DEF l, Put
    <3>5. \A k \in DOMAIN t.list : FALSE
      BY <3>1, <3>2
    <3>6. Len(l) = Len(t.list) + 1 /\ \E j \in DOMAIN l : l[j] = d
      <4>1. d \in DPC /\ (AllUsable => IsDPCUsable(d))
        BY DEF Untested
      <4>2. QED
        BY <1>1, <3>4, <3>5, <4>1, InsertDPC
    <3>7. DOMAIN l = 1..1
      BY <1>2, <3>2, <3>6 DEF ListOK
    <3>8. l[1] = d
      BY <3>6, <3>7
    <3>9. w.list[1].last # "bad" /\ 1 \in DOMAIN w.list
      BY <1>6, <1>7, <3>8, MgrFields DEF Untested, Sound
    <3>10. Testable(w.list) # {}
      BY <1>7, <1>8, <3>9, WorksTestable
    <3>11. QED
      BY <1>7, <3>10 DEF MayGoOn
  <2>4. CASE s.inProgress
    <3>1. c = v /\ w.list = l
      BY <1>4, <1>6, <1>7, <2>4
    <3>2. CASE d.key = "manual"
      <4>1. PICK j \in DOMAIN l : l[j] = d
        BY <1>2, <3>2
      <4>2. w.list[j].last # "bad"
        BY <3>1, <4>1 DEF Untested
      <4>3. Testable(w.list) # {}
        BY <1>7, <1>8, <3>1, <4>1, <4>2, WorksTestable
      <4>4. QED
        BY <1>7, <4>3 DEF MayGoOn
    <3>3. CASE d.key # "manual"
      <4>1. Testable(s.list) # {}
        BY <1>8, <2>4 DEF Going
      <4>2. \A k \in DOMAIN s.list : \E j \in DOMAIN w.list : Becomes(s.list[k], w.list[j], d)
        BY <1>1, <1>2, <3>1, <3>3
      <4>3. Testable(w.list) # {}
        BY <1>7, <1>8, <4>1, <4>2, StillTestable
      <4>4. QED
        BY <1>7, <4>3 DEF MayGoOn
    <3>4. QED
      BY <3>2, <3>3
  <2>5. QED
    BY <1>8, <2>1, <2>2, <2>3, <2>4 DEF Going
<1>9. Timers(w) /\ (Free(s) => Free(w))
  BY <1>7 DEF Timers, Free
<1>10. Fine(restartVerify(w), h, n)
  BY <1>7, <1>8, <1>9, Started
<1>11. QED
  BY <1>5, <1>10 DEF t, w

\* A struct that differs only in what the invariant does not look at
Alike(s, t) ==
  /\ t.list = s.list /\ t.cur = s.cur /\ t.inProgress = s.inProgress /\ t.pc = s.pc
  /\ t.pend = s.pend /\ t.test = s.test /\ t.hasGCP = s.hasGCP /\ t.lps = s.lps /\ t.rs = s.rs

\* It is as good as the other one
LEMMA AlikeFine ==
  ASSUME NEW s, NEW h \in BOOLEAN, NEW n, Fine(s, h, n), NEW t \in Mgrs, Alike(s, t)
  PROVE  Fine(t, h, n)
<1>1. Sound(t)
  BY DEF Alike, Fine, Sound
<1>2. Timers(t)
  BY DEF Alike, Fine, Timers
<1>3. (Free(s) => Free(t)) /\ (Settled(s) => Settled(t))
  BY DEF Alike, Free, Settled
<1>4. Going(s) => Going(t)
  BY DEF Alike, Going
<1>5. QED
  BY <1>1, <1>2, <1>3, <1>4 DEF Fine

\* Reconcile only learns of async operations
LEMMA Reconciled ==
  ASSUME NEW s \in Mgrs, NEW a \in BOOLEAN
  PROVE  Reconcile(s, a) \in Mgrs /\ Alike(s, Reconcile(s, a))
         /\ Reconcile(s, a).enableLastResort = s.enableLastResort
         /\ Reconcile(s, a).lastResort = s.lastResort /\ Reconcile(s, a).better = s.better
<1> DEFINE b == a /\ currentState(s) = "AsyncWait"
<1>1. b \in BOOLEAN
  OBVIOUS
<1>2. Reconcile(s, a) = [s EXCEPT !.async = b]
  BY DEF Reconcile
<1> HIDE DEF b
<1>3. QED
  BY <1>1, <1>2 DEF Mgrs, Alike

\* Only a DPC that is not manual can be the current one already: nothing is removed for it
LEMMA AlreadyCurrent ==
  ASSUME NEW s, Sound(s), NEW d, isCurrent(WithoutManual(s, d), d)
  PROVE  WithoutManual(s, d) = s /\ s.cur # NoDPC
<1> DEFINE t == WithoutManual(s, d)
<1>0. s \in Mgrs /\ ListOK(s.list) /\ s.list \in Seq(DPC)
  BY MgrFields DEF Sound
<1>1. lookupDPC(t.list, d) # NoDPC /\ t.cur = 1
  BY DEF isCurrent
<1>2. d.key # "manual"
  <2>1. SUFFICES ASSUME d.key = "manual" PROVE FALSE
    OBVIOUS
  <2>2. t.list = removeAllDPCbyKey(s.list, "manual")
    BY <1>0, <2>1 DEF WithoutManual, Mgrs
  <2> DEFINE r == t.list
  <2>3. ListOK(r) /\ \A j \in DOMAIN r : r[j].key # "manual"
    BY <1>0, <2>2, RemoveManual
  <2> HIDE DEF r
  <2>4. r \in Seq(DPC) /\ lookupDPC(r, d) # NoDPC
    BY <1>1, <2>3 DEF ListOK, r
  <2>5. lookupDPC(r, d) \in DOMAIN r
        /\ (SameDPC(r[lookupDPC(r, d)], d) \/ MostlyEqual(r[lookupDPC(r, d)], d))
    BY <2>4, LookupDPC
  <2>6. QED
    BY <2>1, <2>3, <2>5 DEF SameDPC, MostlyEqual
<1>3. t = s /\ s.cur # NoDPC
  BY <1>1, <1>2 DEF WithoutManual, NoDPC
<1>4. QED
  BY <1>3

\* doAddDPC: the DPC is the current one already, or it is put into the list
LEMMA AddFine ==
  ASSUME NEW s, Sound(s), Timers(s), s.pc = "idle", NEW d, Untested(d), NEW h \in BOOLEAN, NEW n,
         AllUsable /\ ~h => Free(s) /\ (s.cur # NoDPC => Settled(s)),
         AllUsable /\ ~h /\ n = 0 => Going(s)
  PROVE  Fine(doAddDPC(s, d), h, n)
<1> DEFINE t == WithoutManual(s, d)
           w == [s EXCEPT !.inProgress = FALSE]
<1>0. s \in Mgrs /\ ListOK(s.list) /\ s.list \in Seq(DPC)
  BY MgrFields DEF Sound
<1>1. doAddDPC(s, d) =
        IF isCurrent(t, d)
        THEN IF haveIPandDNS(t) THEN t ELSE restartVerify([t EXCEPT !.inProgress = FALSE])
        ELSE restartVerify([putDPC(t, d) EXCEPT !.inProgress = FALSE])
  BY DEF doAddDPC, WithoutManual
<1>2. CASE ~isCurrent(t, d)
  <2>1. Fine(restartVerify([putDPC(t, d) EXCEPT !.inProgress = FALSE]), h, n)
    BY PutFine
  <2>2. QED
    BY <1>1, <1>2, <2>1
<1>3. CASE isCurrent(t, d)
  <2>3. t = s /\ s.cur # NoDPC
    BY <1>3, AlreadyCurrent
  <2>4. Fine(s, h, n)
    BY <2>3 DEF Fine
  <2>5. /\ w \in Mgrs /\ w.list = s.list /\ w.cur = s.cur /\ w.inProgress = FALSE /\ w.pc = "idle"
        /\ w.lps = s.lps /\ w.rs = s.rs /\ w.test = s.test /\ w.hasGCP = s.hasGCP
    BY <1>0 DEF Mgrs
  <2>6. Fine(restartVerify(w), h, n)
    <3> HIDE DEF w
    <3>1. Sound(w) /\ Timers(w) /\ (Free(s) => Free(w))
      BY <2>5 DEF Sound, Timers, Free
    <3>2. Going(s) => MayGoOn(w)
      BY <2>5 DEF Going, MayGoOn
    <3>3. QED
      BY <2>5, <3>1, <3>2, Started
  <2>7. QED
    BY <1>1, <1>3, <2>3, <2>4, <2>6
<1>4. QED
  BY <1>2, <1>3

\* The DPCs that nim receives, and the lastresort one
LEMMA NewDPC ==
  /\ \A d \in Inputs : Untested(newDPC(d))
  /\ Untested(newDPC(LastResort))
<1>1. ASSUME NEW d \in Inputs PROVE Untested(newDPC(d))
  <2>1. d.key \in Keys /\ d.prio \in Nat /\ d.cfg \in Cfgs
    BY DpcAssumption
  <2>2. newDPC(d) \in DPC
    BY <2>1 DEF newDPC, DPC, DPCStates
  <2>3. QED
    BY <2>2 DEF newDPC, Untested, IsDPCUsable, AllUsable
<1>2. Untested(newDPC(LastResort))
  <2>1. LastResort.key \in Keys /\ LastResort.prio \in Nat /\ LastResort.cfg \in Cfgs
    BY DpcAssumption DEF LastResort, Keys
  <2>2. newDPC(LastResort) \in DPC
    BY <2>1 DEF newDPC, DPC, DPCStates
  <2>3. QED
    BY <2>2 DEF newDPC, Untested, IsDPCUsable, AllUsable, LastResort
<1>3. QED
  BY <1>1, <1>2

\* addOrUpdateLastResortDPC adds a DPC or does nothing
LEMMA LastResortFine ==
  ASSUME NEW s, Sound(s), Timers(s), s.pc = "idle", NEW h \in BOOLEAN, NEW n,
         AllUsable /\ ~h => Free(s) /\ (s.cur # NoDPC => Settled(s)),
         AllUsable /\ ~h /\ n = 0 => Going(s)
  PROVE  LET t == addOrUpdateLastResortDPC(s) IN t = s \/ Fine(t, h, n)
<1> DEFINE u == [s EXCEPT !.lastResort = TRUE]
<1>1. s \in Mgrs
  BY DEF Sound
<1>2. u \in Mgrs /\ Alike(s, u)
  BY <1>1 DEF Mgrs, Alike
<1>3. addOrUpdateLastResortDPC(s) = s \/ addOrUpdateLastResortDPC(s) = doAddDPC(u, newDPC(LastResort))
  BY DEF addOrUpdateLastResortDPC
<1> HIDE DEF u
<1>4. Sound(u) /\ Timers(u) /\ u.pc = "idle" /\ (Free(s) => Free(u)) /\ (Settled(s) => Settled(u))
      /\ (Going(s) => Going(u)) /\ u.cur = s.cur
  <2>1. Sound(u) /\ Timers(u) /\ u.pc = "idle" /\ u.cur = s.cur
    BY <1>2 DEF Alike, Sound, Timers
  <2>2. (Free(s) => Free(u)) /\ (Settled(s) => Settled(u))
    BY <1>2 DEF Alike, Free, Settled
  <2>3. Going(s) => Going(u)
    BY <1>2 DEF Alike, Going
  <2>4. QED
    BY <2>1, <2>2, <2>3
<1>5. Fine(doAddDPC(u, newDPC(LastResort)), h, n)
  BY <1>4, NewDPC, AddFine
<1>6. QED
  BY <1>3, <1>5

-----------------------------------------------------------------------------
(* What a step does to the current DPC and to the ones that work *)

\* The device changes to another DPC only to test it, or if it has worked
Switched(s, t) ==
  t.cur # NoDPC /\ (s.cur = NoDPC \/ ~MostlyEqual(s.list[s.cur], t.list[t.cur]))
    => t.pc = "loop" \/ WasDPCWorking(t.list[t.cur])

\* A DPC that works, or that worked in the list l
Fallback(l, d) == WasDPCWorking(d) \/ \E i \in DOMAIN l : WasDPCWorking(l[i]) /\ SameDPC(d, l[i])
SomeFallback(l, r) == \E j \in DOMAIN r : Fallback(l, r[j])
ManagedWorks(l) == \E i \in DOMAIN l : WasDPCWorking(l[i]) /\ l[i].key # "manual"

\* There still is one to fall back to
Kept(l, r) == ManagedWorks(l) => SomeFallback(l, r)

\* A step from s to t may be taken
Moves(s, t) == Switched(s, t) /\ Kept(s.list, t.list)

\* It may when only the results change
LEMMA PointMoves ==
  ASSUME NEW s, Sound(s), NEW t, DOMAIN t.list = DOMAIN s.list, t.cur \in {s.cur, NoDPC},
         \A j \in DOMAIN s.list : SameDPC(t.list[j], s.list[j]) /\ MostlyEqual(t.list[j], s.list[j])
  PROVE  Moves(s, t)
<1>1. s.cur # NoDPC => s.cur \in DOMAIN s.list
  BY MgrFields DEF Sound, NoDPC
<1>2. Switched(s, t)
  BY <1>1 DEF Switched, MostlyEqual
<1>3. Kept(s.list, t.list)
  BY DEF Kept, ManagedWorks, SomeFallback, Fallback
<1>4. QED
  BY <1>2, <1>3 DEF Moves

\* The same list and the same index, or none
LEMMA SameMoves ==
  ASSUME NEW s, Sound(s), NEW t, t.list = s.list, t.cur \in {s.cur, NoDPC}
  PROVE  Moves(s, t)
<1>1. \A j \in DOMAIN s.list : SameDPC(t.list[j], s.list[j]) /\ MostlyEqual(t.list[j], s.list[j])
  BY DEF SameDPC, MostlyEqual
<1>2. QED
  BY <1>1, PointMoves

\* A verification that is started or goes on changes to a DPC to test it
LEMMA VerifySwitches ==
  ASSUME NEW s, Sound(s), NEW p, Switched(p, s)
  PROVE  /\ Switched(p, startVerify(s)) /\ Sound(startVerify(s)) /\ startVerify(s).list = s.list
         /\ Switched(p, restartVerify(s)) /\ Sound(restartVerify(s)) /\ restartVerify(s).list = s.list
         /\ Switched(p, runVerify(s)) /\ Sound(runVerify(s)) /\ runVerify(s).list = s.list
         /\ Switched(p, resumeVerifyIfAsyncDone(s)) /\ resumeVerifyIfAsyncDone(s).list = s.list
<1>0. ASSUME NEW t, t = s \/ t.pc = "loop" PROVE Switched(p, t)
  BY <1>0 DEF Switched
<1> DEFINE t == startVerify(s)
           u == restartVerify(s)
           w == runVerify(s)
<1>1. Sound(t) /\ t.list = s.list /\ (t = s \/ t.pc = "loop")
  BY StartVerify
<1>2. Sound(u) /\ u.list = s.list /\ (u = s \/ u.pc = "loop")
  BY RestartVerify
<1>3. Sound(w) /\ w.list = s.list /\ (w = s \/ w.pc = "loop")
  BY RunVerify
<1> HIDE DEF t, u, w
<1>4. Switched(p, t) /\ Switched(p, u) /\ Switched(p, w)
  BY <1>0, <1>1, <1>2, <1>3
<1>5. resumeVerifyIfAsyncDone(s) = s \/ resumeVerifyIfAsyncDone(s) = w
  BY DEF resumeVerifyIfAsyncDone, w
<1>6. QED
  BY <1>1, <1>2, <1>3, <1>4, <1>5 DEF t, u, w

\* The list stays as it is
LEMMA VerifyMoves ==
  ASSUME NEW s, Sound(s), NEW p, Moves(p, s)
  PROVE  /\ Moves(p, startVerify(s)) /\ Sound(startVerify(s))
         /\ Moves(p, restartVerify(s)) /\ Sound(restartVerify(s))
         /\ Moves(p, runVerify(s)) /\ Sound(runVerify(s))
         /\ Moves(p, resumeVerifyIfAsyncDone(s))
  BY VerifySwitches DEF Moves

\* A struct with the same list and index, and what a handler may do with it
LEMMA HandlerMoves ==
  ASSUME NEW p, Sound(p), NEW s, Sound(s), s.list = p.list, s.cur = p.cur
  PROVE  /\ Moves(p, s) /\ Moves(p, resumeVerifyIfAsyncDone(s))
         /\ Moves(p, startVerify(s)) /\ Moves(p, resumeVerifyIfAsyncDone(startVerify(s)))
         /\ Moves(p, restartVerify(s)) /\ Moves(p, resumeVerifyIfAsyncDone(restartVerify(s)))
         /\ Moves(p, runVerify(s)) /\ Moves(p, resumeVerifyIfAsyncDone(runVerify(s)))
<1>1. Moves(p, s)
  BY SameMoves
<1>2. /\ Moves(p, startVerify(s)) /\ Sound(startVerify(s))
      /\ Moves(p, restartVerify(s)) /\ Sound(restartVerify(s))
      /\ Moves(p, runVerify(s)) /\ Sound(runVerify(s))
      /\ Moves(p, resumeVerifyIfAsyncDone(s))
  BY <1>1, VerifyMoves
<1>3. ASSUME NEW t, Sound(t), Moves(p, t) PROVE Moves(p, resumeVerifyIfAsyncDone(t))
  BY <1>3, VerifyMoves
<1>4. QED
  BY <1>1, <1>2, <1>3

\* compressDPCL keeps the current DPC, and one that works
LEMMA CompressMoves ==
  ASSUME NEW s, Sound(s), NEW p, Switched(p, s),
         ManagedWorks(p.list) =>
           SomeWorks(s.list) \/ (s.cur # NoDPC /\ Fallback(p.list, s.list[s.cur]))
  PROVE  Moves(p, compressDPCL(s))
<1> DEFINE t == compressDPCL(s)
<1>1. /\ Sound(t) /\ t.pc = s.pc
      /\ (t.cur = NoDPC) <=> (s.cur = NoDPC)
      /\ s.cur # NoDPC => t.list[t.cur] = s.list[s.cur]
      /\ SomeWorks(t.list) <=> SomeWorks(s.list)
  BY Compressed
<1> HIDE DEF t
<1>2. t.cur # NoDPC => t.cur \in DOMAIN t.list
  BY <1>1, MgrFields DEF Sound, NoDPC
<1>3. Switched(p, t)
  BY <1>1 DEF Switched
<1>4. Kept(p.list, t.list)
  <2>1. SUFFICES ASSUME ManagedWorks(p.list) PROVE SomeFallback(p.list, t.list)
    BY DEF Kept
  <2>2. CASE SomeWorks(s.list)
    BY <1>1, <2>2 DEF SomeWorks, SomeFallback, Fallback
  <2>3. CASE s.cur # NoDPC /\ Fallback(p.list, s.list[s.cur])
    BY <1>1, <1>2, <2>3 DEF SomeFallback
  <2>4. QED
    BY <2>1, <2>2, <2>3
<1>5. QED
  BY <1>3, <1>4 DEF t, Moves

\* The end of a verification stays at its DPC, or starts another one
LEMMA EndMoves ==
  ASSUME NEW s, Sound(s), NEW works \in BOOLEAN, NEW p,
         s.cur # NoDPC, p.cur # NoDPC, MostlyEqual(p.list[p.cur], s.list[s.cur]),
         ManagedWorks(p.list) => SomeWorks(s.list) \/ Fallback(p.list, s.list[s.cur])
  PROVE  Moves(p, endVerify(s, works))
<1> DEFINE v == [s EXCEPT !.inProgress = FALSE, !.pc = "idle", !.better = TestBetter /\ s.cur # 1]
           t == compressDPCL(v)
           w == [t EXCEPT !.connWorks = @ \/ works, !.test = TRUE]
<1>0. s \in Mgrs
  BY DEF Sound
<1>1. v \in Mgrs /\ v.list = s.list /\ v.cur = s.cur
  <2>1. (TestBetter /\ s.cur # 1) \in BOOLEAN
    OBVIOUS
  <2>2. QED
    BY <1>0, <2>1 DEF Mgrs
<1> HIDE DEF v
<1>2. Sound(v)
  BY <1>1 DEF Sound
<1>3. Switched(p, v)
  BY <1>1 DEF Switched
<1>4. Sound(t)
  BY <1>2, Compressed
<1>5. Moves(p, t)
  BY <1>1, <1>2, <1>3, CompressMoves
<1>6. endVerify(s, works) = IF IsDPCUntested(t.list[1]) THEN restartVerify(t) ELSE w
  BY DEF endVerify, v
<1> HIDE DEF t
<1>7. CASE IsDPCUntested(t.list[1])
  BY <1>4, <1>5, <1>6, <1>7, VerifyMoves
<1>8. CASE ~IsDPCUntested(t.list[1])
  <2>1. w.list = t.list /\ w.cur = t.cur /\ w.pc = t.pc
    BY <1>4 DEF Sound, Mgrs
  <2>2. endVerify(s, works) = w
    BY <1>6, <1>8
  <2> HIDE DEF w
  <2>3. Moves(p, w)
    BY <1>5, <2>1 DEF Moves, Switched
  <2>4. QED
    BY <2>2, <2>3
<1>9. QED
  BY <1>7, <1>8

\* One DPC of the loop of runVerify: one that fails after it has worked stays in the list
LEMMA LoopMoves ==
  ASSUME NEW s, Sound(s), s.cur # NoDPC, s.pc = "loop", OuterTypes, AllUsable, NEW a \in BOOLEAN
  PROVE  Moves(s, afterTest(verifyDPC(s, a)))
<1> DEFINE u == verifyDPC(s, a)
           res == currentState(u)
           next == getNextTestableDPCIndex(u, u.cur + 1)
<1>1. /\ Sound(u) /\ u.cur = s.cur /\ u.pc = s.pc
      /\ DOMAIN u.list = DOMAIN s.list
      /\ \A j \in DOMAIN s.list : j # s.cur => u.list[j] = s.list[j]
      /\ \A j \in DOMAIN s.list : SameDPC(u.list[j], s.list[j]) /\ MostlyEqual(u.list[j], s.list[j])
      /\ res \in {"Success", "RemoteWait"} => u.list[u.cur].last = "good"
  BY VerifyDPC
<1> HIDE DEF u
<1>2. u \in Mgrs /\ u.list \in Seq(DPC) /\ u.cur \in DOMAIN u.list /\ u.cur # NoDPC /\ u.cur \in Nat
  BY <1>1, MgrFields DEF Sound, NoDPC
<1>3. Moves(s, u)
  BY <1>1, PointMoves
<1>4. afterTest(u) =
        CASE res \in Waits -> [u EXCEPT !.pend = "armed", !.pc = "idle"]
          [] res \in {"Success", "RemoteWait"} -> endVerify(u, TRUE)
          [] OTHER -> IF IsDPCUntested(u.list[1]) \/ WasDPCWorking(u.list[1])
                      THEN setupVerify(u, 1)
                      ELSE IF next = NoDPC THEN endVerify(u, FALSE) ELSE setupVerify(u, next)
  BY DEF afterTest
<1>5. next = NoDPC => Testable(u.list) = {}
  <2>1. u.cur + 1 \in Int
    BY <1>2
  <2>2. QED
    BY <1>2, <2>1, NextTestable
<1> HIDE DEF res, next
<1>6. MostlyEqual(s.list[s.cur], u.list[u.cur]) /\ SameDPC(u.list[u.cur], s.list[s.cur])
  BY <1>1, <1>2 DEF MostlyEqual
<1>7. ASSUME NEW i PROVE Moves(s, setupVerify(u, i))
  <2> DEFINE t == setupVerify(u, i)
  <2>1. t.list = u.list /\ t.pc = "loop"
    BY <1>1, <1>2 DEF setupVerify, Mgrs
  <2> HIDE DEF t
  <2>2. Moves(s, t)
    BY <1>3, <2>1 DEF Moves, Switched
  <2>3. QED
    BY <2>2 DEF t
<1>8. CASE res \in Waits
  <2> DEFINE t == [u EXCEPT !.pend = "armed", !.pc = "idle"]
  <2>1. res \notin {"Success", "RemoteWait"}
    BY <1>8 DEF Waits
  <2>2. afterTest(u) = t
    BY <1>4, <1>8, <2>1
  <2>3. t.list = u.list /\ t.cur = u.cur
    BY <1>2 DEF Mgrs
  <2> HIDE DEF t
  <2>4. Moves(s, t)
    BY <1>1, <1>3, <1>6, <2>3 DEF Moves, Switched
  <2>5. QED
    BY <2>2, <2>4 DEF u
<1>9. CASE res \in {"Success", "RemoteWait"}
  <2>1. res \notin Waits
    BY <1>9 DEF Waits
  <2>2. afterTest(u) = endVerify(u, TRUE)
    BY <1>4, <1>9, <2>1
  <2>3. SomeWorks(u.list)
    BY <1>1, <1>2, <1>9 DEF SomeWorks, WasDPCWorking
  <2>4. Moves(s, endVerify(u, TRUE))
    BY <1>1, <1>2, <1>6, <2>3, EndMoves
  <2>5. QED
    BY <2>2, <2>4 DEF u
<1>10. CASE res \notin Waits \cup {"Success", "RemoteWait"}
  <2>1. afterTest(u) =
          IF IsDPCUntested(u.list[1]) \/ WasDPCWorking(u.list[1]) THEN setupVerify(u, 1)
          ELSE IF next = NoDPC THEN endVerify(u, FALSE) ELSE setupVerify(u, next)
    BY <1>4, <1>10
  <2>2. CASE ~(IsDPCUntested(u.list[1]) \/ WasDPCWorking(u.list[1])) /\ next = NoDPC
    <3>1. ~SomeWorks(u.list)
      BY <1>1, <1>5, <2>2, WorksTestable
    <3>2. ManagedWorks(s.list) => Fallback(s.list, u.list[u.cur])
      <4>1. SUFFICES ASSUME NEW i \in DOMAIN s.list, WasDPCWorking(s.list[i])
                     PROVE  Fallback(s.list, u.list[u.cur])
        BY DEF ManagedWorks
      <4>2. i = s.cur
        BY <1>1, <3>1, <4>1 DEF SomeWorks
      <4>3. QED
        BY <1>6, <4>1, <4>2 DEF Fallback
    <3>3. Moves(s, endVerify(u, FALSE))
      BY <1>1, <1>2, <1>6, <3>2, EndMoves
    <3>4. QED
      BY <2>1, <2>2, <3>3 DEF u
  <2>3. CASE (IsDPCUntested(u.list[1]) \/ WasDPCWorking(u.list[1])) \/ next # NoDPC
    <3>1. afterTest(u) = setupVerify(u, 1) \/ afterTest(u) = setupVerify(u, next)
      BY <2>1, <2>3
    <3>2. QED
      BY <1>7, <3>1 DEF u
  <2>4. QED
    BY <2>2, <2>3
<1>11. QED
  BY <1>8, <1>9, <1>10

\* A DPC of the new list that is the same as one before is that one or the new one
LEMMA PutSame ==
  ASSUME NEW l, ListOK(l), NEW d, Untested(d),
         d.key = "manual" => \A k \in DOMAIN l : l[k].key # "manual"
  PROVE  LET r == Put(l, d) IN
         /\ \A j \in DOMAIN r, k \in DOMAIN l : SameDPC(r[j], l[k]) => r[j] = d \/ r[j] = l[k]
         /\ \A k \in DOMAIN l : SameDPC(d, l[k]) => k \in DOMAIN r /\ r[k] = d
<1> DEFINE i == lookupDPC(l, d)
           r == Put(l, d)
<1>0. l \in Seq(DPC) /\ DOMAIN l = 1..Len(l) /\ Len(l) \in Nat /\ d \in DPC
      /\ (AllUsable => IsDPCUsable(d))
  BY DEF ListOK, Untested
<1>1. /\ i \in NoDPC..Len(l)
      /\ i # NoDPC => i \in DOMAIN l /\ (SameDPC(l[i], d) \/ MostlyEqual(l[i], d))
      /\ (\E k \in DOMAIN l : SameDPC(l[k], d)) => i # NoDPC /\ SameDPC(l[i], d)
  BY <1>0, LookupDPC
<1> HIDE DEF i
<1>a. \A j, k \in DOMAIN l : SameDPC(l[j], l[k]) => j = k
  BY DEF ListOK, Distinct
<1>2. CASE i = NoDPC
  <2>1. r = insertDPC(l, d)
    BY <1>2 DEF Put, i
  <2>2. \A k \in DOMAIN l : ~SameDPC(l[k], d)
    BY <1>1, <1>2
  <2> HIDE DEF r
  <2>3. \A j \in DOMAIN r : r[j] = d \/ \E k \in DOMAIN l : r[j] = l[k]
    BY <1>0, <2>1, <2>2, InsertDPC
  <2>4. \A k \in DOMAIN l : ~SameDPC(d, l[k])
    BY <2>2 DEF SameDPC
  <2>5. \A j \in DOMAIN r, k \in DOMAIN l : SameDPC(r[j], l[k]) => r[j] = d \/ r[j] = l[k]
    BY <1>a, <2>3
  <2>6. QED
    BY <2>4, <2>5 DEF r
<1>3. CASE i # NoDPC /\ l[i].prio = d.prio
  <2>1. r = [l EXCEPT ![i] = d] /\ i \in DOMAIN l
    BY <1>1, <1>3 DEF Put, i, updateDPC
  <2>2. SameDPC(l[i], d)
    BY <1>1, <1>3 DEF SameDPC, MostlyEqual
  <2>3. DOMAIN r = DOMAIN l /\ r[i] = d /\ \A j \in DOMAIN l : j # i => r[j] = l[j]
    BY <1>0, <2>1
  <2> HIDE DEF r
  <2>4. \A j \in DOMAIN r, k \in DOMAIN l : SameDPC(r[j], l[k]) => r[j] = d \/ r[j] = l[k]
    BY <1>a, <2>3
  <2>5. \A k \in DOMAIN l : SameDPC(d, l[k]) => k = i
    BY <1>a, <2>1, <2>2 DEF SameDPC
  <2>6. QED
    BY <2>1, <2>3, <2>4, <2>5 DEF r
<1>4. CASE i # NoDPC /\ l[i].prio # d.prio
  <2> DEFINE q == RemoveAt(l, i)
             e == [d EXCEPT !.last = l[i].last, !.ever = l[i].ever, !.recent = l[i].recent]
  <2>1. r = insertDPC(q, e) /\ i \in DOMAIN l
    BY <1>1, <1>4 DEF Put, i, updateDPC
  <2>2. MostlyEqual(l[i], d) /\ \A k \in DOMAIN l : ~SameDPC(l[k], d)
    BY <1>1, <1>4 DEF SameDPC
  <2>3. e \in DPC /\ e.key = d.key /\ e.prio = d.prio /\ e.cfg = d.cfg
    <3>1. l[i] \in DPC
      BY <1>0, <2>1
    <3>2. QED
      BY <1>0, <3>1 DEF DPC
  <2>4. ListOK(q) /\ \A j \in DOMAIN q : \E k \in DOMAIN l : k # i /\ q[j] = l[k]
    BY <2>1, RemovedOK
  <2> HIDE DEF q, e, r
  <2>5. \A k \in DOMAIN q : ~SameDPC(q[k], e)
    BY <2>2, <2>3, <2>4 DEF SameDPC
  <2>6. AllUsable => IsDPCUsable(e)
    BY <1>0, <2>3 DEF IsDPCUsable
  <2>7. e.key # "manual"
    BY <2>1, <2>2, <2>3 DEF MostlyEqual
  <2>8. \A j \in DOMAIN r : r[j] = e \/ \E k \in DOMAIN q : r[j] = q[k]
    BY <2>1, <2>3, <2>4, <2>5, <2>6, <2>7, InsertDPC
  <2>9. \A k \in DOMAIN l : ~SameDPC(d, l[k]) /\ ~SameDPC(e, l[k])
    BY <2>2, <2>3 DEF SameDPC
  <2>10. \A j \in DOMAIN r : r[j] = e \/ \E k \in DOMAIN l : r[j] = l[k]
    BY <2>4, <2>8
  <2>11. \A j \in DOMAIN r, k \in DOMAIN l : SameDPC(r[j], l[k]) => r[j] = d \/ r[j] = l[k]
    BY <1>a, <2>9, <2>10
  <2>12. QED
    BY <2>9, <2>11 DEF r
<1>5. QED
  BY <1>2, <1>3, <1>4

\* compressDPCL keeps the manual DPC, and the lastresort one where that is enabled
LEMMA CompressKeeps ==
  ASSUME NEW s, Sound(s), NEW i \in DOMAIN s.list,
         s.list[i].key = "manual" \/ (s.list[i].key = "lastresort" /\ s.enableLastResort)
  PROVE  \E j \in DOMAIN compressDPCL(s).list : compressDPCL(s).list[j] = s.list[i]
<1> DEFINE K == retained(s)
           r == SubList(s.list, K)
<1>0. s \in Mgrs /\ ListOK(s.list) /\ s.list \in Seq(DPC)
  BY MgrFields DEF Sound
<1>1. CASE s.inProgress
  BY <1>1 DEF compressDPCL
<1>2. CASE ~s.inProgress
  <2>1. i \in K
    BY DEF retained
  <2>2. K \in SUBSET DOMAIN s.list
    BY <1>0, Retained
  <2>3. compressDPCL(s).list = r
    BY <1>0, <1>2 DEF compressDPCL, Mgrs
  <2> HIDE DEF K
  <2>4. \A k \in K : \E j \in DOMAIN r : r[j] = s.list[k]
    BY <1>0, <2>2, SubListOK
  <2>5. QED
    BY <2>1, <2>3, <2>4
<1>3. QED
  BY <1>1, <1>2

\* doAddDPC with a DPC that is not the current one already: a DPC that was replaced is tested,
\* and it stays in the list if no other one works
LEMMA PutMoves ==
  ASSUME NEW s, Sound(s), s.pc = "idle", NEW d, Untested(d), AllUsable, Free(s),
         ManagedWorks(s.list) =>
           \/ s.inProgress
           \/ s.cur # NoDPC /\ WasDPCWorking(s.list[s.cur])
           \/ d.key = "lastresort" /\ s.enableLastResort
  PROVE  LET u == restartVerify([putDPC(WithoutManual(s, d), d) EXCEPT !.inProgress = FALSE])
         IN  Moves(s, u) /\ Sound(u)
<1> DEFINE t == WithoutManual(s, d)
           l == Put(t.list, d)
           v == Moved(t, l)
           c == compressDPCL(v)
           w == [c EXCEPT !.inProgress = FALSE]
           u == restartVerify(w)
<1>0. ListOK(s.list) /\ s.list \in Seq(DPC) /\ (s.cur # NoDPC => s.cur \in DOMAIN s.list)
      /\ NoDPC \notin DOMAIN s.list
  BY MgrFields DEF Sound, NoDPC
<1>0a. PutsWell(s, d, t, l, v, c, w)
  BY PutParts
<1> HIDE DEF t, l, v, c, w
<1>1. /\ ListOK(t.list) /\ t.list \in Seq(DPC) /\ t.cur = s.cur
      /\ d.key = "manual" => \A k \in DOMAIN t.list : t.list[k].key # "manual"
      /\ d.key # "manual" => t.list = s.list
      /\ \A k \in DOMAIN s.list : s.list[k].key # "manual" =>
           \E j \in DOMAIN t.list : t.list[j] = s.list[k]
  BY <1>0a DEF PutsWell, ListOK
<1>2. /\ ListOK(l) /\ l \in Seq(DPC)
      /\ \A k \in DOMAIN t.list : \E j \in DOMAIN l : Becomes(t.list[k], l[j], d)
      /\ d.key = "manual" => \E j \in DOMAIN l : l[j] = d
  BY <1>0a DEF PutsWell, ListOK
<1>3. /\ Sound(v) /\ v.list = l /\ v.inProgress = s.inProgress
      /\ v.enableLastResort = s.enableLastResort
      /\ t.cur \notin DOMAIN t.list => v.cur = s.cur
      /\ t.cur \in DOMAIN t.list /\ v.cur # NoDPC =>
           \/ v.cur = lookupDPC(l, t.list[t.cur]) /\ v.cur = t.cur
           \/ WasDPCWorking(l[v.cur])
      /\ t.cur \in DOMAIN t.list /\ lookupDPC(l, t.list[t.cur]) = t.cur => v.cur = t.cur
  BY <1>0a DEF PutsWell
<1>4. putDPC(t, d) = c /\ Sound(c) /\ (v.inProgress => c = v)
  BY <1>0a DEF PutsWell
<1>5. /\ Sound(w) /\ w.list = c.list /\ w.cur = c.cur /\ w.inProgress = FALSE
      /\ w.lps = s.lps /\ w.rs = s.rs
  BY <1>0a DEF PutsWell
<1> USE DEF t, l, v, c, w
<1>6. /\ \A j \in DOMAIN l, k \in DOMAIN t.list :
           SameDPC(l[j], t.list[k]) => l[j] = d \/ l[j] = t.list[k]
      /\ \A k \in DOMAIN t.list : SameDPC(d, t.list[k]) => k \in DOMAIN l /\ l[k] = d
  BY <1>1, PutSame
<1> HIDE DEF t, l, v
<1>7. /\ (c.cur = NoDPC) <=> (v.cur = NoDPC)
      /\ v.cur # NoDPC => c.list[c.cur] = v.list[v.cur]
      /\ SomeWorks(c.list) <=> SomeWorks(v.list)
      /\ c.cur # NoDPC => c.cur \in DOMAIN c.list
  <2>1. c.cur # NoDPC => c.cur \in DOMAIN c.list
    <3> HIDE DEF c
    <3>1. QED
      BY <1>4, MgrFields DEF Sound, NoDPC
  <2>2. QED
    BY <1>3, <2>1, Compressed
<1>8. ASSUME NEW j \in DOMAIN l,
             l[j].key = "manual" \/ (l[j].key = "lastresort" /\ s.enableLastResort)
      PROVE  \E k \in DOMAIN c.list : c.list[k] = l[j]
  BY <1>3, <1>8, CompressKeeps
<1> HIDE DEF c, w
<1>9. Free(w)
  BY <1>5 DEF Free
<1>10. /\ Sound(u) /\ u.list = w.list
       /\ \/ u = w /\ Testable(w.list) = {}
          \/ u.pc = "loop"
  BY <1>5, <1>9, RestartVerify
<1>11. \A j \in DOMAIN w.list : w.list[j] = d => Testable(w.list) # {}
  BY <1>5, WorksTestable DEF Untested
<1> HIDE DEF u
<1>12. Switched(s, u)
  <2>1. CASE u.pc = "loop"
    BY <2>1 DEF Switched
  <2>2. CASE u = w /\ Testable(w.list) = {}
    <3>1. d.key # "manual"
      BY <1>2, <1>5, <1>8, <1>11, <2>2
    <3>2. t.list = s.list
      BY <1>1, <3>1
    <3>3. SUFFICES ASSUME w.cur # NoDPC, ~WasDPCWorking(w.list[w.cur])
                   PROVE  s.cur # NoDPC /\ MostlyEqual(s.list[s.cur], w.list[w.cur])
      BY <2>2 DEF Switched
    <3>4. v.cur # NoDPC /\ w.list[w.cur] = l[v.cur] /\ w.cur \in DOMAIN w.list
      BY <1>3, <1>5, <1>7, <3>3
    <3>5. s.cur # NoDPC /\ s.cur \in DOMAIN s.list
      BY <1>0, <1>1, <1>3, <3>2, <3>4
    <3>6. v.cur = lookupDPC(l, s.list[s.cur])
      BY <1>1, <1>3, <3>2, <3>3, <3>4, <3>5
    <3>7. v.cur \in DOMAIN l
          /\ (SameDPC(l[v.cur], s.list[s.cur]) \/ MostlyEqual(l[v.cur], s.list[s.cur]))
      BY <1>2, <3>4, <3>6, LookupDPC
    <3>8. l[v.cur] # d
      BY <1>11, <2>2, <3>4
    <3>9. QED
      BY <1>6, <3>2, <3>4, <3>5, <3>7, <3>8 DEF MostlyEqual
  <2>3. QED
    BY <1>10, <2>1, <2>2
<1>13. Kept(s.list, c.list)
  <2>1. SUFFICES ASSUME ManagedWorks(s.list) PROVE SomeFallback(s.list, c.list)
    BY DEF Kept
  <2>2. PICK i \in DOMAIN s.list : WasDPCWorking(s.list[i]) /\ s.list[i].key # "manual"
    BY <2>1 DEF ManagedWorks
  <2>3. PICK k \in DOMAIN t.list : t.list[k] = s.list[i]
    BY <1>1, <2>2
  <2>4. CASE SomeWorks(l)
    BY <1>3, <1>7, <2>4 DEF SomeWorks, SomeFallback, Fallback
  <2>5. CASE ~SomeWorks(l)
    <3>1. \A x \in DOMAIN t.list : WasDPCWorking(t.list[x]) => SameDPC(d, t.list[x])
      <4>1. SUFFICES ASSUME NEW x \in DOMAIN t.list, WasDPCWorking(t.list[x])
                     PROVE  SameDPC(d, t.list[x])
        OBVIOUS
      <4>2. PICK j \in DOMAIN l : Becomes(t.list[x], l[j], d)
        BY <1>2
      <4>3. ~WasDPCWorking(l[j])
        BY <2>5 DEF SomeWorks
      <4>4. QED
        BY <4>1, <4>2, <4>3 DEF Becomes, WasDPCWorking
    <3>2. SameDPC(d, t.list[k])
      BY <2>2, <2>3, <3>1
    <3>3. d.key # "manual" /\ t.list = s.list
      BY <1>1, <2>2, <2>3, <3>2 DEF SameDPC
    <3>4. k \in DOMAIN l /\ l[k] = d
      BY <1>6, <3>2
    <3>5. Fallback(s.list, d)
      BY <2>2, <2>3, <3>2 DEF Fallback
    <3>6. CASE s.inProgress
      BY <1>3, <1>4, <3>4, <3>5, <3>6 DEF SomeFallback
    <3>7. CASE s.cur # NoDPC /\ WasDPCWorking(s.list[s.cur])
      <4>1. s.cur \in DOMAIN s.list /\ SameDPC(d, s.list[s.cur])
        BY <1>0, <3>1, <3>3, <3>7
      <4>2. s.cur \in DOMAIN l /\ l[s.cur] = d
        BY <1>6, <3>3, <4>1
      <4> DEFINE x == lookupDPC(l, s.list[s.cur])
      <4>3. x # NoDPC /\ SameDPC(l[x], s.list[s.cur]) /\ x \in DOMAIN l
        BY <1>2, <4>1, <4>2, LookupDPC
      <4> HIDE DEF x
      <4>4. x = s.cur
        BY <1>2, <4>1, <4>2, <4>3 DEF ListOK, Distinct, SameDPC
      <4>5. v.cur = s.cur
        BY <1>1, <1>3, <3>3, <4>1, <4>4 DEF x
      <4>6. c.cur \in DOMAIN c.list /\ c.list[c.cur] = d
        BY <1>3, <1>7, <3>7, <4>2, <4>5
      <4>7. QED
        BY <3>5, <4>6 DEF SomeFallback
    <3>8. CASE d.key = "lastresort" /\ s.enableLastResort
      <4>1. PICK j \in DOMAIN c.list : c.list[j] = d
        BY <1>8, <3>4, <3>8
      <4>2. QED
        BY <3>5, <4>1 DEF SomeFallback
    <3>9. QED
      BY <2>1, <3>6, <3>7, <3>8
  <2>6. QED
    BY <2>4, <2>5
<1>14. Moves(s, u) /\ Sound(u)
  BY <1>5, <1>10, <1>12, <1>13 DEF Moves
<1>15. QED
  BY <1>4, <1>14 DEF u, w, t

\* doAddDPC: the DPC is the current one already, or it is put into the list
LEMMA AddMoves ==
  ASSUME NEW s, Sound(s), s.pc = "idle", NEW d, Untested(d), AllUsable, Free(s),
         ManagedWorks(s.list) =>
           \/ s.inProgress
           \/ s.cur # NoDPC /\ WasDPCWorking(s.list[s.cur])
           \/ d.key = "lastresort" /\ s.enableLastResort
  PROVE  Moves(s, doAddDPC(s, d)) /\ Sound(doAddDPC(s, d))
<1> DEFINE t == WithoutManual(s, d)
           w == [s EXCEPT !.inProgress = FALSE]
<1>1. doAddDPC(s, d) =
        IF isCurrent(t, d)
        THEN IF haveIPandDNS(t) THEN t ELSE restartVerify([t EXCEPT !.inProgress = FALSE])
        ELSE restartVerify([putDPC(t, d) EXCEPT !.inProgress = FALSE])
  BY DEF doAddDPC, WithoutManual
<1>2. CASE ~isCurrent(t, d)
  <2> DEFINE u == restartVerify([putDPC(t, d) EXCEPT !.inProgress = FALSE])
  <2>1. Moves(s, u) /\ Sound(u)
    BY PutMoves
  <2>2. QED
    BY <1>1, <1>2, <2>1
<1>3. CASE isCurrent(t, d)
  <2>1. t = s
    BY <1>3, AlreadyCurrent
  <2>2. w \in Mgrs /\ w.list = s.list /\ w.cur = s.cur
    BY DEF Mgrs, Sound
  <2> HIDE DEF w
  <2>3. Sound(w)
    BY <2>2 DEF Sound
  <2>4. Moves(s, s) /\ Moves(s, restartVerify(w))
    BY <2>2, <2>3, HandlerMoves
  <2>5. Sound(restartVerify(w))
    BY <2>3, RestartVerify
  <2>6. QED
    BY <1>1, <1>3, <2>1, <2>4, <2>5 DEF w
<1>4. QED
  BY <1>2, <1>3

\* addOrUpdateLastResortDPC adds a DPC or does nothing
LEMMA LastResortMoves ==
  ASSUME NEW s, Sound(s), s.pc = "idle", AllUsable, Free(s),
         ManagedWorks(s.list) =>
           \/ s.inProgress
           \/ s.cur # NoDPC /\ WasDPCWorking(s.list[s.cur])
           \/ s.enableLastResort
  PROVE  Moves(s, addOrUpdateLastResortDPC(s)) /\ Sound(addOrUpdateLastResortDPC(s))
<1> DEFINE u == [s EXCEPT !.lastResort = TRUE]
           d == newDPC(LastResort)
<1>1. /\ u \in Mgrs /\ u.list = s.list /\ u.cur = s.cur /\ u.pc = s.pc /\ u.inProgress = s.inProgress
      /\ u.lps = s.lps /\ u.rs = s.rs /\ u.enableLastResort = s.enableLastResort
  BY DEF Mgrs, Sound
<1>2. addOrUpdateLastResortDPC(s) = s \/ addOrUpdateLastResortDPC(s) = doAddDPC(u, d)
  BY DEF addOrUpdateLastResortDPC
<1>3. Untested(d) /\ d.key = "lastresort"
  BY NewDPC DEF newDPC, LastResort
<1> HIDE DEF u, d
<1>4. Sound(u) /\ Free(u)
  BY <1>1 DEF Sound, Free
<1>5. Moves(u, doAddDPC(u, d)) /\ Sound(doAddDPC(u, d))
  BY <1>1, <1>3, <1>4, AddMoves
<1>6. Moves(s, doAddDPC(u, d))
  BY <1>1, <1>5 DEF Moves, Switched
<1>7. Moves(s, s)
  BY SameMoves
<1>8. QED
  BY <1>2, <1>5, <1>6, <1>7

-----------------------------------------------------------------------------
(* The steps *)

\* What the invariant says of the struct and of the history
LEMMA InvFacts ==
  ASSUME DpcInv
  PROVE  /\ Fine(m, held, deleted) /\ OuterTypes /\ Sound(m) /\ m \in Mgrs /\ Timers(m)
         /\ held \in BOOLEAN /\ net \in [Cfgs -> NetStates] /\ deleted \in Nat
         /\ AllUsable /\ ~held => Free(m) /\ Settled(m)
         /\ AllUsable /\ ~held /\ deleted = 0 => Going(m)
<1>1. MaxInputs \in Nat
  BY DpcAssumption
<1>2. QED
  BY <1>1 DEF DpcInv, Fine, Sound, OuterTypes

\* The invariant holds when nim starts
LEMMA InitInv == ASSUME Init PROVE DpcInv
<1>0. MaxInputs \in Nat /\ MaxNet \in Nat /\ MaxReboots \in Nat /\ Patience \in Nat
  BY DpcAssumption, PatienceType
<1>1. OuterTypes
  <2>1. net \in [Cfgs -> NetStates] /\ held = FALSE
    BY DEF Init
  <2>2. inputs = 0 /\ netChanges = 0 /\ reboots = 0 /\ deleted = 0
    BY DEF Init
  <2>3. /\ inputs \in 0..MaxInputs /\ netChanges \in 0..MaxNet /\ reboots \in 0..MaxReboots
        /\ deleted \in 0..MaxInputs /\ deleted <= inputs
    BY <1>0, <2>2
  <2>4. QED
    BY <2>1, <2>3 DEF OuterTypes
<1>2. m \in Mgrs /\ m.list = <<>> /\ m.cur = 0 /\ m.inProgress = FALSE /\ m.pc = "idle"
      /\ m.lps = FALSE /\ m.rs = [want |-> FALSE, imposed |-> FALSE, changing |-> FALSE]
  <2>1. m = ingestDPCList(<<>>)
    BY DEF Init
  <2>2. 0 \in 0..Patience /\ <<>> \in Seq(DPC)
    BY <1>0
  <2>3. QED
    BY <2>1, <2>2 DEF ingestDPCList, Mgrs, NoDPC
<1>3. ListOK(<<>>)
  BY DEF ListOK, OneManual, Distinct, UsableList
<1>4. Sound(m) /\ Timers(m) /\ Free(m)
  BY <1>2, <1>3 DEF Sound, Timers, Free, NoDPC
<1>5. Settled(m) /\ Going(m)
  BY <1>2 DEF Settled, Going, SomeWorks
<1>6. QED
  BY <1>1, <1>4, <1>5 DEF DpcInv, Fine

\* The loop of runVerify
LEMMA VerifyNextStep == ASSUME DpcInv, verifyNext PROVE DpcInv'
<1>1. PICK a \in BOOLEAN : m' = afterTest(verifyDPC(m, a))
  BY DEF verifyNext
<1>2. Fine(m', held, deleted)
  BY <1>1, InvFacts, LoopFine DEF verifyNext
<1>3. OuterTypes'
  BY InvFacts DEF verifyNext, OuterTypes
<1>4. QED
  BY <1>2, <1>3 DEF DpcInv, verifyNext

\* The bounds of a command
LEMMA CommandTypes ==
  ASSUME DpcInv, command, deleted' \in {deleted, deleted + 1}, held' \in BOOLEAN
  PROVE  OuterTypes' /\ m.pc = "idle"
<1>1. MaxInputs \in Nat
  BY DpcAssumption
<1>2. QED
  BY <1>1 DEF DpcInv, OuterTypes, command

\* A new or changed DPC
LEMMA AddDPCStep == ASSUME DpcInv, AddDPC PROVE DpcInv'
<1>1. PICK d \in Inputs : m' = resumeVerifyIfAsyncDone(doAddDPC(m, newDPC(d)))
  BY DEF AddDPC
<1>2. m.pc = "idle" /\ OuterTypes' /\ held' = held /\ deleted' = deleted
  BY InvFacts, CommandTypes DEF AddDPC
<1>3. Fine(doAddDPC(m, newDPC(d)), held, deleted)
  BY <1>2, InvFacts, NewDPC, AddFine
<1>4. Fine(m', held, deleted)
  BY <1>1, <1>3, InvFacts, RunFine
<1>5. QED
  BY <1>2, <1>4 DEF DpcInv

\* A DPC less
LEMMA DelDPCStep == ASSUME DpcInv, DelDPC PROVE DpcInv'
<1>1. PICK d \in Inputs :
        /\ lookupDPC(m.list, d) # NoDPC
        /\ m' = resumeVerifyIfAsyncDone(restartVerify(changeList(m, RemoveAt(m.list, lookupDPC(m.list, d)))))
  BY DEF DelDPC
<1>2. m.pc = "idle" /\ OuterTypes' /\ held' = held /\ deleted' = deleted + 1
  BY InvFacts, CommandTypes DEF DelDPC
<1> DEFINE i == lookupDPC(m.list, d)
           l == RemoveAt(m.list, i)
           v == Moved(m, l)
           c == compressDPCL(v)
<1>3. ListOK(m.list) /\ i \in DOMAIN m.list /\ m.cur \in NoDPC..Len(m.list) /\ m.list \in Seq(DPC)
  BY <1>1, InvFacts, MgrFields, LookupDPC DEF Sound
<1> HIDE DEF i
<1>4. ListOK(l) /\ Len(l) = Len(m.list) - 1
  BY <1>3, RemovedOK
<1> HIDE DEF l
<1>5. m.cur \in DOMAIN m.list \/ m.cur \in NoDPC..Len(l)
  BY <1>3, <1>4 DEF NoDPC, ListOK
<1>6. /\ changeList(m, l) = c
      /\ Sound(v) /\ v.list = l /\ v.inProgress = m.inProgress /\ v.pc = m.pc /\ v.pend = m.pend
      /\ v.hasGCP = m.hasGCP /\ v.lps = m.lps /\ v.rs = m.rs
      /\ m.cur \notin DOMAIN m.list => v.cur = m.cur
  BY <1>4, <1>5, InvFacts, MovedSound
<1> HIDE DEF v
<1>7. /\ Sound(c) /\ c.inProgress = v.inProgress /\ c.pc = v.pc /\ c.pend = v.pend
      /\ c.lps = v.lps /\ c.rs = v.rs /\ ((c.cur = NoDPC) <=> (v.cur = NoDPC))
  BY <1>6, Compressed
<1> HIDE DEF c
<1>8. Timers(c)
  <2>1. m.cur = NoDPC => m.cur \notin DOMAIN m.list
    BY <1>3 DEF NoDPC
  <2>2. c.cur # NoDPC => m.cur # NoDPC
    BY <1>6, <1>7, <2>1
  <2>3. QED
    BY <1>2, <1>6, <1>7, <2>2, InvFacts DEF Timers
<1>9. Free(m) => Free(c)
  BY <1>6, <1>7 DEF Free
<1>10. deleted' # 0
  BY <1>2, InvFacts
<1>11. Fine(restartVerify(c), held, deleted')
  BY <1>2, <1>6, <1>7, <1>8, <1>9, <1>10, InvFacts, Started
<1>12. Fine(m', held, deleted')
  BY <1>1, <1>6, <1>11, InvFacts, RunFine DEF l, i
<1>13. QED
  BY <1>2, <1>12 DEF DpcInv

\* An LPS config, or none
LEMMA AddLpsDPCStep == ASSUME DpcInv, AddLpsDPC PROVE DpcInv'
<1>1. PICK on \in BOOLEAN :
        /\ m' = resumeVerifyIfAsyncDone(startVerify([m EXCEPT !.lps = on, !.inProgress = FALSE]))
        /\ held' = (held \/ on)
  BY DEF AddLpsDPC
<1>2. m.pc = "idle" /\ OuterTypes' /\ deleted' = deleted /\ held' \in BOOLEAN
  <2>1. held' \in BOOLEAN
    BY <1>1
  <2>2. QED
    BY <2>1, InvFacts, CommandTypes DEF AddLpsDPC
<1> DEFINE w == [m EXCEPT !.lps = on, !.inProgress = FALSE]
<1>3. /\ w \in Mgrs /\ w.list = m.list /\ w.cur = m.cur /\ w.inProgress = FALSE /\ w.pc = "idle"
      /\ w.lps = on /\ w.rs = m.rs /\ w.test = m.test /\ w.hasGCP = m.hasGCP
  BY <1>2, InvFacts DEF Mgrs
<1> HIDE DEF w
<1>4. Sound(w) /\ Timers(w)
  BY <1>3, InvFacts DEF Sound, Timers
<1>5. ~held' => ~held /\ on = FALSE
  BY <1>1, InvFacts
<1>6. AllUsable /\ ~held' => Free(w)
  BY <1>3, <1>5, InvFacts DEF Free
<1>7. Going(m) => MayGoOn(w)
  BY <1>2, <1>3 DEF Going, MayGoOn
<1>8. Fine(startVerify(w), held', deleted)
  BY <1>2, <1>3, <1>4, <1>5, <1>6, <1>7, InvFacts, Started
<1>9. Fine(m', held', deleted)
  BY <1>1, <1>2, <1>8, RunFine DEF w
<1>10. QED
  BY <1>2, <1>9 DEF DpcInv

\* Radio silence is wanted, or not any more
LEMMA UpdateRadioSilenceStep == ASSUME DpcInv, UpdateRadioSilence PROVE DpcInv'
<1>1. PICK want \in BOOLEAN, a \in BOOLEAN :
        /\ m' = resumeVerifyIfAsyncDone(
                  Reconcile([m EXCEPT !.rs.want = want, !.rs.changing = (m.rs.want # want)], a))
        /\ held' = (held \/ want)
  BY DEF UpdateRadioSilence
<1>2. m.pc = "idle" /\ OuterTypes' /\ deleted' = deleted /\ held' \in BOOLEAN
  <2>1. held' \in BOOLEAN
    BY <1>1
  <2>2. QED
    BY <2>1, InvFacts, CommandTypes DEF UpdateRadioSilence
<1> DEFINE c == (m.rs.want # want)
           w == [m EXCEPT !.rs.want = want, !.rs.changing = c]
           r == [m.rs EXCEPT !.want = want, !.changing = c]
<1>3. c \in BOOLEAN /\ m.rs \in [want : BOOLEAN, imposed : BOOLEAN, changing : BOOLEAN]
  BY InvFacts, MgrFields
<1>3a. (m.rs.want = FALSE /\ want = FALSE) => c = FALSE
  OBVIOUS
<1> HIDE DEF c
<1>4. /\ r \in [want : BOOLEAN, imposed : BOOLEAN, changing : BOOLEAN]
      /\ r.want = want /\ r.changing = c /\ r.imposed = m.rs.imposed
  BY <1>3
<1>5. w = [m EXCEPT !.rs = r]
  BY InvFacts DEF Mgrs
<1> HIDE DEF w, r
<1>6. /\ w \in Mgrs /\ w.list = m.list /\ w.cur = m.cur /\ w.inProgress = m.inProgress /\ w.pc = m.pc
      /\ w.lps = m.lps /\ w.rs = r /\ w.test = m.test /\ w.hasGCP = m.hasGCP /\ w.pend = m.pend
  BY <1>4, <1>5, InvFacts DEF Mgrs
<1>7. ~held' => ~held /\ want = FALSE
  BY <1>1, InvFacts
<1>8. Sound(w) /\ Timers(w)
  BY <1>6, InvFacts DEF Sound, Timers
<1>9. AllUsable /\ ~held' => Free(w) /\ Settled(w)
  <2>1. SUFFICES ASSUME AllUsable, ~held' PROVE Free(w) /\ Settled(w)
    OBVIOUS
  <2>2. Free(m) /\ Settled(m) /\ want = FALSE
    BY <1>7, <2>1, InvFacts
  <2>3. m.rs.want = FALSE /\ m.rs.imposed = FALSE /\ m.lps = FALSE
    BY <2>2, InvFacts, MgrFields DEF Free
  <2>4. Free(w)
    BY <1>3a, <1>4, <1>6, <2>2, <2>3 DEF Free
  <2>5. Settled(w)
    BY <1>6, <2>2 DEF Settled
  <2>6. QED
    BY <2>4, <2>5
<1>10. Going(m) => Going(w)
  BY <1>6 DEF Going
<1>11. Fine(w, held', deleted)
  BY <1>7, <1>8, <1>9, <1>10, InvFacts DEF Fine
<1>12. Fine(Reconcile(w, a), held', deleted)
  BY <1>2, <1>6, <1>11, Reconciled, AlikeFine
<1>13. Fine(m', held', deleted)
  BY <1>1, <1>2, <1>12, RunFine DEF w, c
<1>14. QED
  BY <1>2, <1>13 DEF DpcInv

\* The modems have applied the config
LEMMA ProcessWwanStatusStep == ASSUME DpcInv, ProcessWwanStatus PROVE DpcInv'
<1> DEFINE s(silent) == [m EXCEPT !.rs.imposed = IF m.rs.changing THEN m.rs.want /\ silent ELSE @,
                                  !.rs.changing = FALSE]
<1>1. PICK silent \in BOOLEAN :
        m' = resumeVerifyIfAsyncDone(
               IF currentState(s(silent)) = "WwanWait" THEN runVerify(s(silent))
               ELSE restartVerify(s(silent)))
  BY DEF ProcessWwanStatus
<1>2. m.pc = "idle" /\ held' = held /\ deleted' = deleted
  BY DEF ProcessWwanStatus
<1>3. OuterTypes'
  <2>1. net' \in [Cfgs -> NetStates]
    <3>1. PICK x \in NetStates \ {"wwan"} :
            net' = IF haveCurrentDPC(m) /\ currentNet(m) = "wwan"
                   THEN [net EXCEPT ![effective(m, currentDPC(m).cfg)] = x] ELSE net
      BY DEF ProcessWwanStatus
    <3>2. QED
      BY <3>1, InvFacts
  <2>2. QED
    BY <2>1, InvFacts DEF ProcessWwanStatus, OuterTypes
<1> DEFINE i == IF m.rs.changing THEN m.rs.want /\ silent ELSE m.rs.imposed
           r == [m.rs EXCEPT !.imposed = i, !.changing = FALSE]
           w == s(silent)
<1>4. i \in BOOLEAN /\ m.rs \in [want : BOOLEAN, imposed : BOOLEAN, changing : BOOLEAN]
      /\ (Free(m) => i = FALSE)
  BY InvFacts, MgrFields DEF Free
<1>5. w = [m EXCEPT !.rs = r]
  BY InvFacts DEF Mgrs
<1> HIDE DEF i, s
<1>6. r \in [want : BOOLEAN, imposed : BOOLEAN, changing : BOOLEAN]
      /\ r.want = m.rs.want /\ r.changing = FALSE /\ r.imposed = i
  BY <1>4
<1> HIDE DEF w, r
<1>7. /\ w \in Mgrs /\ w.list = m.list /\ w.cur = m.cur /\ w.inProgress = m.inProgress /\ w.pc = "idle"
      /\ w.lps = m.lps /\ w.rs = r /\ w.test = m.test /\ w.hasGCP = m.hasGCP /\ w.pend = m.pend
  BY <1>2, <1>5, <1>6, InvFacts DEF Mgrs
<1>8. Sound(w) /\ Timers(w)
  BY <1>2, <1>7, InvFacts DEF Sound, Timers
<1>9. Free(m) => Free(w)
  BY <1>4, <1>6, <1>7 DEF Free
<1>10. (Settled(m) => Settled(w)) /\ (Going(m) => Going(w) /\ MayGoOn(w))
  BY <1>2, <1>7 DEF Settled, Going, MayGoOn
<1>11. Fine(w, held, deleted)
  BY <1>8, <1>9, <1>10, InvFacts DEF Fine
<1>12. Fine(runVerify(w), held, deleted)
  BY <1>11, InvFacts, RunFine
<1>13. Fine(restartVerify(w), held, deleted)
  BY <1>7, <1>8, <1>9, <1>10, InvFacts, Started
<1>14. Fine(m', held, deleted)
  BY <1>1, <1>12, <1>13, InvFacts, RunFine DEF w
<1>15. QED
  BY <1>2, <1>3, <1>14 DEF DpcInv

\* The steps that change nothing outside the struct
Inside == UNCHANGED <<net, inputs, netChanges, reboots, deleted, held>>

LEMMA InsideInv ==
  ASSUME DpcInv, Inside, Fine(m', held, deleted)
  PROVE  DpcInv'
<1>1. OuterTypes' /\ held' = held /\ deleted' = deleted
  BY InvFacts DEF Inside, OuterTypes
<1>2. QED
  BY <1>1 DEF DpcInv

\* Adapters become available, or are assigned
LEMMA UpdateAAStep == ASSUME DpcInv, UpdateAA PROVE DpcInv'
<1>1. PICK a \in BOOLEAN :
        m' = IF currentState(m) \in {"PCIWait", "IntfWait"} /\ m.inProgress THEN runVerify(m)
             ELSE resumeVerifyIfAsyncDone(Reconcile(m, a))
  BY DEF UpdateAA
<1>2. Fine(Reconcile(m, a), held, deleted)
  BY InvFacts, Reconciled, AlikeFine
<1>3. Fine(m', held, deleted)
  BY <1>1, <1>2, InvFacts, RunFine
<1>4. QED
  BY <1>3, InsideInv DEF UpdateAA, Inside

\* An async operation ends
LEMMA ResumeReconcileStep == ASSUME DpcInv, ResumeReconcile PROVE DpcInv'
<1>1. PICK a \in BOOLEAN : m' = resumeVerifyIfAsyncDone(Reconcile(m, a))
  BY DEF ResumeReconcile
<1>2. Fine(Reconcile(m, a), held, deleted)
  BY InvFacts, Reconciled, AlikeFine
<1>3. Fine(m', held, deleted)
  BY <1>1, <1>2, InvFacts, RunFine
<1>4. QED
  BY <1>3, InsideInv DEF ResumeReconcile, Inside

\* restartVerify for the struct itself
LEMMA RestartFine ==
  ASSUME DpcInv, m.pc = "idle"
  PROVE  Fine(restartVerify(m), held, deleted)
<1>1. Going(m) => MayGoOn(m)
  BY DEF Going, MayGoOn
<1>2. QED
  BY <1>1, InvFacts, Started

\* An address comes or goes
LEMMA AddrChangeStep == ASSUME DpcInv, AddrChange PROVE DpcInv'
<1>1. m.pc = "idle" /\ m' \in {runVerify(m), restartVerify(m), m}
  <2>1. m.pc = "idle" /\ m' = CASE currentState(m) \in Waits \ {"AsyncWait"} -> runVerify(m)
                [] currentState(m) = "Fail" -> restartVerify(m)
                [] OTHER -> m
    BY DEF AddrChange
  <2>2. CASE currentState(m) \in Waits \ {"AsyncWait"}
    BY <2>1, <2>2 DEF Waits
  <2>3. CASE currentState(m) = "Fail"
    BY <2>1, <2>3 DEF Waits
  <2>4. CASE currentState(m) \notin (Waits \ {"AsyncWait"}) \cup {"Fail"}
    BY <2>1, <2>4
  <2>5. QED
    BY <2>2, <2>3, <2>4
<1>2. Fine(m', held, deleted)
  BY <1>1, InvFacts, RunFine, RestartFine
<1>3. QED
  BY <1>2, InsideInv DEF AddrChange, Inside

\* A global config; the first one starts the timers and, if there is no current DPC, the
\* verification
LEMMA UpdateGCPStep == ASSUME DpcInv, UpdateGCP PROVE DpcInv'
<1> DEFINE first == ~m.hasGCP
           s(enable, a) == [Reconcile(m, a) EXCEPT !.hasGCP = TRUE, !.enableLastResort = enable,
                              !.test = @ \/ first, !.better = @ \/ (first /\ TestBetter)]
           t(enable, boot, a) ==
             IF \/ enable /\ ~m.enableLastResort
                \/ first /\ ~enable /\ m.list = <<>> /\ ~boot
             THEN addOrUpdateLastResortDPC(s(enable, a))
             ELSE IF ~enable /\ m.enableLastResort THEN compressDPCL(s(enable, a)) ELSE s(enable, a)
<1>1. PICK enable \in BOOLEAN, boot \in BOOLEAN, a \in BOOLEAN :
        m' = resumeVerifyIfAsyncDone(
               IF first /\ ~haveCurrentDPC(t(enable, boot, a)) THEN restartVerify(t(enable, boot, a))
               ELSE t(enable, boot, a))
  BY DEF UpdateGCP
<1>2. m.pc = "idle" /\ held' = held /\ deleted' = deleted
  BY DEF UpdateGCP
<1>3. OuterTypes'
  <2>1. MaxInputs \in Nat
    BY DpcAssumption
  <2>2. inputs' \in 0..MaxInputs /\ inputs' >= inputs
    BY <2>1, InvFacts DEF UpdateGCP, OuterTypes
  <2>3. QED
    BY <2>1, <2>2, InvFacts DEF UpdateGCP, OuterTypes
<1> DEFINE r == Reconcile(m, a)
           u == s(enable, a)
           v == t(enable, boot, a)
<1>4. r \in Mgrs /\ Alike(m, r)
  BY InvFacts, Reconciled
<1>5. /\ u \in Mgrs /\ u.list = m.list /\ u.cur = m.cur /\ u.inProgress = m.inProgress /\ u.pc = "idle"
      /\ u.lps = m.lps /\ u.rs = m.rs /\ u.pend = m.pend /\ u.hasGCP = TRUE
      /\ u.test = (m.test \/ first)
  <2> DEFINE x == r.test \/ first
             y == r.better \/ (first /\ TestBetter)
  <2>1. x \in BOOLEAN /\ y \in BOOLEAN /\ x = (m.test \/ first)
    BY <1>4 DEF Alike
  <2>2. u = [r EXCEPT !.hasGCP = TRUE, !.enableLastResort = enable, !.test = x, !.better = y]
    BY <1>4 DEF Mgrs
  <2> HIDE DEF x, y, u, r, first
  <2>3. /\ u \in Mgrs /\ u.list = r.list /\ u.cur = r.cur /\ u.inProgress = r.inProgress
        /\ u.pc = r.pc /\ u.lps = r.lps /\ u.rs = r.rs /\ u.pend = r.pend /\ u.hasGCP = TRUE
        /\ u.test = x
    <3>1. r \in Mgrs /\ x \in BOOLEAN /\ y \in BOOLEAN /\ enable \in BOOLEAN
      BY <1>4, <2>1
    <3> DEFINE k == [r EXCEPT !.hasGCP = TRUE, !.enableLastResort = enable]
    <3>2. k \in Mgrs /\ k.list = r.list /\ k.cur = r.cur /\ k.inProgress = r.inProgress
          /\ k.pc = r.pc /\ k.lps = r.lps /\ k.rs = r.rs /\ k.pend = r.pend /\ k.hasGCP = TRUE
      BY <3>1 DEF Mgrs
    <3>3. u = [k EXCEPT !.test = x, !.better = y]
      BY <2>2
    <3> HIDE DEF k
    <3>4. QED
      BY <3>1, <3>2, <3>3 DEF Mgrs
  <2>4. QED
    BY <1>2, <1>4, <2>1, <2>3 DEF Alike
<1> DEFINE Q(x) == /\ Sound(x) /\ Timers(x)
                   /\ AllUsable /\ ~held => Free(x) /\ (x.cur # NoDPC \/ ~first => Settled(x))
                   /\ AllUsable /\ ~held /\ deleted = 0 => Going(x)
<1>6. v \in {u, compressDPCL(u), addOrUpdateLastResortDPC(u)}
  OBVIOUS
<1> HIDE DEF s, t, u, v
<1>7. Q(u)
  <2>1. Sound(u) /\ Timers(u)
    BY <1>2, <1>5, InvFacts DEF Sound, Timers
  <2>2. (Free(m) => Free(u)) /\ (Settled(m) /\ (u.cur # NoDPC \/ ~first) => Settled(u))
    BY <1>2, <1>5 DEF Free, Settled
  <2>3. Going(m) => Going(u)
    BY <1>2, <1>5 DEF Going
  <2>4. QED
    BY <2>1, <2>2, <2>3, InvFacts
<1>8. Q(compressDPCL(u))
  <2> DEFINE c == compressDPCL(u)
  <2>1. /\ Sound(c)
        /\ c.inProgress = u.inProgress /\ c.pc = u.pc /\ c.pend = u.pend /\ c.test = u.test
        /\ c.hasGCP = u.hasGCP /\ c.lps = u.lps /\ c.rs = u.rs
        /\ u.inProgress => c = u
        /\ (c.cur = NoDPC) <=> (u.cur = NoDPC)
        /\ u.cur # NoDPC => c.list[c.cur] = u.list[u.cur]
        /\ u.list # <<>> => c.list # <<>> /\ c.list[1] = u.list[1]
        /\ \A j \in DOMAIN c.list : \E k \in DOMAIN u.list : c.list[j] = u.list[k]
        /\ SomeWorks(c.list) <=> SomeWorks(u.list)
    BY <1>7, Compressed
  <2> HIDE DEF c
  <2>2. Timers(c)
    BY <1>7, <2>1 DEF Timers
  <2>3. (Free(u) => Free(c)) /\ (Settled(u) => Settled(c))
    BY <2>1 DEF Free, Settled
  <2>4. Going(u) => Going(c)
    <3>1. u.list = <<>> => c.list = <<>>
      <4>1. ASSUME u.list = <<>> PROVE c.list = <<>>
        <5>1. DOMAIN u.list = {}
          BY <4>1
        <5>2. 1 \notin DOMAIN c.list
          BY <2>1, <5>1
        <5>3. c.list \in Seq(DPC)
          BY <2>1 DEF Sound, ListOK
        <5>4. QED
          BY <5>2, <5>3
      <4>2. QED
        BY <4>1
    <3>2. QED
      BY <2>1, <3>1 DEF Going
  <2>5. Q(c)
    BY <1>7, <2>1, <2>2, <2>3, <2>4
  <2>6. QED
    BY <2>5 DEF c
<1>9. Q(addOrUpdateLastResortDPC(u))
  <2> DEFINE c == addOrUpdateLastResortDPC(u)
  <2>1. c = u \/ Fine(c, held, deleted)
    BY <1>5, <1>7, InvFacts, LastResortFine
  <2> HIDE DEF c
  <2>2. Q(c)
    BY <1>7, <2>1 DEF Fine
  <2>3. QED
    BY <2>2 DEF c
<1>10. Q(v)
  <2> HIDE DEF Q
  <2>1. QED
    BY <1>6, <1>7, <1>8, <1>9
<1>11. Fine(IF first /\ ~haveCurrentDPC(v) THEN restartVerify(v) ELSE v, held, deleted)
  <2>1. CASE first /\ ~haveCurrentDPC(v)
    <3>1. v.cur = NoDPC /\ v.pc \in {"idle", "loop"}
      BY <1>10, <2>1, MgrFields DEF Sound, haveCurrentDPC, NoDPC
    <3>2. v.pc = "idle"
      BY <1>10, <3>1 DEF Timers
    <3>3. Going(v) => MayGoOn(v)
      BY <3>2 DEF Going, MayGoOn
    <3>4. Fine(restartVerify(v), held, deleted)
      BY <1>10, <3>2, <3>3, InvFacts, Started
    <3>5. QED
      BY <2>1, <3>4
  <2>2. CASE ~(first /\ ~haveCurrentDPC(v))
    <3>1. v.cur # NoDPC \/ ~first
      BY <1>10, <2>2 DEF Sound, haveCurrentDPC, NoDPC, ListOK
    <3>2. Fine(v, held, deleted)
      BY <1>10, <3>1 DEF Fine
    <3>3. QED
      BY <2>2, <3>2
  <2>3. QED
    BY <2>1, <2>2
<1>12. Fine(m', held, deleted)
  BY <1>1, <1>11, InvFacts, RunFine DEF v
<1>13. QED
  BY <1>2, <1>3, <1>12 DEF DpcInv

\* There has been no DPC for too long
LEMMA AvailTimerStep == ASSUME DpcInv, dpcAvailTimer PROVE DpcInv'
<1> DEFINE s == [m EXCEPT !.avail = FALSE]
<1>1. m.pc = "idle" /\ m' \in {addOrUpdateLastResortDPC(s), s}
  BY DEF dpcAvailTimer
<1>2. s \in Mgrs /\ Alike(m, s)
  BY InvFacts DEF Mgrs, Alike
<1> HIDE DEF s
<1>3. Fine(s, held, deleted)
  BY <1>2, InvFacts, AlikeFine
<1>4. s.pc = "idle"
  BY <1>1, <1>2 DEF Alike
<1>5. addOrUpdateLastResortDPC(s) = s \/ Fine(addOrUpdateLastResortDPC(s), held, deleted)
  BY <1>3, <1>4, InvFacts, LastResortFine DEF Fine
<1>6. Fine(m', held, deleted)
  BY <1>1, <1>3, <1>5
<1>7. QED
  BY <1>6, InsideInv DEF dpcAvailTimer, Inside

\* A wait is over
LEMMA PendingTimerStep == ASSUME DpcInv, pendingDpcTimer PROVE DpcInv'
<1> DEFINE s == [m EXCEPT !.pend = "off"]
           t == runVerify(s)
<1>1. m' = t /\ m.pc = "idle"
  BY DEF pendingDpcTimer
<1>2. /\ s \in Mgrs /\ s.list = m.list /\ s.cur = m.cur /\ s.inProgress = m.inProgress /\ s.pc = "idle"
      /\ s.lps = m.lps /\ s.rs = m.rs /\ s.hasGCP = m.hasGCP /\ s.test = m.test
  BY <1>1, InvFacts DEF Mgrs
<1> HIDE DEF s
<1>3. Sound(s)
  BY <1>2, InvFacts DEF Sound
<1>4. /\ Sound(t)
      /\ t.list = s.list /\ t.cur = s.cur /\ t.inProgress = s.inProgress
      /\ t.hasGCP = s.hasGCP /\ t.lps = s.lps /\ t.rs = s.rs
      /\ (s.inProgress /\ s.cur # NoDPC) => t.pc = "loop"
      /\ ~(s.inProgress /\ s.cur # NoDPC) => t = s
  BY <1>3, RunVerify
<1> HIDE DEF t
<1>5. Timers(t)
  BY <1>2, <1>4 DEF Timers
<1>6. (Free(m) => Free(t)) /\ (Settled(m) => Settled(t))
  BY <1>1, <1>2, <1>4 DEF Free, Settled
<1>7. Going(m) => Going(t)
  BY <1>1, <1>2, <1>4 DEF Going
<1>8. Fine(m', held, deleted)
  BY <1>1, <1>4, <1>5, <1>6, <1>7, InvFacts DEF Fine
<1>9. QED
  BY <1>8, InsideInv DEF pendingDpcTimer, Inside

\* Time for another look at the DPCs before the current one
LEMMA TestBetterStep == ASSUME DpcInv, dpcTestBetterTimer PROVE DpcInv'
<1> DEFINE s == [m EXCEPT !.better = FALSE]
<1>1. m.pc = "idle" /\ m' \in {restartVerify(s), s}
  BY DEF dpcTestBetterTimer
<1>2. s \in Mgrs /\ Alike(m, s)
  BY InvFacts DEF Mgrs, Alike
<1> HIDE DEF s
<1>3. Fine(s, held, deleted)
  BY <1>2, InvFacts, AlikeFine
<1>4. s.pc = "idle" /\ (Going(s) => MayGoOn(s))
  BY <1>1, <1>2 DEF Alike, Going, MayGoOn
<1>5. Fine(restartVerify(s), held, deleted)
  BY <1>3, <1>4, InvFacts, Started DEF Fine
<1>6. Fine(m', held, deleted)
  BY <1>1, <1>3, <1>5
<1>7. QED
  BY <1>6, InsideInv DEF dpcTestBetterTimer, Inside

\* The periodic test of the current DPC
LEMMA TestTimerStep == ASSUME DpcInv, dpcTestTimer PROVE DpcInv'
<1> DEFINE s == [m EXCEPT !.test = FALSE]
<1>1. /\ m.pc = "idle" /\ (m.hasGCP => \A i \in DOMAIN m.list : ~m.list[i].recent)
      /\ m' = IF haveCurrentDPC(m) THEN testConnectivityToController(s) ELSE restartVerify(s)
  BY DEF dpcTestTimer
<1>2. /\ s \in Mgrs /\ s.list = m.list /\ s.cur = m.cur /\ s.inProgress = m.inProgress /\ s.pc = "idle"
      /\ s.lps = m.lps /\ s.rs = m.rs /\ s.hasGCP = m.hasGCP /\ s.pend = m.pend
  BY <1>1, InvFacts DEF Mgrs
<1> HIDE DEF s
<1>3. Sound(s) /\ Timers(s) /\ (Free(m) => Free(s))
  BY <1>1, <1>2, InvFacts DEF Sound, Timers, Free
<1>4. AllUsable /\ Going(m) => MayGoOn(s)
  <2>1. SUFFICES ASSUME AllUsable, Going(m) PROVE MayGoOn(s)
    OBVIOUS
  <2>2. ASSUME s.hasGCP, s.list # <<>> PROVE Testable(s.list) # {}
    <3>1. 1 \in DOMAIN s.list
      BY <1>3, <2>2, MgrFields DEF Sound
    <3>2. \A i \in DOMAIN s.list : i \in Testable(s.list)
      BY <1>1, <1>2, <1>3, <2>1, <2>2, WorksTestable
    <3>3. QED
      BY <3>1, <3>2
  <2>3. QED
    BY <1>2, <2>1, <2>2 DEF Going, MayGoOn
<1>5. Fine(restartVerify(s), held, deleted)
  BY <1>2, <1>3, <1>4, InvFacts, Started
<1>6. CASE haveCurrentDPC(m)
  <2> DEFINE x == currentNet(s)
  <2>1. m.cur # NoDPC /\ m.cur \in DOMAIN m.list
    BY <1>6, InvFacts, MgrFields DEF haveCurrentDPC, NoDPC
  <2>2. s.list[s.cur] \in DPC /\ s.cur \in DOMAIN s.list
    BY <1>2, <1>3, <2>1, InvFacts, CurrentNet
  <2> DEFINE e == [s.list[s.cur] EXCEPT !.last = "good", !.ever = TRUE,
                                        !.recent = FALSE, !.state = "Success"]
             t1 == [s EXCEPT !.list[s.cur] = [@ EXCEPT !.last = "good", !.ever = TRUE,
                                                       !.recent = FALSE, !.state = "Success"],
                             !.connWorks = TRUE, !.test = TRUE]
             t2(b) == [s EXCEPT !.test = TRUE, !.connWorks = b]
  <2>3. m' = CASE x = "ok" -> t1
               [] x = "remote" -> t2(TRUE)
               [] x \notin {"ok", "remote"} /\ s.connWorks -> t2(FALSE)
               [] x \notin {"ok", "remote"} /\ ~s.connWorks -> restartVerify(s)
    BY <1>1, <1>6 DEF testConnectivityToController
  <2> HIDE DEF x
  <2>4. s.connWorks \in BOOLEAN
    BY <1>2, MgrFields
  <2>5. m' \in {t1, t2(TRUE), t2(FALSE), restartVerify(s)}
    <3> HIDE DEF t1, t2
    <3>1. CASE x = "ok"
      BY <2>3, <3>1
    <3>2. CASE x = "remote"
      BY <2>3, <3>2
    <3>3. CASE x \notin {"ok", "remote"} /\ s.connWorks
      BY <2>3, <3>3
    <3>4. CASE x \notin {"ok", "remote"} /\ ~s.connWorks
      BY <2>3, <3>4
    <3>5. QED
      BY <3>1, <3>2, <3>3, <3>4
  <2>6. Fine(t1, held, deleted)
    <3>1. e \in DPC /\ e.key = s.list[s.cur].key /\ e.prio = s.list[s.cur].prio
          /\ e.cfg = s.list[s.cur].cfg /\ e.last = "good"
      BY <2>2 DEF DPC, DPCStates
    <3> DEFINE l == [s.list EXCEPT ![s.cur] = e]
    <3>2. t1 = [s EXCEPT !.list = l, !.connWorks = TRUE, !.test = TRUE]
      BY <1>2, <2>2 DEF Mgrs
    <3>3. l \in Seq(DPC)
      <4>1. s.list \in Seq(DPC)
        BY <1>2, MgrFields
      <4> HIDE DEF e
      <4>2. QED
        BY <2>2, <3>1, <4>1
    <3> HIDE DEF e, l, t1
    <3>4. /\ t1 \in Mgrs /\ t1.list = l /\ t1.cur = s.cur /\ t1.inProgress = s.inProgress
          /\ t1.pc = "idle" /\ t1.lps = s.lps /\ t1.rs = s.rs /\ t1.hasGCP = s.hasGCP
          /\ t1.pend = s.pend /\ t1.test = TRUE
      BY <1>2, <3>2, <3>3 DEF Mgrs
    <3>5. Sound(t1) /\ DOMAIN t1.list = DOMAIN s.list /\ t1.list[s.cur] = e
      <4>1. t1.list = [s.list EXCEPT ![s.cur] = e]
        BY <3>4 DEF l
      <4>2. QED
        BY <1>3, <2>2, <3>1, <3>4, <4>1, ResultsChanged
    <3>6. Timers(t1) /\ (Free(s) => Free(t1))
      BY <1>2, <1>3, <3>4 DEF Timers, Free
    <3>7. Settled(t1)
      BY <1>2, <2>1, <3>1, <3>4, <3>5 DEF Settled, WasDPCWorking
    <3>8. AllUsable => Going(t1)
      <4>1. SUFFICES ASSUME AllUsable PROVE Going(t1)
        OBVIOUS
      <4>2. t1.list[t1.cur].last # "bad" /\ t1.cur \in DOMAIN t1.list
        BY <2>2, <3>1, <3>4, <3>5
      <4>3. t1.cur \in Testable(t1.list)
        BY <3>5, <4>1, <4>2, WorksTestable
      <4>4. QED
        BY <3>4, <4>3 DEF Going
    <3>9. QED
      BY <1>3, <3>5, <3>6, <3>7, <3>8, InvFacts DEF Fine
  <2>7. ASSUME NEW b \in BOOLEAN PROVE Fine(t2(b), held, deleted)
    <3> DEFINE t == t2(b)
    <3>1. /\ t \in Mgrs /\ t.list = m.list /\ t.cur = m.cur /\ t.inProgress = m.inProgress
          /\ t.pc = "idle" /\ t.lps = m.lps /\ t.rs = m.rs /\ t.hasGCP = m.hasGCP
          /\ t.pend = m.pend /\ t.test = TRUE
      BY <1>2, <2>7 DEF Mgrs
    <3> HIDE DEF t
    <3>2. Sound(t) /\ Timers(t)
      BY <1>1, <3>1, InvFacts DEF Sound, Timers
    <3>3. (Free(m) => Free(t)) /\ (Settled(m) => Settled(t))
      BY <1>1, <3>1 DEF Free, Settled
    <3>4. Going(m) => Going(t)
      BY <1>1, <3>1 DEF Going
    <3>5. Fine(t, held, deleted)
      BY <3>2, <3>3, <3>4, InvFacts DEF Fine
    <3>6. QED
      BY <3>5 DEF t
  <2>8. Fine(t2(TRUE), held, deleted) /\ Fine(t2(FALSE), held, deleted)
    <3>1. TRUE \in BOOLEAN /\ FALSE \in BOOLEAN
      OBVIOUS
    <3> HIDE DEF t2
    <3>2. QED
      BY <2>7, <3>1
  <2> HIDE DEF t1, t2
  <2>9. Fine(m', held, deleted)
    BY <1>5, <2>5, <2>6, <2>8
  <2>10. QED
    BY <2>9, InsideInv DEF dpcTestTimer, Inside
<1>7. CASE ~haveCurrentDPC(m)
  <2>1. Fine(m', held, deleted)
    BY <1>1, <1>5, <1>7
  <2>2. QED
    BY <2>1, InsideInv DEF dpcTestTimer, Inside
<1>8. QED
  BY <1>6, <1>7

\* The clock
LEMMA TickStep == ASSUME DpcInv, tick PROVE DpcInv'
<1> DEFINE x == IF m.elapsed < Patience THEN m.elapsed + 1 ELSE m.elapsed
           y == IF m.pend = "armed" THEN "due" ELSE m.pend
<1>1. m \in Mgrs /\ m.elapsed \in 0..Patience /\ m.pend \in {"off", "armed", "due"}
  BY InvFacts, MgrFields
<1>2. x \in 0..Patience
  BY <1>1, PatienceType
<1>3. y \in {"off", "armed", "due"} /\ (m.pend # "off" => y # "off")
  BY <1>1
<1>4. m' = [m EXCEPT !.elapsed = x, !.pend = y]
  BY DEF tick
<1> HIDE DEF x, y
<1>5. /\ m' \in Mgrs /\ m'.list = m.list /\ m'.cur = m.cur /\ m'.inProgress = m.inProgress
      /\ m'.pc = m.pc /\ m'.lps = m.lps /\ m'.rs = m.rs /\ m'.hasGCP = m.hasGCP
      /\ m'.pend = y /\ m'.test = m.test
  BY <1>1, <1>2, <1>3, <1>4 DEF Mgrs
<1>6. Sound(m') /\ Timers(m')
  BY <1>3, <1>5, InvFacts DEF Sound, Timers
<1>7. (Free(m) => Free(m')) /\ (Settled(m) => Settled(m')) /\ (Going(m) => Going(m'))
  BY <1>5 DEF Free, Settled, Going
<1>8. Fine(m', held, deleted)
  BY <1>6, <1>7, InvFacts DEF Fine
<1>9. QED
  BY <1>8, InsideInv DEF tick, Inside

\* Failures become old
LEMMA FailureAgesStep == ASSUME DpcInv, failureAges PROVE DpcInv'
<1> DEFINE l == [i \in DOMAIN m.list |-> [m.list[i] EXCEPT !.recent = FALSE]]
<1>1. m' = [m EXCEPT !.list = l]
  BY DEF failureAges
<1>2. m \in Mgrs /\ m.list \in Seq(DPC) /\ ListOK(m.list)
  BY InvFacts, MgrFields DEF Sound
<1>3. \A i \in DOMAIN m.list : /\ l[i] \in DPC /\ l[i].key = m.list[i].key /\ l[i].prio = m.list[i].prio
                               /\ l[i].cfg = m.list[i].cfg /\ l[i].last = m.list[i].last
                               /\ l[i].recent = FALSE
  <2>1. SUFFICES ASSUME NEW i \in DOMAIN m.list
                 PROVE  /\ l[i] \in DPC /\ l[i].key = m.list[i].key /\ l[i].prio = m.list[i].prio
                        /\ l[i].cfg = m.list[i].cfg /\ l[i].last = m.list[i].last
                        /\ l[i].recent = FALSE
    OBVIOUS
  <2>2. m.list[i] \in DPC /\ l[i] = [m.list[i] EXCEPT !.recent = FALSE]
    BY <1>2
  <2> HIDE DEF l
  <2>3. QED
    BY <2>2 DEF DPC
<1>4. DOMAIN l = DOMAIN m.list
  OBVIOUS
<1>5. l \in Seq(DPC) /\ Len(l) = Len(m.list)
  <2>1. DOMAIN m.list = 1..Len(m.list) /\ Len(m.list) \in Nat
    BY <1>2
  <2>2. l \in [1..Len(m.list) -> DPC]
    BY <1>3, <2>1
  <2> HIDE DEF l
  <2>3. QED
    BY <2>1, <2>2
<1> HIDE DEF l
<1>6. OneManual(l) /\ Distinct(l) /\ (AllUsable => UsableList(l))
  <2>1. OneManual(l) /\ Distinct(l)
    BY <1>2, <1>3, <1>4 DEF ListOK, OneManual, Distinct, SameDPC
  <2>2. AllUsable => UsableList(l)
    BY <1>2, <1>3, <1>4 DEF ListOK, UsableList, IsDPCUsable
  <2>3. QED
    BY <2>1, <2>2
<1>7. /\ m' \in Mgrs /\ m'.list = l /\ m'.cur = m.cur /\ m'.inProgress = m.inProgress
      /\ m'.pc = m.pc /\ m'.lps = m.lps /\ m'.rs = m.rs /\ m'.hasGCP = m.hasGCP
      /\ m'.pend = m.pend /\ m'.test = m.test
  BY <1>1, <1>2, <1>5 DEF Mgrs
<1>8. Sound(m') /\ Timers(m')
  BY <1>5, <1>6, <1>7, InvFacts DEF Sound, Timers, ListOK
<1>9. Free(m) => Free(m')
  BY <1>7 DEF Free
<1>10. Settled(m) => Settled(m')
  <2>1. SomeWorks(m'.list) <=> SomeWorks(m.list)
    BY <1>3, <1>4, <1>7 DEF SomeWorks, WasDPCWorking
  <2>2. m.cur # NoDPC => (WasDPCWorking(m'.list[m.cur]) <=> WasDPCWorking(m.list[m.cur]))
    <3>1. m.cur # NoDPC => m.cur \in DOMAIN m.list
      BY InvFacts, MgrFields DEF Sound, NoDPC
    <3>2. QED
      BY <1>3, <1>7, <3>1 DEF WasDPCWorking
  <2>3. QED
    BY <1>7, <2>1, <2>2 DEF Settled
<1>11. Going(m) => Going(m')
  <2>1. \A i \in Testable(m.list) : i \in Testable(l)
    BY <1>3, <1>4 DEF Testable, IsDPCTestable, IsDPCUsable
  <2>2. l # <<>> => m.list # <<>>
    BY <1>2, <1>5
  <2>3. QED
    BY <1>7, <2>1, <2>2 DEF Going
<1>12. Fine(m', held, deleted)
  BY <1>8, <1>9, <1>10, <1>11, InvFacts DEF Fine
<1>13. QED
  BY <1>12, InsideInv DEF failureAges, Inside

\* The network
LEMMA NetworkStep == ASSUME DpcInv, networkChanges PROVE DpcInv'
<1>1. MaxNet \in Nat
  BY DpcAssumption
<1>2. OuterTypes'
  <2>1. net' \in [Cfgs -> NetStates]
    BY InvFacts DEF networkChanges
  <2>2. netChanges' \in 0..MaxNet
    BY <1>1 DEF DpcInv, OuterTypes, networkChanges
  <2>3. QED
    BY <2>1, <2>2 DEF DpcInv, OuterTypes, networkChanges
<1>3. m' = m /\ held' = held /\ deleted' = deleted
  BY DEF networkChanges
<1>4. QED
  BY <1>2, <1>3 DEF DpcInv

\* A reboot
LEMMA RebootStep == ASSUME DpcInv, reboot PROVE DpcInv'
<1>1. MaxReboots \in Nat
  BY DpcAssumption
<1>2. OuterTypes'
  <2>1. reboots' \in 0..MaxReboots
    BY <1>1 DEF DpcInv, OuterTypes, reboot
  <2>2. held' \in BOOLEAN
    BY DEF reboot
  <2>3. QED
    BY <2>1, <2>2 DEF DpcInv, OuterTypes, reboot
<1>3. /\ m' \in Mgrs /\ m'.list = m.list /\ m'.cur = 0 /\ m'.inProgress = FALSE /\ m'.pc = "idle"
      /\ m'.lps = FALSE /\ m'.rs = [want |-> FALSE, imposed |-> FALSE, changing |-> FALSE]
      /\ m'.hasGCP = FALSE
  <2>1. m' = ingestDPCList(m.list)
    BY DEF reboot
  <2>2. 0 \in 0..Patience /\ m.list \in Seq(DPC)
    BY PatienceType, InvFacts, MgrFields
  <2>3. QED
    BY <2>1, <2>2 DEF ingestDPCList, Mgrs, NoDPC
<1>4. ListOK(m.list) /\ Len(m.list) \in Nat
  BY InvFacts, MgrFields DEF Sound
<1>5. Sound(m') /\ Timers(m') /\ Free(m')
  BY <1>3, <1>4 DEF Sound, Timers, Free, NoDPC
<1>6. Settled(m') /\ Going(m')
  BY <1>3 DEF Settled, Going, NoDPC
<1>7. Fine(m', held', deleted')
  BY <1>5, <1>6 DEF Fine
<1>8. QED
  BY <1>2, <1>7 DEF DpcInv

\* Every step keeps the invariant
LEMMA DpcStep == ASSUME DpcInv, [Next]_vars PROVE DpcInv'
<1>1. CASE UNCHANGED vars
  BY <1>1 DEF vars, DpcInv, OuterTypes
<1>2. ASSUME Next PROVE DpcInv'
  BY <1>2, VerifyNextStep, AddDPCStep, DelDPCStep, AddLpsDPCStep, UpdateRadioSilenceStep,
     ProcessWwanStatusStep, UpdateAAStep, UpdateGCPStep, ResumeReconcileStep, AddrChangeStep,
     AvailTimerStep, PendingTimerStep, TestTimerStep, TestBetterStep, TickStep, FailureAgesStep,
     NetworkStep, RebootStep
  DEF Next
<1>3. QED
  BY <1>1, <1>2

-----------------------------------------------------------------------------
(* Theorems *)

\* The inductive invariant
THEOREM DpcInvariant == Spec => []DpcInv
<1>1. Init => DpcInv
  BY InitInv
<1>2. DpcInv /\ [Next]_vars => DpcInv'
  BY DpcStep
<1>3. QED
  BY <1>1, <1>2, PTL DEF Spec

\* The list and CurrentIndex stay in step, whatever runVerify, compressDPCL and the commands do
\* to the list (dpc.go, verify.go)
THEOREM DpcTypes == Spec => []DpcTypeOK
<1>1. DpcInv => DpcTypeOK
  <2>1. SUFFICES ASSUME DpcInv PROVE DpcTypeOK
    OBVIOUS
  <2>2. OuterTypes /\ m.cur \in NoDPC..Len(m.list)
    BY <2>1, InvFacts DEF Sound
  <2>3. QED
    BY <2>1, <2>2, InvFacts, MgrFields DEF DpcTypeOK, OuterTypes
<1>2. QED
  BY <1>1, DpcInvariant, PTL

\* A verification that waits has its timer running (runVerify)
THEOREM WaitsHaveTimers == Spec => []WaitHasTimer
<1>1. DpcInv => WaitHasTimer
  BY InvFacts DEF Timers, WaitHasTimer
<1>2. QED
  BY <1>1, DpcInvariant, PTL

\* Once configured, the manager waits in a verification or has the timer of the periodic test
\* running (restartVerify, endVerify), with every DPC usable, none deleted, and neither an LPS
\* config nor radio silence
THEOREM TestingGoesOn == Spec => []TestGoesOn
<1>1. DpcInv => TestGoesOn
  <2>1. SUFFICES ASSUME DpcInv, AllUsable, ~held, deleted = 0, m.pc = "idle", m.hasGCP, m.list # <<>>
                 PROVE  m.test \/ (m.inProgress /\ m.pend # "off")
    BY DEF TestGoesOn
  <2>2. Going(m) /\ Timers(m)
    BY <2>1, InvFacts
  <2>3. m.inProgress => m.cur # NoDPC
    <3>1. DOMAIN m.list = 1..Len(m.list)
      BY InvFacts, MgrFields, <2>1
    <3>2. QED
      BY <2>2, <3>1 DEF Going, Testable, NoDPC
  <2>4. QED
    BY <2>1, <2>2, <2>3 DEF Going, Timers
<1>2. QED
  BY <1>1, DpcInvariant, PTL
-----------------------------------------------------------------------------
(* Action properties: what a step may do to the current DPC and to those that work *)

\* A struct with another field is as sound as before
LEMMA SameSound ==
  ASSUME NEW p, Sound(p), NEW s \in Mgrs, s.list = p.list, s.cur = p.cur
  PROVE  Sound(s)
  BY DEF Sound

\* The commands and events that leave the list alone
LEMMA CommandMoves ==
  ASSUME DpcInv, AddLpsDPC \/ UpdateRadioSilence \/ ProcessWwanStatus
  PROVE  Moves(m, m')
<1>0. m \in Mgrs /\ Sound(m) /\ m.rs \in [want : BOOLEAN, imposed : BOOLEAN, changing : BOOLEAN]
  BY InvFacts, MgrFields
<1>1. CASE AddLpsDPC
  <2>1. PICK on \in BOOLEAN :
          m' = resumeVerifyIfAsyncDone(startVerify([m EXCEPT !.lps = on, !.inProgress = FALSE]))
    BY <1>1 DEF AddLpsDPC
  <2> DEFINE w == [m EXCEPT !.lps = on, !.inProgress = FALSE]
  <2>2. w \in Mgrs /\ w.list = m.list /\ w.cur = m.cur
    BY <1>0 DEF Mgrs
  <2> HIDE DEF w
  <2>3. QED
    BY <1>0, <2>1, <2>2, SameSound, HandlerMoves DEF w
<1>2. CASE UpdateRadioSilence
  <2>1. PICK want \in BOOLEAN, a \in BOOLEAN :
          m' = resumeVerifyIfAsyncDone(
                 Reconcile([m EXCEPT !.rs.want = want, !.rs.changing = (m.rs.want # want)], a))
    BY <1>2 DEF UpdateRadioSilence
  <2> DEFINE c == (m.rs.want # want)
             w == [m EXCEPT !.rs.want = want, !.rs.changing = c]
             r == [m.rs EXCEPT !.want = want, !.changing = c]
  <2>2. c \in BOOLEAN
    OBVIOUS
  <2> HIDE DEF c
  <2>3. r \in [want : BOOLEAN, imposed : BOOLEAN, changing : BOOLEAN]
    BY <1>0, <2>2
  <2>4. w = [m EXCEPT !.rs = r]
    BY <1>0 DEF Mgrs
  <2> HIDE DEF w, r
  <2>5. w \in Mgrs /\ w.list = m.list /\ w.cur = m.cur
    BY <1>0, <2>3, <2>4 DEF Mgrs
  <2>6. Reconcile(w, a) \in Mgrs /\ Alike(w, Reconcile(w, a))
    BY <2>5, Reconciled
  <2>7. Reconcile(w, a).list = m.list /\ Reconcile(w, a).cur = m.cur
    BY <2>5, <2>6 DEF Alike
  <2>8. Moves(m, resumeVerifyIfAsyncDone(Reconcile(w, a)))
    BY <1>0, <2>6, <2>7, SameSound, HandlerMoves
  <2>9. QED
    BY <2>1, <2>8 DEF w, c
<1>3. CASE ProcessWwanStatus
  <2> DEFINE s(silent) == [m EXCEPT !.rs.imposed = IF m.rs.changing THEN m.rs.want /\ silent ELSE @,
                                    !.rs.changing = FALSE]
  <2>1. PICK silent \in BOOLEAN :
          m' = resumeVerifyIfAsyncDone(
                 IF currentState(s(silent)) = "WwanWait" THEN runVerify(s(silent))
                 ELSE restartVerify(s(silent)))
    BY <1>3 DEF ProcessWwanStatus
  <2> DEFINE i == IF m.rs.changing THEN m.rs.want /\ silent ELSE m.rs.imposed
             r == [m.rs EXCEPT !.imposed = i, !.changing = FALSE]
             w == s(silent)
  <2>2. i \in BOOLEAN
    BY <1>0
  <2>3. w = [m EXCEPT !.rs = r]
    BY <1>0 DEF Mgrs
  <2> HIDE DEF i, s
  <2>4. r \in [want : BOOLEAN, imposed : BOOLEAN, changing : BOOLEAN]
    BY <1>0, <2>2
  <2> HIDE DEF w, r
  <2>5. w \in Mgrs /\ w.list = m.list /\ w.cur = m.cur
    BY <1>0, <2>3, <2>4 DEF Mgrs
  <2>6. Moves(m, resumeVerifyIfAsyncDone(runVerify(w)))
        /\ Moves(m, resumeVerifyIfAsyncDone(restartVerify(w)))
    BY <1>0, <2>5, SameSound, HandlerMoves
  <2>7. QED
    BY <2>1, <2>6 DEF w
<1>4. QED
  BY <1>1, <1>2, <1>3

\* The other events and timers that leave the list alone
LEMMA EventMoves ==
  ASSUME DpcInv,
         \/ UpdateAA \/ ResumeReconcile \/ AddrChange \/ pendingDpcTimer \/ dpcTestBetterTimer
         \/ tick \/ networkChanges \/ reboot
  PROVE  Moves(m, m')
<1>0. m \in Mgrs /\ Sound(m)
  BY InvFacts
<1>1. Moves(m, m) /\ Moves(m, runVerify(m)) /\ Moves(m, restartVerify(m))
  BY <1>0, HandlerMoves
<1>2. ASSUME NEW a \in BOOLEAN PROVE Moves(m, resumeVerifyIfAsyncDone(Reconcile(m, a)))
  <2>1. Reconcile(m, a) \in Mgrs /\ Alike(m, Reconcile(m, a))
    BY <1>0, <1>2, Reconciled
  <2>2. Reconcile(m, a).list = m.list /\ Reconcile(m, a).cur = m.cur
    BY <2>1 DEF Alike
  <2>3. QED
    BY <1>0, <2>1, <2>2, SameSound, HandlerMoves
<1>3. CASE UpdateAA \/ ResumeReconcile
  BY <1>1, <1>2, <1>3 DEF UpdateAA, ResumeReconcile
<1>4. CASE AddrChange
  <2>1. m' \in {runVerify(m), restartVerify(m), m}
    BY <1>4 DEF AddrChange
  <2>2. QED
    BY <1>1, <2>1
<1>5. CASE pendingDpcTimer
  <2> DEFINE w == [m EXCEPT !.pend = "off"]
  <2>1. m' = runVerify(w)
    BY <1>5 DEF pendingDpcTimer
  <2>2. w \in Mgrs /\ w.list = m.list /\ w.cur = m.cur
    BY <1>0 DEF Mgrs
  <2> HIDE DEF w
  <2>3. QED
    BY <1>0, <2>1, <2>2, SameSound, HandlerMoves
<1>6. CASE dpcTestBetterTimer
  <2> DEFINE w == [m EXCEPT !.better = FALSE]
  <2>1. m' \in {restartVerify(w), w}
    BY <1>6 DEF dpcTestBetterTimer
  <2>2. w \in Mgrs /\ w.list = m.list /\ w.cur = m.cur
    BY <1>0 DEF Mgrs
  <2> HIDE DEF w
  <2>3. Moves(m, w) /\ Moves(m, restartVerify(w))
    BY <1>0, <2>2, SameSound, HandlerMoves
  <2>4. QED
    BY <2>1, <2>3
<1>7. CASE tick
  <2>1. m'.list = m.list /\ m'.cur = m.cur
    BY <1>0, <1>7 DEF tick, Mgrs
  <2>2. QED
    BY <1>0, <2>1, SameMoves
<1>8. CASE networkChanges
  BY <1>1, <1>8 DEF networkChanges
<1>9. CASE reboot
  <2>1. m'.list = m.list /\ m'.cur = NoDPC
    BY <1>9 DEF reboot, ingestDPCList
  <2>2. QED
    BY <1>0, <2>1, SameMoves
<1>10. QED
  BY <1>3, <1>4, <1>5, <1>6, <1>7, <1>8, <1>9

\* Failures become old: a change of the results
LEMMA FailureAgesMoves == ASSUME DpcInv, failureAges PROVE Moves(m, m')
<1> DEFINE l == [i \in DOMAIN m.list |-> [m.list[i] EXCEPT !.recent = FALSE]]
<1>1. m \in Mgrs /\ Sound(m) /\ m.list \in Seq(DPC)
  BY InvFacts, MgrFields
<1>2. m' = [m EXCEPT !.list = l]
  BY DEF failureAges
<1>3. \A i \in DOMAIN m.list : SameDPC(l[i], m.list[i]) /\ MostlyEqual(l[i], m.list[i])
  <2>1. SUFFICES ASSUME NEW i \in DOMAIN m.list
                 PROVE  SameDPC(l[i], m.list[i]) /\ MostlyEqual(l[i], m.list[i])
    OBVIOUS
  <2>2. m.list[i] \in DPC /\ l[i] = [m.list[i] EXCEPT !.recent = FALSE]
    BY <1>1
  <2> HIDE DEF l
  <2>3. QED
    BY <2>2 DEF DPC, SameDPC, MostlyEqual
<1>4. DOMAIN l = DOMAIN m.list
  OBVIOUS
<1> HIDE DEF l
<1>5. m'.list = l /\ m'.cur = m.cur
  BY <1>1, <1>2 DEF Mgrs
<1>6. QED
  BY <1>1, <1>3, <1>4, <1>5, PointMoves

\* The periodic test of the current DPC: it works, or a verification is started
LEMMA TestTimerMoves == ASSUME DpcInv, dpcTestTimer PROVE Moves(m, m')
<1> DEFINE s == [m EXCEPT !.test = FALSE]
<1>1. m' = IF haveCurrentDPC(m) THEN testConnectivityToController(s) ELSE restartVerify(s)
  BY DEF dpcTestTimer
<1>2. s \in Mgrs /\ s.list = m.list /\ s.cur = m.cur
  BY InvFacts DEF Mgrs
<1> HIDE DEF s
<1>3. Sound(m) /\ Sound(s) /\ Moves(m, s) /\ Moves(m, restartVerify(s))
  BY <1>2, InvFacts, SameSound, HandlerMoves
<1>4. CASE haveCurrentDPC(m)
  <2> DEFINE x == currentNet(s)
  <2>1. m.cur # NoDPC /\ s.cur \in DOMAIN s.list /\ s.list[s.cur] \in DPC
    BY <1>2, <1>4, InvFacts, MgrFields DEF haveCurrentDPC, NoDPC
  <2> DEFINE e == [s.list[s.cur] EXCEPT !.last = "good", !.ever = TRUE,
                                        !.recent = FALSE, !.state = "Success"]
             t1 == [s EXCEPT !.list[s.cur] = [@ EXCEPT !.last = "good", !.ever = TRUE,
                                                       !.recent = FALSE, !.state = "Success"],
                             !.connWorks = TRUE, !.test = TRUE]
             t2(b) == [s EXCEPT !.test = TRUE, !.connWorks = b]
  <2>2. m' = CASE x = "ok" -> t1
               [] x = "remote" -> t2(TRUE)
               [] x \notin {"ok", "remote"} /\ s.connWorks -> t2(FALSE)
               [] x \notin {"ok", "remote"} /\ ~s.connWorks -> restartVerify(s)
    BY <1>1, <1>4 DEF testConnectivityToController
  <2>3. s.connWorks \in BOOLEAN
    BY <1>2, MgrFields
  <2>4. m' \in {t1, t2(TRUE), t2(FALSE), restartVerify(s)}
    <3> HIDE DEF t1, t2, x
    <3>1. CASE x = "ok"
      BY <2>2, <3>1
    <3>2. CASE x = "remote"
      BY <2>2, <3>2
    <3>3. CASE x \notin {"ok", "remote"} /\ s.connWorks
      BY <2>2, <3>3
    <3>4. CASE x \notin {"ok", "remote"} /\ ~s.connWorks
      BY <2>2, <3>4
    <3>5. QED
      BY <2>3, <3>1, <3>2, <3>3, <3>4
  <2>5. Moves(m, t1)
    <3>1. e.key = s.list[s.cur].key /\ e.prio = s.list[s.cur].prio /\ e.cfg = s.list[s.cur].cfg
      BY <2>1 DEF DPC
    <3> DEFINE l == [s.list EXCEPT ![s.cur] = e]
    <3>2. t1 = [s EXCEPT !.list = l, !.connWorks = TRUE, !.test = TRUE]
      BY <1>2, <2>1 DEF Mgrs
    <3>3. DOMAIN l = DOMAIN s.list /\ l[s.cur] = e /\ \A j \in DOMAIN s.list : j # s.cur => l[j] = s.list[j]
      BY <2>1
    <3> HIDE DEF e, l, t1
    <3>4. t1.list = l /\ t1.cur = s.cur
      BY <1>2, <3>2 DEF Mgrs
    <3>5. \A j \in DOMAIN m.list : SameDPC(t1.list[j], m.list[j]) /\ MostlyEqual(t1.list[j], m.list[j])
      BY <1>2, <3>1, <3>3, <3>4 DEF SameDPC, MostlyEqual
    <3>6. QED
      BY <1>2, <1>3, <3>3, <3>4, <3>5, PointMoves
  <2>6. ASSUME NEW b \in BOOLEAN PROVE Moves(m, t2(b))
    <3> DEFINE t == t2(b)
    <3>1. t.list = m.list /\ t.cur = m.cur
      BY <1>2 DEF Mgrs
    <3> HIDE DEF t
    <3>2. Moves(m, t)
      BY <1>3, <3>1, SameMoves
    <3>3. QED
      BY <3>2 DEF t
  <2>7. Moves(m, t2(TRUE)) /\ Moves(m, t2(FALSE))
    <3>1. TRUE \in BOOLEAN /\ FALSE \in BOOLEAN
      OBVIOUS
    <3> HIDE DEF t2
    <3>2. QED
      BY <2>6, <3>1
  <2> HIDE DEF t1, t2
  <2>8. QED
    BY <1>3, <2>4, <2>5, <2>7
<1>5. CASE ~haveCurrentDPC(m)
  BY <1>1, <1>3, <1>5
<1>6. QED
  BY <1>4, <1>5

\* A new or changed DPC
LEMMA AddDPCMoves == ASSUME DpcInv, AddDPC, AllUsable, ~held PROVE Moves(m, m')
<1>1. PICK d \in Inputs : m' = resumeVerifyIfAsyncDone(doAddDPC(m, newDPC(d)))
  BY DEF AddDPC
<1>2. m.pc = "idle" /\ m.hasGCP
  BY DEF AddDPC, command
<1>3. ManagedWorks(m.list) => m.inProgress \/ (m.cur # NoDPC /\ WasDPCWorking(m.list[m.cur]))
  BY <1>2, InvFacts DEF ManagedWorks, SomeWorks, Settled
<1>4. Moves(m, doAddDPC(m, newDPC(d))) /\ Sound(doAddDPC(m, newDPC(d)))
  BY <1>2, <1>3, InvFacts, NewDPC, AddMoves
<1>5. QED
  BY <1>1, <1>4, VerifyMoves

\* A DPC less: the device stays at the current one, or changes to one that works or is tested
LEMMA DelDPCSwitches == ASSUME DpcInv, DelDPC PROVE Switched(m, m')
<1>1. PICK d \in Inputs :
        /\ lookupDPC(m.list, d) # NoDPC
        /\ m' = resumeVerifyIfAsyncDone(restartVerify(changeList(m, RemoveAt(m.list, lookupDPC(m.list, d)))))
  BY DEF DelDPC
<1> DEFINE i == lookupDPC(m.list, d)
           l == RemoveAt(m.list, i)
           v == Moved(m, l)
           c == compressDPCL(v)
<1>2. ListOK(m.list) /\ i \in DOMAIN m.list /\ m.cur \in NoDPC..Len(m.list) /\ m.list \in Seq(DPC)
      /\ NoDPC \notin DOMAIN m.list /\ (m.cur # NoDPC => m.cur \in DOMAIN m.list)
  BY <1>1, InvFacts, MgrFields, LookupDPC DEF Sound, NoDPC
<1> HIDE DEF i
<1>3. /\ ListOK(l) /\ l \in Seq(DPC) /\ Len(l) = Len(m.list) - 1
      /\ \A j \in DOMAIN l : \E k \in DOMAIN m.list : k # i /\ l[j] = m.list[k]
  BY <1>2, RemovedOK DEF ListOK
<1> HIDE DEF l
<1>4. m.cur \in DOMAIN m.list \/ m.cur \in NoDPC..Len(l)
  BY <1>2, <1>3 DEF NoDPC
<1>5. /\ changeList(m, l) = c
      /\ Sound(v) /\ v.list = l
      /\ m.cur \notin DOMAIN m.list => v.cur = m.cur
      /\ m.cur \in DOMAIN m.list /\ v.cur # NoDPC =>
           \/ v.cur = lookupDPC(l, m.list[m.cur]) /\ v.cur = m.cur
           \/ WasDPCWorking(l[v.cur])
  BY <1>3, <1>4, InvFacts, MovedSound
<1> HIDE DEF v
<1>6. Switched(m, v)
  <2>1. SUFFICES ASSUME v.cur # NoDPC, ~WasDPCWorking(v.list[v.cur])
                 PROVE  m.cur # NoDPC /\ MostlyEqual(m.list[m.cur], v.list[v.cur])
    BY DEF Switched
  <2>2. m.cur \in DOMAIN m.list /\ m.cur # NoDPC /\ v.cur = lookupDPC(l, m.list[m.cur])
    BY <1>2, <1>5, <2>1
  <2>3. v.cur \in DOMAIN l
        /\ (SameDPC(l[v.cur], m.list[m.cur]) \/ MostlyEqual(l[v.cur], m.list[m.cur]))
    BY <1>3, <2>1, <2>2, LookupDPC
  <2>4. SameDPC(l[v.cur], m.list[m.cur]) => l[v.cur] = m.list[m.cur]
    BY <1>2, <1>3, <2>2, <2>3 DEF ListOK, Distinct
  <2>5. QED
    BY <1>5, <2>2, <2>3, <2>4 DEF MostlyEqual
<1>7. Switched(m, c) /\ Sound(c)
  <2>1. /\ Sound(c) /\ c.pc = v.pc /\ ((c.cur = NoDPC) <=> (v.cur = NoDPC))
        /\ v.cur # NoDPC => c.list[c.cur] = v.list[v.cur]
    BY <1>5, Compressed
  <2> HIDE DEF c
  <2>2. QED
    BY <1>6, <2>1 DEF Switched
<1> HIDE DEF c
<1>8. Switched(m, restartVerify(c)) /\ Sound(restartVerify(c))
  BY <1>7, VerifySwitches
<1>9. Switched(m, resumeVerifyIfAsyncDone(restartVerify(c)))
  BY <1>8, VerifySwitches
<1>10. QED
  BY <1>1, <1>5, <1>9 DEF l, i

\* A global config: the lastresort DPC may come or go
LEMMA UpdateGCPMoves == ASSUME DpcInv, UpdateGCP, AllUsable, ~held PROVE Moves(m, m')
<1> DEFINE first == ~m.hasGCP
           s(enable, a) == [Reconcile(m, a) EXCEPT !.hasGCP = TRUE, !.enableLastResort = enable,
                              !.test = @ \/ first, !.better = @ \/ (first /\ TestBetter)]
           t(enable, boot, a) ==
             IF \/ enable /\ ~m.enableLastResort
                \/ first /\ ~enable /\ m.list = <<>> /\ ~boot
             THEN addOrUpdateLastResortDPC(s(enable, a))
             ELSE IF ~enable /\ m.enableLastResort THEN compressDPCL(s(enable, a)) ELSE s(enable, a)
<1>1. PICK enable \in BOOLEAN, boot \in BOOLEAN, a \in BOOLEAN :
        m' = resumeVerifyIfAsyncDone(
               IF first /\ ~haveCurrentDPC(t(enable, boot, a)) THEN restartVerify(t(enable, boot, a))
               ELSE t(enable, boot, a))
  BY DEF UpdateGCP
<1>2. m.pc = "idle" /\ Sound(m) /\ Free(m)
  BY InvFacts DEF UpdateGCP
<1> DEFINE r == Reconcile(m, a)
           u == s(enable, a)
           v == t(enable, boot, a)
<1>3. r \in Mgrs /\ Alike(m, r)
  BY InvFacts, Reconciled
<1>4. /\ u \in Mgrs /\ u.list = m.list /\ u.cur = m.cur /\ u.pc = "idle"
      /\ u.lps = m.lps /\ u.rs = m.rs /\ u.enableLastResort = enable
  <2> DEFINE x == r.test \/ first
             y == r.better \/ (first /\ TestBetter)
  <2>1. x \in BOOLEAN /\ y \in BOOLEAN
    OBVIOUS
  <2>2. u = [r EXCEPT !.hasGCP = TRUE, !.enableLastResort = enable, !.test = x, !.better = y]
    BY <1>3 DEF Mgrs
  <2> HIDE DEF x, y, u, r, first
  <2> DEFINE k == [r EXCEPT !.hasGCP = TRUE, !.enableLastResort = enable]
  <2>3. k \in Mgrs /\ k.list = r.list /\ k.cur = r.cur /\ k.pc = r.pc /\ k.lps = r.lps
        /\ k.rs = r.rs /\ k.enableLastResort = enable
    BY <1>3 DEF Mgrs
  <2>4. u = [k EXCEPT !.test = x, !.better = y]
    BY <2>2
  <2> HIDE DEF k
  <2>5. u \in Mgrs /\ u.list = k.list /\ u.cur = k.cur /\ u.pc = k.pc /\ u.lps = k.lps
        /\ u.rs = k.rs /\ u.enableLastResort = k.enableLastResort
    BY <2>1, <2>3, <2>4 DEF Mgrs
  <2>6. QED
    BY <1>2, <1>3, <2>3, <2>5 DEF Alike
<1>5. \/ v = addOrUpdateLastResortDPC(u) /\ (enable \/ m.list = <<>>)
      \/ v = compressDPCL(u)
      \/ v = u
  OBVIOUS
<1> HIDE DEF s, t, u, v
<1>6. Sound(u) /\ Moves(m, u) /\ Free(u)
  BY <1>2, <1>4, SameSound, HandlerMoves DEF Free
<1>7. Moves(m, compressDPCL(u)) /\ Sound(compressDPCL(u))
  <2>1. ManagedWorks(m.list) => SomeWorks(u.list)
    BY <1>4 DEF ManagedWorks, SomeWorks
  <2>2. QED
    BY <1>6, <2>1, CompressMoves, Compressed DEF Moves
<1>8. ASSUME enable \/ m.list = <<>>
      PROVE  Moves(m, addOrUpdateLastResortDPC(u)) /\ Sound(addOrUpdateLastResortDPC(u))
  <2>1. ManagedWorks(u.list) => u.enableLastResort
    BY <1>4, <1>8 DEF ManagedWorks
  <2>2. Moves(u, addOrUpdateLastResortDPC(u)) /\ Sound(addOrUpdateLastResortDPC(u))
    BY <1>4, <1>6, <2>1, LastResortMoves
  <2>3. QED
    BY <1>4, <2>2 DEF Moves, Switched
<1>9. Moves(m, v) /\ Sound(v)
  BY <1>5, <1>6, <1>7, <1>8
<1>10. Moves(m, restartVerify(v)) /\ Sound(restartVerify(v))
  BY <1>9, VerifyMoves
<1>11. Moves(m, resumeVerifyIfAsyncDone(v)) /\ Moves(m, resumeVerifyIfAsyncDone(restartVerify(v)))
  BY <1>9, <1>10, VerifyMoves
<1>12. QED
  BY <1>1, <1>11 DEF v

\* There has been no DPC for too long: with none there is nothing to lose
LEMMA AvailTimerMoves == ASSUME DpcInv, dpcAvailTimer, AllUsable, ~held PROVE Moves(m, m')
<1> DEFINE s == [m EXCEPT !.avail = FALSE]
<1>1. m.pc = "idle" /\ m' = IF m.list = <<>> THEN addOrUpdateLastResortDPC(s) ELSE s
  BY DEF dpcAvailTimer
<1>2. s \in Mgrs /\ s.list = m.list /\ s.cur = m.cur /\ s.pc = m.pc /\ s.lps = m.lps /\ s.rs = m.rs
  BY InvFacts DEF Mgrs
<1> HIDE DEF s
<1>3. Sound(s) /\ Moves(m, s) /\ Free(s)
  BY <1>2, InvFacts, SameSound, HandlerMoves DEF Free
<1>4. CASE m.list = <<>>
  <2>1. ~ManagedWorks(s.list)
    BY <1>2, <1>4 DEF ManagedWorks
  <2>2. Moves(s, addOrUpdateLastResortDPC(s))
    BY <1>1, <1>2, <1>3, <2>1, LastResortMoves
  <2>3. QED
    BY <1>1, <1>2, <1>4, <2>2 DEF Moves, Switched
<1>5. CASE m.list # <<>>
  BY <1>1, <1>3, <1>5
<1>6. QED
  BY <1>4, <1>5

\* Every step but a deletion
LEMMA StepMoves ==
  ASSUME DpcInv, Next, AllUsable, ~held'
  PROVE  Switched(m, m') /\ (deleted' = deleted => Kept(m.list, m'.list))
<1>1. CASE verifyNext
  <2>1. PICK a \in BOOLEAN : m' = afterTest(verifyDPC(m, a))
    BY <1>1 DEF verifyNext
  <2>2. m.pc = "loop" /\ m.cur # NoDPC
    BY <1>1, InvFacts DEF verifyNext, Timers
  <2>3. QED
    BY <2>1, <2>2, InvFacts, LoopMoves DEF Moves
<1>2. CASE DelDPC
  <2>1. deleted' # deleted
    BY <1>2, InvFacts DEF DelDPC
  <2>2. QED
    BY <1>2, <2>1, DelDPCSwitches
<1>3. CASE AddDPC
  <2>1. ~held
    BY <1>3 DEF AddDPC
  <2>2. QED
    BY <1>3, <2>1, AddDPCMoves DEF Moves
<1>4. CASE UpdateGCP
  <2>1. ~held
    BY <1>4 DEF UpdateGCP
  <2>2. QED
    BY <1>4, <2>1, UpdateGCPMoves DEF Moves
<1>5. CASE dpcAvailTimer
  <2>1. ~held
    BY <1>5 DEF dpcAvailTimer
  <2>2. QED
    BY <1>5, <2>1, AvailTimerMoves DEF Moves
<1>6. CASE AddLpsDPC \/ UpdateRadioSilence \/ ProcessWwanStatus
  BY <1>6, CommandMoves DEF Moves
<1>7. CASE \/ UpdateAA \/ ResumeReconcile \/ AddrChange \/ pendingDpcTimer \/ dpcTestBetterTimer
           \/ tick \/ networkChanges \/ reboot
  BY <1>7, EventMoves DEF Moves
<1>8. CASE failureAges
  BY <1>8, FailureAgesMoves DEF Moves
<1>9. CASE dpcTestTimer
  BY <1>9, TestTimerMoves DEF Moves
<1>10. QED
  BY <1>1, <1>2, <1>3, <1>4, <1>5, <1>6, <1>7, <1>8, <1>9 DEF Next

\* The device changes to another DPC only to test it, or if that one has worked last time
\* (updateDPCListAndPublish, compressDPCL, runVerify): whatever is added, replaced or deleted,
\* CurrentIndex never ends up at a DPC by the shift of an index alone
THEOREM SwitchesAreTested == Spec => SwitchIsTested
<1> DEFINE P == AllUsable /\ ~held' /\ m'.cur # NoDPC
                /\ (m.cur = NoDPC \/ ~MostlyEqual(currentDPC(m), currentDPC(m')))
                  => m'.pc = "loop" \/ WasDPCWorking(currentDPC(m'))
<1>1. DpcInv /\ [Next]_vars => [P]_vars
  <2>1. SUFFICES ASSUME DpcInv, Next PROVE P
    BY DEF vars
  <2>2. SUFFICES ASSUME AllUsable, ~held' PROVE P
    OBVIOUS
  <2>3. Switched(m, m')
    BY <2>1, <2>2, StepMoves
  <2>4. QED
    BY <2>3 DEF Switched, currentDPC
<1>2. QED
  BY <1>1, DpcInvariant, PTL DEF Spec, SwitchIsTested

\* As long as some DPC of the controller, an override or the last resort has worked there is one
\* to fall back to (compressDPCL, updateDPC): no step but a deletion takes the last one away
THEOREM FallbackIsKept == Spec => FallbackKept
<1> DEFINE P == AllUsable /\ ~held' /\ deleted' = deleted
                /\ (\E i \in DOMAIN m.list : WasDPCWorking(m.list[i]) /\ m.list[i].key # "manual")
                  => \E j \in DOMAIN m'.list :
                       \/ WasDPCWorking(m'.list[j])
                       \/ \E i \in DOMAIN m.list : WasDPCWorking(m.list[i]) /\ SameDPC(m'.list[j], m.list[i])
<1>1. DpcInv /\ [Next]_vars => [P]_vars
  <2>1. SUFFICES ASSUME DpcInv, Next PROVE P
    BY DEF vars
  <2>2. SUFFICES ASSUME AllUsable, ~held', deleted' = deleted PROVE P
    OBVIOUS
  <2>3. Kept(m.list, m'.list)
    BY <2>1, <2>2, StepMoves
  <2>4. QED
    BY <2>3 DEF Kept, ManagedWorks, SomeFallback, Fallback
<1>2. QED
  BY <1>1, DpcInvariant, PTL DEF Spec, FallbackKept

=============================================================================
