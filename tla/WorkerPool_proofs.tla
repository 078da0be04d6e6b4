------------------------- MODULE WorkerPool_proofs -------------------------
(***************************************************************************)
(* Proofs about the pool of workers, for any number of workers, keys and   *)
(* jobs: the types with the bound on the pool, that the channel of results *)
(* stays open, and that a result that was processed is found by Pop.       *)
(*                                                                         *)
(* The collector looks at counters and not at the goroutines, so the proof *)
(* has to say that the counters tell where the jobs are (FlowInv): a       *)
(* worker it takes has no job in hand, none on its way through mergeResult *)
(* and none in the channel, although TrySubmit counts a request only after *)
(* the job was handed over.                                                *)
(***************************************************************************)
EXTENDS WorkerPool, FiniteSetTheorems, SequenceTheorems, FunctionTheorems, TLAPS

USE PoolAssumption DEF PoolAssumption

-----------------------------------------------------------------------------
(* The inductive invariant *)

\* 1 or 0
One(b) == IF b THEN 1 ELSE 0

InPool(w) == \E i \in 1..Len(pool) : pool[i] = w

\* The pool has a worker once and, from the first job on, at least one; a worker's
\* goroutine ends only out of the pool
PlaceInv ==
  /\ \A i \in 1..Len(pool) : pool[i] <= made
  /\ \A i, j \in 1..Len(pool) : pool[i] = pool[j] => i = j
  /\ made > 0 => Len(pool) > 0
  /\ \A w \in Workers :
       /\ w > made => wpc[w] = "none"
       /\ InPool(w) => wpc[w] \in {"ready", "work", "send", "settle"}
       /\ w <= made /\ ~InPool(w) => wpc[w] \in {"settle", "ended", "gone"}

\* The submission under way is at a worker of the pool
SubmitInv ==
  \/ submit = NoSubmit
  \/ /\ submit.at = "try" /\ submit.k \in Keys /\ submit.i \in 1..(Len(pool) + 1) /\ ~submit.new
  \/ /\ submit.at = "new" /\ submit.k \in Keys /\ InPool(submit.w) /\ submit.new
  \/ /\ submit.at = "note" /\ submit.k \in Keys /\ InPool(submit.w)
     /\ ~submit.new => submit.i \in 1..Len(pool) /\ submit.w = pool[submit.i]

\* A worker out of the pool has nothing pending and no result
IdleInv == \A w \in Workers : ~InPool(w) => requestCount[w] = resultCount[w] /\ resultMap[w] = {}

FiniteInv == \A w \in Workers : IsFiniteSet(resultMap[w])
JobInv == \A w \in Workers : wpc[w] \in {"work", "send", "settle"} => job[w] \in Keys

\* The places of a sequence with a member of S
Places(q, S) == {i \in 1..Len(q) : q[i] \in S}

OfWorker(w) == {r \in Results : r.w = w}
OfKey(k) == {r \in Results : r.k = k}

\* Where the jobs are that a worker was given and whose results were not processed
FlowInv ==
  \A w \in Workers :
    requestCount[w] + One(submit.at = "note" /\ submit.w = w)
      = resultCount[w] + One(wpc[w] \in {"work", "send"}) + One(merged[w] # NoResult)
          + Cardinality(Places(resultChan, OfWorker(w)))

WorkingOn(k) == {w \in Workers : wpc[w] \in {"work", "send"} /\ job[w] = k}
MergedOf(k) == {w \in Workers : merged[w] = k}

\* The same for the jobs of a key
KeyInv ==
  \A k \in Keys : accepted[k] = Cardinality(WorkingOn(k)) + Cardinality(MergedOf(k))
                                  + Cardinality(Places(resultChan, OfKey(k)))

Active == {w \in Workers : wpc[w] \notin {"none", "gone"}}
ChannelInv == numChan = Cardinality(Active) /\ ~closed

PoolInv ==
  /\ PoolTypeOK /\ PlaceInv /\ SubmitInv /\ IdleInv /\ FiniteInv /\ JobInv
  /\ FlowInv /\ KeyInv /\ ChannelInv /\ KeptIsFound

-----------------------------------------------------------------------------
(* Counting *)

\* The places of a sequence are finitely many
LEMMA PlacesFinite ==
  ASSUME NEW R, NEW q \in Seq(R), NEW S
  PROVE  IsFiniteSet(Places(q, S)) /\ Cardinality(Places(q, S)) \in Nat
<1>1. Len(q) \in Nat
  OBVIOUS
<1>2. IsFiniteSet(1..Len(q))
  BY <1>1, FS_Interval
<1>3. Places(q, S) \in SUBSET (1..Len(q))
  BY DEF Places
<1>4. IsFiniteSet(Places(q, S))
  BY <1>2, <1>3, FS_Subset
<1>5. QED
  BY <1>4, FS_CardinalityType

\* One more place when a member of S is appended
LEMMA PlacesAppend ==
  ASSUME NEW R, NEW q \in Seq(R), NEW S, NEW x \in R
  PROVE  Cardinality(Places(Append(q, x), S)) = Cardinality(Places(q, S)) + One(x \in S)
<1> DEFINE n == Len(q) + 1
<1>1. Len(q) \in Nat /\ Len(Append(q, x)) = n /\ Append(q, x)[n] = x
         /\ \A i \in 1..Len(q) : Append(q, x)[i] = q[i]
  BY AppendProperties
<1>2. IsFiniteSet(Places(q, S)) /\ Cardinality(Places(q, S)) \in Nat /\ n \notin Places(q, S)
  <2>1. IsFiniteSet(Places(q, S)) /\ Cardinality(Places(q, S)) \in Nat
    BY PlacesFinite
  <2>2. n \notin Places(q, S)
    BY <1>1 DEF Places
  <2>3. QED
    BY <2>1, <2>2
<1>3. CASE x \in S
  <2>1. Places(Append(q, x), S) = Places(q, S) \cup {n}
    BY <1>1, <1>3 DEF Places
  <2>2. QED
    BY <1>2, <1>3, <2>1, FS_AddElement DEF One
<1>4. CASE x \notin S
  <2>1. Places(Append(q, x), S) = Places(q, S)
    BY <1>1, <1>4 DEF Places
  <2>2. QED
    BY <1>2, <1>4, <2>1 DEF One
<1>5. QED
  BY <1>3, <1>4

\* One place less when a member of S is taken from the head
LEMMA PlacesTail ==
  ASSUME NEW R, NEW q \in Seq(R), NEW S, q # <<>>
  PROVE  Cardinality(Places(q, S)) = Cardinality(Places(Tail(q), S)) + One(Head(q) \in S)
<1> DEFINE P == Places(q, S) \ {1}
           Q == Places(Tail(q), S)
           f == [i \in P |-> i - 1]
<1>1. Len(q) \in Nat \ {0} /\ Tail(q) \in Seq(R) /\ Len(Tail(q)) = Len(q) - 1
         /\ \A i \in 1..(Len(q) - 1) : Tail(q)[i] = q[i + 1]
  OBVIOUS
<1>2. P \subseteq 2..Len(q) /\ Q \subseteq 1..(Len(q) - 1)
         /\ \A i \in 2..Len(q) : i \in P <=> i - 1 \in Q
  BY <1>1 DEF Places
<1> HIDE DEF P, Q
<1>3. f \in Bijection(P, Q)
  <2>1. f \in [P -> Q]
    BY <1>1, <1>2
  <2>2. \A a, b \in P : f[a] = f[b] => a = b
    BY <1>1, <1>2
  <2>3. \A t \in Q : t + 1 \in P /\ f[t + 1] = t
    BY <1>1, <1>2
  <2> HIDE DEF f
  <2>4. QED
    BY <2>1, <2>2, <2>3 DEF Bijection, Injection, Surjection, IsInjective
<1>4. ExistsBijection(P, Q)
  BY <1>3 DEF ExistsBijection
<1>5. IsFiniteSet(Places(q, S)) /\ Cardinality(Places(q, S)) \in Nat
  BY PlacesFinite
<1>6. IsFiniteSet(P) /\ Cardinality(P) = IF 1 \in Places(q, S) THEN Cardinality(Places(q, S)) - 1
                                          ELSE Cardinality(Places(q, S))
  BY <1>5, FS_RemoveElement DEF P
<1>7. Cardinality(Q) = Cardinality(P)
  BY <1>4, <1>6, FS_Bijection
<1>8. 1 \in Places(q, S) <=> Head(q) \in S
  BY <1>1 DEF Places
<1>9. QED
  BY <1>5, <1>6, <1>7, <1>8 DEF One, Q

\* A set of workers is finite
LEMMA WorkersFinite ==
  ASSUME NEW S \in SUBSET Workers
  PROVE  IsFiniteSet(S) /\ Cardinality(S) \in Nat
<1>1. IsFiniteSet(Workers)
  BY FS_Interval DEF Workers
<1>2. IsFiniteSet(S)
  BY <1>1, FS_Subset
<1>3. QED
  BY <1>2, FS_CardinalityType

-----------------------------------------------------------------------------
(* The collection of workers *)

\* What purgeOld leaves of a pool that has each worker once
LEMMA Purged ==
  ASSUME PoolTypeOK, PlaceInv, NEW start \in Nat, purgeOld(start)
  PROVE  \E gone \in SUBSET Workers :
           /\ pool' \in Seq(Workers) /\ Len(pool') <= Len(pool)
           /\ \A w \in Workers : InPool(w)' <=> InPool(w) /\ w \notin gone
           /\ \A i, j \in 1..Len(pool') : pool'[i] = pool'[j] => i = j
           /\ Len(pool) > 0 => Len(pool') > 0
           /\ \A w \in gone : \E i \in 1..Len(pool) : /\ i > start + 1 /\ w = pool[i]
                                                      /\ NumPending(w) = 0 /\ NumResults(w) = 0
           /\ wpc' = [w \in Workers |-> IF w \in gone /\ wpc[w] = "ready" THEN "ended" ELSE wpc[w]]
<1>1. PICK old \in SUBSET {i \in 1..Len(pool) : purgeable(i, start)} :
        /\ \E f \in others(old) : pool' = [i \in DOMAIN f |-> pool[f[i]]]
        /\ wpc' = [w \in Workers |-> IF w \in {pool[i] : i \in old} /\ wpc[w] = "ready"
                                     THEN "ended" ELSE wpc[w]]
  BY DEF purgeOld
<1>2. PICK f \in others(old) : pool' = [i \in DOMAIN f |-> pool[f[i]]]
  BY <1>1
<1> DEFINE gone == {pool[i] : i \in old}
<1>3. pool \in Seq(Workers) /\ Len(pool) \in Nat /\ old \subseteq 1..Len(pool)
         /\ \A i \in 1..Len(pool) : pool[i] \in Workers
  BY DEF PoolTypeOK
<1>4. PICK n \in 0..Len(pool) : f \in [1..n -> (1..Len(pool)) \ old]
  BY DEF others
<1>5. /\ \A i, j \in 1..n : i < j => f[i] < f[j]
      /\ \A k \in (1..Len(pool)) \ old : \E i \in 1..n : f[i] = k
  BY <1>4 DEF others, Range
<1>6. pool' = [i \in 1..n |-> pool[f[i]]] /\ n \in Nat
  BY <1>2, <1>3, <1>4
<1>7. \A i \in 1..n : f[i] \in 1..Len(pool) /\ f[i] \notin old
  BY <1>4
<1>8. pool' \in Seq(Workers) /\ Len(pool') = n /\ \A i \in 1..n : pool'[i] = pool[f[i]]
  BY <1>3, <1>6, <1>7
<1>9. \A i, j \in 1..Len(pool) : pool[i] = pool[j] => i = j
  BY DEF PlaceInv
<1>10. gone \in SUBSET Workers
  BY <1>3
<1>11. ASSUME NEW w \in Workers PROVE InPool(w)' <=> InPool(w) /\ w \notin gone
  <2>1. ASSUME InPool(w)' PROVE InPool(w) /\ w \notin gone
    <3>1. PICK i \in 1..n : pool[f[i]] = w
      BY <1>8, <2>1 DEF InPool
    <3>2. InPool(w)
      BY <1>7, <3>1 DEF InPool
    <3>3. w \notin gone
      BY <1>3, <1>7, <1>9, <3>1
    <3>4. QED
      BY <3>2, <3>3
  <2>2. ASSUME InPool(w), w \notin gone PROVE InPool(w)'
    <3>1. PICK k \in 1..Len(pool) : pool[k] = w
      BY <2>2 DEF InPool
    <3>2. k \notin old
      BY <2>2, <3>1
    <3>3. PICK i \in 1..n : f[i] = k
      BY <1>5, <3>2
    <3>4. QED
      BY <1>8, <3>1, <3>3 DEF InPool
  <2>3. QED
    BY <2>1, <2>2
<1>12. ASSUME NEW i \in 1..n, NEW j \in 1..n, pool'[i] = pool'[j] PROVE i = j
  <2>1. f[i] = f[j]
    BY <1>7, <1>8, <1>9, <1>12
  <2>2. f[i] \in Int /\ ~(f[i] < f[i])
    BY <1>3, <1>7
  <2>3. ~(i < j) /\ ~(j < i)
    BY <1>5, <2>1, <2>2
  <2>4. QED
    BY <1>4, <2>3
<1>13. ASSUME Len(pool) > 0 PROVE n > 0
  <2>1. 1 \in 1..Len(pool) /\ 1 \notin old
    BY <1>1, <1>3, <1>13 DEF purgeable
  <2>2. PICK i \in 1..n : f[i] = 1
    BY <1>5, <2>1
  <2>3. QED
    BY <1>6, <2>2
<1>14. \A w \in gone : \E i \in 1..Len(pool) : /\ i > start + 1 /\ w = pool[i]
                                               /\ NumPending(w) = 0 /\ NumResults(w) = 0
  BY <1>1 DEF purgeable
<1>15. wpc' = [w \in Workers |-> IF w \in gone /\ wpc[w] = "ready" THEN "ended" ELSE wpc[w]]
  BY <1>1
<1>16. Len(pool') <= Len(pool)
  BY <1>3, <1>4, <1>8
<1> HIDE DEF gone
<1>17. QED
  BY <1>8, <1>10, <1>11, <1>12, <1>13, <1>14, <1>15, <1>16

\* A worker whose counters are equal has no job in hand and no result on its way
LEMMA Quiet ==
  ASSUME PoolInv, NEW w \in Workers, requestCount[w] = resultCount[w],
         ~(submit.at = "note" /\ submit.w = w)
  PROVE  /\ wpc[w] \notin {"work", "send"} /\ merged[w] = NoResult
         /\ Places(resultChan, OfWorker(w)) = {}
<1> DEFINE c == Cardinality(Places(resultChan, OfWorker(w)))
<1>1. resultCount[w] \in Nat /\ resultChan \in Seq(Results)
  BY DEF PoolInv, PoolTypeOK
<1>2. c \in Nat /\ IsFiniteSet(Places(resultChan, OfWorker(w)))
  BY <1>1, PlacesFinite
<1>3. requestCount[w] + One(submit.at = "note" /\ submit.w = w)
        = resultCount[w] + One(wpc[w] \in {"work", "send"}) + One(merged[w] # NoResult) + c
  BY DEF PoolInv, FlowInv
<1> HIDE DEF c
<1>4. /\ One(submit.at = "note" /\ submit.w = w) = 0
      /\ One(wpc[w] \in {"work", "send"}) = IF wpc[w] \in {"work", "send"} THEN 1 ELSE 0
      /\ One(merged[w] # NoResult) = IF merged[w] # NoResult THEN 1 ELSE 0
  BY DEF One
<1>5. wpc[w] \notin {"work", "send"} /\ merged[w] = NoResult /\ c = 0
  BY <1>1, <1>2, <1>3, <1>4
<1>6. QED
  BY <1>2, <1>5, FS_EmptySet DEF c

\* Every worker the collector takes is quiet and has no result
LEMMA GoneAreQuiet ==
  ASSUME PoolInv, NEW w \in Workers, NumPending(w) = 0, NumResults(w) = 0,
         ~(submit.at = "note" /\ submit.w = w)
  PROVE  /\ requestCount[w] = resultCount[w] /\ resultMap[w] = {}
         /\ wpc[w] \notin {"work", "send"} /\ merged[w] = NoResult
         /\ Places(resultChan, OfWorker(w)) = {}
<1>1. requestCount[w] \in Nat /\ resultCount[w] \in Nat /\ IsFiniteSet(resultMap[w])
  BY DEF PoolInv, PoolTypeOK, FiniteInv
<1>2. requestCount[w] = resultCount[w]
  BY <1>1 DEF NumPending
<1>3. resultMap[w] = {}
  BY <1>1, FS_EmptySet DEF NumResults
<1>4. QED
  BY <1>2, <1>3, Quiet

\* A set of workers with one more
LEMMA OneMore ==
  ASSUME NEW S \in SUBSET Workers, NEW w \in Workers, w \notin S
  PROVE  Cardinality(S \cup {w}) = Cardinality(S) + 1
BY WorkersFinite, FS_AddElement

\* A set of workers with one less
LEMMA OneLess ==
  ASSUME NEW S \in SUBSET Workers, NEW w \in S
  PROVE  Cardinality(S \ {w}) = Cardinality(S) - 1
BY WorkersFinite, FS_RemoveElement

-----------------------------------------------------------------------------
(* What the main loop does *)

\* The type of a submission
SubmitType ==
  [at : {"none", "try", "new", "note"}, k : Keys \cup {NoKey},
   i : 0..(MaxWorkers + 1), w : Workers \cup {NoWorker}, new : BOOLEAN]

\* The submission moves on, and no job is handed over
LEMMA SubmissionMoves ==
  ASSUME PoolInv, submit' \in SubmitType, SubmitInv', jobs' \in 0..MaxJobs,
         submit.at # "note", submit'.at # "note",
         UNCHANGED <<pool, made, workerVars, channelVars, historyVars>>
  PROVE  PoolInv'
<1>1. /\ pool' = pool /\ made' = made /\ wpc' = wpc /\ job' = job /\ merged' = merged
      /\ workMap' = workMap /\ resultMap' = resultMap
      /\ requestCount' = requestCount /\ resultCount' = resultCount
      /\ numChan' = numChan /\ resultChan' = resultChan /\ closed' = closed
      /\ accepted' = accepted /\ kept' = kept
  BY DEF workerVars, channelVars, historyVars
<1>2. PoolTypeOK'
  BY <1>1 DEF PoolInv, PoolTypeOK, SubmitType
<1>3. PlaceInv'
  BY <1>1 DEF PoolInv, PlaceInv, InPool
<1>4. IdleInv' /\ FiniteInv' /\ JobInv' /\ KeptIsFound'
  BY <1>1 DEF PoolInv, IdleInv, InPool, FiniteInv, JobInv, KeptIsFound
<1>5. FlowInv'
  BY <1>1 DEF PoolInv, FlowInv, One
<1>6. KeyInv' /\ ChannelInv'
  BY <1>1 DEF PoolInv, KeyInv, ChannelInv, WorkingOn, MergedOf, Active
<1>7. QED
  BY <1>2, <1>3, <1>4, <1>5, <1>6 DEF PoolInv

\* NoSubmit is a submission
LEMMA NoSubmitType == NoSubmit \in SubmitType /\ NoSubmit.at = "none"
BY DEF NoSubmit, SubmitType, NoWorker

\* A submission begins
LEMMA TrySubmitKeeps ==
  ASSUME PoolInv, NEW k \in Keys, TrySubmit(k)
  PROVE  PoolInv'
<1>1. submit.at = "none" /\ submit' = [at |-> "try", k |-> k, i |-> 1, w |-> NoWorker, new |-> FALSE]
  BY DEF TrySubmit, Unlocked, NoSubmit
<1>2. submit' \in SubmitType /\ jobs' \in 0..MaxJobs
  BY <1>1 DEF TrySubmit, SubmitType, NoWorker, PoolInv, PoolTypeOK
<1>3. UNCHANGED <<pool, made, workerVars, channelVars, historyVars>>
  BY DEF TrySubmit
<1>4. SubmitInv'
  BY <1>1, <1>3 DEF SubmitInv, PoolInv, PoolTypeOK
<1>5. QED
  BY <1>1, <1>2, <1>3, <1>4, SubmissionMoves

\* The caller gets an error
LEMMA refuseKeeps ==
  ASSUME PoolInv, refuse
  PROVE  PoolInv'
<1>1. submit.at = "try" /\ submit' = NoSubmit /\ jobs' = jobs
         /\ UNCHANGED <<pool, made, workerVars, channelVars, historyVars>>
  BY DEF refuse
<1>2. SubmitInv' /\ jobs' \in 0..MaxJobs
  BY <1>1 DEF SubmitInv, PoolInv, PoolTypeOK
<1>3. QED
  BY <1>1, <1>2, NoSubmitType, SubmissionMoves

\* A worker takes the job
LEMMA handOverKeeps ==
  ASSUME PoolInv, NEW w \in Workers, InPool(w), handOver(w), submit.k \in Keys,
         submit.at \in {"try", "new"},
         ~submit.new => submit.i \in 1..Len(pool) /\ w = pool[submit.i],
         UNCHANGED <<pool, made, merged, workMap, resultMap, requestCount, resultCount,
                     channelVars, jobs, kept>>
  PROVE  PoolInv'
<1>1. /\ pool' = pool /\ made' = made /\ merged' = merged /\ workMap' = workMap
      /\ resultMap' = resultMap /\ requestCount' = requestCount /\ resultCount' = resultCount
      /\ numChan' = numChan /\ resultChan' = resultChan /\ closed' = closed
      /\ jobs' = jobs /\ kept' = kept
  BY DEF channelVars
<1>2. /\ wpc[w] = "ready" /\ wpc' = [wpc EXCEPT ![w] = "work"]
      /\ job' = [job EXCEPT ![w] = submit.k]
      /\ submit' = [submit EXCEPT !.at = "note", !.w = w]
      /\ accepted' = [accepted EXCEPT ![submit.k] = @ + 1]
  BY DEF handOver
<1>3. submit \in SubmitType /\ PoolTypeOK
  BY DEF PoolInv, PoolTypeOK, SubmitType
<1>4. submit' \in SubmitType /\ submit'.at = "note" /\ submit'.w = w /\ submit'.k = submit.k
         /\ submit'.i = submit.i /\ submit'.new = submit.new
  BY <1>2, <1>3 DEF SubmitType
<1>5. /\ wpc \in [Workers -> {"none", "ready", "work", "send", "settle", "ended", "gone"}]
      /\ job \in [Workers -> Keys \cup {NoKey}] /\ accepted \in [Keys -> Nat]
  BY <1>3 DEF PoolTypeOK
<1>6. /\ wpc'[w] = "work" /\ job'[w] = submit.k
      /\ \A v \in Workers \ {w} : wpc'[v] = wpc[v] /\ job'[v] = job[v]
      /\ \A k \in Keys : accepted'[k] = accepted[k] + One(k = submit.k)
  BY <1>2, <1>5 DEF One
<1>7. PoolTypeOK'
  <2>1. /\ wpc' \in [Workers -> {"none", "ready", "work", "send", "settle", "ended", "gone"}]
        /\ job' \in [Workers -> Keys \cup {NoKey}] /\ accepted' \in [Keys -> Nat]
    BY <1>2, <1>5
  <2>2. QED
    BY <1>1, <1>3, <1>4, <2>1 DEF PoolTypeOK, SubmitType
<1>8. PlaceInv'
  BY <1>1, <1>2, <1>6 DEF PoolInv, PlaceInv, InPool
<1>9. SubmitInv'
  BY <1>1, <1>4 DEF SubmitInv, InPool
<1>10. IdleInv' /\ FiniteInv' /\ KeptIsFound'
  BY <1>1 DEF PoolInv, IdleInv, InPool, FiniteInv, KeptIsFound
<1>11. JobInv'
  BY <1>6 DEF PoolInv, JobInv
<1>12. FlowInv'
  <2>1. ASSUME NEW v \in Workers
        PROVE  (requestCount[v] + One(submit.at = "note" /\ submit.w = v)
                  = resultCount[v] + One(wpc[v] \in {"work", "send"}) + One(merged[v] # NoResult)
                      + Cardinality(Places(resultChan, OfWorker(v))))'
    <3> DEFINE c == Cardinality(Places(resultChan, OfWorker(v)))
    <3>1. c \in Nat /\ resultCount[v] \in Nat /\ requestCount[v] \in Nat
      BY <1>3, PlacesFinite DEF PoolTypeOK
    <3>2. requestCount[v] + One(submit.at = "note" /\ submit.w = v)
            = resultCount[v] + One(wpc[v] \in {"work", "send"}) + One(merged[v] # NoResult) + c
      BY DEF PoolInv, FlowInv
    <3>3. c' = c
      BY <1>1 DEF OfWorker
    <3>4. One(submit.at = "note" /\ submit.w = v) = 0
             /\ One(submit'.at = "note" /\ submit'.w = v) = One(v = w)
             /\ One(wpc'[v] \in {"work", "send"}) = One(wpc[v] \in {"work", "send"}) + One(v = w)
      BY <1>2, <1>4, <1>6 DEF One
    <3>5. One(v = w) \in Nat /\ One(wpc[v] \in {"work", "send"}) \in Nat
             /\ One(merged[v] # NoResult) \in Nat
      BY DEF One
    <3> HIDE DEF c
    <3>6. requestCount[v] + One(submit'.at = "note" /\ submit'.w = v)
            = resultCount[v] + One(wpc'[v] \in {"work", "send"}) + One(merged[v] # NoResult) + c
      BY <3>1, <3>2, <3>4, <3>5
    <3>7. QED
      BY <1>1, <3>3, <3>6 DEF c
  <2>2. QED
    BY <2>1 DEF FlowInv
<1>13. KeyInv'
  <2>1. ASSUME NEW k \in Keys
        PROVE  (accepted[k] = Cardinality(WorkingOn(k)) + Cardinality(MergedOf(k))
                                + Cardinality(Places(resultChan, OfKey(k))))'
    <3>1. WorkingOn(k)' = IF k = submit.k THEN WorkingOn(k) \cup {w} ELSE WorkingOn(k)
      BY <1>2, <1>6 DEF WorkingOn
    <3>2. w \notin WorkingOn(k) /\ WorkingOn(k) \in SUBSET Workers
             /\ MergedOf(k) \in SUBSET Workers
      BY <1>2 DEF WorkingOn, MergedOf
    <3>3. Cardinality(WorkingOn(k)') = Cardinality(WorkingOn(k)) + One(k = submit.k)
      BY <3>1, <3>2, OneMore, WorkersFinite DEF One
    <3>4. MergedOf(k)' = MergedOf(k) /\ Places(resultChan, OfKey(k))' = Places(resultChan, OfKey(k))
      BY <1>1 DEF MergedOf, Places, OfKey
    <3>5. Cardinality(WorkingOn(k)) \in Nat /\ Cardinality(MergedOf(k)) \in Nat
             /\ Cardinality(Places(resultChan, OfKey(k))) \in Nat /\ One(k = submit.k) \in Nat
      BY <1>3, <3>2, WorkersFinite, PlacesFinite DEF PoolTypeOK, One
    <3>6. accepted[k] = Cardinality(WorkingOn(k)) + Cardinality(MergedOf(k))
                          + Cardinality(Places(resultChan, OfKey(k)))
      BY DEF PoolInv, KeyInv
    <3>7. accepted'[k] = accepted[k] + One(k = submit.k)
      BY <1>6
    <3>8. QED
      BY <3>3, <3>4, <3>5, <3>6, <3>7
  <2>2. QED
    BY <2>1 DEF KeyInv
<1>14. ChannelInv'
  <2>1. Active' = Active
    BY <1>2, <1>6 DEF Active
  <2>2. QED
    BY <1>1, <2>1 DEF PoolInv, ChannelInv
<1>15. QED
  BY <1>7, <1>8, <1>9, <1>10, <1>11, <1>12, <1>13, <1>14 DEF PoolInv

\* TrySubmit asks a worker of the pool
LEMMA tryWorkerKeeps ==
  ASSUME PoolInv, tryWorker
  PROVE  PoolInv'
<1> DEFINE w == pool[submit.i]
<1>1. submit.at = "try" /\ submit.i <= Len(pool)
         /\ UNCHANGED <<pool, made, merged, workMap, resultMap, requestCount, resultCount,
                        channelVars, jobs, kept>>
  BY DEF tryWorker
<1>2. submit.k \in Keys /\ submit.i \in 1..Len(pool) /\ ~submit.new
  BY <1>1 DEF PoolInv, SubmitInv, NoSubmit, PoolTypeOK
<1>3. w \in Workers /\ InPool(w) /\ submit \in SubmitType /\ jobs \in 0..MaxJobs
         /\ Len(pool) \in 0..MaxWorkers
  BY <1>2 DEF PoolInv, PoolTypeOK, SubmitType, InPool
<1>4. CASE submit' = NoSubmit /\ UNCHANGED <<wpc, job, accepted>>
  <2>1. SubmitInv' /\ jobs' \in 0..MaxJobs
    BY <1>1, <1>3, <1>4 DEF SubmitInv
  <2>2. UNCHANGED <<pool, made, workerVars, channelVars, historyVars>>
    BY <1>1, <1>4 DEF workerVars, historyVars
  <2>3. QED
    BY <1>1, <1>4, <2>1, <2>2, NoSubmitType, SubmissionMoves
<1>5. CASE handOver(w)
  BY <1>1, <1>2, <1>3, <1>5, handOverKeeps
<1>6. CASE submit' = [submit EXCEPT !.i = @ + 1] /\ UNCHANGED <<wpc, job, accepted>>
  <2>1. submit' \in SubmitType /\ submit'.at = "try" /\ submit'.k = submit.k
           /\ submit'.i = submit.i + 1 /\ submit'.new = submit.new
    BY <1>1, <1>2, <1>3, <1>6 DEF SubmitType
  <2>2. SubmitInv' /\ jobs' \in 0..MaxJobs
    BY <1>1, <1>2, <1>3, <2>1 DEF SubmitInv
  <2>3. UNCHANGED <<pool, made, workerVars, channelVars, historyVars>>
    BY <1>1, <1>6 DEF workerVars, historyVars
  <2>4. QED
    BY <1>1, <2>1, <2>2, <2>3, SubmissionMoves
<1>7. QED
  BY <1>4, <1>5, <1>6 DEF tryWorker

\* The worker that was made takes the job it was made for
LEMMA submitNewKeeps ==
  ASSUME PoolInv, submitNew
  PROVE  PoolInv'
<1>1. submit.at = "new" /\ handOver(submit.w)
         /\ UNCHANGED <<pool, made, merged, workMap, resultMap, requestCount, resultCount,
                        channelVars, jobs, kept>>
  BY DEF submitNew
<1>2. submit.k \in Keys /\ InPool(submit.w) /\ submit.new
  BY <1>1 DEF PoolInv, SubmitInv, NoSubmit
<1>3. submit.w \in Workers
  BY <1>2 DEF InPool, PoolInv, PoolTypeOK
<1>4. QED
  BY <1>1, <1>2, <1>3, handOverKeeps

\* A worker is made and joins the pool at its end
LEMMA newWorkerKeeps ==
  ASSUME PoolInv, newWorker
  PROVE  PoolInv'
<1> DEFINE n == made + 1
<1>1. /\ job' = job /\ merged' = merged /\ workMap' = workMap /\ resultMap' = resultMap
      /\ requestCount' = requestCount /\ resultCount' = resultCount
      /\ resultChan' = resultChan /\ closed' = closed /\ jobs' = jobs
      /\ accepted' = accepted /\ kept' = kept
  BY DEF newWorker, historyVars
<1>2. /\ submit.at = "try" /\ Len(pool) < MaxWorkers /\ made < MaxMade
      /\ made' = n /\ pool' = Append(pool, n) /\ numChan' = numChan + 1
      /\ wpc' = [wpc EXCEPT ![n] = "ready"]
      /\ submit' = [submit EXCEPT !.at = "new", !.w = n, !.new = TRUE]
  BY DEF newWorker
<1>3. PoolTypeOK /\ submit \in SubmitType /\ PlaceInv
  BY DEF PoolInv, PoolTypeOK, SubmitType
<1>4. n \in Workers /\ n > made /\ made \in 0..MaxMade
  BY <1>2, <1>3 DEF PoolTypeOK, Workers
<1>5. submit.k \in Keys
  BY <1>2 DEF PoolInv, SubmitInv, NoSubmit
<1>6. submit' \in SubmitType /\ submit'.at = "new" /\ submit'.w = n /\ submit'.k = submit.k
         /\ submit'.new
  BY <1>2, <1>3, <1>4 DEF SubmitType
<1>7. pool \in Seq(Workers) /\ Len(pool) \in Nat
         /\ wpc \in [Workers -> {"none", "ready", "work", "send", "settle", "ended", "gone"}]
  BY <1>3 DEF PoolTypeOK
<1>8. pool' \in Seq(Workers) /\ Len(pool') = Len(pool) + 1 /\ pool'[Len(pool) + 1] = n
         /\ \A i \in 1..Len(pool) : pool'[i] = pool[i]
  <2>1. Append(pool, n) \in Seq(Workers) /\ Len(Append(pool, n)) = Len(pool) + 1
           /\ Append(pool, n)[Len(pool) + 1] = n
           /\ \A i \in 1..Len(pool) : Append(pool, n)[i] = pool[i]
    <3> HIDE DEF n
    <3>1. QED
      BY <1>4, <1>7, AppendProperties
  <2>2. QED
    BY <1>2, <2>1
<1>9. wpc'[n] = "ready" /\ \A v \in Workers \ {n} : wpc'[v] = wpc[v]
  BY <1>2, <1>4, <1>7
<1>10. wpc[n] = "none"
  BY <1>3, <1>4 DEF PlaceInv
<1> HIDE DEF n
<1>11. \A v \in Workers : InPool(v)' <=> InPool(v) \/ v = n
  BY <1>7, <1>8 DEF InPool
<1>12. \A i \in 1..Len(pool) : pool[i] <= made /\ pool[i] \in Workers
  BY <1>3, <1>7 DEF PlaceInv
<1>13. PoolTypeOK'
  <2>1. wpc' \in [Workers -> {"none", "ready", "work", "send", "settle", "ended", "gone"}]
    BY <1>2, <1>7
  <2>2. made' \in 0..MaxMade
    BY <1>2, <1>4 DEF Workers, n
  <2>3. numChan \in Nat /\ MaxWorkers \in Nat
    BY <1>3 DEF PoolTypeOK
  <2>4. numChan' \in Nat /\ Len(pool') <= MaxWorkers
    BY <1>2, <1>7, <1>8, <2>3
  <2>5. QED
    BY <1>1, <1>3, <1>6, <1>8, <2>1, <2>2, <2>4 DEF PoolTypeOK, SubmitType
<1>14. PlaceInv'
  <2>1. \A i \in 1..Len(pool') : pool'[i] <= made'
    BY <1>2, <1>4, <1>7, <1>8, <1>12 DEF n, Workers
  <2>2. \A i, j \in 1..Len(pool') : pool'[i] = pool'[j] => i = j
    <3>1. \A i \in 1..Len(pool) : pool'[i] # n
      BY <1>4, <1>8, <1>12 DEF Workers
    <3>2. \A i, j \in 1..Len(pool) : pool'[i] = pool'[j] => i = j
      BY <1>3, <1>8 DEF PlaceInv
    <3>3. \A i \in 1..Len(pool') : i \in 1..Len(pool) \/ i = Len(pool) + 1
      BY <1>7, <1>8
    <3>4. QED
      BY <1>8, <3>1, <3>2, <3>3
  <2>3. Len(pool') > 0
    BY <1>7, <1>8
  <2>4. ASSUME NEW v \in Workers
        PROVE  /\ v > made' => wpc'[v] = "none"
               /\ InPool(v)' => wpc'[v] \in {"ready", "work", "send", "settle"}
               /\ v <= made' /\ ~InPool(v)' => wpc'[v] \in {"settle", "ended", "gone"}
    <3>1. CASE v = n
      BY <1>2, <1>4, <1>9, <1>11, <3>1 DEF Workers
    <3>2. CASE v # n
      <4>1. wpc'[v] = wpc[v] /\ (InPool(v)' <=> InPool(v))
        BY <1>9, <1>11, <3>2
      <4>2. (v > made' => v > made) /\ (v <= made' => v <= made)
        BY <1>2, <1>4, <3>2 DEF Workers, n
      <4>3. QED
        BY <1>3, <4>1, <4>2 DEF PlaceInv
    <3>3. QED
      BY <3>1, <3>2
  <2>5. QED
    BY <2>1, <2>2, <2>3, <2>4 DEF PlaceInv
<1>15. SubmitInv'
  <2>1. InPool(submit.w)'
    BY <1>6, <1>7, <1>8 DEF InPool
  <2>2. QED
    BY <1>5, <1>6, <2>1 DEF SubmitInv, InPool
<1>16. IdleInv' /\ FiniteInv' /\ JobInv'
  <2>1. IdleInv'
    BY <1>1, <1>11 DEF PoolInv, IdleInv
  <2>2. FiniteInv'
    BY <1>1 DEF PoolInv, FiniteInv
  <2>3. JobInv'
    BY <1>1, <1>9 DEF PoolInv, JobInv
  <2>4. QED
    BY <2>1, <2>2, <2>3
<1>17. FlowInv'
  <2>1. \A v \in Workers : One(submit'.at = "note" /\ submit'.w = v) = 0
           /\ One(submit.at = "note" /\ submit.w = v) = 0
           /\ One(wpc'[v] \in {"work", "send"}) = One(wpc[v] \in {"work", "send"})
    BY <1>2, <1>6, <1>9, <1>10 DEF One
  <2>2. \A v \in Workers : Places(resultChan, OfWorker(v))' = Places(resultChan, OfWorker(v))
    BY <1>1 DEF OfWorker, Places
  <2>3. QED
    BY <1>1, <2>1, <2>2 DEF PoolInv, FlowInv
<1>18. KeyInv'
  <2>1. \A k \in Keys : WorkingOn(k)' = WorkingOn(k) /\ MergedOf(k)' = MergedOf(k)
           /\ Places(resultChan, OfKey(k))' = Places(resultChan, OfKey(k))
    BY <1>1, <1>9, <1>10 DEF WorkingOn, MergedOf, OfKey, Places
  <2>2. QED
    BY <1>1, <2>1 DEF PoolInv, KeyInv
<1>19. ChannelInv'
  <2>1. Active' = Active \cup {n} /\ n \notin Active /\ Active \in SUBSET Workers
    BY <1>4, <1>9, <1>10 DEF Active
  <2>2. Cardinality(Active') = Cardinality(Active) + 1
    BY <1>4, <2>1, OneMore
  <2>3. QED
    BY <1>1, <1>2, <2>2 DEF PoolInv, ChannelInv
<1>20. KeptIsFound'
  BY <1>1, <1>7, <1>8 DEF PoolInv, KeptIsFound
<1>21. QED
  BY <1>13, <1>14, <1>15, <1>16, <1>17, <1>18, <1>19, <1>20 DEF PoolInv

\* The worker that TrySubmit notes the job at
Noting(w) == submit.at = "note" /\ submit.w = w

\* The collection of workers takes none that is noting a job, has one or keeps a result
LEMMA purgeOldKeeps ==
  ASSUME PoolInv, NEW start \in Nat, purgeOld(start),
         submit.at = "note" => start \in 1..Len(pool) /\ submit.w = pool[start],
         UNCHANGED <<made, job, resultMap, resultCount, kept>>,
         \A w \in Workers : ~Noting(w) => requestCount'[w] = requestCount[w]
  PROVE  /\ pool' \in Seq(Workers) /\ Len(pool') <= MaxWorkers
         /\ wpc' \in [Workers -> {"none", "ready", "work", "send", "settle", "ended", "gone"}]
         /\ PlaceInv' /\ IdleInv' /\ JobInv' /\ KeptIsFound'
         /\ \A w \in Workers : /\ wpc'[w] \in {"work", "send"} <=> wpc[w] \in {"work", "send"}
                               /\ wpc'[w] \in {"none", "gone"} <=> wpc[w] \in {"none", "gone"}
<1>1. PoolTypeOK /\ PlaceInv
  BY DEF PoolInv
<1>2. PICK gone \in SUBSET Workers :
        /\ pool' \in Seq(Workers) /\ Len(pool') <= Len(pool)
        /\ \A w \in Workers : InPool(w)' <=> InPool(w) /\ w \notin gone
        /\ \A i, j \in 1..Len(pool') : pool'[i] = pool'[j] => i = j
        /\ Len(pool) > 0 => Len(pool') > 0
        /\ \A w \in gone : \E i \in 1..Len(pool) : /\ i > start + 1 /\ w = pool[i]
                                                   /\ NumPending(w) = 0 /\ NumResults(w) = 0
        /\ wpc' = [w \in Workers |-> IF w \in gone /\ wpc[w] = "ready" THEN "ended" ELSE wpc[w]]
  BY <1>1, Purged
<1>3. pool \in Seq(Workers) /\ Len(pool) \in Nat /\ Len(pool) <= MaxWorkers
         /\ wpc \in [Workers -> {"none", "ready", "work", "send", "settle", "ended", "gone"}]
  BY <1>1 DEF PoolTypeOK
<1>4. ASSUME NEW w \in gone
      PROVE  /\ requestCount'[w] = resultCount'[w] /\ resultMap'[w] = {}
             /\ wpc[w] \in {"ready", "settle"}
  <2>1. PICK i \in 1..Len(pool) : /\ i > start + 1 /\ w = pool[i]
                                  /\ NumPending(w) = 0 /\ NumResults(w) = 0
    BY <1>2
  <2>2. ~Noting(w)
    <3>1. CASE submit.at = "note" /\ submit.w = w
      <4>1. start \in 1..Len(pool) /\ pool[start] = pool[i]
        BY <2>1, <3>1
      <4>2. start = i
        BY <1>1, <4>1 DEF PlaceInv
      <4>3. QED
        BY <2>1, <4>2
    <3>2. QED
      BY <3>1 DEF Noting
  <2>3. requestCount[w] = resultCount[w] /\ resultMap[w] = {} /\ wpc[w] \notin {"work", "send"}
    BY <2>1, <2>2, GoneAreQuiet DEF Noting
  <2>4. wpc[w] \in {"ready", "work", "send", "settle"}
    BY <1>1, <2>1 DEF PlaceInv, InPool
  <2>5. QED
    BY <2>2, <2>3, <2>4
<1>5. \A w \in Workers : wpc'[w] = IF w \in gone /\ wpc[w] = "ready" THEN "ended" ELSE wpc[w]
  BY <1>2
<1>6. Len(pool') \in Nat /\ Len(pool') <= MaxWorkers
         /\ \A i \in 1..Len(pool') : pool'[i] \in Workers
  BY <1>2, <1>3
<1>7. wpc' \in [Workers -> {"none", "ready", "work", "send", "settle", "ended", "gone"}]
  BY <1>2, <1>3
<1>8. \A w \in Workers : /\ wpc'[w] \in {"work", "send"} <=> wpc[w] \in {"work", "send"}
                         /\ wpc'[w] \in {"none", "gone"} <=> wpc[w] \in {"none", "gone"}
  BY <1>5
<1>9. PlaceInv'
  <2>1. \A i \in 1..Len(pool') : pool'[i] <= made'
    <3>1. ASSUME NEW i \in 1..Len(pool') PROVE pool'[i] <= made
      <4>1. pool'[i] \in Workers /\ InPool(pool[i])'
        BY <1>6 DEF InPool
      <4>2. PICK j \in 1..Len(pool) : pool[j] = pool'[i]
        BY <1>2, <4>1 DEF InPool
      <4>3. QED
        BY <1>1, <4>2 DEF PlaceInv
    <3>2. QED
      BY <3>1
  <2>2. made' > 0 => Len(pool') > 0
    BY <1>1, <1>2 DEF PlaceInv
  <2>3. ASSUME NEW w \in Workers
        PROVE  /\ w > made' => wpc'[w] = "none"
               /\ InPool(w)' => wpc'[w] \in {"ready", "work", "send", "settle"}
               /\ w <= made' /\ ~InPool(w)' => wpc'[w] \in {"settle", "ended", "gone"}
    <3>1. /\ w > made => wpc[w] = "none"
          /\ InPool(w) => wpc[w] \in {"ready", "work", "send", "settle"}
          /\ w <= made /\ ~InPool(w) => wpc[w] \in {"settle", "ended", "gone"}
      BY <1>1 DEF PlaceInv
    <3>2. CASE w \in gone
      <4>1. wpc[w] \in {"ready", "settle"} /\ ~InPool(w)'
        BY <1>2, <1>4, <3>2
      <4>2. wpc'[w] \in {"settle", "ended"}
        BY <1>5, <3>2, <4>1
      <4>3. QED
        BY <3>1, <4>1, <4>2
    <3>3. CASE w \notin gone
      <4>1. wpc'[w] = wpc[w] /\ (InPool(w)' <=> InPool(w))
        BY <1>2, <1>5, <3>3
      <4>2. QED
        BY <3>1, <4>1
    <3>4. QED
      BY <3>2, <3>3
  <2>4. QED
    BY <1>2, <2>1, <2>2, <2>3 DEF PlaceInv
<1>10. IdleInv'
  <2>1. ASSUME NEW w \in Workers, ~InPool(w)'
        PROVE  requestCount'[w] = resultCount'[w] /\ resultMap'[w] = {}
    <3>1. CASE w \in gone
      BY <1>4, <3>1
    <3>2. CASE w \notin gone
      <4>1. ~InPool(w)
        BY <1>2, <2>1, <3>2
      <4>2. ~Noting(w)
        BY <4>1 DEF Noting, InPool
      <4>3. QED
        BY <4>1, <4>2 DEF PoolInv, IdleInv
    <3>3. QED
      BY <3>1, <3>2
  <2>2. QED
    BY <2>1 DEF IdleInv
<1>11. JobInv'
  <2>1. \A w \in Workers : wpc'[w] = "settle" <=> wpc[w] = "settle"
    BY <1>5
  <2>2. \A w \in Workers :
          wpc'[w] \in {"work", "send", "settle"} => wpc[w] \in {"work", "send", "settle"}
    BY <1>8, <2>1
  <2>3. QED
    BY <2>2 DEF PoolInv, JobInv
<1>12. KeptIsFound'
  <2>1. ASSUME NEW k \in kept PROVE \E i \in 1..Len(pool') : k \in resultMap[pool'[i]]
    <3>1. PICK j \in 1..Len(pool) : k \in resultMap[pool[j]]
      BY DEF PoolInv, KeptIsFound
    <3>2. pool[j] \in Workers /\ InPool(pool[j]) /\ pool[j] \notin gone
      BY <1>3, <1>4, <3>1 DEF InPool
    <3> DEFINE w == pool[j]
    <3>3. w \in Workers /\ k \in resultMap[w] /\ InPool(w) /\ w \notin gone
      BY <3>1, <3>2
    <3> HIDE DEF w
    <3>4. \E i \in 1..Len(pool') : pool'[i] = w
      BY <1>2, <3>3 DEF InPool
    <3>5. QED
      BY <3>3, <3>4
  <2>2. QED
    BY <2>1 DEF KeptIsFound
<1>13. QED
  BY <1>2, <1>6, <1>7, <1>8, <1>9, <1>10, <1>11, <1>12

\* The collector takes workers on its own
LEMMA periodicGCKeeps ==
  ASSUME PoolInv, periodicGC
  PROVE  PoolInv'
<1>1. /\ purgeOld(0) /\ submit = NoSubmit /\ made' = made /\ job' = job /\ merged' = merged
      /\ workMap' = workMap /\ resultMap' = resultMap
      /\ requestCount' = requestCount /\ resultCount' = resultCount
      /\ numChan' = numChan /\ resultChan' = resultChan /\ closed' = closed
      /\ submit' = submit /\ jobs' = jobs /\ accepted' = accepted /\ kept' = kept
  BY DEF periodicGC, Unlocked, channelVars, historyVars
<1>2. submit.at = "none" /\ UNCHANGED <<made, job, resultMap, resultCount, kept>>
  BY <1>1 DEF NoSubmit
<1>3. 0 \in Nat /\ purgeOld(0) /\ (submit.at = "note" => 0 \in 1..Len(pool) /\ submit.w = pool[0])
         /\ \A w \in Workers : ~Noting(w) => requestCount'[w] = requestCount[w]
  BY <1>1, <1>2
<1>4. /\ pool' \in Seq(Workers) /\ Len(pool') <= MaxWorkers
      /\ wpc' \in [Workers -> {"none", "ready", "work", "send", "settle", "ended", "gone"}]
      /\ PlaceInv' /\ IdleInv' /\ JobInv' /\ KeptIsFound'
      /\ \A w \in Workers : /\ wpc'[w] \in {"work", "send"} <=> wpc[w] \in {"work", "send"}
                            /\ wpc'[w] \in {"none", "gone"} <=> wpc[w] \in {"none", "gone"}
  BY <1>2, <1>3, purgeOldKeeps
<1>5. PoolTypeOK' /\ SubmitInv' /\ FiniteInv'
  BY <1>1, <1>4 DEF PoolInv, PoolTypeOK, SubmitInv, FiniteInv
<1>6. FlowInv'
  <2>1. \A w \in Workers : One(wpc'[w] \in {"work", "send"}) = One(wpc[w] \in {"work", "send"})
    BY <1>4 DEF One
  <2>2. \A w \in Workers : Places(resultChan, OfWorker(w))' = Places(resultChan, OfWorker(w))
    BY <1>1 DEF OfWorker, Places
  <2>3. QED
    BY <1>1, <2>1, <2>2 DEF PoolInv, FlowInv
<1>7. KeyInv'
  <2>1. \A k \in Keys : WorkingOn(k)' = WorkingOn(k) /\ MergedOf(k)' = MergedOf(k)
           /\ Places(resultChan, OfKey(k))' = Places(resultChan, OfKey(k))
    BY <1>1, <1>4 DEF WorkingOn, MergedOf, OfKey, Places
  <2>2. QED
    BY <1>1, <2>1 DEF PoolInv, KeyInv
<1>8. ChannelInv'
  <2>1. Active' = Active
    BY <1>4 DEF Active
  <2>2. QED
    BY <1>1, <2>1 DEF PoolInv, ChannelInv
<1>9. QED
  BY <1>4, <1>5, <1>6, <1>7, <1>8 DEF PoolInv

\* The worker notes the job, and TrySubmit collects
LEMMA addPendingKeeps ==
  ASSUME PoolInv, addPending
  PROVE  PoolInv'
<1> DEFINE n == submit.w
<1>1. /\ submit.at = "note" /\ made' = made /\ job' = job /\ merged' = merged
      /\ resultMap' = resultMap /\ resultCount' = resultCount
      /\ numChan' = numChan /\ resultChan' = resultChan /\ closed' = closed
      /\ submit' = NoSubmit /\ jobs' = jobs /\ accepted' = accepted /\ kept' = kept
      /\ requestCount' = [requestCount EXCEPT ![n] = @ + 1]
      /\ workMap' = [workMap EXCEPT ![n] = @ \cup {submit.k}]
  BY DEF addPending, channelVars, historyVars
<1>2. PoolTypeOK /\ PlaceInv
  BY DEF PoolInv
<1>3. submit.k \in Keys /\ InPool(n)
         /\ (~submit.new => submit.i \in 1..Len(pool) /\ n = pool[submit.i])
  BY <1>1 DEF PoolInv, SubmitInv, NoSubmit
<1>4. n \in Workers
  BY <1>2, <1>3 DEF InPool, PoolTypeOK
<1>5. requestCount \in [Workers -> Nat] /\ workMap \in [Workers -> SUBSET Keys]
         /\ resultChan \in Seq(Results) /\ resultCount \in [Workers -> Nat]
  BY <1>2 DEF PoolTypeOK
<1>6. \A w \in Workers : requestCount'[w] = requestCount[w] + One(w = n)
  BY <1>1, <1>5 DEF One
<1>7. \A w \in Workers : ~Noting(w) => requestCount'[w] = requestCount[w]
  BY <1>1, <1>5, <1>6 DEF Noting, One
<1>8. requestCount' \in [Workers -> Nat] /\ workMap' \in [Workers -> SUBSET Keys]
  <2>1. requestCount' \in [Workers -> Nat]
    BY <1>1, <1>4, <1>5
  <2>2. workMap[n] \cup {submit.k} \in SUBSET Keys
    BY <1>3, <1>4, <1>5
  <2>3. workMap' \in [Workers -> SUBSET Keys]
    BY <1>1, <1>5, <2>2
  <2>4. QED
    BY <2>1, <2>3
<1>9. /\ pool' \in Seq(Workers) /\ Len(pool') <= MaxWorkers
      /\ wpc' \in [Workers -> {"none", "ready", "work", "send", "settle", "ended", "gone"}]
      /\ PlaceInv' /\ IdleInv' /\ JobInv' /\ KeptIsFound'
      /\ \A w \in Workers : /\ wpc'[w] \in {"work", "send"} <=> wpc[w] \in {"work", "send"}
                            /\ wpc'[w] \in {"none", "gone"} <=> wpc[w] \in {"none", "gone"}
  <2>1. CASE submit.new
    <3>1. pool' = pool /\ wpc' = wpc
      BY <2>1 DEF addPending
    <3>2. PlaceInv' /\ JobInv' /\ KeptIsFound'
      BY <1>1, <3>1 DEF PoolInv, PlaceInv, InPool, JobInv, KeptIsFound
    <3>3. IdleInv'
      <4>1. \A w \in Workers : ~InPool(w)' => ~InPool(w) /\ ~Noting(w)
        BY <1>3, <3>1 DEF InPool, Noting
      <4>2. QED
        BY <1>1, <1>7, <4>1 DEF PoolInv, IdleInv
    <3>4. QED
      BY <1>2, <3>1, <3>2, <3>3 DEF PoolTypeOK
  <2>2. CASE ~submit.new
    <3>1. submit.i \in Nat /\ purgeOld(submit.i)
             /\ (submit.at = "note" => submit.i \in 1..Len(pool) /\ submit.w = pool[submit.i])
      BY <1>2, <1>3, <2>2 DEF addPending, PoolTypeOK
    <3>2. UNCHANGED <<made, job, resultMap, resultCount, kept>>
      BY <1>1
    <3>3. QED
      BY <1>7, <3>1, <3>2, purgeOldKeeps
  <2>3. QED
    BY <2>1, <2>2
<1>10. PoolTypeOK'
  BY <1>1, <1>2, <1>8, <1>9, NoSubmitType DEF PoolTypeOK, SubmitType
<1>11. SubmitInv' /\ FiniteInv'
  BY <1>1 DEF PoolInv, SubmitInv, FiniteInv
<1>12. FlowInv'
  <2>1. ASSUME NEW v \in Workers
        PROVE  (requestCount[v] + One(submit.at = "note" /\ submit.w = v)
                  = resultCount[v] + One(wpc[v] \in {"work", "send"}) + One(merged[v] # NoResult)
                      + Cardinality(Places(resultChan, OfWorker(v))))'
    <3>1. requestCount[v] + One(submit.at = "note" /\ submit.w = v)
            = resultCount[v] + One(wpc[v] \in {"work", "send"}) + One(merged[v] # NoResult)
                + Cardinality(Places(resultChan, OfWorker(v)))
      BY DEF PoolInv, FlowInv
    <3>2. One(submit.at = "note" /\ submit.w = v) = One(v = n)
             /\ One(submit'.at = "note" /\ submit'.w = v) = 0
             /\ One(wpc'[v] \in {"work", "send"}) = One(wpc[v] \in {"work", "send"})
      BY <1>1, <1>9, NoSubmitType DEF One
    <3>3. Places(resultChan, OfWorker(v))' = Places(resultChan, OfWorker(v))
      BY <1>1 DEF OfWorker, Places
    <3>4. requestCount'[v] = requestCount[v] + One(v = n) /\ requestCount'[v] \in Nat
      BY <1>6, <1>8
    <3>5. QED
      BY <1>1, <3>1, <3>2, <3>3, <3>4
  <2>2. QED
    BY <2>1 DEF FlowInv
<1>13. KeyInv'
  <2>1. \A k \in Keys : WorkingOn(k)' = WorkingOn(k) /\ MergedOf(k)' = MergedOf(k)
           /\ Places(resultChan, OfKey(k))' = Places(resultChan, OfKey(k))
    BY <1>1, <1>9 DEF WorkingOn, MergedOf, OfKey, Places
  <2>2. QED
    BY <1>1, <2>1 DEF PoolInv, KeyInv
<1>14. ChannelInv'
  <2>1. Active' = Active
    BY <1>9 DEF Active
  <2>2. QED
    BY <1>1, <2>1 DEF PoolInv, ChannelInv
<1>15. QED
  BY <1>9, <1>10, <1>11, <1>12, <1>13, <1>14 DEF PoolInv

\* The main loop takes a result from the channel
LEMMA ProcessKeeps ==
  ASSUME PoolInv, Process
  PROVE  PoolInv'
<1> DEFINE r == Head(resultChan)
           n == r.w
           q == r.k
<1>1. /\ pool' = pool /\ made' = made /\ wpc' = wpc /\ job' = job /\ merged' = merged
      /\ workMap' = workMap /\ requestCount' = requestCount /\ numChan' = numChan
      /\ closed' = closed /\ submit' = submit /\ jobs' = jobs
      /\ submit = NoSubmit /\ resultChan # <<>> /\ resultChan' = Tail(resultChan)
      /\ resultCount' = [resultCount EXCEPT ![n] = @ + 1]
      /\ resultMap' = [resultMap EXCEPT ![n] = @ \cup {q}]
      /\ accepted' = [accepted EXCEPT ![q] = @ - 1]
      /\ kept' = kept \cup {q}
  BY DEF Process, Unlocked
<1>2. PoolTypeOK /\ PlaceInv
  BY DEF PoolInv
<1>3. /\ resultChan \in Seq(Results) /\ resultCount \in [Workers -> Nat]
      /\ resultMap \in [Workers -> SUBSET Keys] /\ accepted \in [Keys -> Nat]
      /\ Len(resultChan) <= MaxWorkers
  BY <1>2 DEF PoolTypeOK
<1>4. r \in Results /\ Tail(resultChan) \in Seq(Results)
         /\ Len(Tail(resultChan)) = Len(resultChan) - 1 /\ Len(resultChan) \in Nat
  BY <1>1, <1>3
<1>5. n \in Workers /\ q \in Keys
  BY <1>4 DEF Results
<1>6. \A v \in Workers : r \in OfWorker(v) <=> v = n
  BY <1>4 DEF OfWorker
<1>7. \A k \in Keys : r \in OfKey(k) <=> k = q
  BY <1>4 DEF OfKey
<1>8. \A v \in Workers :
        Cardinality(Places(resultChan, OfWorker(v)))
          = Cardinality(Places(Tail(resultChan), OfWorker(v))) + One(v = n)
  <2>1. ASSUME NEW v \in Workers
        PROVE  Cardinality(Places(resultChan, OfWorker(v)))
                 = Cardinality(Places(Tail(resultChan), OfWorker(v))) + One(v = n)
    <3>1. Cardinality(Places(resultChan, OfWorker(v)))
            = Cardinality(Places(Tail(resultChan), OfWorker(v))) + One(r \in OfWorker(v))
      BY <1>1, <1>3, PlacesTail
    <3>2. One(r \in OfWorker(v)) = One(v = n)
      BY <1>6 DEF One
    <3>3. QED
      BY <3>1, <3>2
  <2>2. QED
    BY <2>1
<1>9. \A k \in Keys :
        Cardinality(Places(resultChan, OfKey(k)))
          = Cardinality(Places(Tail(resultChan), OfKey(k))) + One(k = q)
  <2>1. ASSUME NEW k \in Keys
        PROVE  Cardinality(Places(resultChan, OfKey(k)))
                 = Cardinality(Places(Tail(resultChan), OfKey(k))) + One(k = q)
    <3>1. Cardinality(Places(resultChan, OfKey(k)))
            = Cardinality(Places(Tail(resultChan), OfKey(k))) + One(r \in OfKey(k))
      BY <1>1, <1>3, PlacesTail
    <3>2. One(r \in OfKey(k)) = One(k = q)
      BY <1>7 DEF One
    <3>3. QED
      BY <3>1, <3>2
  <2>2. QED
    BY <2>1
<1>10. \A S : Cardinality(Places(resultChan, S)) \in Nat
                /\ Cardinality(Places(Tail(resultChan), S)) \in Nat
  BY <1>3, <1>4, PlacesFinite
<1> HIDE DEF r, n, q
<1>11. \A v \in Workers : resultCount'[v] = resultCount[v] + One(v = n)
  BY <1>1, <1>3 DEF One
<1>12. \A k \in Keys : accepted'[k] = accepted[k] - One(k = q)
  BY <1>1, <1>3 DEF One
<1>13. \A k \in Keys :
         accepted'[k] = Cardinality(WorkingOn(k)) + Cardinality(MergedOf(k))
                          + Cardinality(Places(Tail(resultChan), OfKey(k)))
  <2>1. ASSUME NEW k \in Keys
        PROVE  accepted'[k] = Cardinality(WorkingOn(k)) + Cardinality(MergedOf(k))
                                + Cardinality(Places(Tail(resultChan), OfKey(k)))
    <3>1. accepted[k] = Cardinality(WorkingOn(k)) + Cardinality(MergedOf(k))
                          + Cardinality(Places(resultChan, OfKey(k)))
      BY DEF PoolInv, KeyInv
    <3>2. Cardinality(WorkingOn(k)) \in Nat /\ Cardinality(MergedOf(k)) \in Nat
      BY WorkersFinite DEF WorkingOn, MergedOf
    <3>3. One(k = q) \in Nat
      BY DEF One
    <3>4. QED
      BY <1>9, <1>10, <1>12, <3>1, <3>2, <3>3
  <2>2. QED
    BY <2>1
<1>14. accepted' \in [Keys -> Nat]
  <2>1. \A k \in Keys : accepted'[k] \in Nat
    <3>1. \A k \in Keys : Cardinality(WorkingOn(k)) \in Nat /\ Cardinality(MergedOf(k)) \in Nat
      BY WorkersFinite DEF WorkingOn, MergedOf
    <3>2. QED
      BY <1>10, <1>13, <3>1
  <2>2. accepted' = [k \in Keys |-> accepted'[k]]
    BY <1>1, <1>3
  <2>3. QED
    BY <2>1, <2>2
<1>15. resultMap' \in [Workers -> SUBSET Keys]
  <2>1. resultMap[n] \cup {q} \in SUBSET Keys
    BY <1>3, <1>5
  <2>2. QED
    BY <1>1, <1>3, <2>1
<1>16. PoolTypeOK'
  <2>1. resultCount' \in [Workers -> Nat] /\ kept' \subseteq Keys
    BY <1>1, <1>2, <1>3, <1>5 DEF PoolTypeOK
  <2>2. resultChan' \in Seq(Results) /\ Len(resultChan') <= MaxWorkers
    BY <1>1, <1>3, <1>4
  <2>3. QED
    BY <1>1, <1>2, <1>14, <1>15, <2>1, <2>2 DEF PoolTypeOK
<1>17. PlaceInv' /\ SubmitInv' /\ JobInv' /\ ChannelInv'
  BY <1>1 DEF PoolInv, PlaceInv, InPool, SubmitInv, JobInv, ChannelInv, Active
<1>18. FiniteInv'
  <2>1. \A v \in Workers : IsFiniteSet(resultMap[v])
    BY DEF PoolInv, FiniteInv
  <2>2. IsFiniteSet(resultMap[n] \cup {q})
    BY <1>5, <2>1, FS_AddElement
  <2>3. \A v \in Workers : resultMap'[v] = IF v = n THEN resultMap[n] \cup {q} ELSE resultMap[v]
    BY <1>1, <1>3
  <2>4. QED
    BY <2>1, <2>2, <2>3 DEF FiniteInv
<1>19. FlowInv'
  <2>1. ASSUME NEW v \in Workers
        PROVE  (requestCount[v] + One(submit.at = "note" /\ submit.w = v)
                  = resultCount[v] + One(wpc[v] \in {"work", "send"}) + One(merged[v] # NoResult)
                      + Cardinality(Places(resultChan, OfWorker(v))))'
    <3> DEFINE a == One(submit.at = "note" /\ submit.w = v)
               b == One(wpc[v] \in {"work", "send"})
               c == One(merged[v] # NoResult)
               d == Cardinality(Places(Tail(resultChan), OfWorker(v)))
               e == One(v = n)
    <3>1. requestCount[v] + a
            = resultCount[v] + b + c + Cardinality(Places(resultChan, OfWorker(v)))
      BY DEF PoolInv, FlowInv
    <3>2. a \in Nat /\ b \in Nat /\ c \in Nat /\ d \in Nat /\ e \in Nat
      BY <1>10 DEF One
    <3>3. Cardinality(Places(resultChan, OfWorker(v))) = d + e /\ resultCount'[v] = resultCount[v] + e
      BY <1>8, <1>11
    <3>4. resultCount[v] \in Nat /\ requestCount[v] \in Nat
      BY <1>2 DEF PoolTypeOK
    <3>5. a' = a /\ b' = b /\ c' = c /\ Cardinality(Places(resultChan, OfWorker(v)))' = d
      BY <1>1 DEF OfWorker
    <3> HIDE DEF a, b, c, d, e
    <3>6. requestCount[v] + a = resultCount'[v] + b + c + d
      BY <3>1, <3>2, <3>3, <3>4
    <3>7. requestCount'[v] + a' = resultCount'[v] + b' + c' + Cardinality(Places(resultChan, OfWorker(v)))'
      BY <1>1, <3>5, <3>6
    <3>8. QED
      BY <3>7 DEF a, b, c
  <2>2. QED
    BY <2>1 DEF FlowInv
<1>20. KeyInv'
  <2>1. \A k \in Keys : WorkingOn(k)' = WorkingOn(k) /\ MergedOf(k)' = MergedOf(k)
           /\ Places(resultChan, OfKey(k))' = Places(Tail(resultChan), OfKey(k))
    BY <1>1 DEF WorkingOn, MergedOf, OfKey, Places
  <2>2. QED
    BY <1>13, <2>1 DEF KeyInv
<1>21. InPool(n)
  <2>1. Places(resultChan, OfWorker(n)) # {}
    <3>1. 1 \in 1..Len(resultChan) /\ resultChan[1] = r
      BY <1>1, <1>3 DEF r
    <3>2. QED
      BY <1>5, <1>6, <3>1 DEF Places
  <2>2. submit.at # "note"
    BY <1>1 DEF NoSubmit
  <2>3. requestCount[n] # resultCount[n]
    BY <1>5, <2>1, <2>2, Quiet
  <2>4. QED
    BY <1>5, <2>3 DEF PoolInv, IdleInv
<1>22. \A v \in Workers : resultMap'[v] = IF v = n THEN resultMap[v] \cup {q} ELSE resultMap[v]
  BY <1>1, <1>3
<1>23. IdleInv'
  <2>1. \A v \in Workers : ~InPool(v)' => ~InPool(v) /\ v # n
    BY <1>1, <1>21 DEF InPool
  <2>2. \A v \in Workers : v # n => resultCount'[v] = resultCount[v] /\ resultMap'[v] = resultMap[v]
    BY <1>1, <1>3
  <2>3. QED
    BY <1>1, <2>1, <2>2 DEF PoolInv, IdleInv
<1>24. KeptIsFound'
  <2>1. ASSUME NEW k \in kept' PROVE \E i \in 1..Len(pool') : k \in resultMap'[pool'[i]]
    <3>1. \A i \in 1..Len(pool) : pool[i] \in Workers
      BY <1>2 DEF PoolTypeOK
    <3>2. CASE k = q
      <4>1. PICK i \in 1..Len(pool) : pool[i] = n
        BY <1>21 DEF InPool
      <4>2. q \in resultMap'[n]
        BY <1>5, <1>22
      <4>3. QED
        BY <1>1, <3>2, <4>1, <4>2
    <3>3. CASE k # q
      <4>1. PICK i \in 1..Len(pool) : k \in resultMap[pool[i]]
        BY <1>1, <3>3 DEF PoolInv, KeptIsFound
      <4>2. k \in resultMap'[pool[i]]
        BY <1>22, <3>1, <4>1
      <4>3. QED
        BY <1>1, <4>1, <4>2
    <3>4. QED
      BY <3>2, <3>3
  <2>2. QED
    BY <2>1 DEF KeptIsFound
<1>25. QED
  BY <1>16, <1>17, <1>18, <1>19, <1>20, <1>23, <1>24 DEF PoolInv

\* A result is popped from the first worker that has one
LEMMA PopKeeps ==
  ASSUME PoolInv, NEW k \in Keys, Pop(k)
  PROVE  PoolInv'
<1>1. /\ pool' = pool /\ made' = made /\ wpc' = wpc /\ job' = job /\ merged' = merged
      /\ workMap' = workMap /\ requestCount' = requestCount /\ resultCount' = resultCount
      /\ numChan' = numChan /\ resultChan' = resultChan /\ closed' = closed /\ submit' = submit
      /\ jobs' = jobs /\ accepted' = accepted
  BY DEF Pop, channelVars
<1>2. PICK i \in 1..Len(pool) :
        /\ k \in resultMap[pool[i]] /\ \A j \in 1..(i - 1) : k \notin resultMap[pool[j]]
        /\ resultMap' = [resultMap EXCEPT ![pool[i]] = @ \ {k}]
        /\ kept' = IF \E j \in (i + 1)..Len(pool) : k \in resultMap[pool[j]]
                   THEN kept ELSE kept \ {k}
  BY DEF Pop
<1> DEFINE n == pool[i]
<1>3. PoolTypeOK /\ PlaceInv
  BY DEF PoolInv
<1>4. resultMap \in [Workers -> SUBSET Keys] /\ kept \subseteq Keys
         /\ \A j \in 1..Len(pool) : pool[j] \in Workers
  BY <1>3 DEF PoolTypeOK
<1>5. resultMap[n] \ {k} \in SUBSET Keys /\ n \in Workers /\ InPool(n)
  BY <1>4 DEF InPool
<1>6. resultMap' \in [Workers -> SUBSET Keys]
  BY <1>2, <1>4, <1>5
<1>7. \A v \in Workers : resultMap'[v] = IF v = n THEN resultMap[v] \ {k} ELSE resultMap[v]
  BY <1>2, <1>4
<1>8. kept' \subseteq kept
  BY <1>2
<1>9. PoolTypeOK'
  BY <1>1, <1>3, <1>4, <1>6, <1>8 DEF PoolTypeOK
<1>10. PlaceInv' /\ SubmitInv' /\ JobInv' /\ ChannelInv'
  BY <1>1 DEF PoolInv, PlaceInv, InPool, SubmitInv, JobInv, ChannelInv, Active
<1>11. FiniteInv'
  <2>1. \A v \in Workers : IsFiniteSet(resultMap[v]) /\ IsFiniteSet(resultMap[v] \ {k})
    BY FS_RemoveElement, FS_Subset DEF PoolInv, FiniteInv
  <2>2. QED
    BY <1>7, <2>1 DEF FiniteInv
<1>12. FlowInv' /\ KeyInv'
  BY <1>1 DEF PoolInv, FlowInv, KeyInv, WorkingOn, MergedOf, OfWorker, OfKey, Places
<1>13. IdleInv'
  <2>1. \A v \in Workers : ~InPool(v)' => ~InPool(v) /\ v # n
    BY <1>1, <1>5 DEF InPool
  <2>2. QED
    BY <1>1, <1>7, <2>1 DEF PoolInv, IdleInv
<1>14. KeptIsFound'
  <2>1. ASSUME NEW q \in kept' PROVE \E j \in 1..Len(pool) : q \in resultMap'[pool[j]]
    <3>1. CASE q # k
      <4>1. PICK j \in 1..Len(pool) : q \in resultMap[pool[j]]
        BY <1>8 DEF PoolInv, KeptIsFound
      <4>2. pool[j] \in Workers
        BY <1>4
      <4>3. q \in resultMap'[pool[j]]
        BY <1>7, <3>1, <4>1, <4>2
      <4>4. QED
        BY <4>3
    <3>2. CASE q = k
      <4>1. PICK j \in (i + 1)..Len(pool) : k \in resultMap[pool[j]]
        BY <1>2, <3>2
      <4>2. j \in 1..Len(pool) /\ j # i
        BY <1>3 DEF PoolTypeOK
      <4>3. pool[j] # n /\ pool[j] \in Workers
        BY <1>3, <1>4, <4>2 DEF PlaceInv
      <4>4. k \in resultMap'[pool[j]]
        BY <1>7, <4>1, <4>3
      <4>5. QED
        BY <3>2, <4>2, <4>4
    <3>3. QED
      BY <3>1, <3>2
  <2>2. QED
    BY <1>1, <2>1 DEF KeptIsFound
<1>15. QED
  BY <1>9, <1>10, <1>11, <1>12, <1>13, <1>14 DEF PoolInv

\* A job is cancelled: its key is no longer pending
LEMMA CancelKeeps ==
  ASSUME PoolInv, NEW k \in Keys, Cancel(k)
  PROVE  PoolInv'
<1>1. /\ pool' = pool /\ made' = made /\ wpc' = wpc /\ job' = job /\ merged' = merged
      /\ resultMap' = resultMap /\ requestCount' = requestCount /\ resultCount' = resultCount
      /\ numChan' = numChan /\ resultChan' = resultChan /\ closed' = closed /\ submit' = submit
      /\ jobs' = jobs /\ accepted' = accepted /\ kept' = kept
  BY DEF Cancel, channelVars, historyVars
<1>2. workMap' \in [Workers -> SUBSET Keys]
  <2>1. workMap \in [Workers -> SUBSET Keys]
    BY DEF PoolInv, PoolTypeOK
  <2>2. workMap' = [w \in Workers |-> IF Contains(pool, w) THEN workMap[w] \ {k} ELSE workMap[w]]
    BY DEF Cancel
  <2>3. \A w \in Workers : (IF Contains(pool, w) THEN workMap[w] \ {k} ELSE workMap[w]) \in SUBSET Keys
    BY <2>1
  <2>4. QED
    BY <2>2, <2>3
<1>3. PoolTypeOK'
  BY <1>1, <1>2 DEF PoolInv, PoolTypeOK
<1>4. PlaceInv' /\ SubmitInv' /\ JobInv' /\ ChannelInv' /\ FiniteInv' /\ IdleInv' /\ KeptIsFound'
  BY <1>1 DEF PoolInv, PlaceInv, InPool, SubmitInv, JobInv, ChannelInv, Active, FiniteInv, IdleInv,
              KeptIsFound
<1>5. FlowInv' /\ KeyInv'
  BY <1>1 DEF PoolInv, FlowInv, KeyInv, WorkingOn, MergedOf, OfWorker, OfKey, Places
<1>6. QED
  BY <1>3, <1>4, <1>5 DEF PoolInv

-----------------------------------------------------------------------------
(* What the goroutines of a worker do *)

\* The job of a worker is done
LEMMA endWorkKeeps ==
  ASSUME PoolInv, NEW w \in Workers, endWork(w)
  PROVE  PoolInv'
<1>1. /\ pool' = pool /\ made' = made /\ job' = job /\ merged' = merged /\ workMap' = workMap
      /\ resultMap' = resultMap /\ requestCount' = requestCount /\ resultCount' = resultCount
      /\ numChan' = numChan /\ resultChan' = resultChan /\ closed' = closed /\ submit' = submit
      /\ jobs' = jobs /\ accepted' = accepted /\ kept' = kept
      /\ wpc[w] = "work" /\ wpc' = [wpc EXCEPT ![w] = "send"]
  BY DEF endWork, channelVars, historyVars
<1>2. wpc \in [Workers -> {"none", "ready", "work", "send", "settle", "ended", "gone"}]
  BY DEF PoolInv, PoolTypeOK
<1>3. /\ wpc' \in [Workers -> {"none", "ready", "work", "send", "settle", "ended", "gone"}]
      /\ wpc'[w] = "send" /\ \A v \in Workers \ {w} : wpc'[v] = wpc[v]
  BY <1>1, <1>2
<1>4. PoolTypeOK'
  BY <1>1, <1>3 DEF PoolInv, PoolTypeOK
<1>5. PlaceInv' /\ JobInv'
  BY <1>1, <1>3 DEF PoolInv, PlaceInv, InPool, JobInv
<1>6. SubmitInv' /\ IdleInv' /\ FiniteInv' /\ KeptIsFound'
  BY <1>1 DEF PoolInv, SubmitInv, IdleInv, InPool, FiniteInv, KeptIsFound
<1>7. \A v \in Workers : wpc'[v] \in {"work", "send"} <=> wpc[v] \in {"work", "send"}
  BY <1>1, <1>3
<1>8. FlowInv'
  <2>1. \A v \in Workers : One(wpc'[v] \in {"work", "send"}) = One(wpc[v] \in {"work", "send"})
    BY <1>7 DEF One
  <2>2. \A v \in Workers : Places(resultChan, OfWorker(v))' = Places(resultChan, OfWorker(v))
    BY <1>1 DEF OfWorker, Places
  <2>3. QED
    BY <1>1, <2>1, <2>2 DEF PoolInv, FlowInv
<1>9. KeyInv'
  <2>1. \A k \in Keys : WorkingOn(k)' = WorkingOn(k) /\ MergedOf(k)' = MergedOf(k)
           /\ Places(resultChan, OfKey(k))' = Places(resultChan, OfKey(k))
    BY <1>1, <1>7 DEF WorkingOn, MergedOf, OfKey, Places
  <2>2. QED
    BY <1>1, <2>1 DEF PoolInv, KeyInv
<1>10. ChannelInv'
  <2>1. Active' = Active
    BY <1>1, <1>3 DEF Active
  <2>2. QED
    BY <1>1, <2>1 DEF PoolInv, ChannelInv
<1>11. QED
  BY <1>4, <1>5, <1>6, <1>8, <1>9, <1>10 DEF PoolInv

\* The result goes from the worker to the goroutine behind it
LEMMA sendResultKeeps ==
  ASSUME PoolInv, NEW w \in Workers, sendResult(w)
  PROVE  PoolInv'
<1> DEFINE q == job[w]
<1>1. /\ pool' = pool /\ made' = made /\ job' = job /\ workMap' = workMap
      /\ resultMap' = resultMap /\ requestCount' = requestCount /\ resultCount' = resultCount
      /\ numChan' = numChan /\ resultChan' = resultChan /\ closed' = closed /\ submit' = submit
      /\ jobs' = jobs /\ accepted' = accepted /\ kept' = kept
      /\ wpc[w] = "send" /\ wpc' = [wpc EXCEPT ![w] = "settle"]
      /\ merged[w] = NoResult /\ merged' = [merged EXCEPT ![w] = q]
  BY DEF sendResult, channelVars, historyVars
<1>2. /\ wpc \in [Workers -> {"none", "ready", "work", "send", "settle", "ended", "gone"}]
      /\ merged \in [Workers -> Keys \cup {NoKey}]
  BY DEF PoolInv, PoolTypeOK
<1>3. q \in Keys /\ q # NoResult
  BY <1>1 DEF PoolInv, JobInv, NoResult
<1>4. /\ wpc' \in [Workers -> {"none", "ready", "work", "send", "settle", "ended", "gone"}]
      /\ wpc'[w] = "settle" /\ \A v \in Workers \ {w} : wpc'[v] = wpc[v]
  BY <1>1, <1>2
<1>5. /\ merged' \in [Workers -> Keys \cup {NoKey}]
      /\ merged'[w] = q /\ \A v \in Workers \ {w} : merged'[v] = merged[v]
  BY <1>1, <1>2, <1>3
<1>6. PoolTypeOK'
  BY <1>1, <1>4, <1>5 DEF PoolInv, PoolTypeOK
<1>7. PlaceInv' /\ JobInv'
  BY <1>1, <1>3, <1>4 DEF PoolInv, PlaceInv, InPool, JobInv
<1>8. SubmitInv' /\ IdleInv' /\ FiniteInv' /\ KeptIsFound'
  BY <1>1 DEF PoolInv, SubmitInv, IdleInv, InPool, FiniteInv, KeptIsFound
<1>9. FlowInv'
  <2>1. ASSUME NEW v \in Workers
        PROVE  One(wpc'[v] \in {"work", "send"}) + One(merged'[v] # NoResult)
                 = One(wpc[v] \in {"work", "send"}) + One(merged[v] # NoResult)
    BY <1>1, <1>3, <1>4, <1>5 DEF One
  <2>2. \A v \in Workers : Places(resultChan, OfWorker(v))' = Places(resultChan, OfWorker(v))
    BY <1>1 DEF OfWorker, Places
  <2>3. \A v \in Workers : Cardinality(Places(resultChan, OfWorker(v))) \in Nat
                             /\ resultCount[v] \in Nat
    BY PlacesFinite DEF PoolInv, PoolTypeOK
  <2>4. \A v \in Workers :
          /\ One(wpc'[v] \in {"work", "send"}) \in Nat /\ One(merged'[v] # NoResult) \in Nat
          /\ One(wpc[v] \in {"work", "send"}) \in Nat /\ One(merged[v] # NoResult) \in Nat
    BY DEF One
  <2>5. \A v \in Workers :
          requestCount[v] + One(submit.at = "note" /\ submit.w = v)
            = resultCount[v] + One(wpc'[v] \in {"work", "send"}) + One(merged'[v] # NoResult)
                + Cardinality(Places(resultChan, OfWorker(v)))
    BY <2>1, <2>3, <2>4 DEF PoolInv, FlowInv
  <2>6. QED
    BY <1>1, <2>2, <2>5 DEF FlowInv
<1>10. KeyInv'
  <2>1. ASSUME NEW k \in Keys
        PROVE  accepted[k] = Cardinality(WorkingOn(k)') + Cardinality(MergedOf(k)')
                               + Cardinality(Places(resultChan, OfKey(k)))
    <3>1. Cardinality(WorkingOn(k)) \in Nat /\ Cardinality(MergedOf(k)) \in Nat
             /\ Cardinality(Places(resultChan, OfKey(k))) \in Nat
             /\ WorkingOn(k) \in SUBSET Workers /\ MergedOf(k) \in SUBSET Workers
      BY WorkersFinite, PlacesFinite DEF WorkingOn, MergedOf, PoolInv, PoolTypeOK
    <3>2. accepted[k] = Cardinality(WorkingOn(k)) + Cardinality(MergedOf(k))
                          + Cardinality(Places(resultChan, OfKey(k)))
      BY DEF PoolInv, KeyInv
    <3>3. CASE k = q
      <4>1. w \in WorkingOn(k) /\ WorkingOn(k)' = WorkingOn(k) \ {w}
        BY <1>1, <1>4, <3>3 DEF WorkingOn
      <4>2. w \notin MergedOf(k) /\ MergedOf(k)' = MergedOf(k) \cup {w}
        BY <1>1, <1>3, <1>5, <3>3 DEF MergedOf
      <4>3. Cardinality(WorkingOn(k)') = Cardinality(WorkingOn(k)) - 1
               /\ Cardinality(MergedOf(k)') = Cardinality(MergedOf(k)) + 1
        BY <3>1, <4>1, <4>2, OneMore, OneLess
      <4>4. QED
        BY <3>1, <3>2, <4>3
    <3>4. CASE k # q
      <4>1. WorkingOn(k)' = WorkingOn(k)
        BY <1>1, <1>4, <3>4 DEF WorkingOn
      <4>2. MergedOf(k)' = MergedOf(k)
        BY <1>1, <1>5, <3>4 DEF MergedOf, NoResult
      <4>3. QED
        BY <3>2, <4>1, <4>2
    <3>5. QED
      BY <3>3, <3>4
  <2>2. \A k \in Keys : Places(resultChan, OfKey(k))' = Places(resultChan, OfKey(k))
    BY <1>1 DEF OfKey, Places
  <2>3. QED
    BY <1>1, <2>1, <2>2 DEF KeyInv
<1>11. ChannelInv'
  <2>1. Active' = Active
    BY <1>1, <1>4 DEF Active
  <2>2. QED
    BY <1>1, <2>1 DEF PoolInv, ChannelInv
<1>12. QED
  BY <1>6, <1>7, <1>8, <1>9, <1>10, <1>11 DEF PoolInv

\* The worker forgets the job, and waits for another one or ends
LEMMA deletePendingKeeps ==
  ASSUME PoolInv, NEW w \in Workers, deletePending(w)
  PROVE  PoolInv'
<1>1. /\ pool' = pool /\ made' = made /\ merged' = merged
      /\ resultMap' = resultMap /\ requestCount' = requestCount /\ resultCount' = resultCount
      /\ numChan' = numChan /\ resultChan' = resultChan /\ closed' = closed /\ submit' = submit
      /\ jobs' = jobs /\ accepted' = accepted /\ kept' = kept
      /\ wpc[w] = "settle" /\ job' = [job EXCEPT ![w] = NoKey]
      /\ workMap' = [workMap EXCEPT ![w] = @ \ {job[w]}]
      /\ wpc' = [wpc EXCEPT ![w] = IF Contains(pool, w) THEN "ready" ELSE "ended"]
  BY DEF deletePending, channelVars, historyVars
<1>2. /\ wpc \in [Workers -> {"none", "ready", "work", "send", "settle", "ended", "gone"}]
      /\ job \in [Workers -> Keys \cup {NoKey}] /\ workMap \in [Workers -> SUBSET Keys]
  BY DEF PoolInv, PoolTypeOK
<1>3. Contains(pool, w) <=> InPool(w)
  BY DEF Contains, InPool
<1>4. /\ wpc' \in [Workers -> {"none", "ready", "work", "send", "settle", "ended", "gone"}]
      /\ \A v \in Workers \ {w} : wpc'[v] = wpc[v]
      /\ InPool(w) => wpc'[w] = "ready"
      /\ ~InPool(w) => wpc'[w] = "ended"
  BY <1>1, <1>2, <1>3
<1>5. job' \in [Workers -> Keys \cup {NoKey}] /\ \A v \in Workers \ {w} : job'[v] = job[v]
  BY <1>1, <1>2
<1>6. workMap' \in [Workers -> SUBSET Keys]
  <2>1. workMap[w] \ {job[w]} \in SUBSET Keys
    BY <1>2
  <2>2. QED
    BY <1>1, <1>2, <2>1
<1>7. PoolTypeOK'
  BY <1>1, <1>4, <1>5, <1>6 DEF PoolInv, PoolTypeOK
<1>8. PlaceInv'
  <2>1. \A v \in Workers : InPool(v)' <=> InPool(v)
    BY <1>1 DEF InPool
  <2>2. PlaceInv
    BY DEF PoolInv
  <2>3. ASSUME NEW v \in Workers
        PROVE  /\ v > made' => wpc'[v] = "none"
               /\ InPool(v)' => wpc'[v] \in {"ready", "work", "send", "settle"}
               /\ v <= made' /\ ~InPool(v)' => wpc'[v] \in {"settle", "ended", "gone"}
    <3>1. CASE v = w
      BY <1>1, <1>4, <2>1, <2>2, <3>1 DEF PlaceInv
    <3>2. CASE v # w
      BY <1>1, <1>4, <2>1, <2>2, <3>2 DEF PlaceInv
    <3>3. QED
      BY <3>1, <3>2
  <2>4. QED
    BY <1>1, <2>2, <2>3 DEF PlaceInv
<1>9. SubmitInv' /\ IdleInv' /\ FiniteInv' /\ KeptIsFound'
  BY <1>1 DEF PoolInv, SubmitInv, IdleInv, InPool, FiniteInv, KeptIsFound
<1>10. wpc'[w] \in {"ready", "ended"}
  BY <1>4
<1>11. JobInv'
  BY <1>4, <1>5, <1>10 DEF PoolInv, JobInv
<1>12. FlowInv'
  <2>1. \A v \in Workers : One(wpc'[v] \in {"work", "send"}) = One(wpc[v] \in {"work", "send"})
    BY <1>1, <1>4, <1>10 DEF One
  <2>2. \A v \in Workers : Places(resultChan, OfWorker(v))' = Places(resultChan, OfWorker(v))
    BY <1>1 DEF OfWorker, Places
  <2>3. QED
    BY <1>1, <2>1, <2>2 DEF PoolInv, FlowInv
<1>13. KeyInv'
  <2>1. \A k \in Keys : WorkingOn(k)' = WorkingOn(k) /\ MergedOf(k)' = MergedOf(k)
           /\ Places(resultChan, OfKey(k))' = Places(resultChan, OfKey(k))
    BY <1>1, <1>4, <1>5, <1>10 DEF WorkingOn, MergedOf, OfKey, Places
  <2>2. QED
    BY <1>1, <2>1 DEF PoolInv, KeyInv
<1>14. ChannelInv'
  <2>1. Active' = Active
    BY <1>1, <1>4, <1>10 DEF Active
  <2>2. QED
    BY <1>1, <2>1 DEF PoolInv, ChannelInv
<1>15. QED
  BY <1>7, <1>8, <1>9, <1>11, <1>12, <1>13, <1>14 DEF PoolInv

\* The result goes to the channel that the main loop reads
LEMMA mergeResultKeeps ==
  ASSUME PoolInv, NEW w \in Workers, mergeResult(w)
  PROVE  PoolInv'
<1> DEFINE q == merged[w]
           r == [w |-> w, k |-> q]
<1>1. /\ pool' = pool /\ made' = made /\ wpc' = wpc /\ job' = job /\ workMap' = workMap
      /\ resultMap' = resultMap /\ requestCount' = requestCount /\ resultCount' = resultCount
      /\ numChan' = numChan /\ closed' = closed /\ submit' = submit
      /\ jobs' = jobs /\ accepted' = accepted /\ kept' = kept
      /\ q # NoResult /\ merged' = [merged EXCEPT ![w] = NoResult]
      /\ Len(resultChan) < MaxWorkers /\ resultChan' = Append(resultChan, r)
  BY DEF mergeResult, historyVars
<1>2. merged \in [Workers -> Keys \cup {NoKey}] /\ resultChan \in Seq(Results)
  BY DEF PoolInv, PoolTypeOK
<1>3. q \in Keys /\ r \in Results /\ r.w = w /\ r.k = q
  BY <1>1, <1>2 DEF Results, NoResult
<1>4. merged' \in [Workers -> Keys \cup {NoKey}] /\ merged'[w] = NoResult
         /\ \A v \in Workers \ {w} : merged'[v] = merged[v]
  BY <1>1, <1>2 DEF NoResult
<1>5. (\A v \in Workers : r \in OfWorker(v) <=> v = w) /\ (\A k \in Keys : r \in OfKey(k) <=> k = q)
  BY <1>3 DEF OfWorker, OfKey
<1> HIDE DEF r, q
<1>6. resultChan' \in Seq(Results) /\ Len(resultChan') <= MaxWorkers
  BY <1>1, <1>2, <1>3
<1>7. PoolTypeOK'
  BY <1>1, <1>4, <1>6 DEF PoolInv, PoolTypeOK
<1>8. PlaceInv' /\ SubmitInv' /\ JobInv' /\ ChannelInv' /\ FiniteInv' /\ IdleInv' /\ KeptIsFound'
  BY <1>1 DEF PoolInv, PlaceInv, InPool, SubmitInv, JobInv, ChannelInv, Active, FiniteInv, IdleInv,
              KeptIsFound
<1>9. FlowInv'
  <2>1. ASSUME NEW v \in Workers
        PROVE  requestCount[v] + One(submit.at = "note" /\ submit.w = v)
                 = resultCount[v] + One(wpc[v] \in {"work", "send"}) + One(merged'[v] # NoResult)
                     + Cardinality(Places(resultChan', OfWorker(v)))
    <3> DEFINE a == One(submit.at = "note" /\ submit.w = v)
               b == One(wpc[v] \in {"work", "send"})
               c == One(merged[v] # NoResult)
               c2 == One(merged'[v] # NoResult)
               d == Cardinality(Places(resultChan, OfWorker(v)))
               d2 == Cardinality(Places(resultChan', OfWorker(v)))
    <3>1. requestCount[v] + a = resultCount[v] + b + c + d
      BY DEF PoolInv, FlowInv
    <3>2. d2 = d + One(r \in OfWorker(v)) /\ d \in Nat
      BY <1>1, <1>2, <1>3, PlacesAppend, PlacesFinite
    <3>3. One(r \in OfWorker(v)) = One(v = w) /\ One(v = w) \in Nat
      BY <1>5 DEF One
    <3>4. c = c2 + One(v = w)
      BY <1>1, <1>4 DEF One, q
    <3>5. a \in Nat /\ b \in Nat /\ c2 \in Nat
      BY DEF One
    <3>6. resultCount[v] \in Nat /\ requestCount[v] \in Nat
      BY DEF PoolInv, PoolTypeOK
    <3> HIDE DEF a, b, c, c2, d, d2
    <3>7. requestCount[v] + a = resultCount[v] + b + c2 + d2
      BY <3>1, <3>2, <3>3, <3>4, <3>5, <3>6
    <3>8. QED
      BY <3>7 DEF a, b, c2, d2
  <2>2. \A v \in Workers : OfWorker(v)' = OfWorker(v)
    BY DEF OfWorker
  <2>3. QED
    BY <1>1, <2>1, <2>2 DEF FlowInv, Places
<1>10. KeyInv'
  <2>1. ASSUME NEW k \in Keys
        PROVE  accepted[k] = Cardinality(WorkingOn(k)) + Cardinality(MergedOf(k)')
                               + Cardinality(Places(resultChan', OfKey(k)))
    <3>1. Cardinality(WorkingOn(k)) \in Nat /\ Cardinality(MergedOf(k)) \in Nat
             /\ Cardinality(Places(resultChan, OfKey(k))) \in Nat
             /\ MergedOf(k) \in SUBSET Workers
      BY <1>2, WorkersFinite, PlacesFinite DEF WorkingOn, MergedOf
    <3>2. accepted[k] = Cardinality(WorkingOn(k)) + Cardinality(MergedOf(k))
                          + Cardinality(Places(resultChan, OfKey(k)))
      BY DEF PoolInv, KeyInv
    <3>3. Cardinality(Places(resultChan', OfKey(k)))
            = Cardinality(Places(resultChan, OfKey(k))) + One(r \in OfKey(k))
      BY <1>1, <1>2, <1>3, PlacesAppend
    <3>4. CASE k = q
      <4>1. w \in MergedOf(k) /\ MergedOf(k)' = MergedOf(k) \ {w}
        BY <1>1, <1>4, <3>4 DEF MergedOf, q
      <4>2. Cardinality(MergedOf(k)') = Cardinality(MergedOf(k)) - 1
        BY <3>1, <4>1, OneLess
      <4>3. One(r \in OfKey(k)) = 1
        BY <1>5, <3>4 DEF One
      <4>4. QED
        BY <3>1, <3>2, <3>3, <4>2, <4>3
    <3>5. CASE k # q
      <4>1. MergedOf(k)' = MergedOf(k)
        BY <1>4, <3>5 DEF MergedOf, NoResult, q
      <4>2. One(r \in OfKey(k)) = 0
        BY <1>5, <3>5 DEF One
      <4>3. QED
        BY <3>1, <3>2, <3>3, <4>1, <4>2
    <3>6. QED
      BY <3>4, <3>5
  <2>2. \A k \in Keys : OfKey(k)' = OfKey(k) /\ WorkingOn(k)' = WorkingOn(k)
    BY <1>1 DEF OfKey, WorkingOn
  <2>3. QED
    BY <1>1, <2>1, <2>2 DEF KeyInv, Places
<1>11. QED
  BY <1>7, <1>8, <1>9, <1>10 DEF PoolInv

\* The goroutine behind a worker ends; the pool still has another one
LEMMA endMergeKeeps ==
  ASSUME PoolInv, NEW w \in Workers, endMerge(w)
  PROVE  PoolInv'
<1>1. /\ pool' = pool /\ made' = made /\ job' = job /\ merged' = merged /\ workMap' = workMap
      /\ resultMap' = resultMap /\ requestCount' = requestCount /\ resultCount' = resultCount
      /\ resultChan' = resultChan /\ submit' = submit
      /\ jobs' = jobs /\ accepted' = accepted /\ kept' = kept
      /\ wpc[w] = "ended" /\ wpc' = [wpc EXCEPT ![w] = "gone"]
      /\ numChan' = numChan - 1 /\ closed' = (closed \/ numChan' = 0)
  BY DEF endMerge, historyVars
<1>2. wpc \in [Workers -> {"none", "ready", "work", "send", "settle", "ended", "gone"}]
         /\ pool \in Seq(Workers) /\ PlaceInv
  BY DEF PoolInv, PoolTypeOK
<1>3. /\ wpc' \in [Workers -> {"none", "ready", "work", "send", "settle", "ended", "gone"}]
      /\ wpc'[w] = "gone" /\ \A v \in Workers \ {w} : wpc'[v] = wpc[v]
  BY <1>1, <1>2
<1>4. w <= made /\ made > 0 /\ ~InPool(w)
  <2>1. ~(w > made) /\ ~InPool(w)
    BY <1>1, <1>2 DEF PlaceInv
  <2>2. made \in Nat
    BY DEF PoolInv, PoolTypeOK
  <2>3. QED
    BY <2>1, <2>2 DEF Workers
<1>5. Active' = Active \ {w} /\ w \in Active /\ Active \in SUBSET Workers
  BY <1>1, <1>3 DEF Active
<1>6. Cardinality(Active') = Cardinality(Active) - 1 /\ Cardinality(Active) \in Nat
  BY <1>5, OneLess, WorkersFinite
<1>7. Cardinality(Active') \in Nat /\ Cardinality(Active') # 0
  <2>1. Len(pool) > 0 /\ Len(pool) \in Nat
    BY <1>2, <1>4 DEF PlaceInv
  <2>2. pool[1] \in Workers /\ InPool(pool[1]) /\ pool[1] # w
    BY <1>2, <1>4, <2>1 DEF InPool
  <2>3. wpc[pool[1]] \in {"ready", "work", "send", "settle"}
    BY <1>2, <2>2 DEF PlaceInv
  <2>4. pool[1] \in Active'
    BY <1>3, <2>2, <2>3 DEF Active
  <2>5. Active' \in SUBSET Workers
    BY <1>5
  <2>6. IsFiniteSet(Active') /\ Cardinality(Active') \in Nat
    BY <2>5, WorkersFinite
  <2>7. QED
    BY <2>4, <2>6, FS_EmptySet
<1>8. ChannelInv'
  BY <1>1, <1>6, <1>7 DEF PoolInv, ChannelInv
<1>9. PoolTypeOK'
  <2>1. numChan' \in Nat
    BY <1>7, <1>8 DEF ChannelInv
  <2>2. closed' \in BOOLEAN
    BY <1>1
  <2>3. QED
    BY <1>1, <1>3, <2>1, <2>2 DEF PoolInv, PoolTypeOK
<1>10. PlaceInv' /\ JobInv'
  BY <1>1, <1>3, <1>4 DEF PoolInv, PlaceInv, InPool, JobInv
<1>11. SubmitInv' /\ IdleInv' /\ FiniteInv' /\ KeptIsFound'
  BY <1>1 DEF PoolInv, SubmitInv, IdleInv, InPool, FiniteInv, KeptIsFound
<1>12. FlowInv'
  <2>1. \A v \in Workers : One(wpc'[v] \in {"work", "send"}) = One(wpc[v] \in {"work", "send"})
    BY <1>1, <1>3 DEF One
  <2>2. \A v \in Workers : Places(resultChan, OfWorker(v))' = Places(resultChan, OfWorker(v))
    BY <1>1 DEF OfWorker, Places
  <2>3. QED
    BY <1>1, <2>1, <2>2 DEF PoolInv, FlowInv
<1>13. KeyInv'
  <2>1. \A k \in Keys : WorkingOn(k)' = WorkingOn(k) /\ MergedOf(k)' = MergedOf(k)
           /\ Places(resultChan, OfKey(k))' = Places(resultChan, OfKey(k))
    BY <1>1, <1>3 DEF WorkingOn, MergedOf, OfKey, Places
  <2>2. QED
    BY <1>1, <2>1 DEF PoolInv, KeyInv
<1>14. QED
  BY <1>8, <1>9, <1>10, <1>11, <1>12, <1>13 DEF PoolInv

-----------------------------------------------------------------------------
(* The theorems *)

\* The pool starts empty
LEMMA PoolInit ==
  ASSUME Init
  PROVE  PoolInv
<1>1. /\ pool = <<>> /\ made = 0 /\ wpc = [w \in Workers |-> "none"]
      /\ job = [w \in Workers |-> NoKey] /\ merged = [w \in Workers |-> NoResult]
      /\ workMap = [w \in Workers |-> {}] /\ resultMap = [w \in Workers |-> {}]
      /\ requestCount = [w \in Workers |-> 0] /\ resultCount = [w \in Workers |-> 0]
      /\ numChan = 0 /\ resultChan = <<>> /\ closed = FALSE
      /\ submit = NoSubmit /\ jobs = 0
      /\ accepted = [k \in Keys |-> 0] /\ kept = {}
  BY DEF Init
<1>2. Len(pool) = 0 /\ Len(resultChan) = 0 /\ pool \in Seq(Workers) /\ resultChan \in Seq(Results)
  BY <1>1
<1>3. PoolTypeOK
  <2>1. submit \in SubmitType
    BY <1>1, NoSubmitType
  <2>2. workMap \in [Workers -> SUBSET Keys] /\ resultMap \in [Workers -> SUBSET Keys]
    BY <1>1
  <2>3. merged \in [Workers -> Keys \cup {NoKey}]
    BY <1>1 DEF NoResult
  <2>4. /\ wpc \in [Workers -> {"none", "ready", "work", "send", "settle", "ended", "gone"}]
        /\ job \in [Workers -> Keys \cup {NoKey}]
        /\ requestCount \in [Workers -> Nat] /\ resultCount \in [Workers -> Nat]
        /\ accepted \in [Keys -> Nat]
    BY <1>1
  <2>5. /\ Len(pool) <= MaxWorkers /\ made \in 0..MaxMade /\ numChan \in Nat
        /\ Len(resultChan) <= MaxWorkers /\ jobs \in 0..MaxJobs
    BY <1>1, <1>2
  <2>6. closed \in BOOLEAN /\ kept \subseteq Keys
    BY <1>1
  <2>7. QED
    BY <1>2, <2>1, <2>2, <2>3, <2>4, <2>5, <2>6 DEF PoolTypeOK, SubmitType
<1>4. \A w \in Workers : ~InPool(w) /\ wpc[w] = "none" /\ w > made
  BY <1>1, <1>2 DEF InPool, Workers
<1>5. PlaceInv
  BY <1>1, <1>2, <1>4 DEF PlaceInv, Workers
<1>6. SubmitInv /\ IdleInv /\ JobInv /\ KeptIsFound
  BY <1>1, <1>4 DEF SubmitInv, IdleInv, JobInv, KeptIsFound
<1>7. FiniteInv
  BY <1>1, FS_EmptySet DEF FiniteInv
<1>8. \A S : Places(resultChan, S) = {}
  BY <1>2 DEF Places
<1>9. Cardinality({}) = 0 /\ \A S : Cardinality(Places(resultChan, S)) = 0
  BY <1>8, FS_EmptySet
<1>10. FlowInv
  <2>1. \A w \in Workers : One(submit.at = "note" /\ submit.w = w) = 0
           /\ One(wpc[w] \in {"work", "send"}) = 0 /\ One(merged[w] # NoResult) = 0
    BY <1>1, <1>4, NoSubmitType DEF One
  <2>2. \A w \in Workers : requestCount[w] = 0 /\ resultCount[w] = 0
           /\ Cardinality(Places(resultChan, OfWorker(w))) = 0
    BY <1>1, <1>9
  <2>3. QED
    BY <2>1, <2>2 DEF FlowInv
<1>11. KeyInv
  <2>1. \A k \in Keys : WorkingOn(k) = {} /\ MergedOf(k) = {}
    BY <1>1, <1>4 DEF WorkingOn, MergedOf, NoResult
  <2>2. \A k \in Keys : accepted[k] = 0 /\ Cardinality(WorkingOn(k)) = 0
           /\ Cardinality(MergedOf(k)) = 0 /\ Cardinality(Places(resultChan, OfKey(k))) = 0
    BY <1>1, <1>9, <2>1
  <2>3. QED
    BY <2>2 DEF KeyInv
<1>12. ChannelInv
  <2>1. Active = {}
    BY <1>4 DEF Active
  <2>2. QED
    BY <1>1, <1>9, <2>1 DEF ChannelInv
<1>13. QED
  BY <1>3, <1>5, <1>6, <1>7, <1>10, <1>11, <1>12 DEF PoolInv

\* A step that changes nothing
LEMMA PoolStutter ==
  ASSUME PoolInv, UNCHANGED vars
  PROVE  PoolInv'
<1>1. /\ pool' = pool /\ made' = made /\ wpc' = wpc /\ job' = job /\ merged' = merged
      /\ workMap' = workMap /\ resultMap' = resultMap
      /\ requestCount' = requestCount /\ resultCount' = resultCount
      /\ numChan' = numChan /\ resultChan' = resultChan /\ closed' = closed
      /\ submit' = submit /\ jobs' = jobs /\ accepted' = accepted /\ kept' = kept
  BY DEF vars
<1>2. PoolTypeOK' /\ SubmitInv' /\ FiniteInv' /\ IdleInv'
  BY <1>1 DEF PoolInv, PoolTypeOK, SubmitInv, InPool, FiniteInv, IdleInv
<1>3. PlaceInv' /\ JobInv' /\ ChannelInv' /\ KeptIsFound'
  BY <1>1 DEF PoolInv, PlaceInv, InPool, JobInv, ChannelInv, Active, KeptIsFound
<1>4. FlowInv' /\ KeyInv'
  BY <1>1 DEF PoolInv, FlowInv, KeyInv, WorkingOn, MergedOf, OfWorker, OfKey, Places
<1>5. QED
  BY <1>2, <1>3, <1>4 DEF PoolInv

\* Whatever the main loop, the workers and the collector do, and in whatever order: the
\* counters tell where every accepted job is, and the submission under way is at a worker
\* of the pool
THEOREM PoolInvariant == Spec => []PoolInv
<1>1. Init => PoolInv
  BY PoolInit
<1>2. PoolInv /\ [Next]_vars => PoolInv'
  <2> SUFFICES ASSUME PoolInv, [Next]_vars PROVE PoolInv'
    OBVIOUS
  <2>1. CASE \E k \in Keys : TrySubmit(k) \/ Pop(k) \/ Cancel(k)
    BY <2>1, TrySubmitKeeps, PopKeeps, CancelKeeps
  <2>2. CASE Submission
    BY <2>2, tryWorkerKeeps, newWorkerKeeps, submitNewKeeps, refuseKeeps, addPendingKeeps
       DEF Submission
  <2>3. CASE Process \/ periodicGC
    BY <2>3, ProcessKeeps, periodicGCKeeps
  <2>4. CASE \E w \in Workers : Goroutine(w)
    BY <2>4, endWorkKeeps, sendResultKeeps, deletePendingKeeps, mergeResultKeeps, endMergeKeeps
       DEF Goroutine
  <2>5. CASE UNCHANGED vars
    BY <2>5, PoolStutter
  <2>6. QED
    BY <2>1, <2>2, <2>3, <2>4, <2>5 DEF Next
<1>3. QED
  BY <1>1, <1>2, PTL DEF Spec

\* The pool has at most maxWorkers workers, and as many results in its channel (TrySubmit,
\* mergeResult)
THEOREM PoolTypes == Spec => []PoolTypeOK
<1>1. PoolInv => PoolTypeOK
  BY DEF PoolInv
<1>2. QED
  BY <1>1, PoolInvariant, PTL

\* Pop finds the result of every job that was processed, whatever workers purgeOld took
THEOREM ResultsAreFound == Spec => []KeptIsFound
<1>1. PoolInv => KeptIsFound
  BY DEF PoolInv
<1>2. QED
  BY <1>1, PoolInvariant, PTL

\* The channel that the main loop reads is never closed: the last mergeResult does not end
\* as long as purgeOld leaves one worker
THEOREM ResultChannelStaysOpen == Spec => []ChannelStaysOpen
<1>1. PoolInv => ChannelStaysOpen
  BY DEF PoolInv, ChannelInv, ChannelStaysOpen
<1>2. QED
  BY <1>1, PoolInvariant, PTL
=============================================================================
