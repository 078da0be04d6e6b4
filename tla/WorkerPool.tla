----------------------------- MODULE WorkerPool -----------------------------
(***************************************************************************)
(* The pool of workers that agents hand long jobs to.  The agent's main    *)
(* loop submits jobs, processes results and pops them; every worker is a   *)
(* goroutine (processWork) with another one behind it (mergeResult); a     *)
(* third one collects idle workers.  All meet in unbuffered channels, the  *)
(* workers' locks and the lock of the pool.                                *)
(*                                                                         *)
(* `pool' is the slice of workers, in the order TrySubmit asks them.  A    *)
(* submission takes several steps and holds the pool's lock meanwhile.     *)
(* Results are processed with later = TRUE, as baseosmgr and volumemgr do. *)
(*                                                                         *)
(* Left out: Peek, Done, jobs without a key or of an unknown kind, and     *)
(* lastUsed, which is never set after the worker was made (TrySubmit sets  *)
(* it in a copy): any idle worker may be old enough to be purged.          *)
(***************************************************************************)
EXTENDS Integers, Sequences, FiniteSets, SequencesExt

CONSTANTS
  Keys,
  NoKey,
  MaxWorkers, \* maxWorkers of the pool
  MaxMade,    \* bound: workers that are ever made
  MaxJobs     \* bound: submissions

ASSUME PoolAssumption ==
  /\ NoKey \notin Keys /\ MaxWorkers \in Nat \ {0}
  /\ MaxMade \in Nat \ {0} /\ MaxJobs \in Nat

Workers == 1..MaxMade
NoWorker == 0

VARIABLES
  pool, made,      \* workers of the pool; number of workers made so far
  wpc, job,        \* processWork of each worker: where it is, the job it has
  merged,          \* the result mergeResult has in its hand
  workMap,         \* keys each worker takes for pending
  resultMap,       \* keys each worker keeps a result of
  requestCount, resultCount,
  numChan, resultChan, closed,
  submit,          \* the submission under way
  jobs,
  accepted,        \* history: jobs accepted and not processed, per key
  kept             \* history: keys with a result that was processed and not popped

vars == <<pool, made, wpc, job, merged, workMap, resultMap, requestCount, resultCount,
          numChan, resultChan, closed, submit, jobs, accepted, kept>>

workerVars == <<wpc, job, merged, workMap, resultMap, requestCount, resultCount>>
channelVars == <<numChan, resultChan, closed>>
historyVars == <<accepted, kept>>

Results == [w : Workers, k : Keys]
NoResult == NoKey
NoSubmit == [at |-> "none", k |-> NoKey, i |-> 0, w |-> NoWorker, new |-> FALSE]

\* The pool never has more than maxWorkers workers (TrySubmit), and its counters their types
PoolTypeOK ==
  /\ pool \in Seq(Workers) /\ Len(pool) <= MaxWorkers /\ made \in 0..MaxMade
  /\ wpc \in [Workers -> {"none", "ready", "work", "send", "settle", "ended", "gone"}]
  /\ job \in [Workers -> Keys \cup {NoKey}] /\ merged \in [Workers -> Keys \cup {NoKey}]
  /\ workMap \in [Workers -> SUBSET Keys] /\ resultMap \in [Workers -> SUBSET Keys]
  /\ requestCount \in [Workers -> Nat] /\ resultCount \in [Workers -> Nat]
  /\ numChan \in Nat /\ resultChan \in Seq(Results) /\ Len(resultChan) <= MaxWorkers
  /\ closed \in BOOLEAN
  /\ submit \in [at : {"none", "try", "new", "note"}, k : Keys \cup {NoKey},
                 i : 0..(MaxWorkers + 1), w : Workers \cup {NoWorker}, new : BOOLEAN]
  /\ jobs \in 0..MaxJobs
  /\ accepted \in [Keys -> Nat] /\ kept \subseteq Keys

Init ==
  /\ pool = <<>> /\ made = 0
  /\ wpc = [w \in Workers |-> "none"]
  /\ job = [w \in Workers |-> NoKey] /\ merged = [w \in Workers |-> NoResult]
  /\ workMap = [w \in Workers |-> {}] /\ resultMap = [w \in Workers |-> {}]
  /\ requestCount = [w \in Workers |-> 0] /\ resultCount = [w \in Workers |-> 0]
  /\ numChan = 0 /\ resultChan = <<>> /\ closed = FALSE
  /\ submit = NoSubmit /\ jobs = 0
  /\ accepted = [k \in Keys |-> 0] /\ kept = {}

NumPending(w) == requestCount[w] - resultCount[w]
NumResults(w) == Cardinality(resultMap[w])

-----------------------------------------------------------------------------
(* The main loop of the agent *)

Unlocked == submit = NoSubmit

TrySubmit(k) ==
  /\ Unlocked /\ jobs < MaxJobs /\ jobs' = jobs + 1
  /\ submit' = [at |-> "try", k |-> k, i |-> 1, w |-> NoWorker, new |-> FALSE]
  /\ UNCHANGED <<pool, made, workerVars, channelVars, historyVars>>

\* The job goes through the unbuffered channel to a goroutine that waits for one
handOver(w) ==
  /\ wpc[w] = "ready"
  /\ wpc' = [wpc EXCEPT ![w] = "work"] /\ job' = [job EXCEPT ![w] = submit.k]
  /\ submit' = [submit EXCEPT !.at = "note", !.w = w]
  /\ accepted' = [accepted EXCEPT ![submit.k] = @ + 1]

\* submitImpl of the next worker in the pool: JobInProgressError, done, or neither
tryWorker ==
  /\ submit.at = "try" /\ submit.i <= Len(pool)
  /\ LET w == pool[submit.i] IN
     \/ /\ submit.k \in workMap[w]
        /\ submit' = NoSubmit
        /\ UNCHANGED <<wpc, job, accepted>>
     \/ /\ submit.k \notin workMap[w]
        /\ handOver(w)
     \/ /\ submit.k \notin workMap[w] /\ wpc[w] # "ready"
        /\ submit' = [submit EXCEPT !.i = @ + 1]
        /\ UNCHANGED <<wpc, job, accepted>>
  /\ UNCHANGED <<pool, made, merged, workMap, resultMap, requestCount, resultCount, channelVars,
                 jobs, kept>>

\* Mutant: one worker more than maxWorkers
newWorkerOneMore ==
  /\ submit.at = "try" /\ submit.i > Len(pool) /\ Len(pool) <= MaxWorkers /\ made < MaxMade
  /\ made' = made + 1 /\ pool' = Append(pool, made')
  /\ wpc' = [wpc EXCEPT ![made'] = "ready"] /\ numChan' = numChan + 1
  /\ submit' = [submit EXCEPT !.at = "new", !.w = made', !.new = TRUE]
  /\ UNCHANGED <<job, merged, workMap, resultMap, requestCount, resultCount, resultChan, closed,
                 jobs, historyVars>>

\* NewWorker and its mergeResult; submitImpl then waits for the goroutine
newWorker ==
  /\ submit.at = "try" /\ submit.i > Len(pool) /\ Len(pool) < MaxWorkers /\ made < MaxMade
  /\ made' = made + 1 /\ pool' = Append(pool, made')
  /\ wpc' = [wpc EXCEPT ![made'] = "ready"] /\ numChan' = numChan + 1
  /\ submit' = [submit EXCEPT !.at = "new", !.w = made', !.new = TRUE]
  /\ UNCHANGED <<job, merged, workMap, resultMap, requestCount, resultCount, resultChan, closed,
                 jobs, historyVars>>

submitNew ==
  /\ submit.at = "new" /\ handOver(submit.w)
  /\ UNCHANGED <<pool, made, merged, workMap, resultMap, requestCount, resultCount, channelVars,
                 jobs, kept>>

\* maxWorkers of them, none of which waits for a job: the error is all the caller gets
refuse ==
  /\ submit.at = "try" /\ submit.i > Len(pool)
  /\ Len(pool) >= MaxWorkers \/ made = MaxMade
  /\ submit' = NoSubmit
  /\ UNCHANGED <<pool, made, workerVars, channelVars, jobs, historyVars>>

\* Mutant: a worker is purged although it keeps a result
purgeableWithResults(i, start) == i > start + 1 /\ NumPending(pool[i]) = 0

\* Mutant: the index counts from 1
purgeableFirst(i, start) == i > start /\ NumPending(pool[i]) = 0 /\ NumResults(pool[i]) = 0

\* What may go: not one of the first (the index in the code starts at 0), nothing pending, no
\* result waiting
purgeable(i, start) ==
  i > start + 1 /\ NumPending(pool[i]) = 0 /\ NumResults(pool[i]) = 0

\* The places of the pool that are not old, in their order
others(old) ==
  {f \in UNION {[1..n -> (1..Len(pool)) \ old] : n \in 0..Len(pool)} :
     /\ \A i, j \in DOMAIN f : i < j => f[i] < f[j]
     /\ Range(f) = (1..Len(pool)) \ old}

\* purgeOld and Done of the workers that go: processWork finds its channel closed
purgeOld(start) ==
  \E old \in SUBSET {i \in 1..Len(pool) : purgeable(i, start)} :
    LET gone == {pool[i] : i \in old} IN
    /\ \E f \in others(old) : pool' = [i \in DOMAIN f |-> pool[f[i]]]
    /\ wpc' = [w \in Workers |-> IF w \in gone /\ wpc[w] = "ready" THEN "ended" ELSE wpc[w]]

\* The rest of submitImpl: the worker notes the key.  Then TrySubmit purges, unless the worker
\* was made for this job.
addPending ==
  /\ submit.at = "note"
  /\ requestCount' = [requestCount EXCEPT ![submit.w] = @ + 1]
  /\ workMap' = [workMap EXCEPT ![submit.w] = @ \cup {submit.k}]
  /\ IF submit.new THEN UNCHANGED <<pool, wpc>> ELSE purgeOld(submit.i)
  /\ submit' = NoSubmit
  /\ UNCHANGED <<made, job, merged, resultMap, resultCount, channelVars, jobs, historyVars>>

periodicGC ==
  /\ Unlocked /\ purgeOld(0)
  /\ UNCHANGED <<made, job, merged, workMap, resultMap, requestCount, resultCount, channelVars,
                 submit, jobs, historyVars>>

\* Process, in the main loop, of the next result of the pool
Process ==
  /\ Unlocked /\ resultChan # <<>>
  /\ LET r == Head(resultChan) IN
     /\ resultCount' = [resultCount EXCEPT ![r.w] = @ + 1]
     /\ resultMap' = [resultMap EXCEPT ![r.w] = @ \cup {r.k}]
     /\ accepted' = [accepted EXCEPT ![r.k] = @ - 1]
     /\ kept' = kept \cup {r.k}
  /\ resultChan' = Tail(resultChan)
  /\ UNCHANGED <<pool, made, wpc, job, merged, workMap, requestCount, numChan, closed, submit,
                 jobs>>

\* Pop takes the result of the first worker that has one.  (Its job may have another result
\* in another worker.)
Pop(k) ==
  /\ Unlocked
  /\ \E i \in 1..Len(pool) :
       /\ k \in resultMap[pool[i]] /\ \A j \in 1..(i - 1) : k \notin resultMap[pool[j]]
       /\ resultMap' = [resultMap EXCEPT ![pool[i]] = @ \ {k}]
       /\ kept' = IF \E j \in (i + 1)..Len(pool) : k \in resultMap[pool[j]]
                  THEN kept ELSE kept \ {k}
  /\ UNCHANGED <<pool, made, wpc, job, merged, workMap, requestCount, resultCount, channelVars,
                 submit, jobs, accepted>>

Cancel(k) ==
  /\ Unlocked /\ \E i \in 1..Len(pool) : k \in workMap[pool[i]]
  /\ workMap' = [w \in Workers |-> IF Contains(pool, w) THEN workMap[w] \ {k} ELSE workMap[w]]
  /\ UNCHANGED <<pool, made, wpc, job, merged, resultMap, requestCount, resultCount, channelVars,
                 submit, jobs, historyVars>>

-----------------------------------------------------------------------------
(* The goroutines of a worker *)

\* The job is done
endWork(w) ==
  /\ wpc[w] = "work" /\ wpc' = [wpc EXCEPT ![w] = "send"]
  /\ UNCHANGED <<pool, made, job, merged, workMap, resultMap, requestCount, resultCount,
                 channelVars, submit, jobs, historyVars>>

\* The result goes through the unbuffered channel to mergeResult
sendResult(w) ==
  /\ wpc[w] = "send" /\ merged[w] = NoResult
  /\ merged' = [merged EXCEPT ![w] = job[w]] /\ wpc' = [wpc EXCEPT ![w] = "settle"]
  /\ UNCHANGED <<pool, made, job, workMap, resultMap, requestCount, resultCount, channelVars,
                 submit, jobs, historyVars>>

\* The key is no longer pending; then the next job is awaited, or the channel is closed
deletePending(w) ==
  /\ wpc[w] = "settle"
  /\ workMap' = [workMap EXCEPT ![w] = @ \ {job[w]}]
  /\ job' = [job EXCEPT ![w] = NoKey]
  /\ wpc' = [wpc EXCEPT ![w] = IF Contains(pool, w) THEN "ready" ELSE "ended"]
  /\ UNCHANGED <<pool, made, merged, resultMap, requestCount, resultCount, channelVars, submit,
                 jobs, historyVars>>

\* Mutant: only the first worker has one
mergeResultOfFirst(w) ==
  /\ w = 1 /\ merged[w] # NoResult /\ Len(resultChan) < MaxWorkers
  /\ resultChan' = Append(resultChan, [w |-> w, k |-> merged[w]])
  /\ merged' = [merged EXCEPT ![w] = NoResult]
  /\ UNCHANGED <<pool, made, wpc, job, workMap, resultMap, requestCount, resultCount, numChan,
                 closed, submit, jobs, historyVars>>

mergeResult(w) ==
  /\ merged[w] # NoResult /\ Len(resultChan) < MaxWorkers
  /\ resultChan' = Append(resultChan, [w |-> w, k |-> merged[w]])
  /\ merged' = [merged EXCEPT ![w] = NoResult]
  /\ UNCHANGED <<pool, made, wpc, job, workMap, resultMap, requestCount, resultCount, numChan,
                 closed, submit, jobs, historyVars>>

\* The last mergeResult closes the channel the main loop reads
endMerge(w) ==
  /\ wpc[w] = "ended" /\ merged[w] = NoResult
  /\ wpc' = [wpc EXCEPT ![w] = "gone"]
  /\ numChan' = numChan - 1 /\ closed' = (closed \/ numChan' = 0)
  /\ UNCHANGED <<pool, made, job, merged, workMap, resultMap, requestCount, resultCount,
                 resultChan, submit, jobs, historyVars>>

Submission == tryWorker \/ newWorker \/ submitNew \/ refuse \/ addPending

Goroutine(w) ==
  endWork(w) \/ sendResult(w) \/ deletePending(w) \/ mergeResult(w) \/ endMerge(w)

Next ==
  \/ \E k \in Keys : TrySubmit(k) \/ Pop(k) \/ Cancel(k)
  \/ Submission \/ Process \/ periodicGC
  \/ \E w \in Workers : Goroutine(w)

Spec == Init /\ [][Next]_vars

\* Jobs end, goroutines go on, and the main loop reads its channel
FairSpec ==
  /\ Spec /\ WF_vars(Submission) /\ WF_vars(Process)
  /\ \A w \in Workers : WF_vars(Goroutine(w))

-----------------------------------------------------------------------------
(* Properties *)

\* A result stays where Pop finds it, whatever workers are collected meanwhile
KeptIsFound == \A k \in kept : \E i \in 1..Len(pool) : k \in resultMap[pool[i]]

\* The channel of results is not closed under a pool that is in use: the collector never
\* takes the last worker
ChannelStaysOpen == ~closed

\* Every job that was accepted comes back to the main loop, a worker that is purged and a full
\* channel of results notwithstanding
AcceptedIsProcessed == \A k \in Keys : (accepted[k] > 0) ~> (accepted[k] = 0)

\* A key that makes TrySubmit fail with JobInProgressError is a job in progress
\* (workerpool.go: "returns JobInProgressError if a job with that key already in progress")
PendingIsInProgress ==
  \A i \in 1..Len(pool) : \A k \in workMap[pool[i]] : job[pool[i]] = k
=============================================================================
