----------------------------- MODULE BaseOsMgr -----------------------------
(***************************************************************************)
(* baseosmgr: installs the base image the controller asks for into the     *)
(* other partition and commits it once nodeagent has tested it.            *)
(*                                                                         *)
(* One main loop handles one event at a time; the image is written by a    *)
(* worker of the pool (module worker of pillar).  A handler                *)
(* that writes to the disk more than once, or that calls another handler,  *)
(* is split into steps by `pc', so that the device can lose power between  *)
(* them; the main loop takes no other event before pc is back to "idle".   *)
(*                                                                         *)
(* A content tree is identified with the version it is configured for; the *)
(* image inside may have another version (ImageOf).  Left out: error       *)
(* texts, the software state reported to the controller, the Activated     *)
(* flag (true for the running version only, for which nothing is done),    *)
(* and the drain of a kubernetes node before an update.                    *)
(***************************************************************************)
EXTENDS Zboot

CONSTANTS
  ImageOf,     \* the version inside the image configured as each version
  OtherHVType, \* versions that may not replace the running one: EVE-k and not EVE-k
  TooLarge,    \* versions whose image does not fit into the partition
  ConfigInputs,\* the BaseOsConfigs the controller may send
  ContentInputs,\* what volumemgr may report of a content tree
  MaxWorkers,  \* workers of the pool (20)
  MaxRetry,    \* bound: values of the retry counter in the BaseOsConfig
  MaxFallback  \* bound: values of ForceFallbackCounter

ASSUME ImageOfAssumption == ImageOf \in [Versions -> Versions]
ASSUME UnfitAssumption == OtherHVType \subseteq Versions /\ TooLarge \subseteq Versions
ASSUME WorkersAssumption == MaxWorkers \in Nat \ {0}
ASSUME CountersAssumption == MaxRetry \in Nat /\ MaxFallback \in Nat

VARIABLES
  bosmUp,              \* "down", "waiting" (ZbootStatus is published) or "running"
  config,              \* BaseOsConfig as zedagent publishes it
  bosConfig,           \* the BaseOsConfig of each version the main loop has received
  status,              \* BaseOsStatus of each version
  ct,                  \* ContentTreeStatus of each version, as received
  jobs,                \* the install job of each worker of the pool
  sent,                \* results on their way to the main loop
  kept,                \* results kept by the workers for installDownloadedObject
  mixed,               \* workers that wrote while another wrote another image
  pc,                  \* what is left to do of the present handler
  configUpdateRetry,   \* retry counter last acted upon (saved in a file)
  currentUpdateRetry,  \* retry counter reported as reached (saved in a file)
  fallbackSaved,       \* ForceFallbackCounter in its file, -1 without a file
  fallbackCounter,     \* ForceFallbackCounter as zedagent publishes it
  zconfigSeen          \* the ZbootConfig last handled

worker == <<jobs, sent, kept>>
bosm == <<bosmUp, config, bosConfig, status, ct, worker, mixed, pc, configUpdateRetry,
          currentUpdateRetry, fallbackSaved, fallbackCounter, zconfigSeen>>
saved == <<configUpdateRetry, currentUpdateRetry, fallbackSaved>>

RetryCounters == 0..MaxRetry
FallbackCounters == 0..MaxFallback
NoConfig == [ver |-> NoVer, activate |-> FALSE, retry |-> 0]
Configs  == {NoConfig} \cup [ver : Versions, activate : BOOLEAN, retry : RetryCounters]
ContentStates == {"none", "loading", "loaded", "error"}
ASSUME BosmInputsAssumption ==
  ConfigInputs \subseteq Configs /\ ContentInputs \subseteq ContentStates
Statuses == [exists : BOOLEAN, label : Parts \cup {""}, tooEarly : BOOLEAN]
NoStatus == [exists |-> FALSE, label |-> "", tooEarly |-> FALSE]
NewStatus == [NoStatus EXCEPT !.exists = TRUE]

\* Where the handler is, the versions it still has to look at, and the retry counter, or
\* the ForceFallbackCounter, it was called with
PcAt == {"idle", "update", "config", "retryInstall", "counter", "retryFailed",
         "markOther", "ackTest", "publishAll", "saveFallback"}
Pcs == [at : PcAt \ {"saveFallback"}, vs : SUBSET Versions, n : RetryCounters]
         \cup [at : {"saveFallback"}, vs : {{}}, n : FallbackCounters]
Idle == [at |-> "idle", vs |-> {}, n |-> 0]

\* A job is over with its result sent, and still counts as pending for a moment
Workers == 1..MaxWorkers
NoJob   == [at |-> "none", ver |-> NoVer]
PoolJobs == {NoJob} \cup [at : {"queued", "writing", "ended"}, ver : Versions]
Results == [w : Workers, ver : Versions, ok : BOOLEAN]

BaseOsMgrTypeOK ==
  /\ bosmUp \in {"down", "waiting", "running"}
  /\ config \in Configs
  /\ bosConfig \in [Versions -> Configs]
  /\ status \in [Versions -> Statuses]
  /\ ct \in [Versions -> ContentStates]
  /\ jobs \in [Workers -> PoolJobs] /\ sent \in SUBSET Results /\ kept \in SUBSET Results
  /\ mixed \in SUBSET Workers
  /\ pc \in Pcs
  /\ configUpdateRetry \in RetryCounters /\ currentUpdateRetry \in RetryCounters
  /\ fallbackSaved \in FallbackCounters \cup {-1} /\ fallbackCounter \in FallbackCounters
  /\ zconfigSeen \in BOOLEAN

\* What a restart of the device loses
Volatile(bu, bc, st, c, j, rs, rk, m, p, z) ==
  /\ bu = "down" /\ bc = [v \in Versions |-> NoConfig]
  /\ st = [v \in Versions |-> NoStatus] /\ c = [v \in Versions |-> "none"]
  /\ j = [w \in Workers |-> NoJob] /\ rs = {} /\ rk = {} /\ m = {} /\ p = Idle /\ z = FALSE

BaseOsMgrInit ==
  /\ Volatile(bosmUp, bosConfig, status, ct, jobs, sent, kept, mixed, pc, zconfigSeen)
  /\ config = NoConfig
  /\ configUpdateRetry = 0 /\ currentUpdateRetry = 0
  /\ fallbackSaved = -1 /\ fallbackCounter = 0

BaseOsMgrReset ==
  /\ Volatile(bosmUp', bosConfig', status', ct', jobs', sent', kept', mixed', pc', zconfigSeen')
  /\ UNCHANGED <<config, saved, fallbackCounter>>

-----------------------------------------------------------------------------
(* Helpers *)

publishBaseOsStatus(v, s) == status' = [status EXCEPT ![v] = s]

\* Mutant: the new state is not published
SetOtherUnpublished(s, ver) ==
  /\ part' = [part EXCEPT ![other] = s]
  /\ UNCHANGED zstatus

\* zboot.SetOtherPartitionStateUpdating or Unused, then updateAndPublishZbootStatus
\* of the other partition with version ver
SetOtherPartitionState(s, ver) ==
  /\ part' = [part EXCEPT ![other] = s]
  /\ zstatus' = [zstatus EXCEPT ![other].state = s, ![other].ver = ver]

\* getPartitionState: the published state
getPartitionState(p) == zstatus[p].state

\* Mutant: a version that failed may be installed again
validateAny(v) == TRUE

\* The version was tried and failed: the device fell back from it
validatePartition(v) ==
  ~(getPartitionState(other) = "inprogress" /\ zstatus[other].ver = v)

\* The main loop is free to take an event
MainLoop == booted /\ bosmUp = "running" /\ pc = Idle

-----------------------------------------------------------------------------
(* baseOsHandleStatusUpdate(v) with a copy s of the status, by the point at which it
   returns; c is the configuration *)

\* Nothing to do for the running version, whatever the configuration says
runningVersion(v, s) ==
  /\ zstatus[cur].ver = v
  /\ publishBaseOsStatus(v, [s EXCEPT !.label = cur])
  /\ UNCHANGED <<part, zstatus, worker>>

\* "Is this already in otherPartName?", and the status after that
inOther(v, s) == s.label \in {"", other} /\ zstatus[other].ver = v
labelled(v, s) == IF inOther(v, s) THEN [s EXCEPT !.label = other] ELSE s

\* The image cannot or need not be installed now.  Where only the state or the error
\* reported to the controller would make the status `changed', it may stay as it was.
notInstalled(v, s, c) ==
  /\ \/ ~c.activate \/ v \in OtherHVType
     \/ ~validatePartition(v)
     \/ ct[v] # "loaded"
  /\ \/ publishBaseOsStatus(v, labelled(v, s))
     \/ /\ ~inOther(v, s) /\ v \notin OtherHVType /\ validatePartition(v) /\ ct[v] # "none"
        /\ UNCHANGED status
  /\ UNCHANGED <<part, zstatus, worker>>

\* Mutant: only the current partition is looked at
testingCurrentOnly == getPartitionState(cur) = "inprogress"

\* validateAndAssignPartition: the fallback must not be overwritten
testing == getPartitionState(cur) = "inprogress" \/ getPartitionState(other) = "active"

tooEarly(v, s) ==
  /\ testing
  /\ publishBaseOsStatus(v, [labelled(v, s) EXCEPT !.tooEarly = TRUE])
  /\ UNCHANGED <<part, zstatus, worker>>

\* doBaseOsActivate compares the sizes once the partition is assigned
tooLarge(v, s) ==
  /\ ~testing /\ v \in TooLarge
  /\ publishBaseOsStatus(v, [s EXCEPT !.label = other])
  /\ UNCHANGED <<part, zstatus, worker>>

\* Pool.TrySubmit asks its workers in their order, and adds one at the end: one that has a
\* job of the same key refuses it, and the first one that waits for work takes it.
\* AddWorkInstall logs a refusal.
AddWorkInstall(v) ==
  \/ \E w \in Workers :
       /\ jobs[w].at = "none"
       /\ \A u \in Workers : u < w => jobs[u].at # "none" /\ jobs[u].ver # v
       /\ jobs' = [jobs EXCEPT ![w] = [at |-> "queued", ver |-> v]]
  \/ /\ \A w \in Workers : jobs[w].at = "none" => \E u \in Workers : u < w /\ jobs[u].ver = v
     /\ UNCHANGED jobs

\* Pool.Pop: the result kept by the first worker that has one for this key
Pop(v) == {r \in kept : r.ver = v /\ \A q \in kept : q.ver = v => r.w <= q.w}

\* Mutant: the error of the job is ignored
activateDespiteError(v, s) ==
  /\ ~testing /\ v \notin TooLarge
  /\ \/ /\ \E r \in Pop(v) : kept' = kept \ {r}
        /\ publishBaseOsStatus(v, [s EXCEPT !.label = other])
        /\ SetOtherPartitionState("updating", v)
        /\ UNCHANGED <<jobs, sent>>
     \/ /\ Pop(v) = {} /\ AddWorkInstall(v)
        /\ UNCHANGED <<part, zstatus, status, sent, kept>>

\* doBaseOsActivate: installDownloadedObject takes a result when there is one, otherwise it
\* submits the job; then the caller drops the status it has changed (`changed' is
\* overwritten), so nothing is published.
doBaseOsActivate(v, s) ==
  /\ ~testing /\ v \notin TooLarge
  /\ \/ \E r \in Pop(v) :
          /\ kept' = kept \ {r} /\ UNCHANGED <<jobs, sent>>
          /\ publishBaseOsStatus(v, [s EXCEPT !.label = other])
          /\ \/ /\ r.ok
                /\ \E read \in GetShortVersion(other) :
                     LET ver == IF read = NoVer THEN zstatus[other].ver ELSE read IN
                     SetOtherPartitionState(IF ver = v THEN "updating" ELSE "unused", ver)
             \/ ~r.ok /\ UNCHANGED <<part, zstatus>>
     \/ /\ Pop(v) = {} /\ AddWorkInstall(v)
        /\ UNCHANGED <<part, zstatus, status, sent, kept>>

\* doBaseOsStatusUpdate
baseOsHandleStatusUpdate(v, s, c) ==
  IF ct[v] = "error"
  THEN publishBaseOsStatus(v, s) /\ UNCHANGED <<part, zstatus, worker>>
  ELSE \/ runningVersion(v, s)
       \/ zstatus[cur].ver # v /\ notInstalled(v, s, c)
       \/ /\ zstatus[cur].ver # v /\ c.activate /\ v \notin OtherHVType
          /\ validatePartition(v) /\ ct[v] = "loaded"
          /\ tooEarly(v, s) \/ tooLarge(v, s) \/ doBaseOsActivate(v, s)

-----------------------------------------------------------------------------
(* Steps of handlers, by pc *)

\* baseOsHandleStatusUpdateUUID, for a content tree or a work result
stepUpdate ==
  /\ booted /\ pc.at = "update"
  /\ \E v \in pc.vs :
       IF bosConfig[v] # NoConfig /\ status[v].exists /\ ct[v] # "none"
       THEN baseOsHandleStatusUpdate(v, status[v], bosConfig[v])
       ELSE UNCHANGED <<part, zstatus, status, worker>>
  /\ pc' = Idle
  /\ UNCHANGED <<up, cur, img, zconfig, vault, bosmUp, config, bosConfig, ct, mixed, saved,
                 fallbackCounter, zconfigSeen>>

\* The rest of handleBaseOsConfigCreate and Modify
stepConfig ==
  /\ booted /\ pc.at = "config"
  /\ \E v \in pc.vs : baseOsHandleStatusUpdate(v, status[v], bosConfig[v])
  /\ pc' = [Idle EXCEPT !.at = "counter", !.n = pc.n]
  /\ UNCHANGED <<up, cur, img, zconfig, vault, bosmUp, config, bosConfig, ct, mixed, saved,
                 fallbackCounter, zconfigSeen>>

\* maybeRetryInstall: the updates that came too early, one after the other
stepRetryInstall ==
  /\ booted /\ pc.at = "retryInstall"
  /\ IF pc.vs = {}
     THEN /\ pc' = [Idle EXCEPT !.at = "counter", !.n = configUpdateRetry]
          /\ UNCHANGED <<part, zstatus, status, worker>>
     ELSE \E v \in pc.vs :
          /\ baseOsHandleStatusUpdate(v, [status[v] EXCEPT !.tooEarly = FALSE], bosConfig[v])
          /\ pc' = [pc EXCEPT !.vs = @ \ {v}]
  /\ UNCHANGED <<up, cur, img, zconfig, vault, bosmUp, config, bosConfig, ct, mixed, saved,
                 fallbackCounter, zconfigSeen>>

\* isImageInErrorState, when the current partition is active
isImageInErrorState ==
  /\ getPartitionState(other) = "inprogress"
  /\ zstatus[other].ver # NoVer
  /\ bosConfig[zstatus[other].ver].activate

\* handleUpdateRetryCounter: the counter is saved before the failed image is tried again
handleUpdateRetryCounter ==
  /\ booted /\ pc.at = "counter"
  /\ CASE getPartitionState(cur) # "active" ->
            pc' = Idle /\ UNCHANGED <<configUpdateRetry, currentUpdateRetry>>
       [] getPartitionState(cur) = "active" /\ isImageInErrorState ->
            /\ configUpdateRetry' = pc.n
            /\ pc' = IF configUpdateRetry = pc.n THEN Idle
                     ELSE [Idle EXCEPT !.at = "retryFailed"]
            /\ UNCHANGED currentUpdateRetry
       [] OTHER ->
            /\ configUpdateRetry' = pc.n /\ currentUpdateRetry' = pc.n
            /\ pc' = Idle
  /\ UNCHANGED <<zboot, bosmUp, config, bosConfig, status, ct, worker, mixed,
                 fallbackSaved, fallbackCounter, zconfigSeen>>

stepRetryFailed ==
  /\ booted /\ pc.at = "retryFailed"
  /\ SetOtherPartitionState("updating", zstatus[other].ver)
  /\ pc' = Idle
  /\ UNCHANGED <<up, cur, img, zconfig, vault, bosmUp, config, bosConfig, status, ct, worker,
                 mixed, saved, fallbackCounter, zconfigSeen>>

\* updateAndPublishZbootStatusAll
ZbootStatusAll == [p \in Parts |-> [zstatus[p] EXCEPT !.state = part[p]]]

\* MarkCurrentPartitionStateActive returns an error.  It is only logged: the status to report it
\* in is looked up by the label of the partition, in a topic whose keys are content trees
\* (lookupBaseOsStatusByPartLabel), so none is found and nothing is published.
commitFails == pc' = Idle /\ UNCHANGED <<part, zstatus>>

\* MarkCurrentPartitionStateActive, second write: the fallback is given up
stepMarkOther ==
  /\ booted /\ pc.at = "markOther"
  /\ IF part[other] \in {"active", "inprogress"}
     THEN /\ part' = [part EXCEPT ![other] = "unused"]
          /\ pc' = [Idle EXCEPT !.at = "ackTest"]
          /\ UNCHANGED zstatus
     ELSE commitFails
  /\ UNCHANGED <<up, cur, img, zconfig, vault, bosmUp, config, bosConfig, status, ct,
                 worker, mixed, saved, fallbackCounter, zconfigSeen>>

\* handleZbootTestComplete publishes TestComplete with the old partition state first
stepAckTest ==
  /\ booted /\ pc.at = "ackTest"
  /\ zstatus' = [zstatus EXCEPT ![cur].testComplete = TRUE]
  /\ pc' = [Idle EXCEPT !.at = "publishAll"]
  /\ UNCHANGED <<up, cur, part, img, zconfig, vault, bosmUp, config, bosConfig, status, ct,
                 worker, mixed, saved, fallbackCounter, zconfigSeen>>

\* Mutant: the updates that came too early are not looked at again
stepPublishOnly ==
  /\ booted /\ pc.at = "publishAll"
  /\ zstatus' = ZbootStatusAll
  /\ pc' = [Idle EXCEPT !.at = "retryInstall"]
  /\ UNCHANGED <<up, cur, part, img, zconfig, vault, bosmUp, config, bosConfig, status, ct,
                 worker, mixed, saved, fallbackCounter, zconfigSeen>>

\* updateAndPublishZbootStatusAll; the rest is maybeRetryInstall
stepPublishAll ==
  /\ booted /\ pc.at = "publishAll"
  /\ zstatus' = ZbootStatusAll
  /\ pc' = [Idle EXCEPT !.at = "retryInstall",
              !.vs = {v \in Versions : status[v].tooEarly /\ bosConfig[v] # NoConfig}]
  /\ UNCHANGED <<up, cur, part, img, zconfig, vault, bosmUp, config, bosConfig, status, ct,
                 worker, mixed, saved, fallbackCounter, zconfigSeen>>

\* writeForceFallbackCounter, the last thing handleForceFallback does
stepSaveFallback ==
  /\ booted /\ pc.at = "saveFallback"
  /\ fallbackSaved' = pc.n
  /\ pc' = Idle
  /\ UNCHANGED <<zboot, bosmUp, config, bosConfig, status, ct, worker, mixed,
                 configUpdateRetry, currentUpdateRetry, fallbackCounter, zconfigSeen>>

HandlerSteps ==
  \/ stepUpdate \/ stepConfig \/ stepRetryInstall
  \/ handleUpdateRetryCounter \/ stepRetryFailed
  \/ stepMarkOther \/ stepAckTest \/ stepPublishAll \/ stepSaveFallback

-----------------------------------------------------------------------------
(* Events of the main loop *)

\* Run: the saved counters are read, ZbootStatus is created for every partition
bosmRun ==
  /\ booted /\ bosmUp = "down" /\ bosmUp' = "waiting"
  /\ \E read \in GetShortVersion(other) :
       zstatus' = [p \in Parts |->
         [state |-> part[p], ver |-> IF p = cur THEN img[p] ELSE read, testComplete |-> FALSE]]
  /\ UNCHANGED <<up, cur, part, img, zconfig, vault, config, bosConfig, status, ct, worker, mixed,
                 pc, saved, fallbackCounter, zconfigSeen>>

\* Mutant: Run does not wait for the vault
bosmEnterLoopAtOnce ==
  /\ booted /\ bosmUp = "waiting"
  /\ bosmUp' = "running"
  /\ UNCHANGED <<zboot, config, bosConfig, status, ct, worker, mixed, pc, saved,
                 fallbackCounter, zconfigSeen>>

\* ... then Run waits for the vault (WaitForVault) before it enters its loop
bosmEnterLoop ==
  /\ booted /\ bosmUp = "waiting" /\ vault = "ready"
  /\ bosmUp' = "running"
  /\ UNCHANGED <<zboot, config, bosConfig, status, ct, worker, mixed, pc, saved,
                 fallbackCounter, zconfigSeen>>

\* A configuration is received the first time, or changed.  zedagent deletes the one it
\* replaces first, and pubsub passes deletions on before new items (DetermineDiffs).
handleBaseOsConfigCreateModify ==
  /\ MainLoop /\ config # NoConfig
  /\ LET v == config.ver IN
     /\ bosConfig[v] # config /\ \A u \in Versions \ {v} : bosConfig[u] = NoConfig
     /\ bosConfig' = [bosConfig EXCEPT ![v] = config]
     /\ publishBaseOsStatus(v, IF bosConfig[v] = NoConfig THEN NewStatus ELSE status[v])
     /\ pc' = [at |-> "config", vs |-> {v}, n |-> config.retry]
  /\ UNCHANGED <<zboot, bosmUp, config, ct, worker, mixed, saved, fallbackCounter,
                 zconfigSeen>>

\* doBaseOsUninstall: a failed image in the other partition is marked unused, so that the
\* same update can be tried again.  The status stays while there is a content tree.
handleBaseOsConfigDelete ==
  /\ MainLoop
  /\ \E v \in Versions :
     /\ bosConfig[v] # NoConfig /\ config.ver # v
     /\ bosConfig' = [bosConfig EXCEPT ![v] = NoConfig]
     /\ publishBaseOsStatus(v, IF ct[v] = "none" THEN NoStatus
                               ELSE [status[v] EXCEPT !.label = ""])
     /\ IF /\ status[v].label = other /\ zstatus[other].ver = v
           /\ getPartitionState(cur) = "active"
        THEN SetOtherPartitionState("unused", zstatus[other].ver)
        ELSE UNCHANGED <<part, zstatus>>
  /\ UNCHANGED <<up, cur, img, zconfig, vault, bosmUp, config, ct, worker, mixed, pc, saved,
                 fallbackCounter, zconfigSeen>>

\* volumemgr reports on a content tree: it goes with its configuration
handleContentTreeStatusImpl ==
  /\ MainLoop
  /\ \E v \in Versions, s \in ContentInputs :
     /\ ct[v] # s
     /\ (s = "none") <=> (config.ver # v)
     /\ ct' = [ct EXCEPT ![v] = s]
     /\ pc' = IF status[v].exists THEN [Idle EXCEPT !.at = "update", !.vs = {v}] ELSE Idle
  /\ UNCHANGED <<zboot, bosmUp, config, bosConfig, status, worker, mixed, saved,
                 fallbackCounter, zconfigSeen>>

\* Process keeps the result in its worker, and processInstallWorkResult looks at the update
processInstallWorkResult ==
  /\ MainLoop
  /\ \E r \in sent :
     /\ sent' = sent \ {r}
     /\ kept' = {q \in kept : q.w # r.w \/ q.ver # r.ver} \cup {r}
     /\ pc' = [Idle EXCEPT !.at = "update", !.vs = {r.ver}]
  /\ UNCHANGED <<zboot, bosmUp, config, bosConfig, status, ct, jobs, mixed, saved,
                 fallbackCounter, zconfigSeen>>

\* handleForceFallback, on any ZedAgentStatus.  Outside the state it is meant for, the
\* new counter is ignored and not saved either.
handleForceFallback ==
  /\ MainLoop
  /\ \/ /\ fallbackSaved = -1
        /\ fallbackSaved' = fallbackCounter
        /\ UNCHANGED <<part, zstatus, pc>>
     \/ /\ fallbackSaved \notin {-1, fallbackCounter}
        /\ getPartitionState(cur) = "active"
        /\ getPartitionState(other) = "unused" /\ zstatus[other].ver # NoVer
        /\ SetOtherPartitionState("updating", zstatus[other].ver)
        /\ pc' = [Idle EXCEPT !.at = "saveFallback", !.n = fallbackCounter]
        /\ UNCHANGED fallbackSaved
  /\ UNCHANGED <<up, cur, img, zconfig, vault, bosmUp, config, bosConfig, status, ct, worker,
                 mixed, configUpdateRetry, currentUpdateRetry, fallbackCounter, zconfigSeen>>

\* handleZbootConfigImpl and handleZbootTestComplete: nodeagent has tested the image, and
\* the first of the two writes that commit it is done; or nodeagent withdraws TestComplete
handleZbootTestComplete ==
  /\ MainLoop /\ zconfig # zconfigSeen
  /\ zconfigSeen' = zconfig
  /\ CASE zconfig /\ ~zstatus[cur].testComplete /\ getPartitionState(cur) = "inprogress" ->
            IF part[cur] = "inprogress"
            THEN /\ part' = [part EXCEPT ![cur] = "active"]
                 /\ pc' = [Idle EXCEPT !.at = "markOther"]
                 /\ UNCHANGED zstatus
            ELSE commitFails
       [] ~zconfig /\ zstatus[cur].testComplete ->
            /\ zstatus' = [zstatus EXCEPT ![cur].testComplete = FALSE]
            /\ UNCHANGED <<part, pc>>
       [] OTHER -> UNCHANGED <<part, zstatus, pc>>
  /\ UNCHANGED <<up, cur, img, zconfig, vault, bosmUp, config, bosConfig, status, ct, worker, mixed,
                 saved, fallbackCounter>>

-----------------------------------------------------------------------------
(* The workers of the pool: processWork, installWorker and WriteToPartition *)

\* Workers that write another image than worker w is to write
Others(w) == {u \in Workers \ {w} : jobs[u].at = "writing" /\ ImageOf[jobs[u].ver] # ImageOf[jobs[w].ver]}

\* The job starts to overwrite the partition; the same image again changes nothing
beginWrite ==
  /\ booted
  /\ \E w \in Workers :
     /\ jobs[w].at = "queued"
     /\ jobs' = [jobs EXCEPT ![w].at = "writing"]
     /\ img' = [img EXCEPT ![other] = IF @ = ImageOf[jobs[w].ver] THEN @ ELSE Garbage]
     /\ mixed' = IF Others(w) = {} THEN mixed \ {w} ELSE mixed \cup Others(w) \cup {w}
  /\ UNCHANGED <<up, cur, part, zstatus, zconfig, vault, bosmUp, config, bosConfig, status, ct,
                 sent, kept, pc, saved, fallbackCounter, zconfigSeen>>

\* What the partition holds when the job of w ends well.  Where two images were written at
\* once that is a mixture, or the image of the job that came last everywhere.
written(w) ==
  CASE w \notin mixed    -> {ImageOf[jobs[w].ver]}
    [] w \in mixed /\ Others(w) = {} -> {ImageOf[jobs[w].ver], Garbage}
    [] OTHER             -> {Garbage}

\* The job ends, well or with an error (the latter also before it has written).  Bound: a
\* worker has one result on its way to the main loop.
endWrite ==
  /\ booted
  /\ \E w \in Workers, ok \in BOOLEAN :
     /\ jobs[w].at \in {"queued", "writing"} /\ \A r \in sent : r.w # w
     /\ jobs' = [jobs EXCEPT ![w].at = "ended"]
     /\ sent' = sent \cup {[w |-> w, ver |-> jobs[w].ver, ok |-> ok]}
     /\ \/ ~ok /\ UNCHANGED img
        \/ /\ ok /\ jobs[w].at = "writing"
           /\ \E i \in written(w) : img' = [img EXCEPT ![other] = i]
  /\ UNCHANGED <<up, cur, part, zstatus, zconfig, vault, bosmUp, config, bosConfig, status, ct,
                 kept, mixed, pc, saved, fallbackCounter, zconfigSeen>>

\* "no longer pending", after the result was sent; the worker waits for work again at once
deletePending ==
  /\ booted
  /\ \E w \in Workers : jobs[w].at = "ended" /\ jobs' = [jobs EXCEPT ![w] = NoJob]
  /\ UNCHANGED <<zboot, bosmUp, config, bosConfig, status, ct, sent, kept, mixed, pc, saved,
                 fallbackCounter, zconfigSeen>>

-----------------------------------------------------------------------------
(* zedagent: what the controller asks for *)

\* parseBaseOS publishes at most one BaseOsConfig
parseBaseOS(c) ==
  /\ booted /\ config # c /\ config' = c
  /\ UNCHANGED <<zboot, bosmUp, bosConfig, status, ct, worker, mixed, pc, saved,
                 fallbackCounter, zconfigSeen>>

setForceFallbackCounter ==
  /\ booted
  /\ fallbackCounter < MaxFallback /\ fallbackCounter' = fallbackCounter + 1
  /\ UNCHANGED <<zboot, bosmUp, config, bosConfig, status, ct, worker, mixed, pc, saved,
                 zconfigSeen>>

BaseOsMgrNext ==
  \/ bosmRun
  \/ bosmEnterLoop
  \/ handleBaseOsConfigCreateModify
  \/ handleBaseOsConfigDelete
  \/ handleContentTreeStatusImpl
  \/ processInstallWorkResult
  \/ handleForceFallback
  \/ handleZbootTestComplete
  \/ HandlerSteps
  \/ beginWrite
  \/ endWrite
  \/ deletePending

-----------------------------------------------------------------------------
(* The specification of baseosmgr in an environment it knows nothing about: the device may
   go down at any moment, GRUB boots it again, the controller asks for anything, and
   nodeagent reports the end of the test, or withdraws it, when it likes. *)

bosmVars == <<zboot, bosm>>

bosmBoot == grubBoot /\ UNCHANGED bosm

bosmDown == zbootReset /\ BaseOsMgrReset

\* publishZbootConfig of nodeagent
publishZbootConfig ==
  /\ booted /\ zconfig' = ~zconfig
  /\ UNCHANGED <<up, cur, part, img, zstatus, vault, bosm>>

Environment ==
  \/ bosmBoot \/ bosmDown \/ publishZbootConfig
  \/ publishVaultStatus /\ UNCHANGED bosm
  \/ setForceFallbackCounter
  \/ \E c \in ConfigInputs : parseBaseOS(c)

BosmInit == ZbootInit /\ BaseOsMgrInit

BaseOsMgrSpec ==
  BosmInit /\ [][BaseOsMgrNext \/ Environment]_bosmVars

\* The types of the disk, of the topics and of the state of baseosmgr
BosmTypeOK == ZbootTypeOK /\ BaseOsMgrTypeOK

\* Whatever fails or is cut short, GRUB has an image to boot, and one that it will boot
\* again and again is complete: never is the fallback, or a partition that counts as
\* committed, being written or left half written.
FallbackSafe ==
  /\ \E p \in Parts : part[p] = "active"
  /\ \A p \in Parts : part[p] = "active" => img[p] \in Versions
  /\ \A w \in Workers : jobs[w].at # "none" => part[other] # "active"

\* What baseosmgr decides upon (the published state of a partition) is what is in the GPT,
\* except in the middle of a handler
StatusIsCurrent ==
  booted /\ bosmUp # "down" /\ pc.at \notin {"markOther", "ackTest", "publishAll"} =>
    \A p \in Parts : zstatus[p].state = part[p]

\* Work.Key "is unique across all jobs"; a job of the same key is not performed twice
OneJobPerKey ==
  \A w, u \in Workers : jobs[w].at \in {"queued", "writing"} /\ jobs[u].at \in {"queued", "writing"}
                        /\ jobs[w].ver = jobs[u].ver => w = u

\* An image that is to be tried is complete, although the device may go down at any point
\* of an installation.  (Not so after a forced fallback, which does not look at what the
\* other partition holds, nor when two jobs write at once.)
TriedIsWhole == \A p \in Parts : part[p] = "updating" => img[p] \in Versions
=============================================================================
