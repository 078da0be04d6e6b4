-------------------------- MODULE BaseOsMgr_proofs --------------------------
(***************************************************************************)
(* Proofs about baseosmgr in an arbitrary environment (BaseOsMgrSpec): its *)
(* types, and that an update never costs the device the image it can fall  *)
(* back to.                                                                *)
(***************************************************************************)
EXTENDS BaseOsMgr, TLAPS

-----------------------------------------------------------------------------
(* Types *)

USE VersionsAssumption, VaultInputsAssumption, ImageOfAssumption, CountersAssumption,
    BosmInputsAssumption, WorkersAssumption DEF worker

\* The pool of workers is within its types
PoolTypeOK ==
  jobs \in [Workers -> PoolJobs] /\ sent \in SUBSET Results /\ kept \in SUBSET Results

\* SetOtherPartitionState keeps the types of what it changes
LEMMA SetOtherType ==
  ASSUME BosmTypeOK, NEW s \in PartStates, NEW ver \in Versions \cup {NoVer},
         SetOtherPartitionState(s, ver)
  PROVE  part' \in [Parts -> PartStates] /\ zstatus' \in [Parts -> ZbootStatuses]
  BY DEF BosmTypeOK, ZbootTypeOK, SetOtherPartitionState, other, OtherThan, Parts, PartStates,
         ZbootStatuses

\* baseOsHandleStatusUpdate keeps the types of the four variables it may change
LEMMA StatusUpdateType ==
  ASSUME BosmTypeOK, NEW v \in Versions, NEW s \in Statuses, NEW c,
         baseOsHandleStatusUpdate(v, s, c)
  PROVE  /\ part' \in [Parts -> PartStates] /\ zstatus' \in [Parts -> ZbootStatuses]
         /\ status' \in [Versions -> Statuses] /\ PoolTypeOK'
<1>1. other \in Parts /\ cur \in Parts
  BY DEF BosmTypeOK, ZbootTypeOK, other, OtherThan, Parts
<1>2. labelled(v, s) \in Statuses
  BY <1>1 DEF labelled, Statuses
<1>3. ASSUME NEW t \in Statuses, publishBaseOsStatus(v, t)
      PROVE  status' \in [Versions -> Statuses]
  BY <1>3 DEF BosmTypeOK, BaseOsMgrTypeOK, publishBaseOsStatus
<1>4. ASSUME UNCHANGED <<part, zstatus, worker>>
      PROVE  /\ part' \in [Parts -> PartStates] /\ zstatus' \in [Parts -> ZbootStatuses]
             /\ PoolTypeOK'
  BY <1>4 DEF BosmTypeOK, ZbootTypeOK, BaseOsMgrTypeOK, PoolTypeOK
<1>5. CASE ct[v] = "error"
  BY <1>3, <1>4, <1>5 DEF baseOsHandleStatusUpdate
<1>6. CASE runningVersion(v, s)
  <2>1. [s EXCEPT !.label = cur] \in Statuses
    BY <1>1 DEF Statuses
  <2> QED
    BY <1>3, <1>4, <1>6, <2>1 DEF runningVersion
<1>7. CASE notInstalled(v, s, c)
  <2>1. status' \in [Versions -> Statuses]
    <3>1. CASE publishBaseOsStatus(v, labelled(v, s))
      BY <1>2, <1>3, <3>1
    <3>2. CASE UNCHANGED status
      BY <3>2 DEF BosmTypeOK, BaseOsMgrTypeOK
    <3> QED
      BY <1>7, <3>1, <3>2 DEF notInstalled
  <2> QED
    BY <1>4, <1>7, <2>1 DEF notInstalled
<1>8. CASE tooEarly(v, s)
  <2>1. [labelled(v, s) EXCEPT !.tooEarly = TRUE] \in Statuses
    BY <1>2 DEF Statuses
  <2> QED
    BY <1>3, <1>4, <1>8, <2>1 DEF tooEarly
<1>9. CASE doBaseOsActivate(v, s)
  <2>1. [s EXCEPT !.label = other] \in Statuses
    BY <1>1 DEF Statuses
  <2>3. PoolTypeOK'
    <3>1. jobs' \in [Workers -> PoolJobs]
      <4>1. [at |-> "queued", ver |-> v] \in PoolJobs
        BY DEF PoolJobs
      <4> QED
        BY <1>9, <4>1 DEF doBaseOsActivate, AddWorkInstall, BosmTypeOK, BaseOsMgrTypeOK
    <3>2. sent' \in SUBSET Results /\ kept' \in SUBSET Results
      BY <1>9 DEF doBaseOsActivate, BosmTypeOK, BaseOsMgrTypeOK
    <3> QED
      BY <3>1, <3>2 DEF PoolTypeOK
  <2>4. status' \in [Versions -> Statuses]
    <3>1. CASE publishBaseOsStatus(v, [s EXCEPT !.label = other])
      BY <1>3, <2>1, <3>1
    <3>2. CASE UNCHANGED status
      BY <3>2 DEF BosmTypeOK, BaseOsMgrTypeOK
    <3> QED
      BY <1>9, <3>1, <3>2 DEF doBaseOsActivate
  <2>5. part' \in [Parts -> PartStates] /\ zstatus' \in [Parts -> ZbootStatuses]
    <3>1. CASE UNCHANGED <<part, zstatus>>
      BY <3>1 DEF BosmTypeOK, ZbootTypeOK
    <3>2. CASE \E st \in PartStates, ver \in Versions \cup {NoVer} :
                 SetOtherPartitionState(st, ver)
      BY <3>2, SetOtherType
    <3>3. \A read \in GetShortVersion(other) : read \in Versions \cup {NoVer}
      BY <1>1 DEF GetShortVersion, BosmTypeOK, ZbootTypeOK, Images
    <3>4. zstatus[other].ver \in Versions \cup {NoVer}
      BY <1>1 DEF BosmTypeOK, ZbootTypeOK, ZbootStatuses
    <3> QED
      BY <1>9, <3>1, <3>2, <3>3, <3>4 DEF doBaseOsActivate, PartStates
  <2> QED
    BY <2>3, <2>4, <2>5
<1>10. CASE tooLarge(v, s)
  <2>1. [s EXCEPT !.label = other] \in Statuses
    BY <1>1 DEF Statuses
  <2> QED
    BY <1>3, <1>4, <1>10, <2>1 DEF tooLarge
<1> QED
  BY <1>5, <1>6, <1>7, <1>8, <1>9, <1>10 DEF baseOsHandleStatusUpdate

\* The constants of the records
LEMMA ConstantTypes ==
  /\ Idle \in Pcs /\ NoStatus \in Statuses /\ NewStatus \in Statuses /\ NoJob \in PoolJobs
  /\ NoConfig \in Configs /\ 0 \in RetryCounters /\ 0 \in FallbackCounters
<1>1. 0 \in RetryCounters /\ 0 \in FallbackCounters
  BY DEF RetryCounters, FallbackCounters
<1>2. Idle \in Pcs
  BY <1>1 DEF Idle, Pcs, PcAt
<1>3. NoStatus \in Statuses /\ NewStatus \in Statuses
  BY DEF NoStatus, NewStatus, Statuses
<1>4. NoJob \in PoolJobs
  BY DEF NoJob, PoolJobs
<1>5. NoConfig \in Configs
  BY DEF Configs
<1> QED
  BY <1>1, <1>2, <1>3, <1>4, <1>5

\* One step keeps the types
LEMMA TypeStep ==
  ASSUME BosmTypeOK, [BaseOsMgrNext \/ Environment]_bosmVars
  PROVE  BosmTypeOK'
<1> USE DEF BosmTypeOK, ZbootTypeOK, BaseOsMgrTypeOK, PoolTypeOK
<1>a. other \in Parts /\ cur \in Parts
  BY DEF other, OtherThan, Parts
<1>b. Idle \in Pcs /\ NoStatus \in Statuses /\ NewStatus \in Statuses /\ NoJob \in PoolJobs
      /\ NoConfig \in Configs /\ 0 \in RetryCounters /\ 0 \in FallbackCounters
  BY ConstantTypes
<1>c. \A at \in PcAt \ {"saveFallback"}, vs \in SUBSET Versions, n \in RetryCounters :
        [at |-> at, vs |-> vs, n |-> n] \in Pcs
  BY DEF Pcs
<1>d. \A at \in PcAt \ {"saveFallback"} : [Idle EXCEPT !.at = at] \in Pcs
  BY <1>b DEF Idle, Pcs
<1>e. /\ pc.at \in PcAt /\ pc.vs \in SUBSET Versions
      /\ pc.at # "saveFallback" => pc.n \in RetryCounters
      /\ pc.at = "saveFallback" => pc.n \in FallbackCounters
  BY DEF Pcs, PcAt
<1>f. ZbootStatusAll \in [Parts -> ZbootStatuses]
  <2>1. ASSUME NEW p \in Parts PROVE [zstatus[p] EXCEPT !.state = part[p]] \in ZbootStatuses
    <3>1. zstatus[p] \in ZbootStatuses /\ part[p] \in PartStates
      OBVIOUS
    <3> QED
      BY <3>1 DEF ZbootStatuses
  <2> QED
    BY <2>1 DEF ZbootStatusAll
<1>1. CASE bosmRun
  <2>1. PICK read \in GetShortVersion(other) :
          zstatus' = [p \in Parts |-> [state |-> part[p],
             ver |-> IF p = cur THEN img[p] ELSE read, testComplete |-> FALSE]]
    BY <1>1 DEF bosmRun
  <2>2. read \in Versions \cup {NoVer}
    BY <1>a DEF GetShortVersion, Images
  <2>3. zstatus' \in [Parts -> ZbootStatuses]
    BY <1>1, <2>1, <2>2 DEF bosmRun, booted, ZbootStatuses
  <2> QED
    BY <1>1, <2>3 DEF bosmRun, saved
<1>2. CASE bosmEnterLoop
  BY <1>2 DEF bosmEnterLoop, zboot, saved
<1>3. CASE handleBaseOsConfigCreateModify
  <2>1. config.ver \in Versions /\ config.retry \in RetryCounters
    BY <1>3 DEF handleBaseOsConfigCreateModify, Configs
  <2>2. pc' \in Pcs
    BY <1>3, <2>1, <1>c DEF handleBaseOsConfigCreateModify, PcAt
  <2> QED
    BY <1>3, <1>b, <2>1, <2>2
    DEF handleBaseOsConfigCreateModify, publishBaseOsStatus, zboot, saved
<1>4. CASE handleBaseOsConfigDelete
  <2>1. PICK v \in Versions :
          /\ bosConfig' = [bosConfig EXCEPT ![v] = NoConfig]
          /\ publishBaseOsStatus(v, IF ct[v] = "none" THEN NoStatus
                                    ELSE [status[v] EXCEPT !.label = ""])
          /\ \/ SetOtherPartitionState("unused", zstatus[other].ver)
             \/ UNCHANGED <<part, zstatus>>
    BY <1>4 DEF handleBaseOsConfigDelete
  <2>2. [status[v] EXCEPT !.label = ""] \in Statuses
    <3>1. status[v] \in Statuses
      OBVIOUS
    <3> QED
      BY <3>1 DEF Statuses
  <2>3. zstatus[other].ver \in Versions \cup {NoVer}
    BY <1>a DEF ZbootStatuses
  <2>4. part' \in [Parts -> PartStates] /\ zstatus' \in [Parts -> ZbootStatuses]
    BY <2>1, <2>3, SetOtherType DEF PartStates
  <2> QED
    BY <1>4, <1>b, <2>1, <2>2, <2>4
    DEF handleBaseOsConfigDelete, publishBaseOsStatus, saved
<1>5. CASE handleContentTreeStatusImpl
  <2>1. \A v \in Versions : [Idle EXCEPT !.at = "update", !.vs = {v}] \in Pcs
    BY <1>b DEF Idle, Pcs, PcAt
  <2>2. PICK v \in Versions, s \in ContentInputs : ct' = [ct EXCEPT ![v] = s]
    BY <1>5 DEF handleContentTreeStatusImpl
  <2>4. ct' \in [Versions -> ContentStates]
    BY <2>2
  <2>3. pc' \in Pcs
    <3>1. PICK w \in Versions :
            pc' = IF status[w].exists THEN [Idle EXCEPT !.at = "update", !.vs = {w}] ELSE Idle
      BY <1>5 DEF handleContentTreeStatusImpl
    <3> QED
      BY <1>b, <2>1, <3>1
  <2> QED
    BY <1>5, <2>3, <2>4 DEF handleContentTreeStatusImpl, zboot, saved
<1>6. CASE processInstallWorkResult
  <2>1. \A v \in Versions : [Idle EXCEPT !.at = "update", !.vs = {v}] \in Pcs
    BY <1>b DEF Idle, Pcs, PcAt
  <2>2. PICK r \in sent :
          /\ sent' = sent \ {r}
          /\ kept' = {q \in kept : q.w # r.w \/ q.ver # r.ver} \cup {r}
          /\ pc' = [Idle EXCEPT !.at = "update", !.vs = {r.ver}]
    BY <1>6 DEF processInstallWorkResult
  <2>3. r \in Results
    OBVIOUS
  <2>4. r.ver \in Versions
    BY <2>3 DEF Results
  <2>5. sent' \in SUBSET Results /\ kept' \in SUBSET Results
    BY <2>2, <2>3
  <2>6. pc' \in Pcs
    BY <2>1, <2>2, <2>4
  <2> QED
    BY <1>6, <2>5, <2>6 DEF processInstallWorkResult, zboot, saved
<1>7. CASE handleForceFallback
  <2>1. [Idle EXCEPT !.at = "saveFallback", !.n = fallbackCounter] \in Pcs
    BY <1>b DEF Idle, Pcs, PcAt
  <2>2. zstatus[other].ver \in Versions \cup {NoVer}
    BY <1>a DEF ZbootStatuses
  <2>3. part' \in [Parts -> PartStates] /\ zstatus' \in [Parts -> ZbootStatuses]
    BY <1>7, <2>2, SetOtherType DEF handleForceFallback, PartStates
  <2> QED
    BY <1>7, <2>1, <2>3 DEF handleForceFallback
<1>8. CASE handleZbootTestComplete
  <2>1. part' \in [Parts -> PartStates] /\ zstatus' \in [Parts -> ZbootStatuses]
    <3>1. "active" \in PartStates
      BY DEF PartStates
    <3>2. zstatus[cur] \in ZbootStatuses
      BY <1>a
    <3>3. [zstatus[cur] EXCEPT !.testComplete = FALSE] \in ZbootStatuses
      BY <3>2 DEF ZbootStatuses
    <3>4. CASE part' = [part EXCEPT ![cur] = "active"] /\ UNCHANGED zstatus
      BY <1>a, <3>1, <3>4
    <3>5. CASE zstatus' = [zstatus EXCEPT ![cur].testComplete = FALSE] /\ UNCHANGED part
      BY <1>a, <3>3, <3>5
    <3>6. CASE UNCHANGED <<part, zstatus>>
      BY <3>6
    <3>7. CASE commitFails
      BY <1>f, <3>7 DEF commitFails
    <3> QED
      BY <1>8, <3>4, <3>5, <3>6, <3>7 DEF handleZbootTestComplete
  <2>2. pc' \in Pcs
    <3>1. [Idle EXCEPT !.at = "markOther"] \in Pcs
      BY <1>d DEF PcAt
    <3>2. pc' = [Idle EXCEPT !.at = "markOther"] \/ pc' = pc \/ pc' = Idle
      BY <1>8 DEF handleZbootTestComplete, commitFails
    <3> QED
      BY <1>b, <3>1, <3>2
  <2> QED
    BY <1>8, <2>1, <2>2 DEF handleZbootTestComplete, saved
<1>9. CASE stepUpdate
  <2>1. PICK v \in pc.vs :
          IF bosConfig[v] # NoConfig /\ status[v].exists /\ ct[v] # "none"
          THEN baseOsHandleStatusUpdate(v, status[v], bosConfig[v])
          ELSE UNCHANGED <<part, zstatus, status, worker>>
    BY <1>9 DEF stepUpdate
  <2>2. v \in Versions /\ status[v] \in Statuses
    BY <1>e
  <2>3. /\ part' \in [Parts -> PartStates] /\ zstatus' \in [Parts -> ZbootStatuses]
        /\ status' \in [Versions -> Statuses] /\ PoolTypeOK'
    BY <2>1, <2>2, StatusUpdateType
  <2> QED
    BY <1>9, <1>b, <2>3 DEF stepUpdate, saved
<1>10. CASE stepConfig
  <2>1. PICK v \in pc.vs : baseOsHandleStatusUpdate(v, status[v], bosConfig[v])
    BY <1>10 DEF stepConfig
  <2>2. v \in Versions /\ status[v] \in Statuses
    BY <1>e
  <2>3. /\ part' \in [Parts -> PartStates] /\ zstatus' \in [Parts -> ZbootStatuses]
        /\ status' \in [Versions -> Statuses] /\ PoolTypeOK'
    BY <2>1, <2>2, StatusUpdateType
  <2>4. [Idle EXCEPT !.at = "counter", !.n = pc.n] \in Pcs
    BY <1>b, <1>e DEF Idle, Pcs, PcAt
  <2> QED
    BY <1>10, <2>3, <2>4 DEF stepConfig, saved
<1>11. CASE stepRetryInstall
  <2>1. CASE pc.vs = {}
    <3>1. [Idle EXCEPT !.at = "counter", !.n = configUpdateRetry] \in Pcs
      BY <1>b DEF Idle, Pcs, PcAt
    <3> QED
      BY <1>11, <2>1, <3>1 DEF stepRetryInstall, saved
  <2>2. CASE pc.vs # {}
    <3>1. PICK v \in pc.vs :
            /\ baseOsHandleStatusUpdate(v, [status[v] EXCEPT !.tooEarly = FALSE], bosConfig[v])
            /\ pc' = [pc EXCEPT !.vs = @ \ {v}]
      BY <1>11, <2>2 DEF stepRetryInstall
    <3>2. v \in Versions /\ status[v] \in Statuses
      BY <1>e
    <3>3. [status[v] EXCEPT !.tooEarly = FALSE] \in Statuses
      BY <3>2 DEF Statuses
    <3>4. /\ part' \in [Parts -> PartStates] /\ zstatus' \in [Parts -> ZbootStatuses]
          /\ status' \in [Versions -> Statuses] /\ PoolTypeOK'
      BY <3>1, <3>2, <3>3, StatusUpdateType
    <3>5. pc' \in Pcs
      BY <3>1, <1>e DEF Pcs
    <3> QED
      BY <1>11, <3>4, <3>5 DEF stepRetryInstall, saved
  <2> QED
    BY <2>1, <2>2
<1>12. CASE handleUpdateRetryCounter
  <2>1. pc' \in Pcs
    <3>1. [Idle EXCEPT !.at = "retryFailed"] \in Pcs
      BY <1>d DEF PcAt
    <3>2. pc' = [Idle EXCEPT !.at = "retryFailed"] \/ pc' = Idle
      BY <1>12 DEF handleUpdateRetryCounter
    <3> QED
      BY <1>b, <3>1, <3>2
  <2>2. pc.n \in RetryCounters
    BY <1>12, <1>e DEF handleUpdateRetryCounter
  <2> QED
    BY <1>12, <2>1, <2>2 DEF handleUpdateRetryCounter, zboot
<1>13. CASE stepRetryFailed
  <2>1. zstatus[other].ver \in Versions \cup {NoVer}
    BY <1>a DEF ZbootStatuses
  <2>2. part' \in [Parts -> PartStates] /\ zstatus' \in [Parts -> ZbootStatuses]
    BY <1>13, <2>1, SetOtherType DEF stepRetryFailed, PartStates
  <2> QED
    BY <1>13, <1>b, <2>2 DEF stepRetryFailed, saved
<1>14. CASE stepMarkOther
  <2>1. part' \in [Parts -> PartStates] /\ zstatus' \in [Parts -> ZbootStatuses]
    BY <1>14, <1>a, <1>f DEF stepMarkOther, commitFails, PartStates
  <2>2. pc' \in Pcs
    <3>1. [Idle EXCEPT !.at = "ackTest"] \in Pcs
      BY <1>d DEF PcAt
    <3> QED
      BY <1>14, <1>b, <3>1 DEF stepMarkOther, commitFails
  <2> QED
    BY <1>14, <2>1, <2>2 DEF stepMarkOther, saved
<1>15. CASE stepAckTest
  <2>1. [zstatus[cur] EXCEPT !.testComplete = TRUE] \in ZbootStatuses
    <3>1. zstatus[cur] \in ZbootStatuses
      BY <1>a
    <3> QED
      BY <3>1 DEF ZbootStatuses
  <2>2. zstatus' \in [Parts -> ZbootStatuses]
    BY <1>15, <1>a, <2>1 DEF stepAckTest
  <2>3. pc' \in Pcs
    BY <1>15, <1>d DEF stepAckTest, PcAt
  <2> QED
    BY <1>15, <2>2, <2>3 DEF stepAckTest, saved
<1>16. CASE stepPublishAll
  <2>1. pc' \in Pcs
    BY <1>16, <1>b DEF stepPublishAll, Idle, Pcs, PcAt
  <2> QED
    BY <1>16, <1>f, <2>1 DEF stepPublishAll, saved
<1>17. CASE stepSaveFallback
  <2>1. pc.n \in FallbackCounters
    BY <1>17, <1>e DEF stepSaveFallback
  <2> QED
    BY <1>17, <1>b, <2>1 DEF stepSaveFallback, zboot
<1>g. \A w \in Workers : jobs[w].at # "none" => jobs[w].ver \in Versions
  BY DEF PoolJobs, NoJob
<1>18. CASE beginWrite
  <2>1. PICK w \in Workers :
          /\ jobs[w].at = "queued"
          /\ jobs' = [jobs EXCEPT ![w].at = "writing"]
          /\ img' = [img EXCEPT ![other] = IF @ = ImageOf[jobs[w].ver] THEN @ ELSE Garbage]
          /\ mixed' = IF Others(w) = {} THEN mixed \ {w} ELSE mixed \cup Others(w) \cup {w}
    BY <1>18 DEF beginWrite
  <2>2. [jobs[w] EXCEPT !.at = "writing"] \in PoolJobs
    <3>1. jobs[w] \in PoolJobs
      OBVIOUS
    <3> QED
      BY <2>1, <3>1 DEF PoolJobs, NoJob
  <2>3. jobs' \in [Workers -> PoolJobs]
    BY <2>1, <2>2
  <2>4. img' \in [Parts -> Images]
    BY <1>a, <2>1 DEF Images
  <2>5. mixed' \in SUBSET Workers
    BY <2>1 DEF Others
  <2> QED
    BY <1>18, <2>3, <2>4, <2>5 DEF beginWrite, saved
<1>19. CASE endWrite
  <2>1. PICK w \in Workers, ok \in BOOLEAN :
          /\ jobs[w].at \in {"queued", "writing"}
          /\ jobs' = [jobs EXCEPT ![w].at = "ended"]
          /\ sent' = sent \cup {[w |-> w, ver |-> jobs[w].ver, ok |-> ok]}
          /\ \/ UNCHANGED img
             \/ \E i \in written(w) : img' = [img EXCEPT ![other] = i]
    BY <1>19 DEF endWrite
  <2>2. jobs[w].ver \in Versions
    BY <1>g, <2>1
  <2>3. jobs' \in [Workers -> PoolJobs]
    <3>1. jobs[w] \in PoolJobs
      OBVIOUS
    <3>2. [jobs[w] EXCEPT !.at = "ended"] \in PoolJobs
      BY <2>1, <3>1 DEF PoolJobs, NoJob
    <3> QED
      BY <2>1, <3>2
  <2>4. sent' \in SUBSET Results
    <3>1. [w |-> w, ver |-> jobs[w].ver, ok |-> ok] \in Results
      BY <2>2 DEF Results
    <3> QED
      BY <2>1, <3>1
  <2>5. written(w) \subseteq Images
    BY <2>2 DEF written, Images
  <2>6. img' \in [Parts -> Images]
    BY <1>a, <2>1, <2>5
  <2> QED
    BY <1>19, <2>3, <2>4, <2>6 DEF endWrite, saved
<1>27. CASE deletePending
  BY <1>27, <1>b DEF deletePending, zboot, saved
<1>20. CASE bosmBoot
  <2>1. part' \in [Parts -> PartStates]
    BY <1>20 DEF bosmBoot, grubBoot, PartStates
  <2> QED
    BY <1>20, <2>1 DEF bosmBoot, grubBoot, bosm
<1>21. CASE bosmDown
  <2>1. AbsentStatus \in ZbootStatuses
    BY DEF AbsentStatus, ZbootStatuses
  <2> QED
    BY <1>21, <1>b, <2>1
    DEF bosmDown, zbootReset, BaseOsMgrReset, Volatile, ContentStates, VaultStates, saved
<1>22. CASE publishZbootConfig
  BY <1>22 DEF publishZbootConfig, bosm
<1>23. CASE publishVaultStatus /\ UNCHANGED bosm
  BY <1>23 DEF publishVaultStatus, bosm
<1>24. CASE setForceFallbackCounter
  BY <1>24 DEF setForceFallbackCounter, zboot, saved, FallbackCounters
<1>25. CASE \E c \in ConfigInputs : parseBaseOS(c)
  BY <1>25 DEF parseBaseOS, zboot, saved
<1>26. CASE UNCHANGED bosmVars
  BY <1>26 DEF bosmVars, zboot, bosm
<1> QED
  BY <1>1, <1>2, <1>3, <1>4, <1>5, <1>6, <1>7, <1>8, <1>9, <1>10, <1>11, <1>12, <1>13, <1>14,
     <1>15, <1>16, <1>17, <1>18, <1>19, <1>20, <1>21, <1>22, <1>23, <1>24, <1>25, <1>26, <1>27
  DEF BaseOsMgrNext, HandlerSteps, Environment

\* The initial states are within the types
LEMMA InitType ==
  ASSUME ZbootInit, BaseOsMgrInit
  PROVE  BosmTypeOK
<1>1. AbsentStatus \in ZbootStatuses
  BY DEF AbsentStatus, ZbootStatuses
<1>2. ASSUME ZbootInit PROVE ZbootTypeOK
  <2>1. part \in [Parts -> PartStates] /\ cur \in Parts
    BY <1>2 DEF ZbootInit, Parts, PartStates
  <2>2. img \in [Parts -> Images]
    BY <1>2 DEF ZbootInit, Images
  <2>3. zstatus \in [Parts -> ZbootStatuses]
    BY <1>1, <1>2 DEF ZbootInit
  <2>4. up \in BOOLEAN /\ zconfig \in BOOLEAN /\ vault \in VaultStates
    BY <1>2 DEF ZbootInit, VaultStates
  <2> QED
    BY <2>1, <2>2, <2>3, <2>4 DEF ZbootTypeOK
<1>3. ASSUME BaseOsMgrInit PROVE BaseOsMgrTypeOK
  <2> USE <1>3, ConstantTypes DEF BaseOsMgrInit, Volatile
  <2>1. bosmUp \in {"down", "waiting", "running"} /\ zconfigSeen \in BOOLEAN
    OBVIOUS
  <2>2. config \in Configs /\ bosConfig \in [Versions -> Configs]
    OBVIOUS
  <2>3. status \in [Versions -> Statuses] /\ PoolTypeOK
    BY DEF PoolTypeOK
  <2>4. ct \in [Versions -> ContentStates]
    BY DEF ContentStates
  <2>5. mixed \in SUBSET Workers /\ pc \in Pcs
    OBVIOUS
  <2>6. /\ configUpdateRetry \in RetryCounters /\ currentUpdateRetry \in RetryCounters
        /\ fallbackSaved \in FallbackCounters \cup {-1} /\ fallbackCounter \in FallbackCounters
    OBVIOUS
  <2> QED
    BY <2>1, <2>2, <2>3, <2>4, <2>5, <2>6 DEF BaseOsMgrTypeOK, PoolTypeOK
<1> QED
  BY <1>2, <1>3 DEF BosmTypeOK

\* Type correctness: whatever the environment does, the state of the disk, of the topics and
\* of baseosmgr stays within its types
THEOREM BosmTypeCorrect == BaseOsMgrSpec => []BosmTypeOK
<1>1. ZbootInit /\ BaseOsMgrInit => BosmTypeOK
  BY InitType
<1>2. BosmTypeOK /\ [BaseOsMgrNext \/ Environment]_bosmVars => BosmTypeOK'
  BY TypeStep
<1> QED
  BY <1>1, <1>2, PTL DEF BaseOsMgrSpec, BosmInit

-----------------------------------------------------------------------------
(* Safety.  FallbackSafe is not inductive: it rests on what baseosmgr knows.  The state it
   publishes is the one in the GPT but for the few steps of a commit; an image under test
   has an active fallback; and a job that writes to the other partition was started with
   the current one committed, which only a reset can change. *)

\* The device runs from a partition that is committed or under test
CurState == up => part[cur] \in {"active", "inprogress"}

\* An image under test has a fallback
FallbackThere == up /\ part[cur] = "inprogress" => part[other] = "active"

Running ==
  /\ bosmUp # "down" => booted
  /\ pc.at # "idle" => bosmUp = "running"

\* What holds in the middle of a handler
Handlers ==
  /\ pc.at = "markOther" => part[cur] = "active" /\ part[other] = "active"
  /\ pc.at \in {"ackTest", "publishAll", "retryFailed"} =>
       part[cur] = "active" /\ part[other] # "active"

Jobs == \A w \in Workers : jobs[w].at # "none" =>
          bosmUp = "running" /\ part[cur] = "active" /\ part[other] # "active"

Inv ==
  /\ BosmTypeOK /\ FallbackSafe /\ StatusIsCurrent
  /\ CurState /\ FallbackThere /\ Running /\ Handlers /\ Jobs

Safe == FallbackSafe /\ StatusIsCurrent /\ CurState /\ FallbackThere /\ Running /\ Handlers
          /\ Jobs

\* The disk is left alone, ZbootStatus too, and no job is started
LEMMA DiskKept ==
  ASSUME Inv, UNCHANGED <<up, cur, part, img>>, \A p \in Parts : zstatus'[p].state = zstatus[p].state,
         \A w \in Workers : jobs'[w].at # "none" => jobs[w].at # "none",
         bosmUp' = bosmUp, pc' = Idle \/ pc' = pc \/ pc'.at \in {"update", "config", "counter", "retryInstall"},
         pc.at \notin {"markOther", "ackTest", "publishAll"},
         pc'.at # "idle" => bosmUp = "running"
  PROVE  Safe'
<1> USE DEF Inv
<1>1. other' = other
  BY DEF other
<1>2. pc'.at \notin {"markOther", "ackTest", "publishAll"}
  BY DEF Idle
<1>3. FallbackSafe'
  BY <1>1 DEF FallbackSafe
<1>4. StatusIsCurrent'
  BY <1>1, <1>2 DEF StatusIsCurrent, booted
<1>5. CurState' /\ FallbackThere'
  BY <1>1 DEF CurState, FallbackThere
<1>6. Running'
  BY DEF Running, booted, Idle
<1>7. Handlers'
  BY <1>1, <1>2 DEF Handlers, Idle
<1>8. Jobs'
  BY <1>1 DEF Jobs
<1> QED
  BY <1>3, <1>4, <1>5, <1>6, <1>7, <1>8 DEF Safe

\* The state of the other partition is set to "updating" or "unused" while the current one
\* is committed
LEMMA OtherSet ==
  ASSUME Inv, NEW s \in {"updating", "unused"}, NEW ver, SetOtherPartitionState(s, ver),
         UNCHANGED <<up, cur, img>>, booted, part[cur] = "active",
         \A w \in Workers : jobs'[w].at # "none" => jobs[w].at # "none",
         bosmUp' = bosmUp, bosmUp = "running",
         pc' = Idle \/ pc' = pc \/ pc'.at \in {"counter", "retryInstall", "saveFallback"},
         pc.at \notin {"markOther", "ackTest", "publishAll"}
  PROVE  Safe'
<1> USE DEF Inv
<1>0. cur \in Parts /\ other \in Parts /\ other # cur /\ \A p \in Parts : p = cur \/ p = other
  BY DEF BosmTypeOK, ZbootTypeOK, other, OtherThan, Parts
<1>1. other' = other
  BY DEF other
<1>2. pc'.at \notin {"markOther", "ackTest", "publishAll"}
  BY DEF Idle
<1>3. /\ part'[cur] = part[cur] /\ part'[other] = s
      /\ zstatus'[other].state = s /\ zstatus'[cur].state = zstatus[cur].state
  BY <1>0 DEF SetOtherPartitionState, BosmTypeOK, ZbootTypeOK, ZbootStatuses
<1>4. FallbackSafe'
  BY <1>0, <1>1, <1>3 DEF FallbackSafe
<1>5. StatusIsCurrent'
  BY <1>0, <1>1, <1>2, <1>3 DEF StatusIsCurrent, booted
<1>6. CurState' /\ FallbackThere'
  BY <1>1, <1>3 DEF CurState, FallbackThere
<1>7. Running'
  BY DEF Running, booted
<1>8. Handlers'
  BY <1>1, <1>2, <1>3 DEF Handlers, Idle
<1>9. Jobs'
  BY <1>1, <1>3 DEF Jobs
<1> QED
  BY <1>4, <1>5, <1>6, <1>7, <1>8, <1>9 DEF Safe

\* A job is started, which is done only with the current partition committed and another
\* state than active in the other one
LEMMA JobQueued ==
  ASSUME Inv, UNCHANGED <<up, cur, part, img, zstatus>>, bosmUp' = bosmUp, bosmUp = "running",
         booted, ~testing,
         pc' = Idle \/ pc'.at \in {"counter", "retryInstall"},
         pc.at \notin {"markOther", "ackTest", "publishAll"}
  PROVE  Safe'
<1> USE DEF Inv
<1>0. cur \in Parts /\ other \in Parts
  BY DEF BosmTypeOK, ZbootTypeOK, other, OtherThan, Parts
<1>1. other' = other
  BY DEF other
<1>2. part[cur] = "active" /\ part[other] # "active"
  BY <1>0 DEF testing, getPartitionState, StatusIsCurrent, CurState, booted
<1>3. pc'.at \notin {"markOther", "ackTest", "publishAll", "retryFailed"}
  BY DEF Idle
<1>4. FallbackSafe'
  BY <1>1, <1>2 DEF FallbackSafe
<1>5. StatusIsCurrent' /\ CurState' /\ FallbackThere' /\ Running'
  BY <1>1 DEF StatusIsCurrent, CurState, FallbackThere, Running, booted
<1>6. Handlers' /\ Jobs'
  BY <1>1, <1>2, <1>3 DEF Handlers, Jobs
<1> QED
  BY <1>4, <1>5, <1>6 DEF Safe

\* baseOsHandleStatusUpdate is safe: it leaves the disk alone, starts a job, or sets the state
\* of the other partition
LEMMA StatusUpdateSafe ==
  ASSUME Inv, NEW v \in Versions, NEW s, NEW c, baseOsHandleStatusUpdate(v, s, c),
         UNCHANGED <<up, cur, img>>, bosmUp' = bosmUp, bosmUp = "running", booted,
         pc' = Idle \/ pc'.at \in {"counter", "retryInstall"},
         pc.at \notin {"markOther", "ackTest", "publishAll"}
  PROVE  Safe'
<1>0. cur \in Parts /\ other \in Parts
  BY DEF Inv, BosmTypeOK, ZbootTypeOK, other, OtherThan, Parts
<1>1. CASE UNCHANGED <<part, zstatus, worker>>
  BY <1>1, DiskKept
<1>2. CASE doBaseOsActivate(v, s)
  <2>1. CASE UNCHANGED <<part, zstatus, status, sent, kept>>
    BY <1>2, <2>1, JobQueued DEF doBaseOsActivate
  <2>2. CASE UNCHANGED jobs
    <3>1. \A w \in Workers : jobs'[w].at # "none" => jobs[w].at # "none"
      BY <2>2
    <3>2. part[cur] = "active"
      BY <1>0, <1>2 DEF doBaseOsActivate, testing, getPartitionState, Inv, StatusIsCurrent,
                        CurState, booted
    <3>3. CASE UNCHANGED <<part, zstatus>>
      BY <3>1, <3>3, DiskKept
    <3>4. CASE \E st \in {"updating", "unused"}, ver \in Versions \cup {NoVer} :
                 SetOtherPartitionState(st, ver)
      BY <3>1, <3>2, <3>4, OtherSet
    <3>5. \A read \in GetShortVersion(other) : read \in Versions \cup {NoVer}
      BY <1>0 DEF GetShortVersion, Inv, BosmTypeOK, ZbootTypeOK, Images
    <3>6. zstatus[other].ver \in Versions \cup {NoVer}
      BY <1>0 DEF Inv, BosmTypeOK, ZbootTypeOK, ZbootStatuses
    <3> QED
      BY <1>2, <2>2, <3>3, <3>4, <3>5, <3>6 DEF doBaseOsActivate
  <2> QED
    BY <1>2, <2>1, <2>2 DEF doBaseOsActivate
<1> QED
  BY <1>1, <1>2 DEF baseOsHandleStatusUpdate, runningVersion, notInstalled, tooEarly, tooLarge

\* One step keeps the invariant
LEMMA InvStep ==
  ASSUME Inv, [BaseOsMgrNext \/ Environment]_bosmVars
  PROVE  Inv'
<1> USE DEF MainLoop
<1>a. cur \in Parts /\ other \in Parts /\ other # cur /\ \A p \in Parts : p = cur \/ p = other
  BY DEF Inv, BosmTypeOK, ZbootTypeOK, other, OtherThan, Parts
<1>b. BosmTypeOK'
  BY TypeStep DEF Inv
<1>c. SUFFICES Safe'
  BY <1>b DEF Inv, Safe
<1>1. CASE bosmRun
  <2>1. \A p \in Parts : zstatus'[p].state = part[p]
    BY <1>1 DEF bosmRun
  <2>2. other' = other
    BY <1>1 DEF bosmRun, other
  <2>3. pc.at = "idle" /\ pc' = pc
    BY <1>1 DEF bosmRun, Inv, Running
  <2>4. FallbackSafe' /\ CurState' /\ FallbackThere'
    BY <1>1, <2>2 DEF bosmRun, Inv, FallbackSafe, CurState, FallbackThere
  <2>5. StatusIsCurrent' /\ Running' /\ Handlers'
    BY <1>1, <2>1, <2>2, <2>3 DEF bosmRun, StatusIsCurrent, Running, Handlers, booted
  <2>6. Jobs'
    BY <1>1, <2>2 DEF bosmRun, Inv, Jobs
  <2> QED
    BY <2>4, <2>5, <2>6 DEF Safe
<1>2. CASE bosmEnterLoop
  <2>1. other' = other
    BY <1>2 DEF bosmEnterLoop, zboot, other
  <2> QED
    BY <1>2, <2>1
    DEF bosmEnterLoop, zboot, Inv, FallbackSafe, CurState, FallbackThere, StatusIsCurrent, Running,
        Handlers, Jobs, booted, Safe
<1>3. CASE handleBaseOsConfigCreateModify
  BY <1>3, DiskKept DEF handleBaseOsConfigCreateModify, zboot, Idle
<1>4. CASE handleBaseOsConfigDelete
  <2>1. CASE UNCHANGED <<part, zstatus>>
    BY <1>4, <2>1, DiskKept DEF handleBaseOsConfigDelete, Idle
  <2>2. CASE /\ getPartitionState(cur) = "active"
             /\ SetOtherPartitionState("unused", zstatus[other].ver)
    <3>1. part[cur] = "active"
      BY <1>4, <1>a, <2>2
      DEF handleBaseOsConfigDelete, Inv, StatusIsCurrent, getPartitionState, Idle
    <3> QED
      BY <1>4, <2>2, <3>1, OtherSet DEF handleBaseOsConfigDelete, Idle
  <2> QED
    BY <1>4, <2>1, <2>2 DEF handleBaseOsConfigDelete
<1>5. CASE handleContentTreeStatusImpl
  <2>1. pc' = Idle \/ pc'.at = "update"
    BY <1>5 DEF handleContentTreeStatusImpl, Idle
  <2> QED
    BY <1>5, <2>1, DiskKept DEF handleContentTreeStatusImpl, zboot, Idle
<1>6. CASE processInstallWorkResult
  <2>1. pc'.at = "update"
    BY <1>6 DEF processInstallWorkResult, Idle
  <2> QED
    BY <1>6, <2>1, DiskKept DEF processInstallWorkResult, zboot, Idle
<1>7. CASE handleForceFallback
  <2>1. CASE UNCHANGED <<part, zstatus, pc>>
    BY <1>7, <2>1, DiskKept DEF handleForceFallback, Idle
  <2>2. CASE /\ getPartitionState(cur) = "active"
             /\ SetOtherPartitionState("updating", zstatus[other].ver)
             /\ pc' = [Idle EXCEPT !.at = "saveFallback", !.n = fallbackCounter]
    <3>1. part[cur] = "active"
      BY <1>7, <1>a, <2>2
      DEF handleForceFallback, Inv, StatusIsCurrent, getPartitionState, Idle
    <3>2. pc'.at = "saveFallback"
      BY <2>2 DEF Idle
    <3> QED
      BY <1>7, <2>2, <3>1, <3>2, OtherSet DEF handleForceFallback, Idle
  <2> QED
    BY <1>7, <2>1, <2>2 DEF handleForceFallback
<1>8. CASE handleZbootTestComplete
  <2>1. other' = other /\ bosmUp' = bosmUp /\ UNCHANGED <<up, cur, img, worker>>
    BY <1>8 DEF handleZbootTestComplete, other
  <2>0. zstatus[cur].state = part[cur]
    BY <1>8, <1>a DEF handleZbootTestComplete, Inv, StatusIsCurrent, Idle
  <2>2. CASE /\ part[cur] = "inprogress" /\ part' = [part EXCEPT ![cur] = "active"]
             /\ pc' = [Idle EXCEPT !.at = "markOther"] /\ UNCHANGED zstatus
    <3>1. booted /\ bosmUp = "running"
      BY <1>8 DEF handleZbootTestComplete
    <3>2. part[other] = "active" /\ \A w \in Workers : jobs[w].at = "none"
      BY <2>2, <3>1 DEF Inv, FallbackThere, Jobs, booted
    <3>3. part'[cur] = "active" /\ part'[other] = "active"
      BY <2>2, <3>2, <1>a DEF Inv, BosmTypeOK, ZbootTypeOK
    <3>4. pc'.at = "markOther"
      BY <2>2 DEF Idle
    <3>5. FallbackSafe'
      BY <1>a, <2>1, <3>1, <3>2, <3>3 DEF FallbackSafe, Inv, booted
    <3>6. StatusIsCurrent' /\ CurState' /\ FallbackThere'
      BY <2>1, <3>3, <3>4 DEF StatusIsCurrent, CurState, FallbackThere
    <3>7. Running' /\ Handlers' /\ Jobs'
      BY <2>1, <3>1, <3>2, <3>3, <3>4 DEF Running, Handlers, Jobs, booted
    <3> QED
      BY <3>5, <3>6, <3>7 DEF Safe
  <2>3. CASE /\ \A p \in Parts : zstatus'[p].state = zstatus[p].state
             /\ UNCHANGED <<part, pc>>
    BY <1>8, <2>1, <2>3, DiskKept DEF handleZbootTestComplete, Idle
  <2>4. ASSUME zstatus' = [zstatus EXCEPT ![cur].testComplete = FALSE]
        PROVE  \A p \in Parts : zstatus'[p].state = zstatus[p].state
    BY <1>a, <2>4 DEF Inv, BosmTypeOK, ZbootTypeOK, ZbootStatuses
  <2> QED
    BY <1>8, <2>0, <2>2, <2>3, <2>4 DEF handleZbootTestComplete, getPartitionState
<1>d. pc.vs \in SUBSET Versions
  BY DEF Inv, BosmTypeOK, BaseOsMgrTypeOK, Pcs
<1>9. CASE stepUpdate
  <2>1. /\ UNCHANGED <<up, cur, img>> /\ bosmUp' = bosmUp /\ bosmUp = "running" /\ booted
        /\ pc' = Idle /\ pc.at = "update"
    BY <1>9 DEF stepUpdate, Inv, Running
  <2>2. CASE UNCHANGED <<part, zstatus, status, worker>>
    BY <2>1, <2>2, DiskKept DEF Idle
  <2>3. CASE \E v \in pc.vs : baseOsHandleStatusUpdate(v, status[v], bosConfig[v])
    BY <1>d, <2>1, <2>3, StatusUpdateSafe
  <2> QED
    BY <1>9, <2>2, <2>3 DEF stepUpdate
<1>10. CASE stepConfig
  <2>1. /\ UNCHANGED <<up, cur, img>> /\ bosmUp' = bosmUp /\ bosmUp = "running" /\ booted
        /\ pc'.at = "counter" /\ pc.at = "config"
    BY <1>10 DEF stepConfig, Inv, Running, Idle
  <2>2. PICK v \in pc.vs : baseOsHandleStatusUpdate(v, status[v], bosConfig[v])
    BY <1>10 DEF stepConfig
  <2> QED
    BY <1>d, <2>1, <2>2, StatusUpdateSafe
<1>11. CASE stepRetryInstall
  <2>1. /\ UNCHANGED <<up, cur, img>> /\ bosmUp' = bosmUp /\ bosmUp = "running" /\ booted
        /\ pc.at = "retryInstall"
    BY <1>11 DEF stepRetryInstall, Inv, Running
  <2>2. CASE pc.vs = {}
    <3>1. pc'.at = "counter" /\ UNCHANGED <<part, zstatus, worker>>
      BY <1>11, <2>2 DEF stepRetryInstall, Idle
    <3> QED
      BY <2>1, <3>1, DiskKept
  <2>3. CASE pc.vs # {}
    <3>1. PICK v \in pc.vs :
            /\ baseOsHandleStatusUpdate(v, [status[v] EXCEPT !.tooEarly = FALSE], bosConfig[v])
            /\ pc' = [pc EXCEPT !.vs = @ \ {v}]
      BY <1>11, <2>3 DEF stepRetryInstall
    <3>2. pc'.at = "retryInstall"
      BY <2>1, <3>1 DEF Inv, BosmTypeOK, BaseOsMgrTypeOK, Pcs
    <3> QED
      BY <1>d, <2>1, <3>1, <3>2, StatusUpdateSafe
  <2> QED
    BY <2>2, <2>3
<1>12. CASE handleUpdateRetryCounter
  <2>1. /\ UNCHANGED <<up, cur, img, part, zstatus, worker, bosmUp>> /\ bosmUp = "running"
        /\ booted /\ pc.at = "counter"
    BY <1>12 DEF handleUpdateRetryCounter, Inv, Running, zboot
  <2>2. CASE pc' = Idle
    BY <2>1, <2>2, DiskKept DEF Idle
  <2>3. CASE /\ pc' = [Idle EXCEPT !.at = "retryFailed"]
             /\ getPartitionState(cur) = "active" /\ isImageInErrorState
    <3>1. part[cur] = "active" /\ part[other] # "active"
      BY <1>a, <2>1, <2>3 DEF isImageInErrorState, getPartitionState, Inv, StatusIsCurrent
    <3>2. pc'.at = "retryFailed"
      BY <2>3 DEF Idle
    <3>3. other' = other
      BY <2>1 DEF other
    <3>4. FallbackSafe' /\ StatusIsCurrent' /\ CurState' /\ FallbackThere'
      BY <2>1, <3>2, <3>3
      DEF Inv, FallbackSafe, StatusIsCurrent, CurState, FallbackThere, booted
    <3>5. Running' /\ Handlers' /\ Jobs'
      BY <2>1, <3>1, <3>2, <3>3 DEF Inv, Running, Handlers, Jobs, booted
    <3> QED
      BY <3>4, <3>5 DEF Safe
  <2> QED
    BY <1>12, <2>2, <2>3 DEF handleUpdateRetryCounter
<1>13. CASE stepRetryFailed
  BY <1>13, OtherSet DEF stepRetryFailed, Inv, Running, Handlers
<1>14. CASE stepMarkOther
  <2>1. /\ part[cur] = "active" /\ part[other] = "active" /\ booted /\ bosmUp = "running"
        /\ UNCHANGED <<up, cur, img, worker, bosmUp>> /\ other' = other
    BY <1>14 DEF stepMarkOther, Inv, Handlers, Running, other
  <2>2. part' = [part EXCEPT ![other] = "unused"] /\ pc' = [Idle EXCEPT !.at = "ackTest"]
    BY <1>14, <2>1 DEF stepMarkOther
  <2>3. part'[cur] = "active" /\ part'[other] = "unused" /\ pc'.at = "ackTest"
    BY <1>a, <2>1, <2>2 DEF Idle, Inv, BosmTypeOK, ZbootTypeOK
  <2>4. \A w \in Workers : jobs[w].at = "none"
    BY <2>1 DEF Inv, Jobs
  <2>5. FallbackSafe' /\ StatusIsCurrent' /\ CurState' /\ FallbackThere'
    BY <1>a, <2>1, <2>3, <2>4
    DEF Inv, FallbackSafe, StatusIsCurrent, CurState, FallbackThere, booted
  <2>6. Running' /\ Handlers' /\ Jobs'
    BY <2>1, <2>3, <2>4 DEF Inv, Running, Handlers, Jobs, booted
  <2> QED
    BY <2>5, <2>6 DEF Safe
<1>15. CASE stepAckTest
  <2>1. /\ part[cur] = "active" /\ part[other] # "active" /\ booted /\ bosmUp = "running"
        /\ UNCHANGED <<up, cur, img, part, worker, bosmUp>> /\ other' = other
        /\ pc'.at = "publishAll"
    BY <1>15 DEF stepAckTest, Inv, Handlers, Running, other, Idle
  <2>2. FallbackSafe' /\ StatusIsCurrent' /\ CurState' /\ FallbackThere'
    BY <2>1 DEF Inv, FallbackSafe, StatusIsCurrent, CurState, FallbackThere, booted
  <2>3. Running' /\ Handlers' /\ Jobs'
    BY <2>1 DEF Inv, Running, Handlers, Jobs, booted
  <2> QED
    BY <2>2, <2>3 DEF Safe
<1>16. CASE stepPublishAll
  <2>1. /\ part[cur] = "active" /\ part[other] # "active" /\ booted /\ bosmUp = "running"
        /\ UNCHANGED <<up, cur, img, part, worker, bosmUp>> /\ other' = other
        /\ pc'.at = "retryInstall"
    BY <1>16 DEF stepPublishAll, Inv, Handlers, Running, other, Idle
  <2>2. \A p \in Parts : zstatus'[p].state = part[p]
    <3>1. ASSUME NEW p \in Parts PROVE [zstatus[p] EXCEPT !.state = part[p]].state = part[p]
      BY DEF Inv, BosmTypeOK, ZbootTypeOK, ZbootStatuses
    <3> QED
      BY <1>16, <3>1 DEF stepPublishAll, ZbootStatusAll
  <2>3. FallbackSafe' /\ StatusIsCurrent' /\ CurState' /\ FallbackThere'
    BY <2>1, <2>2 DEF Inv, FallbackSafe, StatusIsCurrent, CurState, FallbackThere, booted
  <2>4. Running' /\ Handlers' /\ Jobs'
    BY <2>1 DEF Inv, Running, Handlers, Jobs, booted
  <2> QED
    BY <2>3, <2>4 DEF Safe
<1>17. CASE stepSaveFallback
  BY <1>17, DiskKept DEF stepSaveFallback, zboot, Idle
<1>18. CASE beginWrite
  <2>1. PICK v \in Workers :
          /\ jobs[v].at = "queued"
          /\ jobs' = [jobs EXCEPT ![v].at = "writing"]
          /\ img' = [img EXCEPT ![other] = IF @ = ImageOf[jobs[v].ver] THEN @ ELSE Garbage]
    BY <1>18 DEF beginWrite
  <2>2. \A w \in Workers : jobs'[w].at # "none" => jobs[w].at # "none"
    BY <2>1 DEF Inv, BosmTypeOK, BaseOsMgrTypeOK
  <2>3. /\ part[cur] = "active" /\ part[other] # "active" /\ booted
        /\ UNCHANGED <<up, cur, part, zstatus, bosmUp, pc>> /\ other' = other
    BY <1>18, <2>1 DEF beginWrite, Inv, Jobs, other
  <2>4. img'[cur] = img[cur]
    BY <1>a, <2>1 DEF Inv, BosmTypeOK, ZbootTypeOK
  <2>5. FallbackSafe' /\ StatusIsCurrent' /\ CurState' /\ FallbackThere'
    BY <1>a, <2>2, <2>3, <2>4
    DEF Inv, FallbackSafe, StatusIsCurrent, CurState, FallbackThere, booted
  <2>6. Running' /\ Handlers' /\ Jobs'
    BY <2>2, <2>3, <2>4 DEF Inv, Running, Handlers, Jobs, booted
  <2> QED
    BY <2>5, <2>6 DEF Safe
<1>19. CASE endWrite
  <2>1. PICK v \in Workers :
          /\ jobs[v].at # "none"
          /\ jobs' = [jobs EXCEPT ![v].at = "ended"]
          /\ \/ UNCHANGED img
             \/ \E i \in written(v) : img' = [img EXCEPT ![other] = i]
    BY <1>19 DEF endWrite
  <2>2. \A w \in Workers : jobs'[w].at # "none" => jobs[w].at # "none"
    BY <2>1 DEF Inv, BosmTypeOK, BaseOsMgrTypeOK
  <2>3. /\ part[cur] = "active" /\ part[other] # "active" /\ booted
        /\ UNCHANGED <<up, cur, part, zstatus, bosmUp, pc>> /\ other' = other
    BY <1>19, <2>1 DEF endWrite, Inv, Jobs, other
  <2>4. img'[cur] = img[cur]
    BY <1>a, <2>1 DEF Inv, BosmTypeOK, ZbootTypeOK
  <2>5. FallbackSafe' /\ StatusIsCurrent' /\ CurState' /\ FallbackThere'
    BY <1>a, <2>2, <2>3, <2>4
    DEF Inv, FallbackSafe, StatusIsCurrent, CurState, FallbackThere, booted
  <2>6. Running' /\ Handlers' /\ Jobs'
    BY <2>2, <2>3, <2>4 DEF Inv, Running, Handlers, Jobs, booted
  <2> QED
    BY <2>5, <2>6 DEF Safe
<1>28. CASE deletePending
  <2>1. \A w \in Workers : jobs'[w].at # "none" => jobs[w].at # "none"
    BY <1>28 DEF deletePending, Inv, BosmTypeOK, BaseOsMgrTypeOK, NoJob
  <2>2. UNCHANGED <<up, cur, part, img, zstatus, bosmUp, pc>> /\ other' = other
    BY <1>28 DEF deletePending, zboot, other
  <2>3. FallbackSafe' /\ StatusIsCurrent' /\ CurState' /\ FallbackThere'
    BY <2>1, <2>2 DEF Inv, FallbackSafe, StatusIsCurrent, CurState, FallbackThere, booted
  <2>4. Running' /\ Handlers' /\ Jobs'
    BY <2>1, <2>2 DEF Inv, Running, Handlers, Jobs, booted
  <2> QED
    BY <2>3, <2>4 DEF Safe
<1>20. CASE bosmBoot
  <2>1. PICK p \in Parts :
          /\ gptprioNext(p) /\ cur' = p
          /\ part' = [part EXCEPT ![p] = IF @ = "updating" THEN "inprogress" ELSE @]
    BY <1>20 DEF bosmBoot, grubBoot
  <2>2. ~up /\ bosmUp = "down" /\ pc.at = "idle" /\ \A w \in Workers : jobs[w].at = "none"
    BY <1>20 DEF bosmBoot, grubBoot, Inv, Running, Jobs, booted
  <2>3. UNCHANGED <<img, bosmUp, pc, worker>>
    BY <1>20 DEF bosmBoot, grubBoot, bosm
  <2>4. /\ part[p] \in {"active", "updating"}
        /\ part'[p] \in {"active", "inprogress"}
        /\ (part'[p] = "active") <=> (part[p] = "active")
        /\ \A q \in Parts : q # p => part'[q] = part[q]
    BY <2>1 DEF gptprioNext, Bootable, Inv, BosmTypeOK, ZbootTypeOK
  <2>5. other' \in Parts /\ other' # p /\ \A q \in Parts : q = p \/ q = other'
    BY <2>1 DEF other, OtherThan, Parts
  <2>6. PICK q \in Parts : part[q] = "active"
    BY DEF Inv, FallbackSafe
  <2>7. part'[q] = "active"
    BY <2>4, <2>6
  <2>8. FallbackSafe'
    BY <2>2, <2>3, <2>4, <2>7 DEF Inv, FallbackSafe
  <2>9. CurState' /\ FallbackThere'
    BY <2>1, <2>4, <2>5, <2>7 DEF CurState, FallbackThere
  <2>10. StatusIsCurrent' /\ Running' /\ Handlers' /\ Jobs'
    BY <2>2, <2>3 DEF StatusIsCurrent, Running, Handlers, Jobs
  <2> QED
    BY <2>8, <2>9, <2>10 DEF Safe
<1>21. CASE bosmDown
  <2>1. ~up' /\ bosmUp' = "down" /\ pc'.at = "idle" /\ UNCHANGED <<cur, part, img>>
        /\ \A w \in Workers : jobs'[w].at = "none"
    BY <1>21 DEF bosmDown, zbootReset, BaseOsMgrReset, Volatile, Idle, NoJob
  <2>2. FallbackSafe'
    BY <2>1 DEF Inv, FallbackSafe
  <2> QED
    BY <2>1, <2>2 DEF Safe, StatusIsCurrent, CurState, FallbackThere, Running, Handlers, Jobs
<1>22. ASSUME UNCHANGED <<up, cur, part, img, zstatus, worker, bosmUp, pc>>
       PROVE  Safe'
  <2>1. other' = other
    BY <1>22 DEF other
  <2>2. FallbackSafe' /\ StatusIsCurrent' /\ CurState' /\ FallbackThere'
    BY <1>22, <2>1 DEF Inv, FallbackSafe, StatusIsCurrent, CurState, FallbackThere, booted
  <2>3. Running' /\ Handlers' /\ Jobs'
    BY <1>22, <2>1 DEF Inv, Running, Handlers, Jobs, booted
  <2> QED
    BY <2>2, <2>3 DEF Safe
<1>23. CASE publishZbootConfig
  BY <1>22, <1>23 DEF publishZbootConfig, bosm
<1>24. CASE publishVaultStatus /\ UNCHANGED bosm
  BY <1>22, <1>24 DEF publishVaultStatus, bosm
<1>25. CASE setForceFallbackCounter
  BY <1>22, <1>25 DEF setForceFallbackCounter, zboot
<1>26. CASE \E c \in ConfigInputs : parseBaseOS(c)
  BY <1>22, <1>26 DEF parseBaseOS, zboot
<1>27. CASE UNCHANGED bosmVars
  BY <1>22, <1>27 DEF bosmVars, zboot, bosm
<1> QED
  BY <1>1, <1>2, <1>3, <1>4, <1>5, <1>6, <1>7, <1>8, <1>9, <1>10, <1>11, <1>12, <1>13, <1>14,
     <1>15, <1>16, <1>17, <1>18, <1>19, <1>20, <1>21, <1>23, <1>24, <1>25, <1>26, <1>27,
     <1>28
  DEF BaseOsMgrNext, HandlerSteps, Environment

\* The invariant of baseosmgr
THEOREM BosmInvariant == BaseOsMgrSpec => []Inv
<1>1. ASSUME ZbootInit, BaseOsMgrInit PROVE Inv
  <2>1. BosmTypeOK
    BY <1>1, InitType
  <2>2. /\ ~up /\ bosmUp = "down" /\ pc.at = "idle"
        /\ \A w \in Workers : jobs[w].at = "none"
    BY <1>1 DEF ZbootInit, BaseOsMgrInit, Volatile, Idle, NoJob
  <2>3. FallbackSafe
    BY <1>1, <2>2 DEF ZbootInit, FallbackSafe, Parts
  <2> QED
    BY <2>1, <2>2, <2>3
    DEF Inv, StatusIsCurrent, CurState, FallbackThere, Running, Handlers, Jobs
<1>2. Inv /\ [BaseOsMgrNext \/ Environment]_bosmVars => Inv'
  BY InvStep
<1> QED
  BY <1>1, <1>2, PTL DEF BaseOsMgrSpec, BosmInit

\* Whatever fails or is cut short in an update, GRUB has an image to boot, and no partition
\* that counts as committed is ever being written or half written: validateAndAssignPartition
\* refuses to touch the other partition while it is the fallback.
THEOREM BosmFallbackSafe == BaseOsMgrSpec => []FallbackSafe
<1>1. Inv => FallbackSafe
  BY DEF Inv
<1> QED
  BY <1>1, BosmInvariant, PTL

\* Between two events, the partition states baseosmgr decides upon are those of the GPT
THEOREM BosmStatusIsCurrent == BaseOsMgrSpec => []StatusIsCurrent
<1>1. Inv => StatusIsCurrent
  BY DEF Inv
<1> QED
  BY <1>1, BosmInvariant, PTL

-----------------------------------------------------------------------------
(* What is tried is whole.  The installation marks a partition `updating' only when its image
   is complete and stays so, as long as the pool works on one image at a time.  Two other
   handlers mark a partition without a look at what it holds: the retry of a failed image
   (stepRetryFailed) and the forced fallback.  The proof needs to know where an image marked
   so comes from: it is the one that is configured, so that its deletion takes the mark back
   before another version is written over it. *)

\* The versions the pool writes, or has written and not yet reported
PoolVersions ==
  {jobs[w].ver : w \in {u \in Workers : jobs[u].at \in {"queued", "writing"}}}
    \cup {r.ver : r \in {q \in sent \cup kept : q.ok}}

\* One image is installed at a time, no failed image is retried, no fallback is forced
PlainInstall ==
  /\ \A u, v \in PoolVersions : ImageOf[u] = ImageOf[v]
  /\ pc.at \notin {"retryFailed", "saveFallback"}

\* A job that ended well has left its image in the other partition
ResultsWritten == \A r \in sent \cup kept : r.ok => img[other] = ImageOf[r.ver]

\* A job under way does not change the image that is to be tried
JobsAgree ==
  part[other] = "updating" =>
    \A w \in Workers : jobs[w].at \in {"queued", "writing"} => img[other] = ImageOf[jobs[w].ver]

\* One version is configured at a time, and a handler goes on with that one
OneConfig ==
  /\ \A u, v \in Versions : bosConfig[u] # NoConfig /\ bosConfig[v] # NoConfig => u = v
  /\ pc.at \in {"config", "retryInstall"} => \A v \in pc.vs : bosConfig[v] # NoConfig

\* The configured version is in the other partition and marked there
Chosen(v) ==
  /\ zstatus[other].ver = v /\ zstatus[cur].ver # v /\ img[other] = v /\ ImageOf[v] = v
  /\ status[v].label = other /\ bosConfig[v] # NoConfig
UpdatingKnown ==
  up /\ part[other] = "updating" =>
    bosmUp = "running" /\ part[cur] = "active" /\ \E v \in Versions : Chosen(v)

NoResultsYet == bosmUp # "running" => sent = {} /\ kept = {}

WholeInv ==
  /\ TriedIsWhole /\ ResultsWritten /\ JobsAgree /\ OneConfig /\ UpdatingKnown /\ NoResultsYet
  /\ mixed = {}

\* A step that leaves the disk alone and starts no job.  The status of the version that runs
\* may be relabelled.
LEMMA WholeKept ==
  ASSUME WholeInv, BosmTypeOK, BosmTypeOK',
         UNCHANGED <<up, cur, part, img, bosmUp, bosConfig, mixed>>,
         \A w \in Workers : jobs'[w].at \in {"queued", "writing"} =>
           jobs[w].at \in {"queued", "writing"} /\ jobs'[w].ver = jobs[w].ver,
         sent' \cup kept' \subseteq sent \cup kept,
         \A p \in Parts : zstatus'[p].ver = zstatus[p].ver,
         \A v \in Versions : status[v].label = other /\ zstatus[cur].ver # v
                               => status'[v].label = other,
         pc'.at \in {"config", "retryInstall"} => \A v \in pc'.vs : bosConfig[v] # NoConfig
  PROVE  WholeInv'
<1>1. other' = other /\ other \in Parts /\ cur \in Parts
  BY DEF other, OtherThan, BosmTypeOK, ZbootTypeOK, Parts
<1>2. TriedIsWhole' /\ ResultsWritten' /\ JobsAgree' /\ mixed' = {}
  BY <1>1 DEF WholeInv, TriedIsWhole, ResultsWritten, JobsAgree
<1>3. OneConfig' /\ NoResultsYet'
  BY DEF WholeInv, OneConfig, NoResultsYet
<1>4. UpdatingKnown'
  BY <1>1 DEF WholeInv, UpdatingKnown, Chosen
<1>5. QED
  BY <1>2, <1>3, <1>4 DEF WholeInv

\* The result of the job for the configured version is taken: if the job ended well and left
\* the version that is configured, the other partition is marked
LEMMA PoppedWhole ==
  ASSUME Inv, WholeInv, PlainInstall, BosmTypeOK', NEW v \in Versions, NEW s \in Statuses,
         NEW r \in Pop(v), kept' = kept \ {r}, UNCHANGED <<jobs, sent>>, r.ok,
         publishBaseOsStatus(v, [s EXCEPT !.label = other]),
         NEW read \in GetShortVersion(other),
         LET ver == IF read = NoVer THEN zstatus[other].ver ELSE read
         IN  SetOtherPartitionState(IF ver = v THEN "updating" ELSE "unused", ver),
         ~testing, booted, bosmUp = "running", pc.at \notin {"markOther", "ackTest", "publishAll"},
         zstatus[cur].ver # v, bosConfig[v] # NoConfig,
         UNCHANGED <<up, cur, img, bosmUp, bosConfig, mixed>>,
         pc'.at \in {"config", "retryInstall"} => \A u \in pc'.vs : bosConfig[u] # NoConfig
  PROVE  WholeInv'
<1>1. other' = other /\ other \in Parts /\ cur \in Parts /\ other # cur
  BY DEF other, OtherThan, Inv, BosmTypeOK, ZbootTypeOK, Parts
<1>2. r \in kept /\ r.ver = v
  BY DEF Pop
<1>3. img[other] = ImageOf[v] /\ img[other] \in Versions
  BY <1>2 DEF WholeInv, ResultsWritten
<1>4. read = img[other] /\ read # NoVer
  BY <1>3 DEF GetShortVersion
<1>5. SetOtherPartitionState(IF read = v THEN "updating" ELSE "unused", read)
  BY <1>4
<1>6. /\ part'[other] = (IF read = v THEN "updating" ELSE "unused") /\ part'[cur] = part[cur]
      /\ zstatus'[other].ver = read /\ zstatus'[cur].ver = zstatus[cur].ver
  BY <1>1, <1>5 DEF SetOtherPartitionState, Inv, BosmTypeOK, ZbootTypeOK, ZbootStatuses
<1>7. part[cur] = "active"
  BY <1>1 DEF testing, getPartitionState, Inv, StatusIsCurrent, CurState, booted
<1>8. status'[v].label = other
  BY DEF publishBaseOsStatus, Inv, BosmTypeOK, BaseOsMgrTypeOK, Statuses
<1>9. \A p \in Parts : p = cur \/ p = other
  BY <1>1 DEF Parts
<1>10. TriedIsWhole'
  BY <1>1, <1>3, <1>6, <1>7, <1>9 DEF TriedIsWhole
<1>11. ResultsWritten'
  BY <1>1 DEF WholeInv, ResultsWritten
<1>12. JobsAgree'
  <2>1. v \in PoolVersions
    BY <1>2 DEF PoolVersions
  <2>2. \A w \in Workers : jobs[w].at \in {"queued", "writing"} => jobs[w].ver \in PoolVersions
    BY DEF PoolVersions
  <2>3. QED
    BY <1>1, <1>3, <2>1, <2>2 DEF JobsAgree, PlainInstall
<1>13. OneConfig' /\ NoResultsYet' /\ mixed' = {}
  BY DEF WholeInv, OneConfig, NoResultsYet
<1>14. UpdatingKnown'
  <2>1. ASSUME part'[other] = "updating" PROVE Chosen(v)'
    BY <1>1, <1>3, <1>4, <1>6, <1>8, <2>1 DEF Chosen
  <2>2. QED
    BY <1>1, <1>6, <1>7, <2>1 DEF UpdatingKnown
<1>15. QED
  BY <1>10, <1>11, <1>12, <1>13, <1>14 DEF WholeInv

\* A job is started for the configured version
LEMMA QueuedWhole ==
  ASSUME Inv, WholeInv, NEW v \in Versions, AddWorkInstall(v), bosConfig[v] # NoConfig, booted,
         UNCHANGED <<up, cur, part, img, bosmUp, bosConfig, mixed, zstatus, status, sent, kept>>,
         pc'.at \in {"config", "retryInstall"} => \A u \in pc'.vs : bosConfig[u] # NoConfig
  PROVE  WholeInv'
<1>1. other' = other
  BY DEF other
<1>2. TriedIsWhole' /\ ResultsWritten' /\ OneConfig' /\ NoResultsYet' /\ mixed' = {}
  BY <1>1 DEF WholeInv, TriedIsWhole, ResultsWritten, OneConfig, NoResultsYet
<1>3. UpdatingKnown'
  BY <1>1 DEF WholeInv, UpdatingKnown, Chosen
<1>4. JobsAgree'
  <2>1. ASSUME part[other] = "updating" PROVE img[other] = ImageOf[v]
    <3>1. PICK u \in Versions : Chosen(u)
      BY <2>1 DEF WholeInv, UpdatingKnown, booted
    <3>2. u = v
      BY <3>1 DEF Chosen, WholeInv, OneConfig
    <3>3. QED
      BY <3>1, <3>2 DEF Chosen
  <2>2. \A w \in Workers : jobs'[w] = jobs[w] \/ jobs'[w].ver = v
    BY DEF AddWorkInstall, Inv, BosmTypeOK, BaseOsMgrTypeOK
  <2>3. QED
    BY <1>1, <2>1, <2>2 DEF WholeInv, JobsAgree
<1>5. QED
  BY <1>2, <1>3, <1>4 DEF WholeInv

\* baseOsHandleStatusUpdate of the configured version
LEMMA StatusUpdateWhole ==
  ASSUME Inv, WholeInv, PlainInstall, BosmTypeOK', NEW v \in Versions, NEW s \in Statuses,
         s.label = status[v].label, baseOsHandleStatusUpdate(v, s, bosConfig[v]),
         bosConfig[v] # NoConfig, booted, bosmUp = "running",
         pc.at \notin {"markOther", "ackTest", "publishAll"},
         UNCHANGED <<up, cur, img, bosmUp, bosConfig, mixed>>,
         pc'.at \in {"config", "retryInstall"} => \A u \in pc'.vs : bosConfig[u] # NoConfig
  PROVE  WholeInv'
<1>1. other \in Parts /\ cur \in Parts /\ BosmTypeOK
  BY DEF other, OtherThan, Inv, BosmTypeOK, ZbootTypeOK, Parts
<1>2. ASSUME NEW t \in Statuses, publishBaseOsStatus(v, t),
             s.label = other /\ zstatus[cur].ver # v => t.label = other
      PROVE  \A u \in Versions : status[u].label = other /\ zstatus[cur].ver # u
                                   => status'[u].label = other
  BY <1>2 DEF publishBaseOsStatus, Inv, BosmTypeOK, BaseOsMgrTypeOK
<1>3. ASSUME UNCHANGED <<part, zstatus, worker>>,
             \A u \in Versions : status[u].label = other /\ zstatus[cur].ver # u
                                   => status'[u].label = other
      PROVE  WholeInv'
  BY <1>1, <1>3, WholeKept
<1>4. CASE ct[v] = "error"
  BY <1>2, <1>3, <1>4 DEF baseOsHandleStatusUpdate
<1>5. CASE runningVersion(v, s)
  <2>1. [s EXCEPT !.label = cur] \in Statuses
    BY <1>1 DEF Statuses
  <2>2. QED
    BY <1>2, <1>3, <1>5, <2>1 DEF runningVersion
<1>6. labelled(v, s) \in Statuses /\ (s.label = other => labelled(v, s).label = other)
  BY <1>1 DEF labelled, Statuses
<1>7. CASE notInstalled(v, s, bosConfig[v])
  <2>1. CASE publishBaseOsStatus(v, labelled(v, s))
    BY <1>2, <1>3, <1>6, <1>7, <2>1 DEF notInstalled
  <2>2. CASE UNCHANGED status
    BY <1>3, <1>7, <2>2 DEF notInstalled
  <2>3. QED
    BY <1>7, <2>1, <2>2 DEF notInstalled
<1>8. CASE tooEarly(v, s)
  <2>1. /\ [labelled(v, s) EXCEPT !.tooEarly = TRUE] \in Statuses
        /\ [labelled(v, s) EXCEPT !.tooEarly = TRUE].label = labelled(v, s).label
    BY <1>6 DEF Statuses
  <2>2. QED
    BY <1>2, <1>3, <1>6, <1>8, <2>1 DEF tooEarly
<1>9. /\ [s EXCEPT !.label = other] \in Statuses
      /\ [s EXCEPT !.label = other].label = other
  BY <1>1 DEF Statuses
<1>10. CASE tooLarge(v, s)
  BY <1>2, <1>3, <1>9, <1>10 DEF tooLarge
<1>11. CASE zstatus[cur].ver # v /\ doBaseOsActivate(v, s)
  <2>1. CASE Pop(v) = {} /\ AddWorkInstall(v) /\ UNCHANGED <<part, zstatus, status, sent, kept>>
    BY <2>1, QueuedWhole
  <2>2. CASE \E r \in Pop(v) :
               /\ kept' = kept \ {r} /\ UNCHANGED <<jobs, sent>>
               /\ publishBaseOsStatus(v, [s EXCEPT !.label = other])
               /\ ~r.ok /\ UNCHANGED <<part, zstatus>>
    BY <1>1, <1>2, <1>9, <2>2, WholeKept
  <2>3. CASE \E r \in Pop(v) :
               /\ kept' = kept \ {r} /\ UNCHANGED <<jobs, sent>>
               /\ publishBaseOsStatus(v, [s EXCEPT !.label = other])
               /\ r.ok
               /\ \E read \in GetShortVersion(other) :
                    LET ver == IF read = NoVer THEN zstatus[other].ver ELSE read IN
                    SetOtherPartitionState(IF ver = v THEN "updating" ELSE "unused", ver)
    BY <1>11, <2>3, PoppedWhole DEF doBaseOsActivate
  <2>4. QED
    BY <1>11, <2>1, <2>2, <2>3 DEF doBaseOsActivate
<1>12. QED
  BY <1>4, <1>5, <1>7, <1>8, <1>10, <1>11 DEF baseOsHandleStatusUpdate

\* A job starts to write or ends: with one image in the pool, the partition is not spoilt by
\* another job, nor an image changed that is to be tried
LEMMA WritingWhole ==
  ASSUME Inv, WholeInv, PlainInstall, beginWrite \/ endWrite
  PROVE  WholeInv'
<1>1. /\ UNCHANGED <<up, cur, part, zstatus, bosmUp, bosConfig, status, kept, pc>>
      /\ other' = other /\ other \in Parts /\ cur \in Parts /\ other # cur
      /\ \A p \in Parts : p = cur \/ p = other
  BY DEF beginWrite, endWrite, other, OtherThan, Inv, BosmTypeOK, ZbootTypeOK, Parts
<1>2. /\ img \in [Parts -> Images] /\ jobs \in [Workers -> PoolJobs] /\ mixed = {}
      /\ sent \in SUBSET Results /\ kept \in SUBSET Results
  BY DEF Inv, BosmTypeOK, ZbootTypeOK, BaseOsMgrTypeOK, WholeInv
<1>3. \A w \in Workers : jobs[w].at \in {"queued", "writing"} =>
        jobs[w].ver \in Versions /\ jobs[w].ver \in PoolVersions /\ part[cur] = "active"
          /\ bosmUp = "running"
  BY <1>2 DEF PoolJobs, NoJob, PoolVersions, Inv, Jobs
<1>4. \A r \in sent \cup kept : r.ok => r.ver \in PoolVersions
  BY DEF PoolVersions
<1>5. \A w, u \in Workers :
        jobs[w].at \in {"queued", "writing"} /\ jobs[u].at \in {"queued", "writing"}
          => ImageOf[jobs[w].ver] = ImageOf[jobs[u].ver]
  BY <1>3 DEF PlainInstall
<1>6. OneConfig' /\ NoResultsYet'
  <2>1. OneConfig'
    BY <1>1 DEF WholeInv, OneConfig
  <2>2. bosmUp = "running"
    BY <1>3 DEF beginWrite, endWrite
  <2>3. QED
    BY <1>1, <2>1, <2>2 DEF NoResultsYet
<1>7. ASSUME NEW w \in Workers, jobs[w].at \in {"queued", "writing"}, part[other] = "updating"
      PROVE  img[other] = ImageOf[jobs[w].ver]
  BY <1>7 DEF WholeInv, JobsAgree
<1>8. CASE beginWrite
  <2>1. PICK w \in Workers :
          /\ jobs[w].at = "queued"
          /\ jobs' = [jobs EXCEPT ![w].at = "writing"]
          /\ img' = [img EXCEPT ![other] = IF @ = ImageOf[jobs[w].ver] THEN @ ELSE Garbage]
          /\ mixed' = IF Others(w) = {} THEN mixed \ {w} ELSE mixed \cup Others(w) \cup {w}
    BY <1>8 DEF beginWrite
  <2>2. Others(w) = {} /\ mixed' = {}
    BY <1>2, <1>5, <2>1 DEF Others
  <2>3. \A u \in Workers : jobs'[u].at \in {"queued", "writing"} =>
          jobs[u].at \in {"queued", "writing"} /\ jobs'[u].ver = jobs[u].ver
    BY <1>2, <2>1 DEF PoolJobs, NoJob
  <2>4. img'[cur] = img[cur]
          /\ img'[other] = IF img[other] = ImageOf[jobs[w].ver] THEN img[other] ELSE Garbage
    BY <1>1, <1>2, <2>1
  <2>5. part[other] = "updating" => img'[other] = img[other]
    BY <1>7, <2>1, <2>4
  <2>6. TriedIsWhole'
    BY <1>1, <2>4, <2>5 DEF WholeInv, TriedIsWhole
  <2>7. JobsAgree'
    BY <1>1, <1>7, <2>3, <2>5 DEF JobsAgree
  <2>8. UpdatingKnown'
    BY <1>1, <2>5 DEF WholeInv, UpdatingKnown, Chosen
  <2>9. ResultsWritten'
    <3>1. sent' = sent
      BY <1>8 DEF beginWrite
    <3>2. ASSUME NEW r \in sent \cup kept, r.ok PROVE img'[other] = ImageOf[r.ver]
      <4>1. img[other] = ImageOf[r.ver]
        BY <3>2 DEF WholeInv, ResultsWritten
      <4>2. ImageOf[r.ver] = ImageOf[jobs[w].ver]
        BY <1>3, <1>4, <2>1, <3>2 DEF PlainInstall
      <4>3. QED
        BY <2>4, <4>1, <4>2
    <3>3. QED
      BY <1>1, <3>1, <3>2 DEF ResultsWritten
  <2>10. QED
    BY <1>6, <2>2, <2>6, <2>7, <2>8, <2>9 DEF WholeInv
<1>9. CASE endWrite
  <2>1. PICK w \in Workers, ok \in BOOLEAN :
          /\ jobs[w].at \in {"queued", "writing"}
          /\ jobs' = [jobs EXCEPT ![w].at = "ended"]
          /\ sent' = sent \cup {[w |-> w, ver |-> jobs[w].ver, ok |-> ok]}
          /\ \/ ~ok /\ UNCHANGED img
             \/ ok /\ \E i \in written(w) : img' = [img EXCEPT ![other] = i]
    BY <1>9 DEF endWrite
  <2>2. mixed' = {}
    BY <1>2, <1>9 DEF endWrite
  <2>3. \A u \in Workers : jobs'[u].at \in {"queued", "writing"} =>
          jobs[u].at \in {"queued", "writing"} /\ jobs'[u].ver = jobs[u].ver
    BY <1>2, <2>1 DEF PoolJobs, NoJob
  <2>4. img'[cur] = img[cur] /\ (img'[other] = img[other] \/ img'[other] = ImageOf[jobs[w].ver])
          /\ (ok => img'[other] = ImageOf[jobs[w].ver])
    <3>1. written(w) = {ImageOf[jobs[w].ver]}
      BY <1>2 DEF written
    <3>2. QED
      BY <1>1, <1>2, <2>1, <3>1
  <2>5. part[other] = "updating" => img'[other] = img[other]
    BY <1>7, <2>1, <2>4
  <2>6. TriedIsWhole'
    BY <1>1, <2>4, <2>5 DEF WholeInv, TriedIsWhole
  <2>7. JobsAgree'
    BY <1>1, <1>7, <2>3, <2>5 DEF JobsAgree
  <2>8. UpdatingKnown'
    BY <1>1, <2>5 DEF WholeInv, UpdatingKnown, Chosen
  <2>9. ResultsWritten'
    <3>1. ASSUME NEW r \in sent \cup kept, r.ok PROVE img'[other] = ImageOf[r.ver]
      <4>1. img[other] = ImageOf[r.ver]
        BY <3>1 DEF WholeInv, ResultsWritten
      <4>2. ImageOf[r.ver] = ImageOf[jobs[w].ver]
        BY <1>3, <1>4, <2>1, <3>1 DEF PlainInstall
      <4>3. QED
        BY <2>4, <4>1, <4>2
    <3>2. QED
      BY <1>1, <2>1, <2>4, <3>1 DEF ResultsWritten
  <2>10. QED
    BY <1>6, <2>2, <2>6, <2>7, <2>8, <2>9 DEF WholeInv
<1>10. QED
  BY <1>8, <1>9

\* GRUB has started a partition: the other one is not to be tried, for it would have been
LEMMA BootWhole ==
  ASSUME Inv, WholeInv, bosmBoot
  PROVE  WholeInv'
<1>1. PICK p \in Parts :
        /\ gptprioNext(p) /\ cur' = p
        /\ part' = [part EXCEPT ![p] = IF @ = "updating" THEN "inprogress" ELSE @]
  BY DEF bosmBoot, grubBoot
<1>2. ~up /\ bosmUp = "down" /\ \A w \in Workers : jobs[w].at = "none"
  BY DEF bosmBoot, grubBoot, Inv, Running, Jobs, booted
<1>3. UNCHANGED <<img, zstatus, bosmUp, pc, jobs, sent, kept, mixed, bosConfig, status>>
  BY DEF bosmBoot, grubBoot, bosm
<1>4. sent = {} /\ kept = {}
  BY <1>2 DEF WholeInv, NoResultsYet
<1>5. part \in [Parts -> PartStates]
  BY DEF Inv, BosmTypeOK, ZbootTypeOK
<1>6. other' \in Parts /\ other' # p /\ \A q \in Parts : q = p \/ q = other'
  BY <1>1 DEF other, OtherThan, Parts
<1>7. part'[other'] # "updating"
  <2>1. PICK q \in Parts : part[q] = "active"
    BY DEF Inv, FallbackSafe
  <2>2. ASSUME part[other'] = "updating" PROVE FALSE
    <3>1. part[p] = "active"
      BY <1>6, <2>1, <2>2
    <3>2. Bootable(part[other']) /\ Priority(part[other']) = 3 /\ Priority(part[p]) = 2
      BY <2>2, <3>1 DEF Bootable, Priority
    <3>3. Priority(part[p]) >= Priority(part[other'])
      BY <1>1, <1>6, <3>2 DEF gptprioNext
    <3>4. QED
      BY <3>2, <3>3
  <2>3. part'[other'] = part[other']
    BY <1>1, <1>5, <1>6
  <2>4. QED
    BY <2>2, <2>3
<1>8. TriedIsWhole'
  <2>1. \A q \in Parts : part'[q] = "updating" => part[q] = "updating"
    BY <1>1, <1>5
  <2>2. QED
    BY <1>3, <2>1 DEF WholeInv, TriedIsWhole
<1>9. ResultsWritten' /\ NoResultsYet' /\ OneConfig' /\ mixed' = {}
  BY <1>3, <1>4 DEF WholeInv, ResultsWritten, NoResultsYet, OneConfig
<1>10. JobsAgree' /\ UpdatingKnown'
  BY <1>7 DEF JobsAgree, UpdatingKnown
<1>11. QED
  BY <1>8, <1>9, <1>10 DEF WholeInv

\* A version is no longer configured: if it is the one that is to be tried, it is not any more
LEMMA DeleteWhole ==
  ASSUME Inv, WholeInv, handleBaseOsConfigDelete, BosmTypeOK'
  PROVE  WholeInv'
<1>1. /\ MainLoop /\ UNCHANGED <<up, cur, img, bosmUp, worker, mixed, pc>>
      /\ other' = other /\ other \in Parts /\ cur \in Parts /\ other # cur
      /\ \A p \in Parts : p = cur \/ p = other
  BY DEF handleBaseOsConfigDelete, other, OtherThan, Inv, BosmTypeOK, ZbootTypeOK, Parts
<1>2. PICK v \in Versions :
        /\ bosConfig[v] # NoConfig /\ bosConfig' = [bosConfig EXCEPT ![v] = NoConfig]
        /\ publishBaseOsStatus(v, IF ct[v] = "none" THEN NoStatus
                                  ELSE [status[v] EXCEPT !.label = ""])
        /\ IF /\ status[v].label = other /\ zstatus[other].ver = v
              /\ getPartitionState(cur) = "active"
           THEN SetOtherPartitionState("unused", zstatus[other].ver)
           ELSE UNCHANGED <<part, zstatus>>
  BY DEF handleBaseOsConfigDelete
<1>3. part'[other] # "updating"
  <2>1. CASE part[other] = "updating"
    <3>1. PICK u \in Versions : Chosen(u)
      BY <1>1, <2>1 DEF WholeInv, UpdatingKnown, MainLoop, booted
    <3>2. u = v
      BY <1>2, <3>1 DEF Chosen, WholeInv, OneConfig
    <3>3. getPartitionState(cur) = "active"
      BY <1>1, <2>1 DEF getPartitionState, WholeInv, UpdatingKnown, Inv, StatusIsCurrent, MainLoop,
                        booted, Idle
    <3>4. SetOtherPartitionState("unused", zstatus[other].ver)
      BY <1>2, <3>1, <3>2, <3>3 DEF Chosen
    <3>5. QED
      BY <1>1, <3>4 DEF SetOtherPartitionState, Inv, BosmTypeOK, ZbootTypeOK
  <2>2. CASE part[other] # "updating"
    BY <1>1, <1>2, <2>2 DEF SetOtherPartitionState, Inv, BosmTypeOK, ZbootTypeOK
  <2>3. QED
    BY <2>1, <2>2
<1>4. part'[cur] = part[cur]
  BY <1>1, <1>2 DEF SetOtherPartitionState, Inv, BosmTypeOK, ZbootTypeOK
<1>5. TriedIsWhole'
  BY <1>1, <1>3, <1>4 DEF WholeInv, TriedIsWhole
<1>6. JobsAgree' /\ UpdatingKnown'
  BY <1>1, <1>3 DEF JobsAgree, UpdatingKnown
<1>7. ResultsWritten' /\ NoResultsYet' /\ mixed' = {}
  BY <1>1 DEF WholeInv, ResultsWritten, NoResultsYet
<1>8. OneConfig'
  <2>1. \A u \in Versions : bosConfig'[u] # NoConfig => bosConfig[u] # NoConfig
    BY <1>2 DEF Inv, BosmTypeOK, BaseOsMgrTypeOK
  <2>2. pc'.at = "idle"
    BY <1>1 DEF MainLoop, Idle
  <2>3. QED
    BY <2>1, <2>2 DEF WholeInv, OneConfig
<1>9. QED
  BY <1>5, <1>6, <1>7, <1>8 DEF WholeInv

\* A version is configured: it is the only one
LEMMA ConfigWhole ==
  ASSUME Inv, WholeInv, handleBaseOsConfigCreateModify, BosmTypeOK'
  PROVE  WholeInv'
<1>1. /\ UNCHANGED <<up, cur, img, part, zstatus, bosmUp, worker, mixed>> /\ other' = other
      /\ config \in Configs /\ config # NoConfig
  BY DEF handleBaseOsConfigCreateModify, zboot, other, Inv, BosmTypeOK, BaseOsMgrTypeOK
<1> DEFINE v == config.ver
<1>2. v \in Versions
  BY <1>1 DEF Configs
<1>3. /\ \A u \in Versions \ {v} : bosConfig[u] = NoConfig
      /\ bosConfig' = [bosConfig EXCEPT ![v] = config]
      /\ publishBaseOsStatus(v, IF bosConfig[v] = NoConfig THEN NewStatus ELSE status[v])
      /\ pc' = [at |-> "config", vs |-> {v}, n |-> config.retry]
  BY DEF handleBaseOsConfigCreateModify
<1> HIDE DEF v
<1>4. bosConfig'[v] # NoConfig /\ \A u \in Versions \ {v} : bosConfig'[u] = NoConfig
  BY <1>1, <1>2, <1>3 DEF Inv, BosmTypeOK, BaseOsMgrTypeOK
<1>5. OneConfig'
  BY <1>3, <1>4 DEF OneConfig
<1>6. TriedIsWhole' /\ ResultsWritten' /\ JobsAgree' /\ NoResultsYet' /\ mixed' = {}
  BY <1>1 DEF WholeInv, TriedIsWhole, ResultsWritten, JobsAgree, NoResultsYet
<1>7. UpdatingKnown'
  <2>1. ASSUME up, part[other] = "updating" PROVE \E u \in Versions : Chosen(u)'
    <3>1. PICK u \in Versions : Chosen(u)
      BY <2>1 DEF WholeInv, UpdatingKnown
    <3>2. u = v
      BY <1>3, <3>1 DEF Chosen
    <3>3. status'[v].label = status[v].label
      BY <1>2, <1>3, <3>1, <3>2 DEF publishBaseOsStatus, Chosen, Inv, BosmTypeOK, BaseOsMgrTypeOK
    <3>4. status'[u].label = other /\ bosConfig'[u] # NoConfig
      BY <1>4, <3>1, <3>2, <3>3 DEF Chosen
    <3>5. Chosen(u)'
      BY <1>1, <3>1, <3>4 DEF Chosen
    <3>6. QED
      BY <3>5
  <2>2. QED
    BY <1>1, <2>1 DEF WholeInv, UpdatingKnown
<1>8. QED
  BY <1>5, <1>6, <1>7 DEF WholeInv

\* One step of a plain installation keeps the invariant
LEMMA WholeStep ==
  ASSUME Inv, WholeInv, PlainInstall, PlainInstall', [BaseOsMgrNext \/ Environment]_bosmVars
  PROVE  WholeInv'
<1>a. /\ cur \in Parts /\ other \in Parts /\ other # cur
      /\ \A p \in Parts : p = cur \/ p = other
      /\ BosmTypeOK /\ pc.vs \in SUBSET Versions
      /\ part \in [Parts -> PartStates] /\ zstatus \in [Parts -> ZbootStatuses]
      /\ status \in [Versions -> Statuses] /\ jobs \in [Workers -> PoolJobs]
  BY DEF Inv, BosmTypeOK, ZbootTypeOK, BaseOsMgrTypeOK, Pcs, other, OtherThan, Parts
<1>b. BosmTypeOK'
  BY TypeStep DEF Inv
\* A step that leaves the disk, the topics and the pool alone
<1>c. ASSUME UNCHANGED <<up, cur, part, img, bosmUp, bosConfig, mixed, worker, status>>,
             \A p \in Parts : zstatus'[p].ver = zstatus[p].ver,
             pc'.at \in {"config", "retryInstall"} => \A v \in pc'.vs : bosConfig[v] # NoConfig
      PROVE  WholeInv'
  BY <1>a, <1>b, <1>c, WholeKept
\* A step before which, and after which, nothing is to be tried
<1>d. ASSUME UNCHANGED <<up, cur, img, bosConfig, mixed, worker>>, part'[other] # "updating",
             part'[cur] = part[cur] \/ part'[cur] = "active",
             pc'.at \notin {"config", "retryInstall"}, bosmUp # "running" \/ bosmUp' = bosmUp
      PROVE  WholeInv'
  <2>1. other' = other
    BY <1>d DEF other
  <2>2. TriedIsWhole'
    BY <1>a, <1>d DEF WholeInv, TriedIsWhole
  <2>3. ResultsWritten' /\ NoResultsYet' /\ OneConfig' /\ mixed' = {}
    BY <1>d, <2>1 DEF WholeInv, ResultsWritten, NoResultsYet, OneConfig
  <2>4. JobsAgree' /\ UpdatingKnown'
    BY <1>d, <2>1 DEF JobsAgree, UpdatingKnown
  <2>5. QED
    BY <2>2, <2>3, <2>4 DEF WholeInv
<1>e. bosmUp # "running" /\ up => part[other] # "updating"
  BY DEF WholeInv, UpdatingKnown
<1>1. CASE bosmRun
  <2>1. pc.at = "idle" /\ part[other] # "updating"
    BY <1>1, <1>e DEF bosmRun, Inv, Running, booted
  <2>2. QED
    BY <1>1, <1>d, <2>1 DEF bosmRun
<1>2. CASE bosmEnterLoop
  <2>1. pc.at = "idle" /\ part[other] # "updating"
    BY <1>2, <1>e DEF bosmEnterLoop, Inv, Running, booted
  <2>2. QED
    BY <1>2, <1>d, <2>1 DEF bosmEnterLoop, zboot
<1>3. CASE handleBaseOsConfigCreateModify
  BY <1>3, <1>b, ConfigWhole
<1>4. CASE handleBaseOsConfigDelete
  BY <1>4, <1>b, DeleteWhole
<1>5. CASE handleContentTreeStatusImpl
  <2>1. pc'.at \in {"idle", "update"}
    BY <1>5 DEF handleContentTreeStatusImpl, Idle
  <2>2. QED
    BY <1>5, <1>c, <2>1 DEF handleContentTreeStatusImpl, zboot
<1>6. CASE processInstallWorkResult
  <2>1. pc'.at = "update" /\ sent' \cup kept' \subseteq sent \cup kept
    BY <1>6 DEF processInstallWorkResult, Idle
  <2>2. UNCHANGED <<up, cur, part, img, bosmUp, bosConfig, mixed, jobs, zstatus, status>>
    BY <1>6 DEF processInstallWorkResult, zboot
  <2>3. QED
    BY <1>a, <1>b, <2>1, <2>2, WholeKept
<1>7. CASE handleForceFallback
  <2>1. CASE UNCHANGED <<part, zstatus, pc>>
    BY <1>7, <1>c, <2>1 DEF handleForceFallback, MainLoop, Idle
  <2>2. CASE pc' = [Idle EXCEPT !.at = "saveFallback", !.n = fallbackCounter]
    BY <2>2 DEF PlainInstall, Idle
  <2>3. QED
    BY <1>7, <2>1, <2>2 DEF handleForceFallback
<1>8. CASE handleZbootTestComplete
  <2>1. UNCHANGED <<up, cur, img, bosConfig, mixed, worker, status, bosmUp>> /\ pc = Idle
    BY <1>8 DEF handleZbootTestComplete, MainLoop
  <2>2. zstatus[cur].state = part[cur]
    BY <1>8, <1>a DEF handleZbootTestComplete, MainLoop, Inv, StatusIsCurrent, Idle
  <2>3. CASE /\ part[cur] = "inprogress" /\ part' = [part EXCEPT ![cur] = "active"]
             /\ pc' = [Idle EXCEPT !.at = "markOther"]
    <3>1. part[other] = "active"
      BY <1>8, <2>3 DEF handleZbootTestComplete, MainLoop, booted, Inv, FallbackThere
    <3>2. part'[other] = "active" /\ part'[cur] = "active" /\ pc'.at = "markOther"
      BY <1>a, <2>3, <3>1 DEF Idle
    <3>3. QED
      BY <1>d, <2>1, <3>2
  <2>4. CASE /\ \A p \in Parts : zstatus'[p].ver = zstatus[p].ver
             /\ UNCHANGED <<part, pc>>
    BY <1>c, <2>1, <2>4 DEF Idle
  <2>5. ASSUME zstatus' = [zstatus EXCEPT ![cur].testComplete = FALSE]
        PROVE  \A p \in Parts : zstatus'[p].ver = zstatus[p].ver
    BY <1>a, <2>5 DEF ZbootStatuses
  <2>6. QED
    BY <1>8, <2>2, <2>3, <2>4, <2>5 DEF handleZbootTestComplete, getPartitionState
<1>9. CASE stepUpdate
  <2>1. /\ UNCHANGED <<up, cur, img, bosmUp, bosConfig, mixed>> /\ bosmUp = "running" /\ booted
        /\ pc' = Idle /\ pc.at = "update"
    BY <1>9 DEF stepUpdate, Inv, Running
  <2>2. CASE UNCHANGED <<part, zstatus, status, worker>>
    BY <1>c, <2>1, <2>2 DEF Idle
  <2>3. CASE \E v \in pc.vs : /\ bosConfig[v] # NoConfig
                              /\ baseOsHandleStatusUpdate(v, status[v], bosConfig[v])
    <3>1. PICK v \in pc.vs : /\ bosConfig[v] # NoConfig
                             /\ baseOsHandleStatusUpdate(v, status[v], bosConfig[v])
      BY <2>3
    <3>2. v \in Versions /\ status[v] \in Statuses /\ pc'.at = "idle"
      BY <1>a, <2>1 DEF Idle
    <3>3. QED
      BY <1>b, <2>1, <3>1, <3>2, StatusUpdateWhole
  <2>4. QED
    BY <1>9, <2>2, <2>3 DEF stepUpdate
<1>10. CASE stepConfig
  <2>1. /\ UNCHANGED <<up, cur, img, bosmUp, bosConfig, mixed>> /\ bosmUp = "running" /\ booted
        /\ pc'.at = "counter" /\ pc.at = "config"
    BY <1>10 DEF stepConfig, Inv, Running, Idle
  <2>2. PICK v \in pc.vs : baseOsHandleStatusUpdate(v, status[v], bosConfig[v])
    BY <1>10 DEF stepConfig
  <2>3. v \in Versions /\ status[v] \in Statuses /\ bosConfig[v] # NoConfig
    BY <1>a, <2>1 DEF WholeInv, OneConfig
  <2>4. QED
    BY <1>b, <2>1, <2>2, <2>3, StatusUpdateWhole
<1>11. CASE stepRetryInstall
  <2>1. /\ UNCHANGED <<up, cur, img, bosmUp, bosConfig, mixed>> /\ bosmUp = "running" /\ booted
        /\ pc.at = "retryInstall" /\ \A v \in pc.vs : bosConfig[v] # NoConfig
    BY <1>11 DEF stepRetryInstall, Inv, Running, WholeInv, OneConfig
  <2>2. CASE pc.vs = {}
    <3>1. pc'.at = "counter" /\ UNCHANGED <<part, zstatus, status, worker>>
      BY <1>11, <2>2 DEF stepRetryInstall, Idle
    <3>2. QED
      BY <1>c, <2>1, <3>1
  <2>3. CASE pc.vs # {}
    <3>1. PICK v \in pc.vs :
            /\ baseOsHandleStatusUpdate(v, [status[v] EXCEPT !.tooEarly = FALSE], bosConfig[v])
            /\ pc' = [pc EXCEPT !.vs = @ \ {v}]
      BY <1>11, <2>3 DEF stepRetryInstall
    <3>2. pc'.at = "retryInstall" /\ pc'.vs \subseteq pc.vs
      BY <2>1, <3>1 DEF Inv, BosmTypeOK, BaseOsMgrTypeOK, Pcs
    <3> DEFINE s == [status[v] EXCEPT !.tooEarly = FALSE]
    <3>3. v \in Versions /\ s \in Statuses /\ s.label = status[v].label
      <4>1. v \in Versions /\ status[v] \in Statuses
        BY <1>a
      <4>2. ASSUME NEW t \in Statuses
            PROVE  /\ [t EXCEPT !.tooEarly = FALSE] \in Statuses
                   /\ [t EXCEPT !.tooEarly = FALSE].label = t.label
        BY DEF Statuses
      <4>3. QED
        BY <4>1, <4>2
    <3>4. baseOsHandleStatusUpdate(v, s, bosConfig[v])
      BY <3>1
    <3> HIDE DEF s
    <3>5. QED
      BY <1>b, <2>1, <3>2, <3>3, <3>4, StatusUpdateWhole
  <2>4. QED
    BY <2>2, <2>3
<1>12. CASE handleUpdateRetryCounter
  <2>1. UNCHANGED <<up, cur, part, img, bosmUp, bosConfig, mixed, worker, status, zstatus>>
    BY <1>12 DEF handleUpdateRetryCounter, zboot
  <2>2. pc'.at \in {"idle", "retryFailed"}
    BY <1>12 DEF handleUpdateRetryCounter, Idle
  <2>3. QED
    BY <1>c, <2>1, <2>2
<1>13. CASE stepRetryFailed
  BY <1>13 DEF stepRetryFailed, PlainInstall
<1>14. CASE stepMarkOther
  <2>1. /\ part[other] = "active"
        /\ UNCHANGED <<up, cur, img, bosConfig, mixed, worker, bosmUp>>
    BY <1>14 DEF stepMarkOther, Inv, Handlers
  <2>2. part' = [part EXCEPT ![other] = "unused"] /\ pc'.at = "ackTest"
    BY <1>14, <2>1 DEF stepMarkOther, Idle
  <2>3. part'[other] = "unused" /\ part'[cur] = part[cur]
    BY <1>a, <2>2
  <2>4. QED
    BY <1>d, <2>1, <2>2, <2>3
<1>15. CASE stepAckTest
  <2>1. pc'.at = "publishAll" /\ \A p \in Parts : zstatus'[p].ver = zstatus[p].ver
    BY <1>15, <1>a DEF stepAckTest, Idle, ZbootStatuses
  <2>2. QED
    BY <1>15, <1>c, <2>1 DEF stepAckTest
<1>16. CASE stepPublishAll
  <2>1. \A p \in Parts : zstatus'[p].ver = zstatus[p].ver
    <3>1. ASSUME NEW p \in Parts PROVE [zstatus[p] EXCEPT !.state = part[p]].ver = zstatus[p].ver
      BY <1>a DEF ZbootStatuses
    <3>2. QED
      BY <1>16, <3>1 DEF stepPublishAll, ZbootStatusAll
  <2>2. \A v \in pc'.vs : bosConfig[v] # NoConfig
    BY <1>16 DEF stepPublishAll, Idle
  <2>3. QED
    BY <1>16, <1>c, <2>1, <2>2 DEF stepPublishAll
<1>17. CASE stepSaveFallback
  BY <1>17 DEF stepSaveFallback, PlainInstall
<1>18. CASE beginWrite \/ endWrite
  BY <1>18, WritingWhole
<1>19. CASE deletePending
  <2>1. \A w \in Workers : jobs'[w].at \in {"queued", "writing"} =>
          jobs[w].at \in {"queued", "writing"} /\ jobs'[w].ver = jobs[w].ver
    BY <1>19, <1>a DEF deletePending, NoJob
  <2>2. UNCHANGED <<up, cur, part, img, bosmUp, bosConfig, mixed, sent, kept, zstatus, status, pc>>
    BY <1>19 DEF deletePending, zboot
  <2>3. pc.at \in {"config", "retryInstall"} => \A v \in pc.vs : bosConfig[v] # NoConfig
    BY DEF WholeInv, OneConfig
  <2>4. QED
    BY <1>a, <1>b, <2>1, <2>2, <2>3, WholeKept
<1>20. CASE bosmBoot
  BY <1>20, BootWhole
<1>21. CASE bosmDown
  <2>1. /\ ~up' /\ bosmUp' = "down" /\ pc'.at = "idle" /\ UNCHANGED <<cur, part, img>>
        /\ sent' = {} /\ kept' = {} /\ mixed' = {}
        /\ \A w \in Workers : jobs'[w].at = "none"
        /\ \A v \in Versions : bosConfig'[v] = NoConfig
    BY <1>21 DEF bosmDown, zbootReset, BaseOsMgrReset, Volatile, Idle, NoJob
  <2>2. QED
    BY <2>1 DEF WholeInv, TriedIsWhole, ResultsWritten, JobsAgree, OneConfig, UpdatingKnown,
                NoResultsYet
<1>22. ASSUME UNCHANGED <<up, cur, part, img, zstatus, bosmUp, bosConfig, mixed, worker, status, pc>>
       PROVE  WholeInv'
  <2>1. pc.at \in {"config", "retryInstall"} => \A v \in pc.vs : bosConfig[v] # NoConfig
    BY DEF WholeInv, OneConfig
  <2>2. QED
    BY <1>22, <1>c, <2>1
<1>23. CASE publishZbootConfig
  BY <1>22, <1>23 DEF publishZbootConfig, bosm
<1>24. CASE publishVaultStatus /\ UNCHANGED bosm
  BY <1>22, <1>24 DEF publishVaultStatus, bosm
<1>25. CASE setForceFallbackCounter
  BY <1>22, <1>25 DEF setForceFallbackCounter, zboot
<1>26. CASE \E c \in ConfigInputs : parseBaseOS(c)
  BY <1>22, <1>26 DEF parseBaseOS, zboot
<1>27. CASE UNCHANGED bosmVars
  BY <1>22, <1>27 DEF bosmVars, zboot, bosm
<1> QED
  BY <1>1, <1>2, <1>3, <1>4, <1>5, <1>6, <1>7, <1>8, <1>9, <1>10, <1>11, <1>12, <1>13, <1>14,
     <1>15, <1>16, <1>17, <1>18, <1>19, <1>20, <1>21, <1>23, <1>24, <1>25, <1>26, <1>27
  DEF BaseOsMgrNext, HandlerSteps, Environment

\* While one image is installed at a time, no failed image is retried and no fallback is
\* forced, an image that is marked to be tried is complete: neither a restart in the middle of
\* the write nor a job that ends with an error leaves the mark on half an image.
THEOREM BosmTriedIsWhole == BaseOsMgrSpec /\ []PlainInstall => []TriedIsWhole
<1>1. ASSUME ZbootInit, BaseOsMgrInit PROVE WholeInv
  <2>1. /\ ~up /\ bosmUp = "down" /\ pc.at = "idle" /\ sent = {} /\ kept = {} /\ mixed = {}
        /\ \A w \in Workers : jobs[w].at = "none"
        /\ \A v \in Versions : bosConfig[v] = NoConfig
        /\ \A p \in Parts : part[p] # "updating"
    BY <1>1 DEF ZbootInit, BaseOsMgrInit, Volatile, Idle, NoJob
  <2>2. QED
    BY <2>1 DEF WholeInv, TriedIsWhole, ResultsWritten, JobsAgree, OneConfig, UpdatingKnown,
                NoResultsYet
<1>2. Inv /\ WholeInv /\ PlainInstall /\ PlainInstall' /\ [BaseOsMgrNext \/ Environment]_bosmVars
        => WholeInv'
  BY WholeStep
<1>3. WholeInv => TriedIsWhole
  BY DEF WholeInv
<1>4. QED
  BY <1>1, <1>2, <1>3, BosmInvariant, PTL DEF BaseOsMgrSpec, BosmInit
=============================================================================
