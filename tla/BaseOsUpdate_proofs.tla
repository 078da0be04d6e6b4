------------------------ MODULE BaseOsUpdate_proofs ------------------------
(***************************************************************************)
(* Proofs about the update of the base image (Spec of BaseOsUpdate): its   *)
(* types, that it implements BaseOsMgrSpec, so that what is proved of      *)
(* baseosmgr in an arbitrary environment holds of it, what it takes to     *)
(* commit an image, and that an image that failed is not tried again.      *)
(***************************************************************************)
EXTENDS BaseOsUpdate, BaseOsMgr_proofs

USE VersionsAssumption, VaultInputsAssumption, ImageOfAssumption, CountersAssumption,
    BosmInputsAssumption, InputsAssumption, TimersAssumption, BoundsAssumption

-----------------------------------------------------------------------------
(* Types *)

\* One step of nodeagent keeps its types and those of the topics it publishes
LEMMA NodeAgentTypeStep ==
  ASSUME ZbootTypeOK, NodeAgentTypeOK, NodeAgentNext
  PROVE  ZbootTypeOK' /\ NodeAgentTypeOK'
<1> USE DEF ZbootTypeOK, NodeAgentTypeOK
<1>1. CASE nagentRun
  BY <1>1 DEF nagentRun, cloud, vaultTest
<1>2. CASE handleZbootStatusImpl
  <2>1. PICK p \in Parts :
          /\ zstatusSeen' = [zstatusSeen EXCEPT ![p] = [zstatus[p] EXCEPT !.ver = NoVer]]
          /\ updateInprogress' \in BOOLEAN /\ testComplete' \in BOOLEAN
          /\ updateComplete' \in BOOLEAN /\ zconfig' \in BOOLEAN
          /\ scheduleNodeOperation("reboot") \/ UNCHANGED deviceOps
    BY <1>2 DEF handleZbootStatusImpl
  <2>2. zstatus[p] \in ZbootStatuses
    OBVIOUS
  <2>3. [zstatus[p] EXCEPT !.ver = NoVer] \in ZbootStatuses
    BY <2>2 DEF ZbootStatuses
  <2>4. zstatusSeen' \in [Parts -> ZbootStatuses]
    BY <2>1, <2>3
  <2>5. deviceOps' \in SUBSET DeviceOperations
    BY <2>1 DEF scheduleNodeOperation, DeviceOperations
  <2> QED
    BY <1>2, <2>1, <2>4, <2>5 DEF handleZbootStatusImpl, cloud, vaultTest
<1>3. CASE updateZedagentCloudConnectStatus
  <2>1. 0 \in 0..ReachableLimit /\ 0 \in 0..MintimeUpdateSuccess /\ 0 \in 0..VaultLimit
    BY DEF ReachableLimit, VaultLimit
  <2>2. testInprogress' \in BOOLEAN /\ sinceTest' \in 0..MintimeUpdateSuccess
    BY <1>3, <2>1
    DEF updateZedagentCloudConnectStatus, setTestStartTime, restartTest, canStartTest
  <2>3. /\ configGetStatus' \in ConfigGetStatuses /\ configGetSuccess' \in BOOLEAN
        /\ sinceReachable' \in 0..ReachableLimit /\ sinceVault' \in 0..VaultLimit
    BY <1>3, <2>1 DEF updateZedagentCloudConnectStatus
  <2> QED
    BY <1>3, <2>2, <2>3 DEF updateZedagentCloudConnectStatus, zboot
<1>4. CASE handleDeviceCmd
  BY <1>4 DEF handleDeviceCmd, scheduleNodeOperation, zboot, test, cloud, vaultTest
<1>5. CASE handleVaultStatusImpl
  BY <1>5 DEF handleVaultStatusImpl, VaultLimit, zboot, test, cloud
<1>6. CASE handleDeviceTimers
  <2>1. tickReachable \in 0..ReachableLimit
    BY DEF tickReachable, min, ReachableLimit
  <2>2. tickTest \in 0..MintimeUpdateSuccess
    BY DEF tickTest, min
  <2>3. tickVault \in 0..VaultLimit
    BY DEF tickVault, min, VaultLimit
  <2>4. deviceOps' \in SUBSET DeviceOperations
    BY <1>6 DEF handleDeviceTimers, scheduleNodeOperation, DeviceOperations
  <2>5. testInprogress' \in BOOLEAN /\ testComplete' \in BOOLEAN /\ zconfig' \in BOOLEAN
    BY <1>6 DEF handleDeviceTimers
  <2> QED
    BY <1>6, <2>1, <2>2, <2>3, <2>4, <2>5 DEF handleDeviceTimers
<1> QED
  BY <1>1, <1>2, <1>3, <1>4, <1>5, <1>6 DEF NodeAgentNext

\* A restart of the device brings nodeagent to its initial state
LEMMA FreshType ==
  ASSUME NodeAgentReset
  PROVE  NodeAgentTypeOK'
<1>1. AbsentStatus \in ZbootStatuses
  BY DEF AbsentStatus, ZbootStatuses
<1>2. zstatusSeen' \in [Parts -> ZbootStatuses]
  BY <1>1 DEF NodeAgentReset, Fresh
<1>3. /\ configGetStatus' \in ConfigGetStatuses /\ vaultSeen' \in VaultStates
      /\ deviceOps' \in SUBSET DeviceOperations
  BY DEF NodeAgentReset, Fresh, ConfigGetStatuses, VaultStates
<1>4. /\ sinceReachable' \in 0..ReachableLimit /\ sinceTest' \in 0..MintimeUpdateSuccess
      /\ sinceVault' \in 0..VaultLimit
  BY DEF NodeAgentReset, Fresh, ReachableLimit, VaultLimit
<1> QED
  BY <1>2, <1>3, <1>4 DEF NodeAgentReset, Fresh, NodeAgentTypeOK

-----------------------------------------------------------------------------
(* Spec implements BaseOsMgrSpec *)

\* Every step of Spec is a step of baseosmgr, one of its environment, or leaves both alone
LEMMA StepImplements ==
  ASSUME zconfig \in BOOLEAN, [Next]_vars
  PROVE  [BaseOsMgrNext \/ Environment]_bosmVars
<1>1. CASE bosmStep(BaseOsMgrNext)
  BY <1>1 DEF bosmStep
<1>2. CASE nagentStep(NodeAgentNext)
  <2>1. /\ UNCHANGED bosm /\ UNCHANGED <<up, cur, part, img, zstatus, vault>>
        /\ booted /\ zconfig' \in BOOLEAN
    BY <1>2 DEF nagentStep, NodeAgentNext, nagentRun, handleZbootStatusImpl,
         updateZedagentCloudConnectStatus, handleDeviceCmd, handleVaultStatusImpl,
         handleDeviceTimers, RunsEvents, zboot
  <2>2. CASE zconfig' = zconfig
    BY <2>1, <2>2 DEF bosmVars, zboot
  <2>3. CASE zconfig' = ~zconfig
    BY <2>1, <2>3 DEF publishZbootConfig, Environment
  <2> QED
    BY <2>1, <2>2, <2>3
<1>3. CASE vaultStep
  BY <1>3 DEF vaultStep, Environment
<1>4. CASE boot
  BY <1>4 DEF boot, bosmBoot, Environment
<1>5. CASE crash \/ bootFailure \/ nodeOperation
  BY <1>5 DEF crash, bootFailure, nodeOperation, goDown, bosmDown, Environment
<1>6. CASE controllerConfig
  BY <1>6 DEF controllerConfig, Environment
<1>7. CASE controllerFallback
  BY <1>7 DEF controllerFallback, Environment
<1>8. CASE UNCHANGED vars
  BY <1>8 DEF vars, bosmVars
<1> QED
  BY <1>1, <1>2, <1>3, <1>4, <1>5, <1>6, <1>7, <1>8 DEF Next

\* The history variables keep their types
LEMMA HistoryTypeStep ==
  ASSUME TypeOK, Next
  PROVE  /\ crashes' \in 0..MaxCrashes /\ configs' \in 0..MaxConfigs
         /\ reached' \in BOOLEAN /\ told' \in RetryCounters /\ forced' \in FallbackCounters
         /\ failed' \in [ver : Versions \cup {NoVer}, saved : RetryCounters, told : RetryCounters]
<1> USE DEF TypeOK
<1>1. NoFailure \in [ver : Versions \cup {NoVer}, saved : RetryCounters, told : RetryCounters]
  BY ConstantTypes DEF NoFailure
<1>2. CASE bosmStep(BaseOsMgrNext)
  <2>1. pc.at = "counter" => pc.n \in RetryCounters
    BY DEF BaseOsMgrTypeOK, Pcs
  <2>2. failed' = NoFailure \/ failed' = failed
    BY <1>2 DEF bosmStep
  <2> QED
    BY <1>1, <1>2, <2>1, <2>2 DEF bosmStep, BaseOsMgrTypeOK
<1>3. CASE nagentStep(NodeAgentNext)
  BY <1>3 DEF nagentStep
<1>4. CASE boot
  <2>1. failed' \in [ver : Versions \cup {NoVer}, saved : RetryCounters, told : RetryCounters]
    BY <1>4 DEF boot, BaseOsMgrTypeOK
  <2> QED
    BY <1>4, <2>1 DEF boot
<1>5. CASE crash
  BY <1>5 DEF crash
<1>6. CASE bootFailure \/ nodeOperation \/ vaultStep
  BY <1>6 DEF bootFailure, nodeOperation, vaultStep, history
<1>7. CASE controllerConfig
  <2>1. failed' = NoFailure \/ failed' = failed
    BY <1>7 DEF controllerConfig
  <2> QED
    BY <1>1, <1>7, <2>1 DEF controllerConfig
<1>8. CASE controllerFallback
  BY <1>8 DEF controllerFallback, history
<1> QED
  BY <1>2, <1>3, <1>4, <1>5, <1>6, <1>7, <1>8 DEF Next

\* Type correctness of the whole
THEOREM TypeCorrect == Spec => []TypeOK
<1>1. ASSUME Init PROVE TypeOK
  <2>1. BosmTypeOK
    BY <1>1, InitType DEF Init
  <2>2. NodeAgentTypeOK
    <3>1. AbsentStatus \in ZbootStatuses
      BY DEF AbsentStatus, ZbootStatuses
    <3>2. zstatusSeen \in [Parts -> ZbootStatuses]
      BY <1>1, <3>1 DEF Init, NodeAgentInit, Fresh
    <3>3. /\ configGetStatus \in ConfigGetStatuses /\ vaultSeen \in VaultStates
          /\ deviceOps \in SUBSET DeviceOperations
      BY <1>1 DEF Init, NodeAgentInit, Fresh, ConfigGetStatuses, VaultStates
    <3>4. /\ sinceReachable \in 0..ReachableLimit /\ sinceTest \in 0..MintimeUpdateSuccess
          /\ sinceVault \in 0..VaultLimit
      BY <1>1 DEF Init, NodeAgentInit, Fresh, ReachableLimit, VaultLimit
    <3> QED
      BY <1>1, <3>2, <3>3, <3>4 DEF Init, NodeAgentInit, Fresh, NodeAgentTypeOK
  <2>3. failed \in [ver : Versions \cup {NoVer}, saved : RetryCounters, told : RetryCounters]
    BY <1>1, ConstantTypes DEF Init, NoFailure
  <2>4. crashes \in 0..MaxCrashes /\ configs \in 0..MaxConfigs
    BY <1>1 DEF Init
  <2>5. reached \in BOOLEAN /\ told \in RetryCounters /\ forced \in FallbackCounters
    BY <1>1, ConstantTypes DEF Init
  <2> QED
    BY <2>1, <2>2, <2>3, <2>4, <2>5 DEF TypeOK, BosmTypeOK
<1>2. ASSUME TypeOK, [Next]_vars PROVE TypeOK'
  <2>1. BosmTypeOK'
    <3>1. [BaseOsMgrNext \/ Environment]_bosmVars
      BY <1>2, StepImplements DEF TypeOK, ZbootTypeOK
    <3> QED
      BY <1>2, <3>1, TypeStep DEF TypeOK, BosmTypeOK
  <2>2. CASE UNCHANGED vars
    BY <1>2, <2>2 DEF TypeOK, ZbootTypeOK, BaseOsMgrTypeOK, NodeAgentTypeOK, vars, zboot, bosm, worker,
                      nagent, test, cloud, vaultTest, history
  <2>3. CASE Next
    <3>1. NodeAgentTypeOK'
      <4>1. CASE nagentStep(NodeAgentNext)
        BY <1>2, <4>1, NodeAgentTypeStep DEF nagentStep, TypeOK
      <4>2. CASE crash \/ bootFailure \/ nodeOperation
        BY <4>2, FreshType DEF crash, bootFailure, nodeOperation, goDown
      <4>3. CASE UNCHANGED nagent
        BY <1>2, <4>3 DEF TypeOK, NodeAgentTypeOK, nagent, test, cloud, vaultTest
      <4> QED
        BY <2>3, <4>1, <4>2, <4>3
        DEF Next, bosmStep, vaultStep, boot, controllerConfig, controllerFallback
    <3> QED
      BY <1>2, <2>1, <2>3, <3>1, HistoryTypeStep DEF TypeOK, BosmTypeOK
  <2> QED
    BY <1>2, <2>2, <2>3
<1> QED
  BY <1>1, <1>2, PTL DEF Spec

\* The update of the base image, with nodeagent, vaultmgr, GRUB and the controller as they
\* are, is a behaviour of baseosmgr in an arbitrary environment
THEOREM Implements == Spec => BaseOsMgrSpec
<1>1. Init => ZbootInit /\ BaseOsMgrInit
  BY DEF Init
<1>2. TypeOK /\ [Next]_vars => [BaseOsMgrNext \/ Environment]_bosmVars
  BY StepImplements DEF TypeOK, ZbootTypeOK
<1> QED
  BY <1>1, <1>2, TypeCorrect, PTL DEF Spec, BaseOsMgrSpec, BosmInit

\* The device never loses the image it can fall back to, whatever the two agents, the
\* controller and power failures do
THEOREM UpdateFallbackSafe == Spec => []FallbackSafe
  BY Implements, BosmFallbackSafe, PTL

-----------------------------------------------------------------------------
(* What it takes to commit an image.  MarkCurrentPartitionStateActive is called by
   handleZbootTestComplete only, whose event nodeagent's test has sent: so it is enough to
   know what holds whenever zconfig is TRUE, and whenever the main loop runs. *)

\* SetOtherPartitionState, whatever the state it sets, does not commit the current image
LEMMA OtherIsNotCur ==
  ASSUME TypeOK, NEW s, NEW ver, SetOtherPartitionState(s, ver)
  PROVE  part'[cur] = part[cur]
  BY DEF SetOtherPartitionState, TypeOK, ZbootTypeOK, other, OtherThan, Parts

\* Nor does baseOsHandleStatusUpdate
LEMMA StatusUpdateDoesNotCommit ==
  ASSUME TypeOK, NEW v, NEW s, NEW c, baseOsHandleStatusUpdate(v, s, c)
  PROVE  part'[cur] = part[cur]
<1>1. CASE UNCHANGED part
  BY <1>1
<1>2. CASE \E st, ver : SetOtherPartitionState(st, ver)
  BY <1>2, OtherIsNotCur
<1>3. ASSUME doBaseOsActivate(v, s), ~UNCHANGED part
      PROVE  \E st, ver : SetOtherPartitionState(st, ver)
  BY <1>3 DEF doBaseOsActivate
<1> QED
  BY <1>1, <1>2, <1>3
  DEF baseOsHandleStatusUpdate, runningVersion, notInstalled, tooEarly, tooLarge

\* The one step that commits an image
LEMMA OnlyTestCommits ==
  ASSUME TypeOK, [Next]_vars, Commits
  PROVE  handleZbootTestComplete /\ zconfig /\ bosmUp = "running"
<1> USE DEF Commits
<1>1. CASE bosmStep(BaseOsMgrNext)
  <2>1. CASE UNCHANGED part
    BY <2>1
  <2>2. CASE \E st, ver : SetOtherPartitionState(st, ver)
    BY <2>2, OtherIsNotCur
  <2>3. CASE \E v, s, c : baseOsHandleStatusUpdate(v, s, c)
    BY <2>3, StatusUpdateDoesNotCommit
  <2>4. CASE stepMarkOther
    BY <2>4 DEF stepMarkOther, commitFails, TypeOK, ZbootTypeOK, other, OtherThan, Parts
  <2>5. CASE handleZbootTestComplete
    BY <2>5 DEF handleZbootTestComplete, commitFails, MainLoop
  <2>6. CASE stepUpdate \/ stepConfig \/ stepRetryInstall
    BY <2>1, <2>3, <2>6 DEF stepUpdate, stepConfig, stepRetryInstall
  <2>7. CASE handleBaseOsConfigDelete
    BY <2>1, <2>2, <2>7 DEF handleBaseOsConfigDelete
  <2>8. CASE handleForceFallback
    BY <2>1, <2>2, <2>8 DEF handleForceFallback
  <2>9. CASE stepRetryFailed
    BY <2>2, <2>9 DEF stepRetryFailed
  <2>10. CASE bosmRun \/ bosmEnterLoop \/ handleBaseOsConfigCreateModify
              \/ handleContentTreeStatusImpl \/ processInstallWorkResult
    BY <2>1, <2>10 DEF bosmRun, bosmEnterLoop, handleBaseOsConfigCreateModify,
         handleContentTreeStatusImpl, processInstallWorkResult, zboot
  <2>11. CASE handleUpdateRetryCounter \/ stepAckTest \/ stepPublishAll \/ stepSaveFallback
              \/ beginWrite \/ endWrite \/ deletePending
    BY <2>1, <2>11 DEF handleUpdateRetryCounter, stepAckTest, stepPublishAll, stepSaveFallback,
         beginWrite, endWrite, deletePending, zboot
  <2> QED
    BY <1>1, <2>4, <2>5, <2>6, <2>7, <2>8, <2>9, <2>10, <2>11
    DEF bosmStep, BaseOsMgrNext, HandlerSteps
<1>2. CASE nagentStep(NodeAgentNext)
  BY <1>2 DEF nagentStep, NodeAgentNext, nagentRun, handleZbootStatusImpl,
       updateZedagentCloudConnectStatus, handleDeviceCmd, handleVaultStatusImpl,
       handleDeviceTimers, zboot
<1>3. CASE boot
  BY <1>3 DEF boot, grubBoot, TypeOK, ZbootTypeOK
<1>4. CASE vaultStep \/ crash \/ bootFailure \/ nodeOperation
  BY <1>4 DEF vaultStep, publishVaultStatus, crash, bootFailure, nodeOperation, goDown, zbootReset
<1>5. CASE controllerConfig \/ controllerFallback \/ UNCHANGED vars
  BY <1>5 DEF controllerConfig, controllerFallback, parseBaseOS, setForceFallbackCounter, vars,
       zboot
<1> QED
  BY <1>1, <1>2, <1>3, <1>4, <1>5 DEF Next

\* The main loop of baseosmgr runs only with the vault unlocked
VaultInv == bosmUp = "running" => vault = "ready"

\* A commit finds the vault unlocked, because baseosmgr does not enter its main loop before
\* (WaitForVault) and vaultmgr never locks it again
THEOREM VaultReady == Spec => VaultReadyAtCommit
<1>1. Init => VaultInv
  BY DEF Init, BaseOsMgrInit, Volatile, VaultInv
<1>2. ASSUME VaultInv, [Next]_vars PROVE VaultInv'
  <2> USE DEF VaultInv
  <2>1. CASE bosmStep(BaseOsMgrNext)
    <3>1. CASE bosmRun
      BY <3>1 DEF bosmRun
    <3>2. CASE bosmEnterLoop
      BY <3>2 DEF bosmEnterLoop, zboot
    <3>3. CASE UNCHANGED <<bosmUp, vault>>
      BY <1>2, <3>3
    <3>4. CASE handleBaseOsConfigCreateModify \/ handleBaseOsConfigDelete
               \/ handleContentTreeStatusImpl \/ processInstallWorkResult
               \/ handleForceFallback \/ handleZbootTestComplete
      BY <3>3, <3>4 DEF handleBaseOsConfigCreateModify, handleBaseOsConfigDelete,
           handleContentTreeStatusImpl, processInstallWorkResult, handleForceFallback,
           handleZbootTestComplete, zboot
    <3>5. CASE HandlerSteps \/ beginWrite \/ endWrite \/ deletePending
      BY <3>3, <3>5 DEF HandlerSteps, stepUpdate, stepConfig, stepRetryInstall,
           handleUpdateRetryCounter, stepRetryFailed, stepMarkOther, stepAckTest,
           stepPublishAll, stepSaveFallback, beginWrite, endWrite, deletePending, zboot
    <3> QED
      BY <2>1, <3>1, <3>2, <3>4, <3>5 DEF bosmStep, BaseOsMgrNext
  <2>2. CASE nagentStep(NodeAgentNext)
    BY <1>2, <2>2 DEF nagentStep, NodeAgentNext, nagentRun, handleZbootStatusImpl,
         updateZedagentCloudConnectStatus, handleDeviceCmd, handleVaultStatusImpl,
         handleDeviceTimers, zboot, bosm
  <2>3. CASE vaultStep
    BY <1>2, <2>3 DEF vaultStep, publishVaultStatus, bosm
  <2>4. CASE boot
    BY <1>2, <2>4 DEF boot, grubBoot, bosm
  <2>5. CASE crash \/ bootFailure \/ nodeOperation
    BY <2>5 DEF crash, bootFailure, nodeOperation, goDown, BaseOsMgrReset, Volatile
  <2>6. CASE controllerConfig \/ controllerFallback \/ UNCHANGED vars
    BY <1>2, <2>6 DEF controllerConfig, controllerFallback, parseBaseOS,
         setForceFallbackCounter, vars, zboot, bosm
  <2> QED
    BY <1>2, <2>1, <2>2, <2>3, <2>4, <2>5, <2>6 DEF Next
<1>3. TypeOK /\ VaultInv /\ [Next]_vars => [Commits => vault = "ready"]_vars
  BY OnlyTestCommits DEF VaultInv
<1> QED
  BY <1>1, <1>2, <1>3, TypeCorrect, PTL DEF Spec, VaultReadyAtCommit

\* As long as the controller was not reached in this boot, the time of the test has not got
\* ahead of the time without the controller, unless that is over its limit; and a test that
\* has ended well has reached the controller
ContactInv ==
  /\ ~up => ~zconfig /\ configGetStatus = "Fail" /\ sinceTest = 0 /\ sinceReachable = 0
  /\ zconfig => reached
  /\ ~reached => configGetStatus \notin {"Success", "TemporaryFail"}
  /\ ~reached => sinceTest <= sinceReachable \/ sinceReachable > FallbackIfCloudGoneTime

\* The tick of nodeagent's timer: a test that expires without the controller would have been
\* preceded by the fallback
LEMMA TickContact ==
  ASSUME FallbackIfCloudGoneTime < MintimeUpdateSuccess, TypeOK, ContactInv, ~reached
  PROVE  /\ tickTest <= tickReachable \/ tickReachable > FallbackIfCloudGoneTime
         /\ ~(testExpires /\ updateInprogress)
<1> USE DEF TypeOK, NodeAgentTypeOK, ContactInv
<1>1. /\ tickReachable = min(sinceReachable + 1, ReachableLimit)
      /\ tickTest \in {sinceTest, min(sinceTest + 1, MintimeUpdateSuccess)}
  BY DEF tickReachable, reachable, tickTest
<1>2. ReachableLimit \in Nat /\ ReachableLimit > FallbackIfCloudGoneTime
  BY DEF ReachableLimit
<1>3. tickTest <= tickReachable \/ tickReachable > FallbackIfCloudGoneTime
  BY <1>1, <1>2 DEF min
<1>4. ASSUME testExpires, updateInprogress PROVE FALSE
  <2>1. tickTest >= MintimeUpdateSuccess /\ ~(tickReachable > FallbackIfCloudGoneTime)
    BY <1>4 DEF testExpires, timeToReboot
  <2>2. tickTest \in Nat /\ tickReachable \in Nat
    BY <1>1, <1>2 DEF min
  <2> QED
    BY <1>3, <2>1, <2>2
<1> QED
  BY <1>3, <1>4

\* An update is committed only in a boot that reached the controller, provided the device
\* falls back from an image that does not reach it before the test of that image ends
THEOREM ContactBeforeCommit ==
  ASSUME FallbackIfCloudGoneTime < MintimeUpdateSuccess
  PROVE  Spec => CommitAfterContact
<1>1. Init => ContactInv
  BY DEF Init, ZbootInit, NodeAgentInit, Fresh, ContactInv
<1>2. ASSUME TypeOK, ContactInv, [Next]_vars PROVE ContactInv'
  <2>1. CASE nagentStep(NodeAgentNext)
    <3>1. booted /\ up' /\ reached' = (reached \/ configGetStatus' \in {"Success", "TemporaryFail"})
      BY <2>1 DEF nagentStep, NodeAgentNext, nagentRun, handleZbootStatusImpl,
           updateZedagentCloudConnectStatus, handleDeviceCmd, handleVaultStatusImpl,
           handleDeviceTimers, RunsEvents, zboot, booted
    <3>2. CASE nagentRun \/ handleZbootStatusImpl \/ handleDeviceCmd \/ handleVaultStatusImpl
      <4>1. UNCHANGED <<configGetStatus, sinceTest, sinceReachable>>
        BY <3>2 DEF nagentRun, handleZbootStatusImpl, handleDeviceCmd, handleVaultStatusImpl,
             cloud, test
      <4>2. CASE handleZbootStatusImpl
        <5>1. PICK b \in BOOLEAN : zconfig' = (zconfig /\ b)
          BY <4>2 DEF handleZbootStatusImpl
        <5> QED
          BY <1>2, <3>1, <4>1, <5>1 DEF ContactInv, TypeOK, ZbootTypeOK
      <4>3. CASE ~zconfig' \/ UNCHANGED zconfig
        BY <1>2, <3>1, <4>1, <4>3 DEF ContactInv, TypeOK
      <4> QED
        BY <3>2, <4>2, <4>3 DEF nagentRun, handleDeviceCmd, handleVaultStatusImpl, zboot
    <3>3. CASE updateZedagentCloudConnectStatus
      <4>1. UNCHANGED zconfig
        BY <3>3 DEF updateZedagentCloudConnectStatus, zboot
      <4>2. CASE configGetStatus' \in {"Success", "TemporaryFail"}
        BY <3>1, <4>2 DEF ContactInv
      <4>3. CASE configGetStatus' \notin {"Success", "TemporaryFail"}
        <5>1. UNCHANGED <<sinceTest, sinceReachable>>
          BY <3>3, <4>3 DEF updateZedagentCloudConnectStatus
        <5> QED
          BY <1>2, <3>1, <4>1, <4>3, <5>1 DEF ContactInv, TypeOK
      <4> QED
        BY <4>2, <4>3
    <3>4. CASE handleDeviceTimers
      <4>1. UNCHANGED configGetStatus
        BY <3>4 DEF handleDeviceTimers
      <4>2. CASE reached
        BY <3>1, <4>2 DEF ContactInv
      <4>3. CASE ~reached
        <5>1. ~zconfig'
          BY <1>2, <3>4, <4>3, TickContact DEF handleDeviceTimers, ContactInv
        <5>2. sinceTest' <= sinceReachable' \/ sinceReachable' > FallbackIfCloudGoneTime
          BY <1>2, <3>4, <4>3, TickContact DEF handleDeviceTimers
        <5> QED
          BY <1>2, <3>1, <4>1, <4>3, <5>1, <5>2 DEF ContactInv
      <4> QED
        BY <4>2, <4>3
    <3> QED
      BY <2>1, <3>2, <3>3, <3>4 DEF nagentStep, NodeAgentNext
  <2>2. CASE boot
    BY <1>2, <2>2 DEF boot, grubBoot, ContactInv, nagent, cloud, test
  <2>3. CASE crash \/ bootFailure \/ nodeOperation
    BY <2>3 DEF crash, bootFailure, nodeOperation, goDown, zbootReset, NodeAgentReset, Fresh,
         ContactInv
  <2>4. ASSUME UNCHANGED <<up, zconfig, reached, configGetStatus, sinceTest, sinceReachable>>
        PROVE  ContactInv'
    BY <1>2, <2>4 DEF ContactInv
  <2>5. CASE bosmStep(BaseOsMgrNext)
    <3>1. UNCHANGED <<up, zconfig>>
      BY <2>5 DEF bosmStep, BaseOsMgrNext, HandlerSteps, bosmRun, bosmEnterLoop,
           handleBaseOsConfigCreateModify, handleBaseOsConfigDelete,
           handleContentTreeStatusImpl, processInstallWorkResult, handleForceFallback,
           handleZbootTestComplete, stepUpdate, stepConfig, stepRetryInstall,
           handleUpdateRetryCounter, stepRetryFailed, stepMarkOther, stepAckTest,
           stepPublishAll, stepSaveFallback, beginWrite, endWrite, deletePending, zboot
    <3> QED
      BY <2>4, <2>5, <3>1 DEF bosmStep, nagent, cloud, test
  <2>6. CASE vaultStep \/ controllerConfig \/ controllerFallback \/ UNCHANGED vars
    BY <2>4, <2>6 DEF vaultStep, publishVaultStatus, controllerConfig, controllerFallback,
         parseBaseOS, setForceFallbackCounter, vars, zboot, nagent, cloud, test, history
  <2> QED
    BY <1>2, <2>1, <2>2, <2>3, <2>5, <2>6 DEF Next
<1>3. TypeOK /\ ContactInv /\ [Next]_vars => [Commits => reached]_vars
  BY OnlyTestCommits DEF ContactInv
<1> QED
  BY <1>1, <1>2, <1>3, TypeCorrect, PTL DEF Spec, CommitAfterContact

-----------------------------------------------------------------------------
(* A version that failed.  From the fallback on, until the controller sends another version
   or another retry counter, everything baseosmgr knows and does is about one version: what
   it was told of others went with the restart.  As long as it has not saved another retry
   counter, a failed image that is still asked for stays where it is, with its mark, and
   validatePartition refuses it; and an image installed for another version is never marked
   to be tried if it turns out to be the failed one. *)

\* A device that is down has nothing in memory
Down ==
  ~up => Volatile(bosmUp, bosConfig, status, ct, jobs, sent, kept, mixed, pc, zconfigSeen)

\* Configurations, jobs and results belong to the version that is asked for, and what was
\* written without an error is in the other partition
OneVersion ==
  /\ \A u \in Versions : bosConfig[u] # NoConfig => u = config.ver
  /\ \A w \in Workers : jobs[w].at # "none" => jobs[w].ver = config.ver
  /\ \A r \in sent \cup kept : r.ver = config.ver /\ (r.ok => img[other] = ImageOf[r.ver])
  /\ mixed = {}

\* The counter saved is the one of the time of the failure, or the one asked for
OneCounter ==
  /\ configUpdateRetry \in {failed.saved, config.retry}
  /\ pc.at \in {"config", "counter"} => pc.n \in {config.retry, configUpdateRetry}

HandledKnown == pc.at \in {"config", "retryInstall"} => \A u \in pc.vs : bosConfig[u] # NoConfig

\* The failed version is the one asked for: it stays in the other partition, with its mark
LeftAlone ==
  /\ part[cur] = "active" /\ part[other] = "inprogress" /\ img[other] = failed.ver
  /\ \A w \in Workers : jobs[w].at = "none"
  /\ sent = {} /\ kept = {}
  /\ bosmUp # "down" => zstatus[other].ver = failed.ver

\* No failed image is marked to be tried
NotMarked == \A p \in Parts : part[p] = "updating" => img[p] # failed.ver

Refused ==
  /\ pc.at # "retryFailed"
  /\ NotMarked
  /\ config.ver = failed.ver => LeftAlone
  /\ config.ver \in Versions /\ config.ver # failed.ver /\ ImageOf[config.ver] = failed.ver =>
       \A p \in Parts : part[p] # "updating"

FailedInv ==
  failed.ver \in Versions =>
    /\ OneVersion /\ OneCounter /\ HandledKnown
    /\ configUpdateRetry = failed.saved => Refused

\* The two partitions, and the types that the steps below rest on
LEMMA TwoParts ==
  ASSUME TypeOK
  PROVE  /\ cur \in Parts /\ other \in Parts /\ other # cur
         /\ \A p \in Parts : p = cur \/ p = other
         /\ part \in [Parts -> PartStates] /\ img \in [Parts -> Images]
         /\ zstatus \in [Parts -> ZbootStatuses] /\ jobs \in [Workers -> PoolJobs]
         /\ pc.vs \in SUBSET Versions
  BY DEF TypeOK, ZbootTypeOK, BaseOsMgrTypeOK, Pcs, other, OtherThan, Parts

\* A step that leaves the disk, the pool and the counters alone
LEMMA FailedKept ==
  ASSUME TypeOK, FailedInv, UNCHANGED <<failed, cur, part, img, jobs, mixed, configUpdateRetry>>,
         config'.ver = config.ver, config'.retry = config.retry,
         bosConfig' = bosConfig, sent' \cup kept' \subseteq sent \cup kept,
         \A p \in Parts : zstatus'[p].ver = zstatus[p].ver, bosmUp = "down" => bosmUp' = "down",
         \/ pc' = pc
         \/ pc'.at \notin {"config", "retryInstall", "counter", "retryFailed"}
         \/ pc'.at = "retryInstall" /\ \A u \in pc'.vs : bosConfig[u] # NoConfig
  PROVE  FailedInv'
<1> SUFFICES ASSUME failed.ver \in Versions
             PROVE  /\ OneVersion' /\ OneCounter' /\ HandledKnown'
                    /\ configUpdateRetry = failed.saved => Refused'
  BY DEF FailedInv
<1>1. other' = other
  BY DEF other
<1>2. OneVersion'
  BY <1>1 DEF FailedInv, OneVersion
<1>3. OneCounter' /\ HandledKnown'
  BY DEF FailedInv, OneCounter, HandledKnown
<1>4. ASSUME configUpdateRetry = failed.saved PROVE Refused'
  <2>1. pc'.at # "retryFailed" /\ NotMarked'
    BY <1>4 DEF FailedInv, Refused, NotMarked
  <2>2. ASSUME config.ver = failed.ver PROVE LeftAlone'
    <3>1. LeftAlone /\ sent' = {} /\ kept' = {}
      BY <1>4, <2>2 DEF FailedInv, Refused, LeftAlone
    <3>2. QED
      BY <1>1, <3>1, TwoParts DEF LeftAlone
  <2>3. QED
    BY <1>4, <2>1, <2>2 DEF FailedInv, Refused
<1>5. QED
  BY <1>2, <1>3, <1>4

\* baseOsHandleStatusUpdate of the version asked for
LEMMA StatusUpdateRefuses ==
  ASSUME Inv, TypeOK, FailedInv, failed.ver \in Versions,
         NEW v \in Versions, v = config.ver, NEW s, NEW c, baseOsHandleStatusUpdate(v, s, c),
         booted, bosmUp = "running", pc.at \notin {"markOther", "ackTest", "publishAll"},
         UNCHANGED <<failed, up, cur, img, mixed, config, bosConfig, configUpdateRetry, bosmUp>>,
         pc'.at # "retryFailed"
  PROVE  OneVersion' /\ (configUpdateRetry = failed.saved => Refused')
<1>1. other' = other
  BY DEF other
<1>2. CASE UNCHANGED <<part, zstatus, worker>>
  <2>1. OneVersion'
    BY <1>1, <1>2 DEF FailedInv, OneVersion, worker
  <2>2. ASSUME configUpdateRetry = failed.saved PROVE Refused'
    <3>1. NotMarked' /\ (LeftAlone => LeftAlone')
      BY <1>1, <1>2, <2>2 DEF FailedInv, Refused, NotMarked, LeftAlone, worker
    <3>2. QED
      BY <1>2, <2>2, <3>1 DEF FailedInv, Refused
  <2>3. QED
    BY <2>1, <2>2
<1>3. CASE validatePartition(v) /\ doBaseOsActivate(v, s)
  <2>1. ASSUME configUpdateRetry = failed.saved PROVE Refused /\ config.ver # failed.ver
    <3>1. Refused
      BY <2>1 DEF FailedInv
    <3>2. ASSUME config.ver = failed.ver PROVE FALSE
      <4>1. part[other] = "inprogress" /\ zstatus[other].ver = v
        BY <3>1, <3>2 DEF Refused, LeftAlone
      <4>2. zstatus[other].state = "inprogress"
        BY <4>1, TwoParts DEF Inv, StatusIsCurrent
      <4>3. QED
        BY <1>3, <4>1, <4>2 DEF validatePartition, getPartitionState
    <3>3. QED
      BY <3>1, <3>2
  <2>2. CASE Pop(v) = {} /\ AddWorkInstall(v) /\ UNCHANGED <<part, zstatus, sent, kept>>
    <3>1. \A w \in Workers : jobs'[w].at # "none" => jobs'[w].ver = config.ver
      BY <2>2, TwoParts DEF AddWorkInstall, FailedInv, OneVersion
    <3>2. OneVersion'
      BY <1>1, <2>2, <3>1 DEF FailedInv, OneVersion
    <3>3. ASSUME configUpdateRetry = failed.saved PROVE Refused'
      BY <2>1, <2>2, <3>3 DEF Refused, NotMarked
    <3>4. QED
      BY <3>2, <3>3
  <2>3. CASE \E r \in Pop(v) : /\ kept' = kept \ {r} /\ UNCHANGED <<jobs, sent>>
                               /\ ~r.ok /\ UNCHANGED <<part, zstatus>>
    <3>1. OneVersion'
      BY <1>1, <2>3 DEF FailedInv, OneVersion
    <3>2. ASSUME configUpdateRetry = failed.saved PROVE Refused'
      BY <2>1, <2>3, <3>2 DEF Refused, NotMarked
    <3>3. QED
      BY <3>1, <3>2
  <2>4. CASE \E r \in Pop(v) :
               /\ kept' = kept \ {r} /\ UNCHANGED <<jobs, sent>>
               /\ r.ok
               /\ \E read \in GetShortVersion(other) :
                    LET ver == IF read = NoVer THEN zstatus[other].ver ELSE read IN
                    SetOtherPartitionState(IF ver = v THEN "updating" ELSE "unused", ver)
    <3>1. PICK r \in Pop(v) :
               /\ kept' = kept \ {r} /\ UNCHANGED <<jobs, sent>>
               /\ r.ok
               /\ \E read \in GetShortVersion(other) :
                    LET ver == IF read = NoVer THEN zstatus[other].ver ELSE read IN
                    SetOtherPartitionState(IF ver = v THEN "updating" ELSE "unused", ver)
      BY <2>4
    <3>2. PICK read \in GetShortVersion(other) :
                    LET ver == IF read = NoVer THEN zstatus[other].ver ELSE read IN
                    SetOtherPartitionState(IF ver = v THEN "updating" ELSE "unused", ver)
      BY <3>1
    <3>3. r \in kept /\ img[other] = ImageOf[v] /\ ImageOf[v] \in Versions
      BY <3>1 DEF Pop, FailedInv, OneVersion
    <3>4. read = ImageOf[v] /\ read # NoVer
      BY <3>2, <3>3 DEF GetShortVersion
    <3>5. part' = [part EXCEPT ![other] = IF ImageOf[v] = v THEN "updating" ELSE "unused"]
      BY <3>2, <3>4 DEF SetOtherPartitionState
    <3>6. OneVersion'
      BY <1>1, <3>1 DEF FailedInv, OneVersion
    <3>7. ASSUME configUpdateRetry = failed.saved PROVE Refused'
      <4>1. NotMarked'
        BY <2>1, <3>3, <3>5, <3>7, TwoParts DEF Refused, NotMarked
      <4>2. ASSUME ImageOf[v] = failed.ver PROVE \A p \in Parts : part'[p] # "updating"
        BY <2>1, <3>5, <3>7, <4>2, TwoParts DEF Refused
      <4>3. QED
        BY <2>1, <3>7, <4>1, <4>2 DEF Refused
    <3>8. QED
      BY <3>6, <3>7
  <2>5. QED
    BY <1>3, <2>2, <2>3, <2>4 DEF doBaseOsActivate
<1>4. QED
  BY <1>2, <1>3 DEF baseOsHandleStatusUpdate, runningVersion, notInstalled, tooEarly, tooLarge

\* The workers write the image of the version asked for
LEMMA WritingRefuses ==
  ASSUME TypeOK, FailedInv, beginWrite \/ endWrite, failed' = failed
  PROVE  FailedInv'
<1> SUFFICES ASSUME failed.ver \in Versions
             PROVE  /\ OneVersion' /\ OneCounter' /\ HandledKnown'
                    /\ configUpdateRetry' = failed.saved => Refused'
  BY DEF FailedInv
<1>1. /\ UNCHANGED <<up, cur, part, zstatus, bosmUp, config, bosConfig, kept, pc, configUpdateRetry>>
      /\ other' = other
  BY DEF beginWrite, endWrite, saved, other
<1>2. OneCounter' /\ HandledKnown'
  BY <1>1 DEF FailedInv, OneCounter, HandledKnown
<1>3. OneVersion /\ TypeOK
  BY DEF FailedInv
\* What a job does to the other partition, and to the pool
<1>4. /\ img' \in [Parts -> Images]
      /\ \A p \in Parts : p # other => img'[p] = img[p]
      /\ config.ver \in Versions /\ \E w \in Workers : jobs[w].at # "none"
      /\ img'[other] \in {img[other], Garbage, ImageOf[config.ver]}
      /\ OneVersion'
  <2>1. CASE beginWrite
    <3>1. PICK w \in Workers :
            /\ jobs[w].at = "queued"
            /\ jobs' = [jobs EXCEPT ![w].at = "writing"]
            /\ img' = [img EXCEPT ![other] = IF @ = ImageOf[jobs[w].ver] THEN @ ELSE Garbage]
            /\ mixed' = IF Others(w) = {} THEN mixed \ {w} ELSE mixed \cup Others(w) \cup {w}
      BY <2>1 DEF beginWrite
    <3>2. jobs[w] \in PoolJobs /\ jobs[w].at # "none" /\ jobs[w].ver = config.ver
      BY <1>3, <3>1, TwoParts DEF OneVersion
    <3>3. config.ver \in Versions
      BY <3>2 DEF PoolJobs, NoJob
    <3>4. Others(w) = {}
      BY <1>3, <3>2 DEF Others, OneVersion
    <3>5. mixed' = {}
      BY <1>3, <3>1, <3>4 DEF OneVersion
    <3>6. /\ img' \in [Parts -> Images] /\ \A p \in Parts : p # other => img'[p] = img[p]
          /\ img'[other] \in {img[other], Garbage}
          /\ img[other] = ImageOf[config.ver] => img'[other] = img[other]
      BY <3>1, <3>2, TwoParts DEF Images
    <3>7. \A u \in Workers : jobs'[u].at # "none" => jobs'[u].ver = config.ver
      <4>1. ASSUME NEW u \in Workers, jobs'[u].at # "none" PROVE jobs'[u].ver = config.ver
        <5>1. CASE u = w
          BY <3>1, <3>2, <5>1, TwoParts DEF PoolJobs, NoJob
        <5>2. CASE u # w
          BY <1>3, <3>1, <4>1, <5>2, TwoParts DEF OneVersion
        <5>3. QED
          BY <5>1, <5>2
      <4>2. QED
        BY <4>1
    <3>8. sent' = sent
      BY <2>1 DEF beginWrite
    <3>9. OneVersion'
      BY <1>1, <1>3, <3>5, <3>6, <3>7, <3>8 DEF OneVersion
    <3>10. QED
      BY <3>2, <3>3, <3>6, <3>9
  <2>2. CASE endWrite
    <3>1. PICK w \in Workers, ok \in BOOLEAN :
            /\ jobs[w].at \in {"queued", "writing"}
            /\ jobs' = [jobs EXCEPT ![w].at = "ended"]
            /\ sent' = sent \cup {[w |-> w, ver |-> jobs[w].ver, ok |-> ok]}
            /\ \/ ~ok /\ UNCHANGED img
               \/ /\ ok /\ jobs[w].at = "writing"
                  /\ \E i \in written(w) : img' = [img EXCEPT ![other] = i]
      BY <2>2 DEF endWrite
    <3>2. jobs[w] \in PoolJobs /\ jobs[w].at # "none" /\ jobs[w].ver = config.ver
      BY <1>3, <3>1, TwoParts DEF OneVersion
    <3>3. config.ver \in Versions /\ ImageOf[config.ver] \in Versions
      BY <3>2 DEF PoolJobs, NoJob
    <3>4. written(w) = {ImageOf[config.ver]} /\ mixed' = {}
      BY <1>3, <2>2, <3>2 DEF written, OneVersion, endWrite
    <3>5. /\ img' \in [Parts -> Images] /\ \A p \in Parts : p # other => img'[p] = img[p]
          /\ img'[other] \in {img[other], ImageOf[config.ver]}
          /\ ok => img'[other] = ImageOf[config.ver]
      BY <3>1, <3>3, <3>4, TwoParts DEF Images
    <3>6. \A u \in Workers : jobs'[u].at # "none" => jobs'[u].ver = config.ver
      <4>1. ASSUME NEW u \in Workers, jobs'[u].at # "none" PROVE jobs'[u].ver = config.ver
        <5>1. CASE u = w
          BY <3>1, <3>2, <5>1, TwoParts DEF PoolJobs, NoJob
        <5>2. CASE u # w
          BY <1>3, <3>1, <4>1, <5>2, TwoParts DEF OneVersion
        <5>3. QED
          BY <5>1, <5>2
      <4>2. QED
        BY <4>1
    <3>7. \A r \in sent' \cup kept' :
            r.ver = config.ver /\ (r.ok => img'[other] = ImageOf[r.ver])
      BY <1>1, <1>3, <3>1, <3>2, <3>5 DEF OneVersion
    <3>8. OneVersion'
      BY <1>1, <1>3, <3>4, <3>6, <3>7 DEF OneVersion
    <3>9. QED
      BY <3>2, <3>3, <3>5, <3>8
  <2>3. QED
    BY <2>1, <2>2
<1>5. ASSUME configUpdateRetry' = failed.saved PROVE Refused'
  <2>1. Refused
    BY <1>1, <1>5 DEF FailedInv
  <2>2. config.ver # failed.ver
    BY <1>4, <2>1 DEF Refused, LeftAlone
  <2>3. Garbage # failed.ver
    OBVIOUS
  <2>4. NotMarked'
    BY <1>1, <1>4, <2>1, <2>2, <2>3 DEF Refused, NotMarked
  <2>5. QED
    BY <1>1, <2>1, <2>2, <2>4 DEF Refused
<1>6. QED
  BY <1>2, <1>4, <1>5

\* A boot.  After a fallback the failed image is in the other partition, with its mark; and
\* GRUB boots it no more
LEMMA BootRefuses ==
  ASSUME Inv, TypeOK, Down, FailedInv, boot
  PROVE  FailedInv'
<1>1. /\ ~up /\ Volatile(bosmUp, bosConfig, status, ct, jobs, sent, kept, mixed, pc, zconfigSeen)
      /\ UNCHANGED <<img, zstatus, bosmUp, config, bosConfig, jobs, sent, kept, mixed, pc, configUpdateRetry>>
  BY DEF boot, grubBoot, Down, bosm, worker
<1>2. PICK p \in Parts :
        /\ gptprioNext(p) /\ cur' = p
        /\ part' = [part EXCEPT ![p] = IF @ = "updating" THEN "inprogress" ELSE @]
  BY DEF boot, grubBoot
<1>3. /\ bosmUp' = "down" /\ pc'.at = "idle" /\ sent' = {} /\ kept' = {} /\ mixed' = {}
      /\ \A w \in Workers : jobs'[w].at = "none"
      /\ \A u \in Versions : bosConfig'[u] = NoConfig
  BY <1>1 DEF Volatile, Idle, NoJob
<1>4. OneVersion' /\ HandledKnown'
  BY <1>3 DEF OneVersion, HandledKnown
<1>5. \A q \in Parts : part'[q] = "updating" => part[q] = "updating"
  BY <1>2, TwoParts
<1>6. CASE part[cur] = "inprogress" /\ cur' # cur /\ img[cur] \in Versions
  <2>1. failed' = [ver |-> img[cur], saved |-> configUpdateRetry, told |-> told]
    BY <1>6 DEF boot
  <2>2. p = other /\ part[other] = "active"
    BY <1>2, <1>6, TwoParts DEF Inv, FallbackSafe
  <2>3. part' = part /\ other' = cur
    BY <1>2, <2>2, TwoParts DEF other, OtherThan, Parts
  <2>4. LeftAlone'
    BY <1>1, <1>2, <1>3, <1>6, <2>1, <2>2, <2>3 DEF LeftAlone
  <2>5. NotMarked' /\ \A q \in Parts : part'[q] # "updating"
    BY <1>6, <2>2, <2>3, TwoParts DEF NotMarked
  <2>6. Refused'
    BY <1>3, <2>4, <2>5 DEF Refused
  <2>7. OneCounter'
    BY <1>1, <1>3, <2>1 DEF OneCounter
  <2>8. QED
    BY <1>4, <2>6, <2>7 DEF FailedInv
<1>7. CASE failed' = failed
  <2> SUFFICES ASSUME failed.ver \in Versions
               PROVE  OneCounter' /\ (configUpdateRetry = failed.saved => Refused')
    BY <1>1, <1>4, <1>7 DEF FailedInv
  <2>1. OneCounter'
    BY <1>1, <1>3, <1>7 DEF FailedInv, OneCounter
  <2>2. ASSUME configUpdateRetry = failed.saved PROVE Refused'
    <3>1. Refused
      BY <2>2 DEF FailedInv
    <3>2. NotMarked'
      BY <1>1, <1>5, <1>7, <3>1 DEF Refused, NotMarked
    <3>3. ASSUME config.ver = failed.ver PROVE LeftAlone'
      <4>1. LeftAlone
        BY <3>1, <3>3 DEF Refused
      <4>2. p = cur
        BY <1>2, <4>1, TwoParts DEF LeftAlone, gptprioNext, Bootable
      <4>3. cur' = cur /\ part' = part /\ other' = other
        BY <1>2, <4>1, <4>2, TwoParts DEF LeftAlone, other
      <4>4. QED
        BY <1>1, <1>3, <1>7, <4>1, <4>3 DEF LeftAlone
    <3>4. QED
      BY <1>1, <1>3, <1>5, <1>7, <3>1, <3>2, <3>3 DEF Refused
  <2>3. QED
    BY <2>1, <2>2
<1>8. QED
  BY <1>6, <1>7 DEF boot

\* Every step of baseosmgr
LEMMA BosmRefuses ==
  ASSUME Inv, TypeOK, FailedInv, bosmStep(BaseOsMgrNext)
  PROVE  FailedInv'
<1>a. CASE pc'.at = "saveFallback"
  BY <1>a DEF bosmStep, FailedInv, NoFailure
<1>b. SUFFICES ASSUME pc'.at # "saveFallback", failed' = failed PROVE FailedInv'
  BY <1>a DEF bosmStep
<1>c. SUFFICES ASSUME failed.ver \in Versions PROVE FailedInv'
  BY <1>b DEF FailedInv
<1>d. /\ OneVersion /\ OneCounter /\ HandledKnown
      /\ configUpdateRetry = failed.saved => Refused
  BY <1>c DEF FailedInv
<1>1. CASE bosmRun
  <2>1. UNCHANGED <<cur, part, img, config, bosConfig, jobs, sent, kept, mixed, pc, configUpdateRetry>>
    BY <1>1 DEF bosmRun, worker, saved
  <2>2. other' = other
    BY <2>1 DEF other
  <2>3. OneVersion' /\ OneCounter' /\ HandledKnown'
    BY <1>b, <1>d, <2>1, <2>2 DEF OneVersion, OneCounter, HandledKnown
  <2>4. ASSUME img[other] = failed.ver PROVE zstatus'[other].ver = failed.ver
    BY <1>1, <1>c, <2>4, TwoParts DEF bosmRun, GetShortVersion
  <2>5. ASSUME configUpdateRetry = failed.saved PROVE Refused'
    <3>1. NotMarked'
      BY <1>b, <1>d, <2>1, <2>5 DEF Refused, NotMarked
    <3>2. LeftAlone => LeftAlone'
      BY <1>b, <2>1, <2>2, <2>4 DEF LeftAlone
    <3>3. QED
      BY <1>b, <1>d, <2>1, <2>5, <3>1, <3>2 DEF Refused
  <2>6. QED
    BY <1>b, <2>1, <2>3, <2>5 DEF FailedInv
<1>2. CASE bosmEnterLoop
  BY <1>2, <1>b, FailedKept DEF bosmEnterLoop, zboot, worker, saved
<1>3. CASE handleBaseOsConfigCreateModify
  <2>1. UNCHANGED <<cur, part, img, zstatus, bosmUp, config, jobs, sent, kept, mixed, configUpdateRetry>>
    BY <1>3 DEF handleBaseOsConfigCreateModify, zboot, worker, saved
  <2>2. other' = other
    BY <2>1 DEF other
  <2>3. /\ config # NoConfig /\ \A u \in Versions \ {config.ver} : bosConfig[u] = NoConfig
        /\ bosConfig' = [bosConfig EXCEPT ![config.ver] = config]
        /\ pc' = [at |-> "config", vs |-> {config.ver}, n |-> config.retry]
    BY <1>3 DEF handleBaseOsConfigCreateModify
  <2>4. config.ver \in Versions /\ bosConfig \in [Versions -> Configs]
    BY <2>3 DEF TypeOK, BaseOsMgrTypeOK, Configs
  <2>5. OneVersion' /\ OneCounter' /\ HandledKnown'
    BY <1>b, <1>d, <2>1, <2>2, <2>3, <2>4 DEF OneVersion, OneCounter, HandledKnown
  <2>6. ASSUME configUpdateRetry = failed.saved PROVE Refused'
    <3>1. NotMarked' /\ (LeftAlone => LeftAlone')
      BY <1>b, <1>d, <2>1, <2>2, <2>6 DEF Refused, NotMarked, LeftAlone
    <3>2. QED
      BY <1>b, <1>d, <2>1, <2>3, <2>6, <3>1 DEF Refused
  <2>7. QED
    BY <1>b, <2>1, <2>5, <2>6 DEF FailedInv
<1>4. CASE handleBaseOsConfigDelete
  BY <1>4, <1>d DEF handleBaseOsConfigDelete, OneVersion
<1>5. CASE handleContentTreeStatusImpl
  <2>1. pc'.at \in {"idle", "update"}
    BY <1>5 DEF handleContentTreeStatusImpl, Idle
  <2>2. QED
    BY <1>5, <1>b, <2>1, FailedKept DEF handleContentTreeStatusImpl, zboot, worker, saved
<1>6. CASE processInstallWorkResult
  <2>1. pc'.at = "update" /\ sent' \cup kept' \subseteq sent \cup kept
    BY <1>6 DEF processInstallWorkResult, Idle
  <2>2. UNCHANGED <<cur, part, img, zstatus, bosmUp, config, bosConfig, jobs, mixed, configUpdateRetry>>
    BY <1>6 DEF processInstallWorkResult, zboot, saved
  <2>3. QED
    BY <1>b, <2>1, <2>2, FailedKept
<1>7. CASE handleForceFallback
  <2>1. UNCHANGED <<part, zstatus, pc>>
    BY <1>7, <1>b DEF handleForceFallback, Idle
  <2>2. QED
    BY <1>7, <1>b, <2>1, FailedKept DEF handleForceFallback, worker
<1>8. CASE handleZbootTestComplete
  <2>1. /\ UNCHANGED <<cur, img, bosmUp, config, bosConfig, jobs, sent, kept, mixed, configUpdateRetry>>
        /\ pc = Idle /\ other' = other
    BY <1>8 DEF handleZbootTestComplete, MainLoop, worker, saved, other
  <2>2. zstatus[cur].state = part[cur]
    BY <1>8, TwoParts DEF handleZbootTestComplete, MainLoop, Inv, StatusIsCurrent, Idle
  <2>3. CASE /\ part[cur] = "inprogress" /\ part' = [part EXCEPT ![cur] = "active"]
             /\ pc' = [Idle EXCEPT !.at = "markOther"]
    <3>1. OneVersion' /\ OneCounter' /\ HandledKnown'
      BY <1>b, <1>d, <2>1, <2>3 DEF OneVersion, OneCounter, HandledKnown, Idle
    <3>2. \A p \in Parts : part'[p] = "updating" => part[p] = "updating"
      BY <2>3, TwoParts
    <3>3. ASSUME configUpdateRetry = failed.saved PROVE Refused'
      <4>1. NotMarked'
        BY <1>b, <1>d, <2>1, <3>2, <3>3 DEF Refused, NotMarked
      <4>2. config.ver # failed.ver
        BY <1>d, <2>3, <3>3 DEF Refused, LeftAlone
      <4>3. QED
        BY <1>b, <1>d, <2>1, <2>3, <3>2, <3>3, <4>1, <4>2 DEF Refused, Idle
    <3>4. QED
      BY <1>b, <2>1, <3>1, <3>3 DEF FailedInv
  <2>4. CASE /\ \A p \in Parts : zstatus'[p].ver = zstatus[p].ver
             /\ UNCHANGED <<part, pc>>
    BY <1>b, <2>1, <2>4, FailedKept
  <2>5. ASSUME zstatus' = [zstatus EXCEPT ![cur].testComplete = FALSE]
        PROVE  \A p \in Parts : zstatus'[p].ver = zstatus[p].ver
    BY <2>5, TwoParts DEF ZbootStatuses
  <2>6. QED
    BY <1>8, <2>2, <2>3, <2>4, <2>5 DEF handleZbootTestComplete, getPartitionState
\* The steps that look at one version
<1>e. ASSUME booted, pc.at \in {"update", "config", "retryInstall"},
             UNCHANGED <<up, cur, img, mixed, config, bosConfig, configUpdateRetry, bosmUp>>,
             NEW v \in Versions, bosConfig[v] # NoConfig,
             NEW s, NEW c, baseOsHandleStatusUpdate(v, s, c),
             \/ pc'.at = "idle"
             \/ pc'.at = "counter" /\ pc'.n \in {config.retry, configUpdateRetry}
             \/ pc'.at = "retryInstall" /\ \A u \in pc'.vs : bosConfig[u] # NoConfig
      PROVE  FailedInv'
  <2>1. v = config.ver /\ bosmUp = "running"
    BY <1>d, <1>e DEF OneVersion, Inv, Running
  <2>2. OneVersion' /\ (configUpdateRetry = failed.saved => Refused')
    BY <1>b, <1>c, <1>e, <2>1, StatusUpdateRefuses
  <2>3. OneCounter' /\ HandledKnown'
    BY <1>b, <1>d, <1>e DEF OneCounter, HandledKnown
  <2>4. QED
    BY <1>b, <1>e, <2>2, <2>3 DEF FailedInv
<1>9. CASE stepUpdate
  <2>1. /\ UNCHANGED <<up, cur, img, mixed, config, bosConfig, configUpdateRetry, bosmUp>>
        /\ booted /\ pc.at = "update" /\ pc'.at = "idle"
    BY <1>9 DEF stepUpdate, saved, Idle
  <2>2. CASE UNCHANGED <<part, zstatus, status, worker>>
    BY <1>b, <2>1, <2>2, FailedKept DEF worker
  <2>3. CASE \E v \in pc.vs : /\ bosConfig[v] # NoConfig
                              /\ baseOsHandleStatusUpdate(v, status[v], bosConfig[v])
    BY <1>e, <2>1, <2>3, TwoParts
  <2>4. QED
    BY <1>9, <2>2, <2>3 DEF stepUpdate
<1>10. CASE stepConfig
  <2>1. /\ UNCHANGED <<up, cur, img, mixed, config, bosConfig, configUpdateRetry, bosmUp>>
        /\ booted /\ pc.at = "config" /\ pc'.at = "counter" /\ pc'.n = pc.n
    BY <1>10 DEF stepConfig, saved, Idle
  <2>2. PICK v \in pc.vs : baseOsHandleStatusUpdate(v, status[v], bosConfig[v])
    BY <1>10 DEF stepConfig
  <2>3. v \in Versions /\ bosConfig[v] # NoConfig /\ pc.n \in {config.retry, configUpdateRetry}
    BY <1>d, <2>1, TwoParts DEF HandledKnown, OneCounter
  <2>4. QED
    BY <1>e, <2>1, <2>2, <2>3
<1>11. CASE stepRetryInstall
  <2>1. /\ UNCHANGED <<up, cur, img, mixed, config, bosConfig, configUpdateRetry, bosmUp>>
        /\ booted /\ pc.at = "retryInstall" /\ \A v \in pc.vs : bosConfig[v] # NoConfig
    BY <1>11, <1>d DEF stepRetryInstall, saved, HandledKnown
  <2>2. CASE pc.vs = {}
    <3>1. /\ pc'.at = "counter" /\ pc'.n = configUpdateRetry
          /\ UNCHANGED <<part, zstatus, jobs, sent, kept>>
      BY <1>11, <2>2 DEF stepRetryInstall, Idle, worker
    <3>2. other' = other
      BY <2>1 DEF other
    <3>3. OneVersion' /\ OneCounter' /\ HandledKnown'
      BY <1>b, <1>d, <2>1, <3>1, <3>2 DEF OneVersion, OneCounter, HandledKnown
    <3>4. ASSUME configUpdateRetry = failed.saved PROVE Refused'
      <4>1. NotMarked' /\ (LeftAlone => LeftAlone')
        BY <1>b, <1>d, <2>1, <3>1, <3>2, <3>4 DEF Refused, NotMarked, LeftAlone
      <4>2. QED
        BY <1>b, <1>d, <2>1, <3>1, <3>4, <4>1 DEF Refused
    <3>5. QED
      BY <1>b, <2>1, <3>3, <3>4 DEF FailedInv
  <2>3. CASE pc.vs # {}
    <3>1. PICK v \in pc.vs :
            /\ baseOsHandleStatusUpdate(v, [status[v] EXCEPT !.tooEarly = FALSE], bosConfig[v])
            /\ pc' = [pc EXCEPT !.vs = @ \ {v}]
      BY <1>11, <2>3 DEF stepRetryInstall
    <3>2. pc'.at = "retryInstall" /\ pc'.vs \subseteq pc.vs
      BY <2>1, <3>1 DEF TypeOK, BaseOsMgrTypeOK, Pcs
    <3>3. QED
      BY <1>e, <2>1, <3>1, <3>2, TwoParts
  <2>4. QED
    BY <2>2, <2>3
<1>12. CASE handleUpdateRetryCounter
  <2>1. /\ UNCHANGED <<cur, part, img, zstatus, bosmUp, config, bosConfig, jobs, sent, kept, mixed>>
        /\ other' = other /\ pc.at = "counter"
    BY <1>12 DEF handleUpdateRetryCounter, zboot, worker, other
  <2>2. /\ configUpdateRetry' \in {configUpdateRetry, pc.n} /\ pc'.at \in {"idle", "retryFailed"}
        /\ pc'.at = "retryFailed" => configUpdateRetry' = pc.n /\ configUpdateRetry # pc.n
    BY <1>12 DEF handleUpdateRetryCounter, Idle
  <2>3. pc.n \in {config.retry, configUpdateRetry} /\ configUpdateRetry \in {failed.saved, config.retry}
    BY <1>d, <2>1 DEF OneCounter
  <2>4. OneVersion' /\ OneCounter' /\ HandledKnown'
    BY <1>b, <1>d, <2>1, <2>2, <2>3 DEF OneVersion, OneCounter, HandledKnown
  <2>5. ASSUME configUpdateRetry' = failed.saved PROVE Refused'
    <3>1. configUpdateRetry = failed.saved /\ pc'.at # "retryFailed"
      BY <2>2, <2>3, <2>5
    <3>2. NotMarked' /\ (LeftAlone => LeftAlone')
      BY <1>b, <1>d, <2>1, <3>1 DEF Refused, NotMarked, LeftAlone
    <3>3. QED
      BY <1>b, <1>d, <2>1, <3>1, <3>2 DEF Refused
  <2>6. QED
    BY <1>b, <2>4, <2>5 DEF FailedInv
<1>13. CASE stepRetryFailed
  <2>1. /\ UNCHANGED <<cur, img, bosmUp, config, bosConfig, jobs, sent, kept, mixed, configUpdateRetry>>
        /\ other' = other /\ pc.at = "retryFailed" /\ pc'.at = "idle"
    BY <1>13 DEF stepRetryFailed, worker, saved, other, Idle
  <2>2. configUpdateRetry # failed.saved
    BY <1>d, <2>1 DEF Refused
  <2>3. QED
    BY <1>b, <1>d, <2>1, <2>2 DEF FailedInv, OneVersion, OneCounter, HandledKnown
<1>14. CASE stepMarkOther
  <2>1. /\ UNCHANGED <<cur, img, bosmUp, config, bosConfig, jobs, sent, kept, mixed, configUpdateRetry>>
        /\ other' = other /\ pc.at = "markOther" /\ part[other] = "active"
    BY <1>14 DEF stepMarkOther, worker, saved, other, Inv, Handlers
  <2>2. part' = [part EXCEPT ![other] = "unused"] /\ pc'.at = "ackTest"
    BY <1>14, <2>1 DEF stepMarkOther, Idle
  <2>3. \A p \in Parts : part'[p] = "updating" => part[p] = "updating"
    BY <2>2, TwoParts
  <2>4. ASSUME configUpdateRetry = failed.saved PROVE Refused'
    <3>1. NotMarked'
      BY <1>b, <1>d, <2>1, <2>3, <2>4 DEF Refused, NotMarked
    <3>2. config.ver # failed.ver
      BY <1>d, <2>1, <2>4 DEF Refused, LeftAlone
    <3>3. QED
      BY <1>b, <1>d, <2>1, <2>2, <2>3, <2>4, <3>1, <3>2 DEF Refused
  <2>5. QED
    BY <1>b, <1>d, <2>1, <2>2, <2>4 DEF FailedInv, OneVersion, OneCounter, HandledKnown
<1>15. CASE stepAckTest
  <2>1. pc'.at = "publishAll" /\ \A p \in Parts : zstatus'[p].ver = zstatus[p].ver
    BY <1>15, TwoParts DEF stepAckTest, Idle, ZbootStatuses
  <2>2. QED
    BY <1>15, <1>b, <2>1, FailedKept DEF stepAckTest, worker, saved
<1>16. CASE stepPublishAll
  <2>1. \A p \in Parts : zstatus'[p].ver = zstatus[p].ver
    <3>1. ASSUME NEW p \in Parts PROVE [zstatus[p] EXCEPT !.state = part[p]].ver = zstatus[p].ver
      BY TwoParts DEF ZbootStatuses
    <3>2. QED
      BY <1>16, <3>1 DEF stepPublishAll, ZbootStatusAll
  <2>2. pc'.at = "retryInstall" /\ \A u \in pc'.vs : bosConfig[u] # NoConfig
    BY <1>16 DEF stepPublishAll, Idle
  <2>3. QED
    BY <1>16, <1>b, <2>1, <2>2, FailedKept DEF stepPublishAll, worker, saved
<1>17. CASE stepSaveFallback
  <2>1. pc'.at = "idle"
    BY <1>17 DEF stepSaveFallback, Idle
  <2>2. QED
    BY <1>17, <1>b, <2>1, FailedKept DEF stepSaveFallback, zboot, worker
<1>18. CASE beginWrite \/ endWrite
  BY <1>18, <1>b, WritingRefuses
<1>19. CASE deletePending
  <2>1. /\ UNCHANGED <<cur, part, img, zstatus, bosmUp, config, bosConfig, sent, kept, mixed, pc,
                       configUpdateRetry>>
        /\ other' = other
    BY <1>19 DEF deletePending, zboot, saved, other
  <2>2. \A w \in Workers : jobs'[w].at # "none" => jobs'[w] = jobs[w]
    BY <1>19, TwoParts DEF deletePending, NoJob
  <2>3. OneVersion' /\ OneCounter' /\ HandledKnown'
    BY <1>b, <1>d, <2>1, <2>2 DEF OneVersion, OneCounter, HandledKnown
  <2>4. ASSUME configUpdateRetry = failed.saved PROVE Refused'
    <3>1. NotMarked' /\ (LeftAlone => LeftAlone')
      BY <1>b, <1>d, <2>1, <2>2, <2>4 DEF Refused, NotMarked, LeftAlone
    <3>2. QED
      BY <1>b, <1>d, <2>1, <2>4, <3>1 DEF Refused
  <2>5. QED
    BY <1>b, <2>1, <2>3, <2>4 DEF FailedInv
<1>20. QED
  BY <1>1, <1>2, <1>3, <1>4, <1>5, <1>6, <1>7, <1>8, <1>9, <1>10, <1>11, <1>12, <1>13, <1>14,
     <1>15, <1>16, <1>17, <1>18, <1>19
  DEF bosmStep, BaseOsMgrNext, HandlerSteps

\* Every step of the system
LEMMA StepRefuses ==
  ASSUME Inv, TypeOK, Down, FailedInv, [Next]_vars
  PROVE  FailedInv'
<1>1. CASE bosmStep(BaseOsMgrNext)
  BY <1>1, BosmRefuses
<1>2. CASE boot
  BY <1>2, BootRefuses
<1>3. CASE crash \/ bootFailure \/ nodeOperation
  <2>1. /\ Volatile(bosmUp', bosConfig', status', ct', jobs', sent', kept', mixed', pc', zconfigSeen')
        /\ UNCHANGED <<cur, part, img, config, configUpdateRetry, failed>>
    BY <1>3 DEF crash, bootFailure, nodeOperation, goDown, zbootReset, BaseOsMgrReset, saved, history
  <2>2. /\ bosmUp' = "down" /\ pc'.at = "idle" /\ sent' = {} /\ kept' = {} /\ mixed' = {}
        /\ \A w \in Workers : jobs'[w].at = "none"
        /\ \A u \in Versions : bosConfig'[u] = NoConfig
        /\ other' = other
    BY <2>1 DEF Volatile, Idle, NoJob, other
  <2>3. OneVersion' /\ HandledKnown'
    BY <2>2 DEF OneVersion, HandledKnown
  <2>4. OneCounter => OneCounter'
    BY <2>1, <2>2 DEF OneCounter
  <2>5. Refused => Refused'
    <3>1. (NotMarked => NotMarked') /\ (LeftAlone => LeftAlone')
      BY <2>1, <2>2 DEF NotMarked, LeftAlone
    <3>2. QED
      BY <2>1, <2>2, <3>1 DEF Refused
  <2>6. QED
    BY <2>1, <2>3, <2>4, <2>5 DEF FailedInv
<1>4. CASE controllerConfig
  <2>1. PICK c \in ConfigInputs :
          /\ parseBaseOS(c)
          /\ failed' = IF c.ver # config.ver \/ c.retry # config.retry THEN NoFailure ELSE failed
    BY <1>4 DEF controllerConfig
  <2>2. CASE failed' = NoFailure
    BY <2>2 DEF FailedInv, NoFailure
  <2>3. CASE failed' = failed /\ config'.ver = config.ver /\ config'.retry = config.retry
    BY <2>1, <2>3, FailedKept DEF parseBaseOS, zboot, worker, saved
  <2>4. QED
    BY <2>1, <2>2, <2>3 DEF parseBaseOS
<1>5. CASE nagentStep(NodeAgentNext)
  <2>1. UNCHANGED <<failed, bosm>> /\ UNCHANGED <<up, cur, part, img, zstatus>>
    BY <1>5 DEF nagentStep, NodeAgentNext, nagentRun, handleZbootStatusImpl,
         updateZedagentCloudConnectStatus, handleDeviceCmd, handleVaultStatusImpl,
         handleDeviceTimers, RunsEvents, zboot
  <2>2. QED
    BY <2>1, FailedKept DEF bosm, worker
<1>6. CASE vaultStep \/ controllerFallback \/ UNCHANGED vars
  BY <1>6, FailedKept DEF vaultStep, publishVaultStatus, controllerFallback,
     setForceFallbackCounter, history, vars, zboot, bosm, worker, saved
<1>7. QED
  BY <1>1, <1>2, <1>3, <1>4, <1>5, <1>6 DEF Next

\* The device does not try again a version it fell back from, as long as the controller asks for
\* the same and forces no fallback, unless with a retry counter that was not saved before: for
\* any versions, whatever is inside their images, and power failures at any moment
THEOREM FailedIsRefused == Spec => RefusesFailed
<1>1. Init => Down /\ FailedInv
  BY DEF Init, BaseOsMgrInit, Down, FailedInv, NoFailure
<1>2. TypeOK /\ Down /\ [Next]_vars => Down'
  <2> SUFFICES ASSUME TypeOK, Down, [Next]_vars PROVE Down'
    OBVIOUS
  <2>1. CASE bosmStep(BaseOsMgrNext) \/ nagentStep(NodeAgentNext)
    <3>1. booted /\ up' = up
      BY <2>1 DEF bosmStep, BaseOsMgrNext, HandlerSteps, bosmRun, bosmEnterLoop,
           handleBaseOsConfigCreateModify, handleBaseOsConfigDelete,
           handleContentTreeStatusImpl, processInstallWorkResult, handleForceFallback,
           handleZbootTestComplete, stepUpdate, stepConfig, stepRetryInstall,
           handleUpdateRetryCounter, stepRetryFailed, stepMarkOther, stepAckTest,
           stepPublishAll, stepSaveFallback, beginWrite, endWrite, deletePending, zboot, MainLoop,
           nagentStep, NodeAgentNext, nagentRun, handleZbootStatusImpl,
           updateZedagentCloudConnectStatus, handleDeviceCmd, handleVaultStatusImpl,
           handleDeviceTimers, RunsEvents
    <3>2. QED
      BY <3>1 DEF booted, Down
  <2>2. CASE crash \/ bootFailure \/ nodeOperation
    BY <2>2 DEF crash, bootFailure, nodeOperation, goDown, BaseOsMgrReset, Down
  <2>3. CASE boot
    BY <2>3 DEF boot, grubBoot, Down
  <2>4. CASE vaultStep \/ controllerConfig \/ controllerFallback
    <3>1. up /\ up' = up
      BY <2>4 DEF vaultStep, publishVaultStatus, controllerConfig, parseBaseOS,
         controllerFallback, setForceFallbackCounter, booted, zboot
    <3>2. QED
      BY <3>1 DEF Down
  <2>5. CASE UNCHANGED vars
    BY <2>5 DEF vars, zboot, bosm, worker, Down, Volatile
  <2>6. QED
    BY <2>1, <2>2, <2>3, <2>4, <2>5 DEF Next
<1>3. Inv /\ TypeOK /\ Down /\ FailedInv /\ [Next]_vars => FailedInv'
  BY StepRefuses
<1>4. TypeOK /\ TypeOK' /\ FailedInv /\ [Next]_vars
        => [\A v \in Versions : Tries(v) /\ v = failed.ver => configUpdateRetry # failed.saved]_vars
  <2> SUFFICES ASSUME TypeOK', FailedInv, NEW v \in Versions, Tries(v), v = failed.ver,
                      configUpdateRetry = failed.saved
               PROVE  FALSE
    OBVIOUS
  <2>1. cur' \in Parts /\ NotMarked
    BY DEF TypeOK, ZbootTypeOK, FailedInv, Refused
  <2>2. QED
    BY <2>1 DEF Tries, NotMarked
<1>5. QED
  BY <1>1, <1>2, <1>3, <1>4, TypeCorrect, Implements, BosmInvariant, PTL DEF Spec, RefusesFailed
=============================================================================
