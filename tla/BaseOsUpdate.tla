---------------------------- MODULE BaseOsUpdate ----------------------------
(***************************************************************************)
(* Update of the base image of an EVE device: baseosmgr and nodeagent on   *)
(* top of the two boot partitions, with a device that may lose power at    *)
(* any moment and a controller that may change its mind.                   *)
(***************************************************************************)
EXTENDS BaseOsMgr, NodeAgent

CONSTANTS
  MaxCrashes,   \* bound: resets nobody asked for
  MaxConfigs    \* bound: changes of the BaseOsConfig

ASSUME BoundsAssumption ==
  MaxCrashes \in Nat /\ MaxConfigs \in Nat

VARIABLES
  crashes, configs,  \* used up of the bounds
  reached,           \* history: the controller was reached in this boot
  told,              \* history: the retry counter baseosmgr was told in the test of an image
  forced,            \* history: the ForceFallbackCounter of the last forced fallback
  failed             \* history: the version the device last fell back from, the retry
                     \* counter then saved and the one told before

history == <<crashes, configs, reached, told, forced, failed>>
vars == <<zboot, bosm, nagent, history>>

NoFailure == [ver |-> NoVer, saved |-> 0, told |-> 0]

TypeOK ==
  /\ ZbootTypeOK /\ BaseOsMgrTypeOK /\ NodeAgentTypeOK
  /\ crashes \in 0..MaxCrashes /\ configs \in 0..MaxConfigs
  /\ reached \in BOOLEAN /\ told \in RetryCounters /\ forced \in FallbackCounters
  /\ failed \in [ver : Versions \cup {NoVer}, saved : RetryCounters, told : RetryCounters]

Init ==
  /\ ZbootInit /\ BaseOsMgrInit /\ NodeAgentInit
  /\ crashes = 0 /\ configs = 0 /\ reached = FALSE /\ told = 0 /\ forced = 0
  /\ failed = NoFailure

-----------------------------------------------------------------------------
(* The device *)

\* The boot after one from which the partition in progress was not committed is a fallback
boot ==
  /\ grubBoot
  /\ reached' = FALSE
  /\ failed' = IF part[cur] = "inprogress" /\ cur' # cur /\ img[cur] \in Versions
               THEN [ver |-> img[cur], saved |-> configUpdateRetry, told |-> told]
               ELSE failed
  /\ UNCHANGED <<bosm, nagent, crashes, configs, told, forced>>

\* The device goes down.  Everything in memory is lost.
goDown == zbootReset /\ BaseOsMgrReset /\ NodeAgentReset

\* Power failure or watchdog
crash ==
  /\ goDown
  /\ crashes < MaxCrashes /\ crashes' = crashes + 1
  /\ UNCHANGED <<configs, reached, told, forced, failed>>

\* An image that is not complete does not come up: the watchdog resets the device
bootFailure ==
  goDown /\ img[cur] \notin Versions /\ UNCHANGED history

\* handleNodeOperation, after its delays
nodeOperation ==
  goDown /\ rebooting /\ UNCHANGED history

-----------------------------------------------------------------------------
(* The controller *)

controllerConfig ==
  /\ configs < MaxConfigs /\ configs' = configs + 1
  /\ \E c \in ConfigInputs :
       /\ parseBaseOS(c)
       /\ failed' = IF c.ver # config.ver \/ c.retry # config.retry THEN NoFailure ELSE failed
  /\ UNCHANGED <<nagent, crashes, reached, told, forced>>

controllerFallback ==
  setForceFallbackCounter /\ UNCHANGED <<nagent, history>>

\* A step of one of the agents, and what is remembered of it
bosmStep(A) ==
  /\ A
  /\ told' = IF pc.at = "counter" /\ part[cur] = "inprogress" THEN pc.n ELSE told
  /\ IF pc'.at = "saveFallback"
     THEN forced' = fallbackCounter /\ failed' = NoFailure
     ELSE UNCHANGED <<forced, failed>>
  /\ UNCHANGED <<nagent, crashes, configs, reached>>

nagentStep(A) ==
  /\ A
  /\ reached' = (reached \/ configGetStatus' \in {"Success", "TemporaryFail"})
  /\ UNCHANGED <<bosm, crashes, configs, told, forced, failed>>

vaultStep == publishVaultStatus /\ UNCHANGED <<bosm, nagent, history>>

Next ==
  \/ bosmStep(BaseOsMgrNext)
  \/ nagentStep(NodeAgentNext)
  \/ vaultStep
  \/ boot \/ crash \/ bootFailure \/ nodeOperation
  \/ controllerConfig \/ controllerFallback

Spec == Init /\ [][Next]_vars

\* Go's select serves every channel that stays ready, the clock ticks, GRUB and the
\* watchdog do their work, and a node operation that is scheduled is carried out.  Of
\* vaultmgr it is assumed that it reports on the vault once and ends a conversion, not
\* that it ever unlocks a locked vault.  Nothing is assumed of the controller.
Fairness ==
  /\ WF_vars(boot) /\ WF_vars(bootFailure) /\ WF_vars(nodeOperation)
  /\ WF_vars(bosmStep(bosmRun)) /\ WF_vars(bosmStep(bosmEnterLoop))
  /\ WF_vars(bosmStep(HandlerSteps)) /\ SF_vars(bosmStep(handleZbootTestComplete))
  /\ WF_vars(nagentStep(nagentRun)) /\ WF_vars(nagentStep(handleDeviceTimers))
  /\ SF_vars(nagentStep(handleZbootStatusImpl)) /\ SF_vars(nagentStep(handleVaultStatusImpl))
  /\ WF_vars(vault # "locked" /\ vaultStep)

\* baseosmgr publishes ZbootStatus, right after it is started, within the test time.
\* Otherwise initiateBaseOsControllerTestComplete finds none and the end of the test is lost.
StatusInTime ==
  nagentUp /\ zstatusSeen[cur].state = "absent" => sinceTest' < MintimeUpdateSuccess

-----------------------------------------------------------------------------
(* Properties *)

\* An image is committed only by nodeagent's test, run in this boot
Commits == part[cur] = "inprogress" /\ part'[cur] = "active"
\* An update is committed only in a boot that reached the controller
CommitAfterContact == [][Commits => reached]_vars
\* ... and with the vault unlocked, which an image that cannot measure the same may not be
\* able to do: the test time alone does not see to that
VaultReadyAtCommit == [][Commits => vault = "ready"]_vars

Tries(v) == ~up /\ up' /\ part[cur'] = "updating" /\ img[cur'] = v
\* The device does not try again a version it fell back from, until the controller asks for
\* another version, changes the retry counter or forces a fallback; unless the counter came
\* during the test of the image and was not saved: that one is good for one retry
RefusesFailed ==
  [][\A v \in Versions : Tries(v) /\ v = failed.ver => configUpdateRetry # failed.saved]_vars

\* ... and a counter that baseosmgr was told before the failure is not a request to retry
RetryOnlyWhenAsked ==
  [][\A v \in Versions : Tries(v) /\ v = failed.ver => config.retry # failed.told]_vars

\* An update that is asked for while the running image is under test, and put off, is not
\* forgotten: with no test going on, a version that is wanted, loaded and in neither partition
\* has a job or a result in the pool, unless a job for it has failed (the status then has the
\* label of the partition, and the error).
UpdateNotForgotten ==
  MainLoop /\ ~testing => \A v \in Versions \ (OtherHVType \cup TooLarge) :
    /\ bosConfig[v].activate /\ status[v].exists /\ ct[v] = "loaded"
    /\ v \notin {zstatus[p].ver : p \in Parts}
    => \/ \E w \in Workers : jobs[w].ver = v
       \/ \E r \in sent \cup kept : r.ver = v
       \/ status[v].label = other

\* A change of ForceFallbackCounter forces one fallback, not two
OneFallbackPerChange ==
  [][pc.at # "saveFallback" /\ pc'.at = "saveFallback" => fallbackCounter # forced]_vars

\* The test of an image comes to an end: the device runs a committed image again, the new
\* one or the old one, whatever becomes of the connection to the controller and of the
\* vault.  A controller that goes on failing "temporarily" is the one thing that may keep
\* the test going.
TestDecided ==
  <>[](configGetStatus # "TemporaryFail") =>
    (booted /\ part[cur] = "inprogress" ~> booted /\ part[cur] = "active")

\* validateAndAssignPartition: an update is put off only while the current image is tested
OtherActiveMeansTesting ==
  MainLoop /\ getPartitionState(other) = "active" => getPartitionState(cur) = "inprogress"
=============================================================================
