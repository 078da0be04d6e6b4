----------------------------- MODULE NodeAgent -----------------------------
(***************************************************************************)
(* nodeagent: after an update it tests the new image and reports the end   *)
(* of the test to baseosmgr; it reboots the device into an image that has  *)
(* been installed, and when the controller or the vault is gone too long.  *)
(*                                                                         *)
(* Time is counted in ticks of timeTickInterval.  Of each time stamp only  *)
(* its distance to timeTickCount is kept, up to the limit it is compared   *)
(* with.  Left out: maintenance mode, the reboot reason (texts), the       *)
(* shutdown operation (it halts applications and leaves the device up) and *)
(* the drain of a kubernetes node before a reboot.                         *)
(***************************************************************************)
EXTENDS Zboot

CONSTANTS
  MintimeUpdateSuccess,     \* timer.test.baseimage.update
  FallbackIfCloudGoneTime,  \* timer.update.fallback.no.network
  ResetIfCloudGoneTime,     \* timer.reboot.no.network
  VaultReadyCutOffTime,     \* timer.vault.ready.cutoff
  ConfigGetInputs,          \* what zedagent may report
  CommandInputs             \* what zedagent may ask for

ConfigGetStatuses == {"Success", "Fail", "TemporaryFail", "ReadSaved"}
DeviceOperations  == {"reboot", "poweroff"}

ASSUME InputsAssumption ==
  /\ ConfigGetInputs \subseteq ConfigGetStatuses
  /\ CommandInputs \subseteq DeviceOperations
ASSUME TimersAssumption ==
  /\ MintimeUpdateSuccess \in Nat /\ FallbackIfCloudGoneTime \in Nat
  /\ ResetIfCloudGoneTime \in Nat /\ VaultReadyCutOffTime \in Nat

VARIABLES
  nagentUp,           \* Run has reached its event loop
  zstatusSeen,        \* the ZbootStatus last handled, by partition (without version)
  updateInprogress,   \* the current partition was in progress when Run started
  testInprogress,     \* the test time runs
  testComplete,       \* TestComplete was sent
  updateComplete,     \* TestComplete was acknowledged
  deviceOps,          \* operations scheduled: "reboot" or "poweroff"
  configGetStatus,    \* what zedagent says of its last config request
  configGetSuccess,   \* some request of this boot was successful
  sinceReachable,     \* ticks since lastControllerReachableTime
  sinceTest,          \* ticks since upgradeTestStartTime
  vaultSeen,          \* the VaultStatus last handled
  sinceVault          \* ticks since vaultTestStartTime

cloud  == <<configGetStatus, configGetSuccess, sinceReachable>>
test   == <<updateInprogress, testInprogress, testComplete, updateComplete, sinceTest>>
vaultTest == <<vaultSeen, sinceVault>>
nagent == <<nagentUp, zstatusSeen, test, deviceOps, cloud, vaultTest>>

\* The last value of each distance that makes a difference
ReachableLimit == IF FallbackIfCloudGoneTime > ResetIfCloudGoneTime
                  THEN FallbackIfCloudGoneTime + 1 ELSE ResetIfCloudGoneTime + 1
VaultLimit == VaultReadyCutOffTime + 1

NodeAgentTypeOK ==
  /\ nagentUp \in BOOLEAN
  /\ zstatusSeen \in [Parts -> ZbootStatuses]
  /\ updateInprogress \in BOOLEAN /\ testInprogress \in BOOLEAN
  /\ testComplete \in BOOLEAN /\ updateComplete \in BOOLEAN
  /\ deviceOps \in SUBSET DeviceOperations
  /\ configGetStatus \in ConfigGetStatuses /\ configGetSuccess \in BOOLEAN
  /\ sinceReachable \in 0..ReachableLimit
  /\ sinceTest \in 0..MintimeUpdateSuccess
  /\ vaultSeen \in VaultStates
  /\ sinceVault \in 0..VaultLimit

\* newNodeagentContext
Fresh(nu, zs, ui, ti, tc, uc, ops, cg, cgs, sr, st, vs, sv) ==
  /\ nu = FALSE /\ zs = [p \in Parts |-> AbsentStatus]
  /\ ui = FALSE /\ ti = FALSE /\ tc = FALSE /\ uc = FALSE /\ ops = {}
  /\ cg = "Fail" /\ cgs = FALSE /\ sr = 0 /\ st = 0
  /\ vs = "none" /\ sv = 0

NodeAgentInit ==
  Fresh(nagentUp, zstatusSeen, updateInprogress, testInprogress, testComplete, updateComplete,
        deviceOps, configGetStatus, configGetSuccess, sinceReachable, sinceTest,
        vaultSeen, sinceVault)

NodeAgentReset ==
  Fresh(nagentUp', zstatusSeen', updateInprogress', testInprogress', testComplete',
        updateComplete', deviceOps', configGetStatus', configGetSuccess', sinceReachable',
        sinceTest', vaultSeen', sinceVault')

-----------------------------------------------------------------------------
(* Helpers *)

\* setTestStartTime
canStartTest == updateInprogress /\ ~testInprogress /\ ~testComplete /\ ~updateComplete

setTestStartTime ==
  /\ testInprogress' = (testInprogress \/ canStartTest)
  /\ sinceTest' = IF canStartTest THEN 0 ELSE sinceTest

\* resetTestStartTime and then setTestStartTime: the test time starts again
restartTest ==
  LET start == updateInprogress /\ ~testComplete /\ ~updateComplete IN
  /\ testInprogress' = start
  /\ sinceTest' = IF start THEN 0 ELSE sinceTest

\* scheduleNodeOperation; the delays of handleNodeOperation are in nodeOperation
scheduleNodeOperation(op) == deviceOps' = deviceOps \cup {op}

rebooting == deviceOps # {}

vaultmgrReported == vaultSeen # "none"

RunsEvents == booted /\ nagentUp

-----------------------------------------------------------------------------
(* Events *)

\* Run publishes ZbootConfig, asks zboot for the state of the current partition, waits for
\* onboarding and starts the test time if the partition is in progress
nagentRun ==
  /\ booted /\ ~nagentUp /\ nagentUp' = TRUE
  /\ zconfig' = FALSE
  /\ updateInprogress' = (part[cur] = "inprogress")
  /\ testInprogress' = (part[cur] = "inprogress")
  /\ UNCHANGED <<up, cur, part, img, zstatus, vault, zstatusSeen, testComplete, updateComplete,
                 sinceTest, deviceOps, cloud, vaultTest>>

\* handleZbootStatusImpl: the current partition was committed; the other one has been
\* installed and is to be booted; baseosmgr acknowledges TestComplete
handleZbootStatusImpl ==
  /\ RunsEvents
  /\ \E p \in Parts :
     LET s == [zstatus[p] EXCEPT !.ver = NoVer]
         committed == p = cur /\ updateInprogress /\ s.state = "active"
         acked == updateInprogress /\ ~committed /\ s.testComplete /\ ~updateComplete
     IN
     /\ s.state # "absent" /\ zstatusSeen[p] # s
     /\ zstatusSeen' = [zstatusSeen EXCEPT ![p] = s]
     /\ updateInprogress' = (updateInprogress /\ ~committed)
     /\ testComplete' = (testComplete /\ ~committed)
     /\ updateComplete' = (acked \/ (updateComplete /\ ~committed))
     /\ zconfig' = (zconfig /\ ~acked)
     /\ IF zstatusSeen'[other].state = "updating" /\ ~rebooting
        THEN scheduleNodeOperation("reboot") ELSE UNCHANGED deviceOps
  /\ UNCHANGED <<up, cur, part, img, zstatus, nagentUp, testInprogress, sinceTest, cloud,
                 vault, vaultTest>>

\* updateZedagentCloudConnectStatus
updateZedagentCloudConnectStatus ==
  /\ RunsEvents
  /\ \E s \in ConfigGetInputs \ {configGetStatus} :
     /\ configGetStatus' = s
     /\ sinceReachable' = IF s \in {"Success", "TemporaryFail"} THEN 0 ELSE sinceReachable
     /\ configGetSuccess' = (configGetSuccess \/ s = "Success")
     /\ sinceVault' = IF s = "Success" /\ ~configGetSuccess /\ vaultmgrReported
                      THEN 0 ELSE sinceVault
     /\ CASE s = "Success"       -> setTestStartTime
          [] s = "TemporaryFail" -> restartTest
          [] OTHER               -> UNCHANGED <<testInprogress, sinceTest>>
  /\ UNCHANGED <<zboot, nagentUp, zstatusSeen, updateInprogress, testComplete, updateComplete,
                 deviceOps, vaultSeen>>

\* handleDeviceCmd: zedagent asks for an operation
handleDeviceCmd ==
  /\ RunsEvents
  /\ \E op \in CommandInputs \ deviceOps : scheduleNodeOperation(op)
  /\ UNCHANGED <<zboot, nagentUp, zstatusSeen, test, cloud, vaultTest>>

\* handleVaultStatusImpl
handleVaultStatusImpl ==
  /\ RunsEvents
  /\ vaultSeen # vault /\ vaultSeen' = vault
  /\ sinceVault' = IF vaultmgrReported THEN sinceVault ELSE 0
  /\ UNCHANGED <<zboot, nagentUp, zstatusSeen, test, deviceOps, cloud>>

-----------------------------------------------------------------------------
(* handleDeviceTimers, one tick *)

min(a, b) == IF a < b THEN a ELSE b

\* updateTickerTime
reachable == configGetStatus \in {"Success", "TemporaryFail"}
tickReachable == IF reachable THEN 0 ELSE min(sinceReachable + 1, ReachableLimit)
tickTest == IF configGetStatus = "TemporaryFail" /\ updateInprogress /\ ~testComplete
                 /\ ~updateComplete
            THEN 0
            ELSE IF testInprogress THEN min(sinceTest + 1, MintimeUpdateSuccess) ELSE sinceTest
tickTestInprogress ==
  IF configGetStatus = "TemporaryFail"
  THEN updateInprogress /\ ~testComplete /\ ~updateComplete ELSE testInprogress
tickVault == IF vaultmgrReported THEN min(sinceVault + 1, VaultLimit) ELSE 0

\* Mutants: no fallback without the controller; no reboot with a locked vault
timeToRebootIgnoringCloud ==
  \/ /\ updateInprogress /\ vaultSeen = "locked" /\ configGetSuccess
     /\ tickVault > VaultReadyCutOffTime
  \/ tickReachable > ResetIfCloudGoneTime
timeToRebootIgnoringVault ==
  \/ updateInprogress /\ tickReachable > FallbackIfCloudGoneTime
  \/ tickReachable > ResetIfCloudGoneTime

\* handleFallbackOnCloudDisconnect, handleRebootOnVaultLocked, handleResetOnCloudDisconnect
timeToReboot ==
  \/ updateInprogress /\ tickReachable > FallbackIfCloudGoneTime
  \/ /\ updateInprogress /\ vaultSeen = "locked" /\ configGetSuccess
     /\ tickVault > VaultReadyCutOffTime
  \/ tickReachable > ResetIfCloudGoneTime

\* handleUpgradeTestValidation, after the above
testExpires ==
  /\ tickTestInprogress /\ ~rebooting /\ ~timeToReboot
  /\ tickTest >= MintimeUpdateSuccess

handleDeviceTimers ==
  /\ RunsEvents
  /\ sinceReachable' = tickReachable /\ sinceTest' = tickTest /\ sinceVault' = tickVault
  /\ IF timeToReboot THEN scheduleNodeOperation("reboot") ELSE UNCHANGED deviceOps
  /\ testInprogress' = (tickTestInprogress /\ ~testExpires)
  \* initiateBaseOsControllerTestComplete
  /\ IF testExpires /\ updateInprogress /\ zstatusSeen[cur].state # "absent" /\ ~zconfig
     THEN testComplete' = TRUE /\ zconfig' = TRUE
     ELSE UNCHANGED <<testComplete, zconfig>>
  /\ UNCHANGED <<up, cur, part, img, zstatus, vault, nagentUp, zstatusSeen,
                 updateInprogress, updateComplete, configGetStatus, configGetSuccess,
                 vaultSeen>>

NodeAgentNext ==
  \/ nagentRun
  \/ handleZbootStatusImpl
  \/ updateZedagentCloudConnectStatus
  \/ handleDeviceCmd
  \/ handleVaultStatusImpl
  \/ handleDeviceTimers
=============================================================================
