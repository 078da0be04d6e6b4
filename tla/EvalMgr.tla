------------------------------ MODULE EvalMgr ------------------------------
(***************************************************************************)
(* evalmgr: an evaluation platform comes with an image in each of its      *)
(* slots.  evalmgr runs every image for some time, notes in the GPT and in *)
(* a file which ones were stable, and makes the best one the one to boot.  *)
(* The device is not onboarded before that.                                *)
(*                                                                         *)
(* Every write to the GPT and to the file is a step of its own, `pc' says  *)
(* which one is next; the device may go down between two.  An image that   *)
(* is broken goes down at some time before its test is over.               *)
(*                                                                         *)
(* Left out: hardware inventories, which the choice does not look at yet,  *)
(* the override file of onboarding, notes, time stamps and countdowns.     *)
(***************************************************************************)
EXTENDS Integers, FiniteSets, FiniteSetsExt

CONSTANTS
  NumSlots,   \* slots IMGA, IMGB, IMGC are 1, 2, 3
  MaxCrashes, \* bound: power failures
  MaxErrors   \* bound: writes that fail

ASSUME EvalAssumption == NumSlots \in Nat \ {0} /\ MaxCrashes \in Nat /\ MaxErrors \in Nat

Slots == 1..NumSlots
NoSlot == 0

VARIABLES
  up, cur,       \* the device is past GRUB, with the image of slot cur
  broken,        \* slots whose image does not stay up
  gpt,           \* state of each slot in the GPT
  file,          \* EvalPersist: tried and successful slots, and the phase
  reason,        \* the slot the last reboot was meant for, in the reboot reason
  pc,            \* the next step of evalmgr
  mem,           \* the EvalPersist evalmgr works on
  failed,        \* failed partitions still to be marked
  timer,         \* the stability timer runs
  status,        \* EvalStatus as published
  onboarded,     \* client has passed the gate
  crashes, errors,
  passed         \* history: slots whose stability period was over

vars == <<up, cur, broken, gpt, file, reason, pc, mem, failed, timer, status, onboarded,
          crashes, errors, passed>>

GptStates == {"scheduled", "inprogress", "good", "best", "bad"}
EvalPersist == [tried : SUBSET Slots, success : SUBSET Slots, final : BOOLEAN]
EvalStatus == [known : BOOLEAN, eval : BOOLEAN, allow : BOOLEAN]
NoStatus == [known |-> FALSE, eval |-> FALSE, allow |-> FALSE]
Pcs == {"start", "markBad", "saveBad", "init", "scheduler", "schedule", "loop", "saveGood",
        "next", "setBest", "saveFinal", "reboot"}

\* The GPT, the EvalPersist file and what evalmgr keeps in memory have their types, and a
\* reboot reason always names a slot
EvalTypeOK ==
  /\ up \in BOOLEAN /\ cur \in Slots /\ broken \subseteq Slots
  /\ gpt \in [Slots -> GptStates] /\ file \in EvalPersist /\ mem \in EvalPersist
  /\ reason \in Slots \cup {NoSlot} /\ failed \subseteq Slots
  /\ pc \in Pcs /\ timer \in BOOLEAN /\ status \in EvalStatus /\ onboarded \in BOOLEAN
  /\ crashes \in 0..MaxCrashes /\ errors \in 0..MaxErrors /\ passed \subseteq Slots

createDefaultEvalState == [tried |-> {}, success |-> {}, final |-> FALSE]

Init ==
  /\ up = FALSE /\ cur = 1 /\ broken \in (SUBSET Slots) \ {Slots}
  /\ gpt = [s \in Slots |-> "scheduled"]
  /\ file = createDefaultEvalState /\ mem = createDefaultEvalState
  /\ reason = NoSlot /\ failed = {} /\ pc = "start" /\ timer = FALSE
  /\ status = NoStatus /\ onboarded = FALSE
  /\ crashes = 0 /\ errors = 0 /\ passed = {}

-----------------------------------------------------------------------------
(* The device *)

Priority(s) == CASE gpt[s] = "good" -> 2 [] gpt[s] = "bad" -> 0 [] OTHER -> 3
Bootable(s) == gpt[s] \in {"scheduled", "good", "best"}

\* GRUB: the first of the bootable slots with the highest priority; a try is taken
grubBoot ==
  /\ ~up /\ up' = TRUE
  /\ \E s \in Slots :
       /\ Bootable(s)
       /\ \A t \in Slots : Bootable(t) =>
            Priority(s) > Priority(t) \/ (Priority(s) = Priority(t) /\ s <= t)
       /\ cur' = s
       /\ gpt' = [gpt EXCEPT ![s] = IF @ = "scheduled" THEN "inprogress" ELSE @]
  /\ UNCHANGED <<broken, file, reason, pc, mem, failed, timer, status, onboarded, crashes,
                 errors, passed>>

\* Memory and topics are lost
goDown ==
  /\ up /\ up' = FALSE
  /\ pc' = "start" /\ mem' = createDefaultEvalState /\ failed' = {} /\ timer' = FALSE
  /\ status' = NoStatus
  /\ UNCHANGED <<cur, broken, gpt, file, onboarded, errors, passed>>

powerFailure ==
  /\ goDown
  /\ crashes < MaxCrashes /\ crashes' = crashes + 1
  /\ UNCHANGED reason

\* An image that is broken does not live to the end of its test
imageFails ==
  /\ goDown
  /\ cur \in broken /\ UNCHANGED <<reason, crashes>>

\* The countdown is over: executeReboot notes the reason and resets the device
executeReboot ==
  /\ pc = "reboot"
  /\ goDown
  /\ reason' = IF mem.final THEN NoSlot ELSE Min(Slots \ mem.tried)
  /\ UNCHANGED crashes

\* nodeagent reads the reboot reason when it starts, and removes it
handleLastRebootReason ==
  /\ up /\ reason # NoSlot /\ reason' = NoSlot
  /\ UNCHANGED <<up, cur, broken, gpt, file, pc, mem, failed, timer, status, onboarded,
                 crashes, errors, passed>>

\* client waits for an EvalStatus that allows onboarding (IsOnboardingAllowed)
IsOnboardingAllowed == status.known /\ (~status.eval \/ status.allow)

ForEvalStatus ==
  /\ up /\ ~onboarded /\ IsOnboardingAllowed /\ onboarded' = TRUE
  /\ UNCHANGED <<up, cur, broken, gpt, file, reason, pc, mem, failed, timer, status, crashes,
                 errors, passed>>

-----------------------------------------------------------------------------
(* evalmgr *)

\* A write that may fail: `done' is what follows the write, `err' what follows an error
Write(done, err) ==
  \/ done /\ UNCHANGED errors
  \/ err /\ errors < MaxErrors /\ errors' = errors + 1

publishEvalStatus(eval, allow) == status' = [known |-> TRUE, eval |-> eval, allow |-> allow]

At(p) == up /\ pc = p
Unchanged == UNCHANGED <<up, cur, broken, reason, onboarded, crashes>>

\* Mutant: a slot that passed counts as failed
FindFailedOrGood == {s \in Slots \ {cur} : gpt[s] \in {"inprogress", "good"}}

\* No try left, not successful, and another slot was booted
FindFailedPartitions == {s \in Slots \ {cur} : gpt[s] = "inprogress"}

reconcilePartitionStates ==
  /\ At("start")
  /\ failed' = FindFailedPartitions
  /\ pc' = IF FindFailedPartitions = {} THEN "init" ELSE "markBad"
  /\ mem' = file
  /\ UNCHANGED <<gpt, file, timer, status, errors, passed>> /\ Unchanged

stepMarkBad ==
  /\ At("markBad") /\ failed # {}
  /\ LET s == Min(failed) IN
     /\ failed' = failed \ {s}
     /\ Write(/\ gpt' = [gpt EXCEPT ![s] = "bad"]
              /\ mem' = [mem EXCEPT !.tried = @ \cup {s}, !.success = @ \ {s}],
              UNCHANGED <<gpt, mem>>)
     /\ pc' = IF failed = {s} THEN "saveBad" ELSE "markBad"
  /\ UNCHANGED <<file, timer, status, passed>> /\ Unchanged

\* The status published here is not filled in yet: it is not that of an evaluation platform
stepSaveBad ==
  /\ At("saveBad")
  /\ Write(file' = mem /\ publishEvalStatus(FALSE, FALSE), UNCHANGED <<file, status>>)
  /\ pc' = "init"
  /\ UNCHANGED <<gpt, mem, failed, timer, passed>> /\ Unchanged

\* The rest of initializeEvaluation, and the first EvalStatus: not allowed in any phase,
\* since the phase is not known and the scheduler not started when that is decided
initializeEvaluation ==
  /\ At("init")
  /\ publishEvalStatus(TRUE, FALSE)
  /\ pc' = "scheduler"
  /\ UNCHANGED <<gpt, file, mem, failed, timer, errors, passed>> /\ Unchanged

\* Mutant: no reboot reason counts as one
analyzePreviousBootAlways ==
  /\ At("scheduler")
  /\ file' = [file EXCEPT !.tried = @ \cup ({reason} \ {cur})] /\ reason' = NoSlot
  /\ pc' = "schedule"
  /\ UNCHANGED <<up, cur, broken, gpt, mem, failed, timer, status, onboarded, crashes, errors,
                 passed>>

\* analyzePreviousBoot: a reboot that was meant for another slot than this one
analyzePreviousBoot ==
  /\ At("scheduler")
  /\ IF reason \notin {NoSlot, cur}
     THEN Write(file' = [file EXCEPT !.tried = @ \cup {reason}, !.success = @ \ {reason}],
                UNCHANGED file)
     ELSE UNCHANGED <<file, errors>>
  /\ reason' = NoSlot
  /\ pc' = "schedule"
  /\ UNCHANGED <<up, cur, broken, gpt, mem, failed, timer, status, onboarded, crashes, passed>>

\* Mutant: only a final state ends the evaluation
isFinal(state) == state.final

\* updateSchedulingState
allTried(state) == state.final \/ state.tried = Slots

\* The rest of initializeScheduler: everything was tried; or startStabilityTimer, with the
\* slot noted as tried first; or this slot was tried already, and nothing is done
initializeScheduler ==
  /\ At("schedule")
  /\ mem' = file
  /\ IF allTried(file)
     THEN pc' = "setBest" /\ UNCHANGED <<file, timer, errors>>
     ELSE /\ timer' = (cur \notin file.tried)
          /\ pc' = "loop"
          /\ IF cur \notin file.tried
             THEN Write(file' = [file EXCEPT !.tried = @ \cup {cur}, !.success = @ \ {cur}],
                        UNCHANGED file)
             ELSE UNCHANGED <<file, errors>>
  /\ UNCHANGED <<gpt, failed, status, passed>> /\ Unchanged

\* Mutant: the slot is noted in the file and not in the GPT
noteStability ==
  /\ At("loop") /\ timer /\ cur \notin broken
  /\ timer' = FALSE /\ passed' = passed \cup {cur} /\ pc' = "saveGood"
  /\ mem' = [file EXCEPT !.tried = @ \cup {cur}, !.success = @ \cup {cur}]
  /\ UNCHANGED <<gpt, errors, file, failed, status>> /\ Unchanged

\* handleStabilityTimeout, up to the write of MarkGood.  If it fails nothing is tried again.
handleStabilityTimeout ==
  /\ At("loop") /\ timer /\ cur \notin broken
  /\ timer' = FALSE
  /\ mem' = [file EXCEPT !.tried = @ \cup {cur}, !.success = @ \cup {cur}]
  /\ Write(gpt' = [gpt EXCEPT ![cur] = "good"] /\ passed' = passed \cup {cur} /\ pc' = "saveGood",
           UNCHANGED <<gpt, passed, pc>>)
  /\ UNCHANGED <<file, failed, status>> /\ Unchanged

stepSaveGood ==
  /\ At("saveGood")
  /\ Write(file' = mem /\ pc' = "next", UNCHANGED file /\ pc' = "loop")
  /\ UNCHANGED <<gpt, mem, failed, timer, status, passed>> /\ Unchanged

\* findNextUntriedSlot and the reboot into it, or the end
scheduleNextSlotIfNeeded ==
  /\ At("next")
  /\ IF mem.tried = Slots
     THEN pc' = "setBest" /\ UNCHANGED <<file, errors, status>>
     ELSE /\ Write(file' = mem /\ pc' = "reboot", UNCHANGED file /\ pc' = "loop")
          /\ publishEvalStatus(TRUE, FALSE)
  /\ UNCHANGED <<gpt, mem, failed, timer, passed>> /\ Unchanged

\* Mutant: the last slot wins
selectLastSlot(state) == IF state.success = {} THEN cur ELSE Max(Slots)

\* Without inventories the first slot that passed wins; without one that passed, this slot
selectBestSlot(state) == IF state.success = {} THEN cur ELSE Min(state.success)

\* finalizeEvaluation, up to SetBest.  (After an error in handleStabilityTimeout, unlike in
\* initializeScheduler, the status is published all the same; the scheduler is finalized.)
finalizeEvaluation ==
  /\ At("setBest")
  /\ mem' = [mem EXCEPT !.final = TRUE]
  /\ Write(/\ gpt' = [gpt EXCEPT ![selectBestSlot(mem)] = "best"]
           /\ pc' = "saveFinal" /\ UNCHANGED status,
           /\ pc' = "loop" /\ UNCHANGED gpt
           /\ \/ publishEvalStatus(TRUE, TRUE)
              \/ UNCHANGED status)
  /\ UNCHANGED <<file, failed, timer, passed>> /\ Unchanged

\* The final state is saved and published, a reboot to the best slot scheduled before that
stepSaveFinal ==
  /\ At("saveFinal")
  /\ Write(file' = mem, UNCHANGED file)
  /\ publishEvalStatus(TRUE, TRUE)
  /\ pc' = IF selectBestSlot(mem) = cur THEN "loop" ELSE "reboot"
  /\ UNCHANGED <<gpt, mem, failed, timer, passed>> /\ Unchanged

EvalSteps ==
  \/ reconcilePartitionStates \/ stepMarkBad \/ stepSaveBad
  \/ initializeEvaluation \/ analyzePreviousBoot \/ initializeScheduler
  \/ stepSaveGood \/ scheduleNextSlotIfNeeded \/ finalizeEvaluation \/ stepSaveFinal

Next ==
  \/ grubBoot \/ powerFailure \/ imageFails \/ executeReboot
  \/ handleLastRebootReason \/ ForEvalStatus
  \/ EvalSteps \/ handleStabilityTimeout

Spec == Init /\ [][Next]_vars

\* evalmgr goes on, its timers expire, GRUB boots, and a broken image goes down
FairSpec ==
  /\ Spec
  /\ WF_vars(grubBoot) /\ WF_vars(imageFails) /\ WF_vars(executeReboot)
  /\ WF_vars(EvalSteps) /\ WF_vars(handleStabilityTimeout)

-----------------------------------------------------------------------------
(* Properties *)

\* A slot that was stable stays bootable, whatever evalmgr notes later
PassedStaysBootable == \A s \in passed : gpt[s] \in {"good", "best"}

\* The evaluation does not use up the device: there is an image to boot as long as fewer
\* power failures have hit it than it has working images.  (Each slot has one try.)
NotBricked ==
  crashes < Cardinality(Slots \ broken) => \E s \in Slots : Bootable(s) \/ (up /\ s = cur)

\* The best slot is one, and one that was stable
BestPassed ==
  \A s \in Slots : gpt[s] = "best" =>
    s \in passed /\ \A t \in Slots : gpt[t] = "best" => t = s

\* A failed slot that counts as untried
RecordLost == \E s \in Slots : gpt[s] = "bad" /\ s \notin file.tried

\* Power failures have used up the tries of all images
NoImageLeft == ~up /\ ~\E s \in Slots : Bootable(s)

\* The evaluation ends: the device runs the best slot and may be onboarded.  Not so after a
\* write that failed, when power failures used up the tries of all images, or when a record is
\* lost for good: the device went down between the write to the GPT and the write to the file
\* (in an ordinary run the file follows), and no later boot makes up for it.
EvaluationEnds ==
  \/ <>[]RecordLost
  \/ <>(\/ errors > 0 \/ NoImageLeft
        \/ file.final /\ up /\ gpt[cur] = "best" /\ IsOnboardingAllowed)

\* docs/evalmgr.md: client "blocks onboarding until `AllowOnboard=true`" on evaluation
\* platforms, which "prevents premature controller connection during hardware testing"
OnboardingGate == onboarded => allTried(file) \/ allTried(mem)
=============================================================================
