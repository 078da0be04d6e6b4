--------------------------- MODULE EvalMgr_proofs ---------------------------
(***************************************************************************)
(* Proofs about evalmgr, for any number of slots, power failures and       *)
(* failed writes: its types, that a slot that passed stays bootable, that  *)
(* the best slot is one and passed, and that the evaluation does not use   *)
(* up the device.                                                          *)
(***************************************************************************)
EXTENDS EvalMgr, FiniteSetTheorems, WellFoundedInduction, TLAPS

USE EvalAssumption

-----------------------------------------------------------------------------
(* The inductive invariant *)

\* Where evalmgr is before it has looked at the slot it runs on
Early == {"start", "markBad", "saveBad", "init", "scheduler", "schedule"}

NoneBest == \A s \in Slots : gpt[s] # "best"
NotScheduled(S) == \A s \in S : gpt[s] # "scheduled"

\* What a boot starts with, and how the timer and the failed slots go with pc
ControlInv ==
  /\ ~up => pc = "start" /\ failed = {}
  /\ timer => pc = "loop" /\ NoneBest
  /\ pc \in {"saveGood", "next"} => NoneBest
  /\ pc \in {"saveGood", "next", "setBest", "saveFinal", "reboot"} => cur \in passed

\* The GPT says "good" or "best" of exactly the slots that passed; the slot that runs was
\* tried, and the slots to be marked were tried and do not run
GptInv ==
  /\ \A s \in Slots : s \in passed <=> gpt[s] \in {"good", "best"}
  /\ up => gpt[cur] \in {"inprogress", "good", "best"}
  /\ \A s \in failed : s # cur /\ gpt[s] = "inprogress"

\* The file: what passed was tried, what was tried left the state it was scheduled in
FileInv ==
  /\ file.success \subseteq passed /\ file.success \subseteq file.tried
  /\ NotScheduled(file.tried)
  /\ file.final => file.tried = Slots
  /\ up /\ pc \in Early /\ cur \in file.tried => cur \in passed

\* How far the memory may be ahead of the file
MemInv ==
  /\ pc \in {"markBad", "saveBad"} =>
       /\ mem.success = file.success /\ file.tried \subseteq mem.tried
       /\ NotScheduled(mem.tried) /\ mem.final = file.final
       /\ cur \in mem.tried => cur \in file.tried
  /\ pc = "saveGood" =>
       /\ mem.success \subseteq passed /\ mem.success \subseteq mem.tried
       /\ NotScheduled(mem.tried) /\ (mem.final => mem.tried = Slots)
  /\ pc \in {"next", "setBest", "saveFinal", "reboot"} =>
       mem.success = file.success /\ mem.tried = file.tried
  /\ pc = "next" => mem.final = file.final
  /\ pc \in {"setBest", "saveFinal"} => mem.tried = Slots
  /\ pc = "saveFinal" => mem.final
  /\ pc = "reboot" /\ ~mem.final => mem.tried # Slots

\* A reboot is meant for the first slot that was not tried: GRUB takes it, unless it was
\* taken already
ReasonInv ==
  reason # NoSlot =>
    /\ pc \in Early \ {"schedule"} /\ reason \notin file.success
    /\ NotScheduled({s \in Slots : s < reason})
    /\ up => gpt[reason] # "scheduled"

\* A best slot is the one that selectBestSlot would select again
BestInv ==
  \A b \in Slots : gpt[b] = "best" =>
    /\ file.tried = Slots
    /\ file.success # {} => b = Min(file.success)
    /\ file.success = {} /\ up => b = cur
    /\ \A c \in Slots : gpt[c] = "best" => c = b

\* Each working image that cannot be booted any more was hit by a power failure
Lost == {s \in Slots \ broken : gpt[s] \in {"inprogress", "bad"} /\ ~(up /\ s = cur)}
LostInv == Cardinality(Lost) <= crashes

EvalInv ==
  /\ EvalTypeOK /\ ControlInv /\ GptInv /\ FileInv /\ MemInv /\ ReasonInv /\ BestInv
  /\ LostInv

-----------------------------------------------------------------------------
(* Lemmas *)

\* Min is the least slot of a set of slots
LEMMA MinOfSlots ==
  ASSUME NEW S \in SUBSET Slots, S # {}
  PROVE  Min(S) \in S /\ \A t \in S : Min(S) <= t
<1>1. S \subseteq Nat
  BY DEF Slots
<1>2. PICK x \in S : \A y \in S : ~(<<y, x>> \in OpToRel(<, Nat))
  BY <1>1, WFMin, NatLessThanWellFounded
<1>3. \A y \in S : ~(y < x)
  BY <1>1, <1>2, Zenon DEF OpToRel
<1>4. \A y \in S : x <= y
  BY <1>1, <1>3
<1> QED
  BY <1>4 DEF Min

\* The states that the GPT and evalmgr start in
LEMMA InitInv == Init => EvalInv
<1> SUFFICES ASSUME Init PROVE EvalInv
  OBVIOUS
<1>1. EvalTypeOK
  <2>1. 1 \in Slots /\ 0 \in 0..MaxCrashes /\ 0 \in 0..MaxErrors
    BY DEF Slots
  <2> QED
    BY <2>1 DEF Init, EvalTypeOK, GptStates, EvalPersist, EvalStatus, NoStatus, Pcs,
         createDefaultEvalState
<1>2. ControlInv /\ GptInv /\ FileInv /\ MemInv /\ ReasonInv /\ BestInv
  BY DEF Init, ControlInv, GptInv, FileInv, MemInv, ReasonInv, BestInv, Early, NotScheduled,
         createDefaultEvalState
<1>3. Lost = {}
  BY DEF Init, Lost
<1> QED
  BY <1>1, <1>2, <1>3, FS_EmptySet DEF EvalInv, LostInv, Init

\* What is lost is a finite set
LEMMA LostFinite == IsFiniteSet(Lost) /\ Cardinality(Lost) \in Nat
<1>1. IsFiniteSet(Slots)
  BY FS_Interval DEF Slots
<1> QED
  BY <1>1, FS_Subset, FS_CardinalityType DEF Lost

\* A slot noted as tried, with or without success, and the final phase keep the record's type
LEMMA EvalPersistType ==
  ASSUME NEW p \in EvalPersist, NEW s \in Slots
  PROVE  /\ [p EXCEPT !.tried = @ \cup {s}, !.success = @ \ {s}] \in EvalPersist
         /\ [p EXCEPT !.tried = @ \cup {s}, !.success = @ \cup {s}] \in EvalPersist
         /\ [p EXCEPT !.final = TRUE] \in EvalPersist
  BY DEF EvalPersist

USE DEF Unchanged, At, NotScheduled, Early, publishEvalStatus

\* Every step keeps the types
LEMMA TypeStep ==
  ASSUME EvalInv, [Next]_vars
  PROVE  EvalTypeOK'
<1> USE DEF EvalTypeOK, GptStates, Pcs
<1>0. EvalTypeOK
  BY DEF EvalInv
<1>c. crashes < MaxCrashes => crashes + 1 \in 0..MaxCrashes
  BY <1>0
<1>e. errors < MaxErrors => errors + 1 \in 0..MaxErrors
  BY <1>0
<1>p. createDefaultEvalState \in EvalPersist
  BY DEF EvalPersist, createDefaultEvalState
<1>s. /\ NoStatus \in EvalStatus
      /\ \A e \in BOOLEAN, a \in BOOLEAN :
           [known |-> TRUE, eval |-> e, allow |-> a] \in EvalStatus
  BY DEF NoStatus, EvalStatus
<1>1. CASE grubBoot
  BY <1>0, <1>1 DEF grubBoot
<1>2. CASE powerFailure
  BY <1>0, <1>c, <1>p, <1>s, <1>2 DEF powerFailure, goDown
<1>3. CASE imageFails
  BY <1>0, <1>p, <1>s, <1>3 DEF imageFails, goDown
<1>4. CASE executeReboot
  <2>1. ~mem.final => Min(Slots \ mem.tried) \in Slots
    BY <1>0, <1>4, MinOfSlots DEF EvalPersist, executeReboot, EvalInv, MemInv
  <2> QED
    BY <1>0, <1>p, <1>s, <1>4, <2>1 DEF executeReboot, goDown
<1>5. CASE handleLastRebootReason
  BY <1>0, <1>5 DEF handleLastRebootReason
<1>6. CASE ForEvalStatus
  BY <1>0, <1>6 DEF ForEvalStatus
<1>7. CASE reconcilePartitionStates
  BY <1>0, <1>7 DEF reconcilePartitionStates, FindFailedPartitions
<1>8. CASE stepMarkBad
  <2>1. Min(failed) \in Slots
    BY <1>0, <1>8, MinOfSlots DEF stepMarkBad
  <2>2. mem' \in EvalPersist
    <3>1. [mem EXCEPT !.tried = @ \cup {Min(failed)}, !.success = @ \ {Min(failed)}]
            \in EvalPersist
      BY <1>0, <2>1, EvalPersistType
    <3> QED
      BY <1>0, <1>8, <3>1 DEF stepMarkBad, Write
  <2>3. gpt' \in [Slots -> GptStates]
    BY <1>0, <1>8, <2>1 DEF stepMarkBad, Write
  <2>4. errors' \in 0..MaxErrors
    BY <1>0, <1>e, <1>8 DEF stepMarkBad, Write
  <2>5. failed' \subseteq Slots /\ pc' \in Pcs
    BY <1>0, <1>8 DEF stepMarkBad
  <2>6. UNCHANGED <<up, cur, broken, reason, onboarded, crashes, file, timer, status, passed>>
    BY <1>8 DEF stepMarkBad
  <2> QED
    BY <1>0, <2>2, <2>3, <2>4, <2>5, <2>6
<1>9. CASE stepSaveBad
  BY <1>0, <1>e, <1>s, EvalPersistType, <1>9 DEF stepSaveBad, Write
<1>10. CASE initializeEvaluation
  BY <1>0, <1>s, <1>10 DEF initializeEvaluation
<1>11. CASE analyzePreviousBoot
  BY <1>0, <1>e, <1>s, EvalPersistType, <1>11 DEF analyzePreviousBoot, Write
<1>12. CASE initializeScheduler
  BY <1>0, <1>e, <1>s, EvalPersistType, <1>12 DEF initializeScheduler, Write
<1>13. CASE stepSaveGood
  BY <1>0, <1>e, <1>s, EvalPersistType, <1>13 DEF stepSaveGood, Write
<1>14. CASE scheduleNextSlotIfNeeded
  BY <1>0, <1>e, <1>s, EvalPersistType, <1>14 DEF scheduleNextSlotIfNeeded, Write
<1>15. CASE finalizeEvaluation
  <2>1. selectBestSlot(mem) \in Slots
    BY <1>0, MinOfSlots DEF selectBestSlot, EvalPersist
  <2> QED
    BY <1>0, <1>e, <1>s, EvalPersistType, <1>15, <2>1 DEF finalizeEvaluation, Write
<1>16. CASE stepSaveFinal
  BY <1>0, <1>e, <1>s, EvalPersistType, <1>16 DEF stepSaveFinal, Write
<1>17. CASE handleStabilityTimeout
  BY <1>0, <1>e, <1>s, EvalPersistType, <1>17 DEF handleStabilityTimeout, Write
<1>18. CASE UNCHANGED vars
  BY <1>0, <1>18 DEF vars
<1> QED
  BY <1>1, <1>2, <1>3, <1>4, <1>5, <1>6, <1>7, <1>8, <1>9, <1>10, <1>11, <1>12, <1>13,
     <1>14, <1>15, <1>16, <1>17, <1>18 DEF Next, EvalSteps

\* Every step keeps the rest of the invariant but the count of what was lost
LEMMA InvStep ==
  ASSUME EvalInv, [Next]_vars
  PROVE  (ControlInv /\ GptInv /\ FileInv /\ MemInv /\ ReasonInv /\ BestInv)'
<1> USE DEF ControlInv, GptInv, FileInv, MemInv, ReasonInv, BestInv, NoneBest
<1>0. /\ EvalTypeOK /\ ControlInv /\ GptInv /\ FileInv /\ MemInv /\ ReasonInv /\ BestInv
      /\ EvalTypeOK'
  BY TypeStep DEF EvalInv
<1>1. CASE grubBoot
  <2>1. ControlInv'
    BY <1>0, <1>1 DEF grubBoot, Bootable, Priority, EvalTypeOK, EvalPersist
  <2>2. GptInv'
    BY <1>0, <1>1 DEF grubBoot, Bootable, Priority, EvalTypeOK, EvalPersist
  <2>3. FileInv'
    BY <1>0, <1>1 DEF grubBoot, Bootable, Priority, EvalTypeOK, EvalPersist
  <2>4. MemInv'
    BY <1>0, <1>1 DEF grubBoot, Bootable, Priority, EvalTypeOK, EvalPersist
  <2>5. ReasonInv'
    <3>1. SUFFICES ASSUME reason # NoSlot, gpt[reason] = "scheduled"
                   PROVE  cur' = reason
      BY <1>0, <1>1 DEF grubBoot, EvalTypeOK, NoSlot
    <3>2. reason \in Slots /\ Bootable(reason) /\ Priority(reason) = 3 /\ Slots \subseteq Nat
      BY <1>0, <3>1 DEF EvalTypeOK, Bootable, Priority, Slots
    <3>3. PICK s \in Slots : /\ Bootable(s) /\ cur' = s
                             /\ Priority(s) > 3 \/ (Priority(s) = 3 /\ s <= reason)
      BY <1>1, <3>2 DEF grubBoot
    <3>4. gpt[s] \in {"scheduled", "best"} /\ s <= reason
      <4>1. Priority(s) = 3 /\ s <= reason
        BY <3>3 DEF Priority
      <4>2. gpt[s] = "good" => Priority(s) = 2
        BY DEF Priority
      <4> QED
        BY <3>3, <4>1, <4>2 DEF Bootable
    <3>5. gpt[s] = "scheduled"
      BY <1>0, <3>1, <3>2, <3>4
    <3>6. ~(s < reason)
      BY <1>0, <3>1, <3>5
    <3>7. s \in Nat /\ reason \in Nat
      BY <3>2
    <3>8. s = reason
      BY <3>4, <3>6, <3>7
    <3> QED
      BY <3>3, <3>8
  <2>6. BestInv'
    BY <1>0, <1>1 DEF grubBoot, Bootable, Priority, EvalTypeOK, EvalPersist
  <2> QED
    BY <2>1, <2>2, <2>3, <2>4, <2>5, <2>6
<1>2. CASE powerFailure
  <2>1. ControlInv'
    BY <1>0, <1>2 DEF powerFailure, goDown, EvalTypeOK, EvalPersist
  <2>2. GptInv'
    BY <1>0, <1>2 DEF powerFailure, goDown, EvalTypeOK, EvalPersist
  <2>3. FileInv'
    BY <1>0, <1>2 DEF powerFailure, goDown, EvalTypeOK, EvalPersist
  <2>4. MemInv'
    BY <1>0, <1>2 DEF powerFailure, goDown, EvalTypeOK, EvalPersist
  <2>5. ReasonInv'
    BY <1>0, <1>2 DEF powerFailure, goDown, EvalTypeOK, EvalPersist
  <2>6. BestInv'
    BY <1>0, <1>2 DEF powerFailure, goDown, EvalTypeOK, EvalPersist
  <2> QED
    BY <2>1, <2>2, <2>3, <2>4, <2>5, <2>6
<1>3. CASE imageFails
  <2>1. ControlInv'
    BY <1>0, <1>3 DEF imageFails, goDown, EvalTypeOK, EvalPersist
  <2>2. GptInv'
    BY <1>0, <1>3 DEF imageFails, goDown, EvalTypeOK, EvalPersist
  <2>3. FileInv'
    BY <1>0, <1>3 DEF imageFails, goDown, EvalTypeOK, EvalPersist
  <2>4. MemInv'
    BY <1>0, <1>3 DEF imageFails, goDown, EvalTypeOK, EvalPersist
  <2>5. ReasonInv'
    BY <1>0, <1>3 DEF imageFails, goDown, EvalTypeOK, EvalPersist
  <2>6. BestInv'
    BY <1>0, <1>3 DEF imageFails, goDown, EvalTypeOK, EvalPersist
  <2> QED
    BY <2>1, <2>2, <2>3, <2>4, <2>5, <2>6
<1>4. CASE executeReboot
  <2>1. ControlInv'
    BY <1>0, <1>4 DEF executeReboot, goDown, EvalTypeOK, EvalPersist
  <2>2. GptInv'
    BY <1>0, <1>4 DEF executeReboot, goDown, EvalTypeOK, EvalPersist
  <2>3. FileInv'
    BY <1>0, <1>4 DEF executeReboot, goDown, EvalTypeOK, EvalPersist
  <2>4. MemInv'
    BY <1>0, <1>4 DEF executeReboot, goDown, EvalTypeOK, EvalPersist
  <2>5. ReasonInv'
    <3> DEFINE untried == Slots \ mem.tried
    <3>1. CASE mem.final
      BY <1>0, <1>4, <3>1 DEF executeReboot, goDown
    <3>2. CASE ~mem.final
      <4>1. untried # {} /\ untried \in SUBSET Slots
        BY <1>0, <1>4, <3>2 DEF executeReboot, EvalTypeOK, EvalPersist
      <4>2. reason' = Min(untried)
        BY <1>4, <3>2 DEF executeReboot
      <4>3. reason' \in untried /\ \A t \in untried : reason' <= t
        BY <4>1, <4>2, MinOfSlots
      <4>4. \A s \in Slots : s < reason' => s \in mem.tried
        BY <4>3 DEF Slots
      <4>5. mem.tried = file.tried
        BY <1>0, <1>4 DEF executeReboot
      <4> QED
        BY <1>0, <1>4, <4>3, <4>4, <4>5 DEF executeReboot, goDown
    <3> QED
      BY <3>1, <3>2
  <2>6. BestInv'
    BY <1>0, <1>4 DEF executeReboot, goDown, EvalTypeOK, EvalPersist
  <2> QED
    BY <2>1, <2>2, <2>3, <2>4, <2>5, <2>6
<1>5. CASE handleLastRebootReason
  <2>1. ControlInv'
    BY <1>0, <1>5 DEF handleLastRebootReason, EvalTypeOK, EvalPersist
  <2>2. GptInv'
    BY <1>0, <1>5 DEF handleLastRebootReason, EvalTypeOK, EvalPersist
  <2>3. FileInv'
    BY <1>0, <1>5 DEF handleLastRebootReason, EvalTypeOK, EvalPersist
  <2>4. MemInv'
    BY <1>0, <1>5 DEF handleLastRebootReason, EvalTypeOK, EvalPersist
  <2>5. ReasonInv'
    BY <1>0, <1>5 DEF handleLastRebootReason, EvalTypeOK, EvalPersist
  <2>6. BestInv'
    BY <1>0, <1>5 DEF handleLastRebootReason, EvalTypeOK, EvalPersist
  <2> QED
    BY <2>1, <2>2, <2>3, <2>4, <2>5, <2>6
<1>6. CASE ForEvalStatus
  <2>1. ControlInv'
    BY <1>0, <1>6 DEF ForEvalStatus, EvalTypeOK, EvalPersist
  <2>2. GptInv'
    BY <1>0, <1>6 DEF ForEvalStatus, EvalTypeOK, EvalPersist
  <2>3. FileInv'
    BY <1>0, <1>6 DEF ForEvalStatus, EvalTypeOK, EvalPersist
  <2>4. MemInv'
    BY <1>0, <1>6 DEF ForEvalStatus, EvalTypeOK, EvalPersist
  <2>5. ReasonInv'
    BY <1>0, <1>6 DEF ForEvalStatus, EvalTypeOK, EvalPersist
  <2>6. BestInv'
    BY <1>0, <1>6 DEF ForEvalStatus, EvalTypeOK, EvalPersist
  <2> QED
    BY <2>1, <2>2, <2>3, <2>4, <2>5, <2>6
<1>7. CASE reconcilePartitionStates
  <2>1. ControlInv'
    BY <1>0, <1>7 DEF reconcilePartitionStates, FindFailedPartitions, EvalTypeOK, EvalPersist
  <2>2. GptInv'
    BY <1>0, <1>7 DEF reconcilePartitionStates, FindFailedPartitions, EvalTypeOK, EvalPersist
  <2>3. FileInv'
    BY <1>0, <1>7 DEF reconcilePartitionStates, FindFailedPartitions, EvalTypeOK, EvalPersist
  <2>4. MemInv'
    BY <1>0, <1>7 DEF reconcilePartitionStates, FindFailedPartitions, EvalTypeOK, EvalPersist
  <2>5. ReasonInv'
    BY <1>0, <1>7 DEF reconcilePartitionStates, FindFailedPartitions, EvalTypeOK, EvalPersist
  <2>6. BestInv'
    BY <1>0, <1>7 DEF reconcilePartitionStates, FindFailedPartitions, EvalTypeOK, EvalPersist
  <2> QED
    BY <2>1, <2>2, <2>3, <2>4, <2>5, <2>6
<1>8. CASE stepMarkBad
  <2>0. Min(failed) \in failed /\ Min(failed) \in Slots
    BY <1>0, <1>8, MinOfSlots DEF stepMarkBad, EvalTypeOK
  <2>1. ControlInv'
    BY <1>0, <1>8, <2>0 DEF stepMarkBad, Write, EvalTypeOK, EvalPersist
  <2>2. GptInv'
    BY <1>0, <1>8, <2>0 DEF stepMarkBad, Write, EvalTypeOK, EvalPersist
  <2>3. FileInv'
    BY <1>0, <1>8, <2>0 DEF stepMarkBad, Write, EvalTypeOK, EvalPersist
  <2>4. MemInv'
    <3>1. /\ mem'.success = file.success /\ mem'.final = file.final
          /\ mem'.tried = mem.tried \/ mem'.tried = mem.tried \cup {Min(failed)}
      <4>1. mem.success \ {Min(failed)} = mem.success
        BY <1>0, <1>8, <2>0 DEF stepMarkBad
      <4>2. mem \in EvalPersist
        BY <1>0 DEF EvalTypeOK
      <4>3. CASE mem' = mem
        BY <1>0, <1>8, <4>3 DEF stepMarkBad
      <4>4. CASE mem' = [mem EXCEPT !.tried = @ \cup {Min(failed)},
                                    !.success = @ \ {Min(failed)}]
        BY <1>0, <1>8, <4>1, <4>2, <4>4 DEF stepMarkBad, EvalPersist
      <4> QED
        BY <1>8, <4>3, <4>4 DEF stepMarkBad, Write
    <3>2. pc' \in {"markBad", "saveBad"} /\ UNCHANGED <<file, cur>>
      BY <1>8 DEF stepMarkBad
    <3>3. \A s \in Slots : gpt[s] # "scheduled" => gpt'[s] # "scheduled"
      BY <1>0, <1>8, <2>0 DEF stepMarkBad, Write, EvalTypeOK
    <3>4. mem.tried \subseteq Slots /\ gpt[Min(failed)] # "scheduled" /\ Min(failed) # cur
      BY <1>0, <2>0 DEF EvalTypeOK, EvalPersist
    <3> QED
      BY <1>0, <1>8, <2>0, <3>1, <3>2, <3>3, <3>4 DEF stepMarkBad
  <2>5. ReasonInv'
    BY <1>0, <1>8, <2>0 DEF stepMarkBad, Write, EvalTypeOK, EvalPersist
  <2>6. BestInv'
    BY <1>0, <1>8, <2>0 DEF stepMarkBad, Write, EvalTypeOK, EvalPersist
  <2> QED
    BY <2>1, <2>2, <2>3, <2>4, <2>5, <2>6
<1>9. CASE stepSaveBad
  <2>1. ControlInv'
    BY <1>0, <1>9 DEF stepSaveBad, Write, EvalTypeOK, EvalPersist
  <2>2. GptInv'
    BY <1>0, <1>9 DEF stepSaveBad, Write, EvalTypeOK, EvalPersist
  <2>3. FileInv'
    BY <1>0, <1>9 DEF stepSaveBad, Write, EvalTypeOK, EvalPersist
  <2>4. MemInv'
    BY <1>0, <1>9 DEF stepSaveBad, Write, EvalTypeOK, EvalPersist
  <2>5. ReasonInv'
    BY <1>0, <1>9 DEF stepSaveBad, Write, EvalTypeOK, EvalPersist
  <2>6. BestInv'
    BY <1>0, <1>9 DEF stepSaveBad, Write, EvalTypeOK, EvalPersist
  <2> QED
    BY <2>1, <2>2, <2>3, <2>4, <2>5, <2>6
<1>10. CASE initializeEvaluation
  <2>1. ControlInv'
    BY <1>0, <1>10 DEF initializeEvaluation, EvalTypeOK, EvalPersist
  <2>2. GptInv'
    BY <1>0, <1>10 DEF initializeEvaluation, EvalTypeOK, EvalPersist
  <2>3. FileInv'
    BY <1>0, <1>10 DEF initializeEvaluation, EvalTypeOK, EvalPersist
  <2>4. MemInv'
    BY <1>0, <1>10 DEF initializeEvaluation, EvalTypeOK, EvalPersist
  <2>5. ReasonInv'
    BY <1>0, <1>10 DEF initializeEvaluation, EvalTypeOK, EvalPersist
  <2>6. BestInv'
    BY <1>0, <1>10 DEF initializeEvaluation, EvalTypeOK, EvalPersist
  <2> QED
    BY <2>1, <2>2, <2>3, <2>4, <2>5, <2>6
<1>11. CASE analyzePreviousBoot
  <2>0. /\ file'.success = file.success /\ file'.final = file.final
        /\ \/ file'.tried = file.tried
           \/ /\ file'.tried = file.tried \cup {reason}
              /\ reason \in Slots /\ reason # cur /\ reason # NoSlot
    <3>1. CASE file' = file
      BY <3>1
    <3>2. CASE /\ reason \notin {NoSlot, cur}
               /\ file' = [file EXCEPT !.tried = @ \cup {reason}, !.success = @ \ {reason}]
      <4>1. file.success \ {reason} = file.success /\ reason \in Slots
        BY <1>0, <3>2 DEF EvalTypeOK
      <4>2. file \in EvalPersist
        BY <1>0 DEF EvalTypeOK
      <4> QED
        BY <3>2, <4>1, <4>2 DEF EvalPersist
    <3> QED
      BY <1>11, <3>1, <3>2 DEF analyzePreviousBoot, Write
  <2>1. ControlInv'
    BY <1>0, <1>11 DEF analyzePreviousBoot, Write, EvalTypeOK, EvalPersist
  <2>2. GptInv'
    BY <1>0, <1>11 DEF analyzePreviousBoot, Write, EvalTypeOK, EvalPersist
  <2>3. FileInv'
    <3>1. UNCHANGED <<passed, cur, gpt, up>> /\ up /\ pc \in Early
      BY <1>11 DEF analyzePreviousBoot
    <3>2. FileInv /\ ReasonInv
      BY <1>0
    <3>3. file.tried \subseteq Slots /\ file'.tried \subseteq Slots
      BY <1>0, <2>0 DEF EvalTypeOK, EvalPersist
    <3>4. \A s \in file'.tried : s \in file.tried \/ (s = reason /\ reason # NoSlot)
      BY <2>0
    <3>5. NotScheduled(file.tried)'
      BY <3>1, <3>2, <3>4
    <3>6. cur' \in file'.tried => cur' \in passed'
      BY <2>0, <3>1, <3>2
    <3>7. file'.success \subseteq passed' /\ file'.success \subseteq file'.tried
      BY <2>0, <3>1, <3>2
    <3>8. file'.final => file'.tried = Slots
      BY <2>0, <3>2, <3>3
    <3> QED
      BY <3>5, <3>6, <3>7, <3>8
  <2>4. MemInv'
    BY <1>0, <1>11 DEF analyzePreviousBoot, Write, EvalTypeOK, EvalPersist
  <2>5. ReasonInv'
    BY <1>0, <1>11 DEF analyzePreviousBoot, Write, EvalTypeOK, EvalPersist
  <2>6. BestInv'
    BY <1>0, <1>11, <2>0 DEF analyzePreviousBoot, EvalTypeOK, EvalPersist
  <2> QED
    BY <2>1, <2>2, <2>3, <2>4, <2>5, <2>6
<1>12. CASE initializeScheduler
  <2>0. /\ file'.success = file.success /\ file'.final = file.final
        /\ file'.tried = file.tried \/ file'.tried = file.tried \cup {cur}
    <3>1. CASE file' = file
      BY <3>1
    <3>2. CASE /\ cur \notin file.tried
               /\ file' = [file EXCEPT !.tried = @ \cup {cur}, !.success = @ \ {cur}]
      <4>1. file.success \ {cur} = file.success
        BY <1>0, <3>2
      <4>2. file \in EvalPersist
        BY <1>0 DEF EvalTypeOK
      <4> QED
        BY <3>2, <4>1, <4>2 DEF EvalPersist
    <3> QED
      BY <1>12, <3>1, <3>2 DEF initializeScheduler, Write
  <2>1. ControlInv'
    BY <1>0, <1>12 DEF initializeScheduler, Write, allTried, EvalTypeOK, EvalPersist
  <2>2. GptInv'
    BY <1>0, <1>12 DEF initializeScheduler, Write, allTried, EvalTypeOK, EvalPersist
  <2>3. FileInv'
    BY <1>0, <1>12, <2>0 DEF initializeScheduler, EvalTypeOK, EvalPersist
  <2>4. MemInv'
    BY <1>0, <1>12 DEF initializeScheduler, Write, allTried, EvalTypeOK, EvalPersist
  <2>5. ReasonInv'
    BY <1>0, <1>12, <2>0 DEF initializeScheduler
  <2>6. BestInv'
    BY <1>0, <1>12 DEF initializeScheduler, Write, allTried, EvalTypeOK, EvalPersist
  <2> QED
    BY <2>1, <2>2, <2>3, <2>4, <2>5, <2>6
<1>13. CASE stepSaveGood
  <2>1. ControlInv'
    BY <1>0, <1>13 DEF stepSaveGood, Write, EvalTypeOK, EvalPersist
  <2>2. GptInv'
    BY <1>0, <1>13 DEF stepSaveGood, Write, EvalTypeOK, EvalPersist
  <2>3. FileInv'
    BY <1>0, <1>13 DEF stepSaveGood, Write, EvalTypeOK, EvalPersist
  <2>4. MemInv'
    BY <1>0, <1>13 DEF stepSaveGood, Write, EvalTypeOK, EvalPersist
  <2>5. ReasonInv'
    BY <1>0, <1>13 DEF stepSaveGood, Write, EvalTypeOK, EvalPersist
  <2>6. BestInv'
    BY <1>0, <1>13 DEF stepSaveGood, Write, EvalTypeOK, EvalPersist
  <2> QED
    BY <2>1, <2>2, <2>3, <2>4, <2>5, <2>6
<1>14. CASE scheduleNextSlotIfNeeded
  <2>1. ControlInv'
    BY <1>0, <1>14 DEF scheduleNextSlotIfNeeded, Write, EvalTypeOK, EvalPersist
  <2>2. GptInv'
    BY <1>0, <1>14 DEF scheduleNextSlotIfNeeded, Write, EvalTypeOK, EvalPersist
  <2>3. FileInv'
    BY <1>0, <1>14 DEF scheduleNextSlotIfNeeded, Write, EvalTypeOK, EvalPersist
  <2>4. MemInv'
    BY <1>0, <1>14 DEF scheduleNextSlotIfNeeded, Write, EvalTypeOK, EvalPersist
  <2>5. ReasonInv'
    BY <1>0, <1>14 DEF scheduleNextSlotIfNeeded, Write, EvalTypeOK, EvalPersist
  <2>6. BestInv'
    BY <1>0, <1>14 DEF scheduleNextSlotIfNeeded, Write, EvalTypeOK, EvalPersist
  <2> QED
    BY <2>1, <2>2, <2>3, <2>4, <2>5, <2>6
<1>15. CASE finalizeEvaluation
  <2>0. selectBestSlot(mem) \in passed
    BY <1>0, <1>15, MinOfSlots DEF finalizeEvaluation, selectBestSlot, EvalTypeOK, EvalPersist
  <2>1. ControlInv'
    BY <1>0, <1>15 DEF finalizeEvaluation, Write, selectBestSlot, EvalTypeOK, EvalPersist
  <2>2. GptInv'
    BY <1>0, <1>15, <2>0 DEF finalizeEvaluation, Write, EvalTypeOK
  <2>3. FileInv'
    BY <1>0, <1>15 DEF finalizeEvaluation, Write, selectBestSlot, EvalTypeOK, EvalPersist
  <2>4. MemInv'
    BY <1>0, <1>15 DEF finalizeEvaluation, Write, selectBestSlot, EvalTypeOK, EvalPersist
  <2>5. ReasonInv'
    BY <1>0, <1>15 DEF finalizeEvaluation, Write, selectBestSlot, EvalTypeOK, EvalPersist
  <2>6. BestInv'
    BY <1>0, <1>15 DEF finalizeEvaluation, Write, selectBestSlot, EvalTypeOK, EvalPersist
  <2> QED
    BY <2>1, <2>2, <2>3, <2>4, <2>5, <2>6
<1>16. CASE stepSaveFinal
  <2>1. ControlInv'
    BY <1>0, <1>16 DEF stepSaveFinal, Write, selectBestSlot, EvalTypeOK, EvalPersist
  <2>2. GptInv'
    BY <1>0, <1>16 DEF stepSaveFinal, Write, selectBestSlot, EvalTypeOK, EvalPersist
  <2>3. FileInv'
    BY <1>0, <1>16 DEF stepSaveFinal, Write, selectBestSlot, EvalTypeOK, EvalPersist
  <2>4. MemInv'
    BY <1>0, <1>16 DEF stepSaveFinal, Write, selectBestSlot, EvalTypeOK, EvalPersist
  <2>5. ReasonInv'
    BY <1>0, <1>16 DEF stepSaveFinal, Write, selectBestSlot, EvalTypeOK, EvalPersist
  <2>6. BestInv'
    BY <1>0, <1>16 DEF stepSaveFinal, Write, selectBestSlot, EvalTypeOK, EvalPersist
  <2> QED
    BY <2>1, <2>2, <2>3, <2>4, <2>5, <2>6
<1>17. CASE handleStabilityTimeout
  <2>1. ControlInv'
    BY <1>0, <1>17 DEF handleStabilityTimeout, Write, EvalTypeOK, EvalPersist
  <2>2. GptInv'
    BY <1>0, <1>17 DEF handleStabilityTimeout, Write, EvalTypeOK, EvalPersist
  <2>3. FileInv'
    BY <1>0, <1>17 DEF handleStabilityTimeout, Write, EvalTypeOK, EvalPersist
  <2>4. MemInv'
    BY <1>0, <1>17 DEF handleStabilityTimeout, Write, EvalTypeOK, EvalPersist
  <2>5. ReasonInv'
    BY <1>0, <1>17 DEF handleStabilityTimeout, Write, EvalTypeOK, EvalPersist
  <2>6. BestInv'
    BY <1>0, <1>17 DEF handleStabilityTimeout, Write, EvalTypeOK, EvalPersist
  <2> QED
    BY <2>1, <2>2, <2>3, <2>4, <2>5, <2>6
<1>18. CASE UNCHANGED vars
  <2>1. ControlInv'
    BY <1>0, <1>18 DEF vars, EvalTypeOK, EvalPersist
  <2>2. GptInv'
    BY <1>0, <1>18 DEF vars, EvalTypeOK, EvalPersist
  <2>3. FileInv'
    BY <1>0, <1>18 DEF vars, EvalTypeOK, EvalPersist
  <2>4. MemInv'
    BY <1>0, <1>18 DEF vars, EvalTypeOK, EvalPersist
  <2>5. ReasonInv'
    BY <1>0, <1>18 DEF vars, EvalTypeOK, EvalPersist
  <2>6. BestInv'
    BY <1>0, <1>18 DEF vars, EvalTypeOK, EvalPersist
  <2> QED
    BY <2>1, <2>2, <2>3, <2>4, <2>5, <2>6
<1> QED
  BY <1>1, <1>2, <1>3, <1>4, <1>5, <1>6, <1>7, <1>8, <1>9, <1>10, <1>11, <1>12, <1>13, <1>14, <1>15, <1>16, <1>17, <1>18
     DEF Next, EvalSteps

\* Only a power failure loses a working image, the one that runs: a broken image does not
\* count, and a reboot leaves a slot that passed
LEMMA LostStep ==
  ASSUME EvalInv, [Next]_vars
  PROVE  LostInv'
<1> USE DEF Lost, EvalTypeOK
<1>0. EvalTypeOK /\ EvalTypeOK' /\ ControlInv /\ GptInv /\ FileInv /\ MemInv
  BY TypeStep DEF EvalInv
<1>1. SUFFICES /\ crashes <= crashes'
               /\ Lost' \subseteq Lost \/ (crashes' = crashes + 1 /\ Lost' \subseteq Lost \cup {cur})
  <2> HIDE DEF Lost
  <2>1. crashes \in Nat /\ crashes' \in Nat /\ Cardinality(Lost) <= crashes
    BY <1>0 DEF EvalInv, LostInv
  <2>2. IsFiniteSet(Lost) /\ Cardinality(Lost) \in Nat
    BY LostFinite
  <2>3. CASE Lost' \subseteq Lost
    <3>1. Cardinality(Lost') <= Cardinality(Lost) /\ Cardinality(Lost') \in Nat
      BY <2>2, <2>3, FS_Subset, FS_CardinalityType
    <3> QED
      BY <1>1, <2>1, <2>2, <3>1 DEF LostInv
  <2>4. CASE crashes' = crashes + 1 /\ Lost' \subseteq Lost \cup {cur}
    <3>1. /\ IsFiniteSet(Lost \cup {cur})
          /\ Cardinality(Lost \cup {cur}) <= Cardinality(Lost) + 1
      BY <2>2, FS_AddElement
    <3>2. /\ Cardinality(Lost') <= Cardinality(Lost \cup {cur})
          /\ Cardinality(Lost') \in Nat /\ Cardinality(Lost \cup {cur}) \in Nat
      BY <2>4, <3>1, FS_Subset, FS_CardinalityType
    <3> QED
      BY <2>1, <2>2, <2>4, <3>1, <3>2 DEF LostInv
  <2> QED
    BY <1>1, <2>3, <2>4
<1>2. CASE grubBoot
  BY <1>0, <1>2 DEF grubBoot, Bootable, Priority
<1>3. CASE powerFailure
  BY <1>0, <1>3 DEF powerFailure, goDown
<1>4. CASE imageFails
  BY <1>0, <1>4 DEF imageFails, goDown
<1>5. CASE executeReboot
  BY <1>0, <1>5 DEF executeReboot, goDown, ControlInv, GptInv
<1>6. CASE handleLastRebootReason
  BY <1>0, <1>6 DEF handleLastRebootReason
<1>7. CASE ForEvalStatus
  BY <1>0, <1>7 DEF ForEvalStatus
<1>8. CASE reconcilePartitionStates
  BY <1>0, <1>8 DEF reconcilePartitionStates, FindFailedPartitions
<1>9. CASE stepMarkBad
  BY <1>0, <1>9, MinOfSlots DEF stepMarkBad, Write, GptInv
<1>10. CASE stepSaveBad
  BY <1>0, <1>10 DEF stepSaveBad, Write
<1>11. CASE initializeEvaluation
  BY <1>0, <1>11 DEF initializeEvaluation
<1>12. CASE analyzePreviousBoot
  BY <1>0, <1>12 DEF analyzePreviousBoot, Write
<1>13. CASE initializeScheduler
  BY <1>0, <1>13 DEF initializeScheduler, Write, allTried
<1>14. CASE stepSaveGood
  BY <1>0, <1>14 DEF stepSaveGood, Write
<1>15. CASE scheduleNextSlotIfNeeded
  BY <1>0, <1>15 DEF scheduleNextSlotIfNeeded, Write
<1>16. CASE finalizeEvaluation
  BY <1>0, <1>16, MinOfSlots DEF finalizeEvaluation, Write, selectBestSlot, GptInv, MemInv, FileInv, ControlInv, EvalPersist
<1>17. CASE stepSaveFinal
  BY <1>0, <1>17 DEF stepSaveFinal, Write, selectBestSlot
<1>18. CASE handleStabilityTimeout
  BY <1>0, <1>18 DEF handleStabilityTimeout, Write
<1>19. CASE UNCHANGED vars
  BY <1>0, <1>19 DEF vars
<1> QED
  BY <1>2, <1>3, <1>4, <1>5, <1>6, <1>7, <1>8, <1>9, <1>10, <1>11, <1>12, <1>13, <1>14, <1>15, <1>16, <1>17, <1>18, <1>19
     DEF Next, EvalSteps

-----------------------------------------------------------------------------
(* Theorems *)

\* The invariant: what the file and the memory say of a slot agrees with the GPT at every
\* point between two writes, and each working image that is gone was hit by a power failure
THEOREM EvalInvariant == Spec => []EvalInv
<1>1. EvalInv /\ [Next]_vars => EvalInv'
  BY TypeStep, InvStep, LostStep DEF EvalInv
<1> QED
  BY InitInv, <1>1, PTL DEF Spec

\* evalmgr keeps its types: in particular executeReboot finds a slot that was not tried
THEOREM EvalTypes == Spec => []EvalTypeOK
<1>1. EvalInv => EvalTypeOK
  BY DEF EvalInv
<1> QED
  BY EvalInvariant, <1>1, PTL

\* A slot that was stable stays bootable for any number of slots, power failures and errors
THEOREM PassedSlotsStayBootable == Spec => []PassedStaysBootable
<1>1. EvalInv => PassedStaysBootable
  BY DEF EvalInv, EvalTypeOK, GptInv, PassedStaysBootable
<1> QED
  BY EvalInvariant, <1>1, PTL

\* finalizeEvaluation only makes a slot the best that was stable, and when it is repeated
\* after a power failure or a failed write it makes the same slot the best
THEOREM BestSlotPassed == Spec => []BestPassed
<1>1. EvalInv => BestPassed
  BY DEF EvalInv, GptInv, BestInv, BestPassed
<1> QED
  BY EvalInvariant, <1>1, PTL

\* The evaluation uses up no working image by itself: an image is left to boot as long as
\* there were fewer power failures than working images
THEOREM DeviceNotBricked == Spec => []NotBricked
<1>1. EvalInv => NotBricked
  <2> SUFFICES ASSUME EvalInv, crashes < Cardinality(Slots \ broken)
               PROVE  \E s \in Slots : Bootable(s) \/ (up /\ s = cur)
    BY DEF NotBricked
  <2>1. EvalTypeOK
    BY DEF EvalInv
  <2>2. CASE up
    BY <2>1, <2>2 DEF EvalTypeOK
  <2>3. CASE ~up
    <3>1. Lost # Slots \ broken
      BY <2>1, LostFinite DEF EvalInv, EvalTypeOK, LostInv
    <3>2. PICK s \in Slots \ broken : s \notin Lost
      BY <3>1 DEF Lost
    <3>3. gpt[s] \in GptStates \ {"inprogress", "bad"}
      BY <2>1, <2>3, <3>2 DEF Lost, EvalTypeOK
    <3> QED
      BY <3>2, <3>3 DEF GptStates, Bootable
  <2> QED
    BY <2>2, <2>3
<1> QED
  BY EvalInvariant, <1>1, PTL
=============================================================================
