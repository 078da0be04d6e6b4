--------------------------- MODULE MCBaseOsUpdate ---------------------------
(* Instances of BaseOsUpdate for TLC *)
EXTENDS BaseOsUpdate

CONSTANTS v1, v2, v3

\* Every image has the version it is configured for
MCImageOf == [v \in Versions |-> v]

\* All configurations
MCAllConfigs == Configs

\* A state of Spec to start from when the subject is the test of a new image: v2 is
\* installed, and the device is down on its way to it; the forced fallbacks are used up
InitUpdated ==
  /\ up = FALSE /\ cur = "IMGA"
  /\ part = [p \in Parts |-> IF p = "IMGA" THEN "active" ELSE "updating"]
  /\ img = [p \in Parts |-> IF p = "IMGA" THEN v1 ELSE v2]
  /\ zstatus = [p \in Parts |-> AbsentStatus] /\ zconfig = FALSE /\ vault = "none"
  /\ Volatile(bosmUp, bosConfig, status, ct, jobs, sent, kept, mixed, pc, zconfigSeen)
  /\ config = [ver |-> v2, activate |-> TRUE, retry |-> 0]
  /\ configUpdateRetry = 0 /\ currentUpdateRetry = 0
  /\ fallbackSaved = MaxFallback /\ fallbackCounter = MaxFallback
  /\ NodeAgentInit
  /\ crashes = 0 /\ configs = 0 /\ reached = FALSE /\ told = 0 /\ forced = MaxFallback
  /\ failed = NoFailure

\* From the installed device, or with an update on its way
SpecEither == (Init \/ InitUpdated) /\ [][Next]_vars
FairUpdated == InitUpdated /\ [][Next /\ StatusInTime]_vars /\ Fairness
=============================================================================
