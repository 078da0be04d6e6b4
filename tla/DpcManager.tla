----------------------------- MODULE DpcManager -----------------------------
(***************************************************************************)
(* The device port configuration manager of nim (pkg/pillar/dpcmanager).   *)
(* It keeps a list of device port configurations (DPCs), newest first,     *)
(* tests them one after the other until one reaches the controller, tests  *)
(* that one from time to time and tries to get back to the newest.         *)
(*                                                                         *)
(* One goroutine does all of it: `m' is its DpcManager struct.  A handler  *)
(* is one step, except for the loop of runVerify, which does one DPC per   *)
(* step (m.pc = "loop"): a test takes long, the network and the clock go   *)
(* on meanwhile.  A DPC has one management port, whose state is            *)
(* net[content].  Indices start at 1, NoDPC stands for -1.                 *)
(*                                                                         *)
(* Time: m.elapsed counts periods of dpcTestDuration since the test of the *)
(* current DPC began; a failure is `recent' for DpcMinTimeSinceFailure.    *)
(* dpcTestInterval is at least that long (types/global.go), so a failure   *)
(* seen by a verification is not recent when the next test is due; before  *)
(* the first global config the timers are 0.                               *)
(*                                                                         *)
(* Left out: DNS and netdump publications, geolocation, several ports in a *)
(* DPC, changes of the interfaces in the lastresort DPC, and IfChange      *)
(* events, which have no effect on the verification.                       *)
(***************************************************************************)
EXTENDS Integers, Sequences, FiniteSets, FiniteSetsExt, SequencesExt

CONSTANTS
  Cfgs,           \* contents of a DPC: its ports and their settings
  Usable,         \* the contents with a valid management port
  AllowLocal,     \* the contents that allow local modifications
  LpsCfg,         \* the content that the local profile server (LPS) substitutes
  LastResortCfg,  \* the content of the lastresort DPC
  Inputs,         \* the DPCs that nim may receive: key, time priority and content
  NetStates,      \* states of the network that occur
  waitForIfRetries, waitForAsyncRetries, waitForIPDNSRetries, waitForWwanRetries,
  TestBetter,     \* timer.port.testbetterinterval is not 0
  MaxInputs,      \* bound: commands, but for the first global config
  MaxNet,         \* bound: changes of the network
  MaxReboots      \* bound: reboots

VARIABLES
  m,       \* the DpcManager
  net,     \* state of the network as a port with some content would find it
  inputs, netChanges, reboots,  \* counters for the bounds
  deleted, \* history: number of DPCs deleted by command
  held     \* history: since the boot, an LPS config or radio silence has been received

vars == <<m, net, inputs, netChanges, reboots, deleted, held>>

NoDPC == 0
Keys == {"zedagent", "manual", "override", "lastresort"}
AllNetStates == {"ok", "remote", "assigned", "pciback", "wwan", "noport", "noip", "notready", "down"}
Waits == {"AsyncWait", "PCIWait", "WwanWait", "IntfWait", "IPDNSWait"}
DPCStates == Waits \cup {"None", "Success", "RemoteWait", "Fail", "FailWithIPAndDNS"}
Patience == Max({waitForIfRetries, waitForAsyncRetries, waitForIPDNSRetries, waitForWwanRetries})

LastResort == [key |-> "lastresort", prio |-> 0, cfg |-> LastResortCfg]
DPC == [key : Keys, prio : Nat, cfg : Cfgs,
        last : {"none", "good", "bad"},  \* result of the last test
        ever : BOOLEAN,                  \* LastSucceeded is set
        recent : BOOLEAN,                \* the failure is recent
        state : DPCStates]

ASSUME DpcAssumption ==
  /\ Usable \subseteq Cfgs /\ AllowLocal \subseteq Cfgs /\ LpsCfg \in Cfgs /\ LastResortCfg \in Cfgs
  /\ NetStates \subseteq AllNetStates
  /\ Inputs \subseteq [key : Keys \ {"lastresort"}, prio : Nat \ {0}, cfg : Cfgs]
  /\ {waitForIfRetries, waitForAsyncRetries, waitForIPDNSRetries, waitForWwanRetries} \subseteq Nat
  /\ TestBetter \in BOOLEAN /\ {MaxInputs, MaxNet, MaxReboots} \subseteq Nat

(* The list and CurrentIndex stay in step: the index is that of a DPC or   *)
(* none, whatever runVerify, compressDPCL and the commands do to the list. *)
DpcTypeOK ==
  /\ m.list \in Seq(DPC) /\ m.cur \in NoDPC..Len(m.list)
  /\ m.inProgress \in BOOLEAN /\ m.elapsed \in 0..Patience /\ m.connWorks \in BOOLEAN
  /\ m.test \in BOOLEAN /\ m.better \in BOOLEAN /\ m.pend \in {"off", "armed", "due"}
  /\ m.async \in BOOLEAN /\ m.lps \in BOOLEAN
  /\ m.rs \in [want : BOOLEAN, imposed : BOOLEAN, changing : BOOLEAN]
  /\ m.hasGCP \in BOOLEAN /\ m.enableLastResort \in BOOLEAN /\ m.lastResort \in BOOLEAN
  /\ m.avail \in BOOLEAN /\ m.pc \in {"idle", "loop"}
  /\ net \in [Cfgs -> NetStates] /\ deleted \in 0..MaxInputs /\ held \in BOOLEAN
  /\ inputs \in 0..MaxInputs /\ netChanges \in 0..MaxNet /\ reboots \in 0..MaxReboots

-----------------------------------------------------------------------------
(* The list                                                                *)

newDPC(d) == [key |-> d.key, prio |-> d.prio, cfg |-> d.cfg, last |-> "none", ever |-> FALSE,
              recent |-> FALSE, state |-> "None"]

IsDPCUsable(d) == d.cfg \in Usable
IsDPCTestableOnce(d) == IsDPCUsable(d) /\ d.last # "bad"  \* Mutant: the age does not count
IsDPCTestable(d) == IsDPCUsable(d) /\ (d.last = "bad" => ~d.recent)
IsDPCUntested(d) == IsDPCUsable(d) /\ d.last = "none"
WasDPCWorking(d) == d.last = "good"
SameDPC(d, e) == d.key = e.key /\ d.prio = e.prio
MostlyEqual(d, e) == d.key = e.key /\ d.cfg = e.cfg

First(I) == IF I = {} THEN NoDPC ELSE Min(I)

lookupDPC(l, d) ==
  LET same == {i \in DOMAIN l : SameDPC(l[i], d)}
  IN  First(IF same # {} THEN same ELSE {i \in DOMAIN l : MostlyEqual(l[i], d)})

insertDPC(l, d) ==
  InsertAt(l, First({i \in DOMAIN l : d.prio > l[i].prio} \cup {Len(l) + 1}), d)

updateDPC(l, i, d) ==
  IF l[i].prio = d.prio THEN [l EXCEPT ![i] = d]
  ELSE insertDPC(RemoveAt(l, i), [d EXCEPT !.last = l[i].last, !.ever = l[i].ever,
                                           !.recent = l[i].recent])

(* The DPCs at the places in K, in their order *)
SubList(l, K) ==
  LET nth(n) == CHOOSE i \in K : Cardinality({j \in K : j <= i}) = n
  IN  [n \in 1..Cardinality(K) |-> l[nth(n)]]

removeAllDPCbyKey(l, k) == SubList(l, {i \in DOMAIN l : l[i].key # k})

haveCurrentDPC(s) == s.cur \in DOMAIN s.list
currentDPC(s) == s.list[s.cur]
currentState(s) == IF haveCurrentDPC(s) THEN currentDPC(s).state ELSE "None"

\* Mutant: only the newest DPC of every source is kept
newestOfKey(s) ==
  {i \in DOMAIN s.list : \A j \in 1..(i - 1) : s.list[j].key # s.list[i].key}

(* What compressDPCL keeps; the first of a kind is always kept, so that    *)
(* "none retained yet" is "none before it".                                *)
retained(s) ==
  LET l == s.list
      before(i, P(_)) == \E j \in 1..(i - 1) : P(l[j])
      worked == \E i \in DOMAIN l : l[i].key = "zedagent" /\ l[i].ever
  IN  {i \in DOMAIN l :
         \/ i = 1 \/ i = s.cur
         \/ WasDPCWorking(l[i]) /\ ~before(i, WasDPCWorking)
         \/ /\ l[i].key = "zedagent" \/ ~worked
            /\ ~before(i, LAMBDA d : d.key = l[i].key)
         \/ l[i].key = "manual"
         \/ l[i].key = "lastresort" /\ s.enableLastResort}

compressDPCL(s) ==
  LET keep == retained(s)
  IN  IF s.inProgress THEN s
      ELSE [s EXCEPT
              !.list = SubList(s.list, keep),
              !.cur = Cardinality({i \in keep : i <= s.cur}),
              !.lastResort = @ /\ \A i \in DOMAIN s.list \ keep : s.list[i].key # "lastresort"]

-----------------------------------------------------------------------------
(* Verification                                                            *)

(* The content in use: the LPS config takes the place of one that allows it. *)
effective(s, c) == IF s.lps /\ c \in AllowLocal THEN LpsCfg ELSE c
currentNet(s) == net[effective(s, currentDPC(s).cfg)]
haveIPandDNS(s) == haveCurrentDPC(s) /\ currentNet(s) \in {"ok", "remote", "notready", "down"}
connectivityWorks(s) == haveCurrentDPC(s) /\ currentNet(s) \in {"ok", "remote"}

areAllMgmtPortUsingLpsConfig(s) ==
  haveCurrentDPC(s) /\ s.lps /\ currentDPC(s).cfg \in AllowLocal

\* Mutant: no wrap around
getNextDPCIndex(s, start) ==
  LET ahead == {i \in DOMAIN s.list : i >= start /\ IsDPCTestable(s.list[i])}
  IN  IF ahead # {} THEN Min(ahead) ELSE start

getNextTestableDPCIndex(s, start) ==
  LET testable == {i \in DOMAIN s.list : IsDPCTestable(s.list[i])}
      ahead == {i \in testable : i >= start}
  IN  First(IF ahead # {} THEN ahead ELSE testable)

(* Before the first global config dpcTestDuration is 0: nothing is waited for. *)
setupVerify(s, i) ==
  [s EXCEPT !.cur = i, !.inProgress = TRUE, !.elapsed = IF s.hasGCP THEN 0 ELSE Patience]

runVerify(s) ==
  IF s.inProgress /\ haveCurrentDPC(s)
  THEN [s EXCEPT !.test = FALSE, !.better = FALSE, !.pc = "loop"]
  ELSE s

(* restartVerify without its look at the LPS config *)
startVerify(s) ==
  LET i == getNextTestableDPCIndex(s, 1)
  IN  IF \/ s.inProgress
         \/ haveCurrentDPC(s) /\ ~s.rs.changing /\ s.rs.imposed
         \/ i = NoDPC
      THEN s
      ELSE runVerify(setupVerify(s, i))

restartVerify(s) == IF areAllMgmtPortUsingLpsConfig(s) THEN s ELSE startVerify(s)

(* What verifyDPC finds for a network in state n after t test durations *)
verdict(n, t) ==
  CASE n = "ok" -> "Success"
    [] n = "remote" -> "RemoteWait"
    [] n = "assigned" -> "Fail"
    [] n = "pciback" -> IF t < waitForIfRetries THEN "PCIWait" ELSE "Fail"
    [] n = "noport" -> IF t < waitForIfRetries THEN "IntfWait" ELSE "Fail"
    [] n = "wwan" -> IF t < waitForWwanRetries THEN "WwanWait"
                     ELSE IF t < waitForIPDNSRetries THEN "IPDNSWait" ELSE "Fail"
    [] n = "noip" -> IF t < waitForIPDNSRetries THEN "IPDNSWait" ELSE "Fail"
    [] n = "notready" -> IF t < waitForIPDNSRetries THEN "IPDNSWait" ELSE "FailWithIPAndDNS"
    [] n = "down" -> "FailWithIPAndDNS"

(* verifyDPC for the current DPC when Reconcile leaves async operations (a) *)
verifyDPC(s, a) ==
  LET n == currentNet(s)
      res == IF n # "assigned" /\ a /\ s.elapsed < waitForAsyncRetries
             THEN "AsyncWait" ELSE verdict(n, s.elapsed)
      d == [currentDPC(s) EXCEPT !.state = res]
  IN  [s EXCEPT !.pend = "off", !.async = (res = "AsyncWait"),
                !.list[s.cur] =
                   CASE res \in {"Success", "RemoteWait"} ->
                          [d EXCEPT !.last = "good", !.ever = TRUE, !.recent = FALSE]
                     [] res \in {"Fail", "FailWithIPAndDNS"} ->
                          [d EXCEPT !.last = "bad", !.recent = TRUE]
                     [] res \in Waits -> d]

\* Mutant: the timer for a better DPC is left off
endVerifyNoBetter(s, works) ==
  LET t == compressDPCL([s EXCEPT !.inProgress = FALSE, !.pc = "idle"])
  IN  IF IsDPCUntested(t.list[1]) THEN restartVerify(t)
      ELSE [t EXCEPT !.connWorks = @ \/ works, !.test = TRUE]

\* Mutant: the test timer is only restarted when a DPC works
endVerifyOnSuccess(s, works) ==
  LET t == compressDPCL([s EXCEPT !.inProgress = FALSE, !.pc = "idle",
                                  !.better = TestBetter /\ s.cur # 1])
  IN  IF IsDPCUntested(t.list[1]) THEN restartVerify(t)
      ELSE [t EXCEPT !.connWorks = @ \/ works, !.test = works]

(* The rest of runVerify once its loop is over *)
endVerify(s, works) ==
  LET t == compressDPCL([s EXCEPT !.inProgress = FALSE, !.pc = "idle",
                                  !.better = TestBetter /\ s.cur # 1])
  IN  IF IsDPCUntested(t.list[1]) THEN restartVerify(t)
      ELSE [t EXCEPT !.connWorks = @ \/ works, !.test = TRUE]

(* AsyncInProgress is only looked at in the state AsyncWait. *)
Reconcile(s, a) == [s EXCEPT !.async = a /\ currentState(s) = "AsyncWait"]

\* Mutant: no timer while async operations are awaited
afterTestNoTimer(s) ==
  LET res == currentState(s)
      next == getNextTestableDPCIndex(s, s.cur + 1)
  IN  CASE res \in Waits -> [s EXCEPT !.pend = IF res = "AsyncWait" THEN @ ELSE "armed", !.pc = "idle"]
        [] res \in {"Success", "RemoteWait"} -> endVerify(s, TRUE)
        [] OTHER -> IF IsDPCUntested(s.list[1]) \/ WasDPCWorking(s.list[1])
                    THEN setupVerify(s, 1)
                    ELSE IF next = NoDPC THEN endVerify(s, FALSE) ELSE setupVerify(s, next)

(* Next step of the loop, once the current DPC has been tested *)
afterTest(s) ==
  LET res == currentState(s)
      next == getNextTestableDPCIndex(s, s.cur + 1)
  IN  CASE res \in Waits -> [s EXCEPT !.pend = "armed", !.pc = "idle"]
        [] res \in {"Success", "RemoteWait"} -> endVerify(s, TRUE)
        [] OTHER -> IF IsDPCUntested(s.list[1]) \/ WasDPCWorking(s.list[1])
                    THEN setupVerify(s, 1)
                    ELSE IF next = NoDPC THEN endVerify(s, FALSE) ELSE setupVerify(s, next)

verifyNext ==
  /\ m.pc = "loop"
  /\ \E s \in {verifyDPC(m, a) : a \in BOOLEAN} : m' = afterTest(s)
  /\ UNCHANGED <<net, inputs, netChanges, reboots, deleted, held>>

resumeVerifyIfAsyncDone(s) ==
  IF s.pc = "idle" /\ currentState(s) = "AsyncWait" /\ ~s.async THEN runVerify(s) ELSE s

-----------------------------------------------------------------------------
(* Commands                                                                *)

\* Mutant: the first DPC takes the place of one that is gone, tested or not
placeOfOrFirst(s, l) ==
  LET i == lookupDPC(l, currentDPC(s))
  IN  IF i # NoDPC THEN i ELSE IF l # <<>> THEN 1 ELSE NoDPC

(* Where the current DPC is once the list has become l: the place of the   *)
(* same DPC, if that is where it was or if it used to work.                *)
placeOf(s, l) ==
  LET i == lookupDPC(l, currentDPC(s))
  IN  IF i = s.cur THEN i
      ELSE IF i # NoDPC THEN IF WasDPCWorking(l[i]) THEN i ELSE NoDPC
      ELSE IF l # <<>> /\ WasDPCWorking(l[1]) THEN 1 ELSE NoDPC

changeList(s, l) ==
  compressDPCL([s EXCEPT !.list = l,
                         !.cur = IF haveCurrentDPC(s) THEN placeOf(s, l) ELSE @])

(* updateDPCListAndPublish, for a new or changed DPC *)
isCurrent(s, d) ==
  LET i == lookupDPC(s.list, d)
  IN  /\ i # NoDPC /\ MostlyEqual(s.list[i], d)
      /\ s.cur = 1 /\ haveCurrentDPC(s) /\ MostlyEqual(currentDPC(s), s.list[i])

putDPC(s, d) ==
  LET i == lookupDPC(s.list, d)
  IN  changeList(s, IF i # NoDPC THEN updateDPC(s.list, i, d) ELSE insertDPC(s.list, d))

doAddDPC(s, d) ==
  LET t == IF d.key = "manual" THEN [s EXCEPT !.list = removeAllDPCbyKey(@, "manual")] ELSE s
  IN  IF isCurrent(t, d)
      THEN IF haveIPandDNS(t) THEN t ELSE restartVerify([t EXCEPT !.inProgress = FALSE])
      ELSE restartVerify([putDPC(t, d) EXCEPT !.inProgress = FALSE])

addOrUpdateLastResortDPC(s) ==
  IF s.lastResort THEN s ELSE doAddDPC([s EXCEPT !.lastResort = TRUE], newDPC(LastResort))

command ==
  /\ m.pc = "idle" /\ m.hasGCP
  /\ inputs < MaxInputs /\ inputs' = inputs + 1
  /\ UNCHANGED <<net, netChanges, reboots>>

AddDPC ==
  /\ command
  /\ \E d \in Inputs : m' = resumeVerifyIfAsyncDone(doAddDPC(m, newDPC(d)))
  /\ UNCHANGED <<deleted, held>>

(* doDelDPC does not end a verification that is in progress. *)
DelDPC ==
  /\ command
  /\ \E d \in Inputs :
       LET i == lookupDPC(m.list, d) IN
         /\ i # NoDPC
         /\ m' = resumeVerifyIfAsyncDone(restartVerify(changeList(m, RemoveAt(m.list, i))))
  /\ deleted' = deleted + 1 /\ UNCHANGED held

(* A DPC with the key "lps": the config of the LPS, or none *)
AddLpsDPC ==
  /\ command
  /\ \E on \in BOOLEAN :
       /\ m' = resumeVerifyIfAsyncDone(startVerify([m EXCEPT !.lps = on, !.inProgress = FALSE]))
       /\ held' = (held \/ on)
  /\ UNCHANGED deleted

UpdateRadioSilence ==
  /\ command
  /\ \E want \in BOOLEAN, a \in BOOLEAN :
       /\ m' = resumeVerifyIfAsyncDone(
                 Reconcile([m EXCEPT !.rs.want = want, !.rs.changing = (m.rs.want # want)], a))
       /\ held' = (held \/ want)
  /\ UNCHANGED deleted

(* The status of the modems, for the current DPC and the latest radio      *)
(* silence config: the modems have applied them, or not all are silent.    *)
ProcessWwanStatus ==
  /\ m.pc = "idle" /\ m.hasGCP
  /\ LET waiting == haveCurrentDPC(m) /\ currentNet(m) = "wwan"
     IN  /\ m.rs.changing \/ waiting
         /\ \E n \in NetStates \ {"wwan"} :
              net' = IF waiting THEN [net EXCEPT ![effective(m, currentDPC(m).cfg)] = n] ELSE net
  /\ \E silent \in BOOLEAN :
       LET s == [m EXCEPT !.rs.imposed = IF m.rs.changing THEN m.rs.want /\ silent ELSE @,
                          !.rs.changing = FALSE]
       IN  m' = resumeVerifyIfAsyncDone(
                  IF currentState(s) = "WwanWait" THEN runVerify(s) ELSE restartVerify(s))
  /\ UNCHANGED <<inputs, netChanges, reboots, deleted, held>>

UpdateAA ==
  /\ m.pc = "idle" /\ m.hasGCP
  /\ \E a \in BOOLEAN :
       m' = IF currentState(m) \in {"PCIWait", "IntfWait"} /\ m.inProgress THEN runVerify(m)
            ELSE resumeVerifyIfAsyncDone(Reconcile(m, a))
  /\ UNCHANGED <<net, inputs, netChanges, reboots, deleted, held>>

UpdateGCP ==
  /\ m.pc = "idle"
  /\ IF m.hasGCP THEN inputs < MaxInputs /\ inputs' = inputs + 1 ELSE UNCHANGED inputs
  /\ \E enable \in BOOLEAN, expectBootstrapDPCs \in BOOLEAN, a \in BOOLEAN :
       LET first == ~m.hasGCP
           s == [Reconcile(m, a) EXCEPT !.hasGCP = TRUE, !.enableLastResort = enable,
                                        !.test = @ \/ first, !.better = @ \/ (first /\ TestBetter)]
           t == IF \/ enable /\ ~m.enableLastResort
                   \/ first /\ ~enable /\ m.list = <<>> /\ ~expectBootstrapDPCs
                THEN addOrUpdateLastResortDPC(s)
                ELSE IF ~enable /\ m.enableLastResort THEN compressDPCL(s) ELSE s
       IN  m' = resumeVerifyIfAsyncDone(
                  IF first /\ ~haveCurrentDPC(t) THEN restartVerify(t) ELSE t)
  /\ UNCHANGED <<net, netChanges, reboots, deleted, held>>

-----------------------------------------------------------------------------
(* Events and timers                                                       *)

ResumeReconcile ==
  /\ m.pc = "idle" /\ m.async
  /\ \E a \in BOOLEAN : m' = resumeVerifyIfAsyncDone(Reconcile(m, a))
  /\ UNCHANGED <<net, inputs, netChanges, reboots, deleted, held>>

(* An address of an interface of the current DPC or of the first one *)
AddrChange ==
  /\ m.pc = "idle" /\ haveCurrentDPC(m)
  /\ m' = CASE currentState(m) \in Waits \ {"AsyncWait"} -> runVerify(m)
            [] currentState(m) = "Fail" -> restartVerify(m)
            [] OTHER -> m
  /\ UNCHANGED <<net, inputs, netChanges, reboots, deleted, held>>

dpcAvailTimer ==
  /\ m.pc = "idle" /\ m.avail
  /\ LET s == [m EXCEPT !.avail = FALSE]
     IN  m' = IF m.list = <<>> THEN addOrUpdateLastResortDPC(s) ELSE s
  /\ UNCHANGED <<net, inputs, netChanges, reboots, deleted, held>>

pendingDpcTimer ==
  /\ m.pc = "idle" /\ m.pend = "due"
  /\ m' = runVerify([m EXCEPT !.pend = "off"])
  /\ UNCHANGED <<net, inputs, netChanges, reboots, deleted, held>>

testConnectivityToController(s) ==
  LET n == currentNet(s)
  IN  CASE n = "ok" ->
             [s EXCEPT !.list[s.cur] = [@ EXCEPT !.last = "good", !.ever = TRUE,
                                                 !.recent = FALSE, !.state = "Success"],
                       !.connWorks = TRUE, !.test = TRUE]
        [] n = "remote" -> [s EXCEPT !.test = TRUE, !.connWorks = TRUE]
        [] n \notin {"ok", "remote"} /\ s.connWorks -> [s EXCEPT !.test = TRUE, !.connWorks = FALSE]
        [] n \notin {"ok", "remote"} /\ ~s.connWorks -> restartVerify(s)

dpcTestTimer ==
  /\ m.pc = "idle" /\ m.test
  /\ m.hasGCP => \A i \in DOMAIN m.list : ~m.list[i].recent
  /\ \E s \in {[m EXCEPT !.test = FALSE]} :
       m' = IF haveCurrentDPC(m) THEN testConnectivityToController(s) ELSE restartVerify(s)
  /\ UNCHANGED <<net, inputs, netChanges, reboots, deleted, held>>

dpcTestBetterTimer ==
  /\ m.pc = "idle" /\ m.better
  /\ LET s == [m EXCEPT !.better = FALSE]
     IN  \/ m.cur = 1 /\ m' = s
         \/ m' = restartVerify(s)
  /\ UNCHANGED <<net, inputs, netChanges, reboots, deleted, held>>

-----------------------------------------------------------------------------
(* The clock, the network, and a reboot: the list is persistent.           *)

tick ==
  /\ m.inProgress /\ (m.elapsed < Patience \/ m.pend = "armed")
  /\ m' = [m EXCEPT !.elapsed = IF @ < Patience THEN @ + 1 ELSE @,
                    !.pend = IF @ = "armed" THEN "due" ELSE @]
  /\ UNCHANGED <<net, inputs, netChanges, reboots, deleted, held>>

failureAges ==
  /\ \E i \in DOMAIN m.list : m.list[i].recent
  /\ m' = [m EXCEPT !.list = [i \in DOMAIN m.list |-> [m.list[i] EXCEPT !.recent = FALSE]]]
  /\ UNCHANGED <<net, inputs, netChanges, reboots, deleted, held>>

networkChanges ==
  /\ netChanges < MaxNet /\ netChanges' = netChanges + 1
  /\ \E c \in Cfgs, n \in NetStates : n # net[c] /\ net' = [net EXCEPT ![c] = n]
  /\ UNCHANGED <<m, inputs, reboots, deleted, held>>

ingestDPCList(l) ==
  [list |-> l, cur |-> NoDPC, inProgress |-> FALSE, elapsed |-> 0, connWorks |-> TRUE,
   test |-> FALSE, better |-> FALSE, pend |-> "off", async |-> FALSE, lps |-> FALSE,
   rs |-> [want |-> FALSE, imposed |-> FALSE, changing |-> FALSE], hasGCP |-> FALSE,
   enableLastResort |-> FALSE, lastResort |-> FALSE, avail |-> TRUE, pc |-> "idle"]

reboot ==
  /\ reboots < MaxReboots /\ reboots' = reboots + 1
  /\ m' = ingestDPCList(m.list) /\ held' = FALSE
  /\ UNCHANGED <<net, inputs, netChanges, deleted>>

Init ==
  /\ m = ingestDPCList(<<>>)
  /\ net \in [Cfgs -> NetStates]
  /\ inputs = 0 /\ netChanges = 0 /\ reboots = 0 /\ deleted = 0 /\ held = FALSE

Next ==
  \/ verifyNext \/ AddDPC \/ DelDPC \/ AddLpsDPC \/ UpdateRadioSilence \/ ProcessWwanStatus
  \/ UpdateAA \/ UpdateGCP \/ ResumeReconcile \/ AddrChange \/ dpcAvailTimer
  \/ pendingDpcTimer \/ dpcTestTimer \/ dpcTestBetterTimer
  \/ tick \/ failureAges \/ networkChanges \/ reboot

Spec == Init /\ [][Next]_vars

(* The goroutine runs, timers fire and the clock goes on. *)
FairSpec ==
  /\ Spec
  /\ WF_vars(verifyNext) /\ WF_vars(pendingDpcTimer) /\ WF_vars(dpcTestTimer)
  /\ WF_vars(dpcTestBetterTimer) /\ WF_vars(tick) /\ WF_vars(failureAges)
-----------------------------------------------------------------------------
(* Properties                                                              *)

(* Every DPC has a management port.  One without is not ignored by         *)
(* doAddDPC: it ends the verification in progress, and may take the place  *)
(* of the DPC under test.                                                  *)
AllUsable == LastResortCfg \in Usable /\ \A d \in Inputs : d.cfg \in Usable

(* A verification that waits has its timer running (runVerify, "Either     *)
(* addressChange or PendTimer will result in calling us again").           *)
WaitHasTimer == m.pc = "idle" /\ m.inProgress /\ m.cur # NoDPC => m.pend # "off"

(* Once configured, the manager either waits in a verification or has the  *)
(* timer of the periodic test running, whatever the order of commands,     *)
(* events and early returns of restartVerify.  Left out are boots in which *)
(* an LPS config or radio silence has come (held), which stop the periodic *)
(* test so that it may stay stopped after them, and runs in which a DPC    *)
(* was deleted (RecoversAfterDelete).                                      *)
TestGoesOn ==
  AllUsable /\ ~held /\ deleted = 0 /\ m.pc = "idle" /\ m.hasGCP /\ m.list # <<>>
    => m.test \/ (m.inProgress /\ m.pend # "off")

(* As long as some DPC has worked last time there is one to fall back to:  *)
(* a step that no command to delete causes leaves one in the list that has *)
(* worked, or that did until this very step.  (A manual DPC is replaced    *)
(* together with its results.  Boots with an LPS config or radio silence   *)
(* are left out.)                                                          *)
FallbackKept ==
  [][AllUsable /\ ~held' /\ deleted' = deleted
     /\ (\E i \in DOMAIN m.list : WasDPCWorking(m.list[i]) /\ m.list[i].key # "manual")
       => \E j \in DOMAIN m'.list :
            \/ WasDPCWorking(m'.list[j])
            \/ \E i \in DOMAIN m.list : WasDPCWorking(m.list[i]) /\ SameDPC(m'.list[j], m.list[i])]_vars

(* The device changes to another DPC only to test it, or if that one has   *)
(* worked last time (updateDPCListAndPublish, compressDPCL).  Boots with   *)
(* an LPS config or radio silence are left out: under these the current    *)
(* DPC may be left untested.                                               *)
SwitchIsTested ==
  [][AllUsable /\ ~held' /\ m'.cur # NoDPC
     /\ (m.cur = NoDPC \/ ~MostlyEqual(currentDPC(m), currentDPC(m')))
       => m'.pc = "loop" \/ WasDPCWorking(currentDPC(m'))]_vars

HasWorkingDPC ==
  /\ m.hasGCP /\ ~held
  /\ \E i \in DOMAIN m.list : IsDPCUsable(m.list[i]) /\ net[m.list[i].cfg] \in {"ok", "remote"}
Recoverable == AllUsable /\ HasWorkingDPC /\ deleted = 0

(* Whenever a usable DPC of the list reaches the controller, the device    *)
(* ends up with one that does, unless there is no such DPC any more        *)
(* (runVerify, dpcTestTimer).  Here no DPC was deleted.                    *)
Recovers == Recoverable ~> connectivityWorks(m) \/ ~Recoverable

(* The same when DPCs may be deleted: "nim switches to using the next      *)
(* configuration" (docs/DEVICE-CONNECTIVITY.md).  doDelDPC does not end a  *)
(* verification in progress, and one without a current DPC never ends.     *)
RecoversAfterDelete == HasWorkingDPC ~> connectivityWorks(m) \/ ~HasWorkingDPC

NewestWorks == Recoverable /\ IsDPCUsable(m.list[1]) /\ net[m.list[1].cfg] \in {"ok", "remote"}

(* Whenever the newest DPC would work the device gets back to it, with the *)
(* timer runVerify starts when it ends at another one.                     *)
ReturnsToNewest == NewestWorks ~> m.cur = 1 \/ ~NewestWorks
=============================================================================
