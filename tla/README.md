# EVE-OS: TLA+ models of the device's control plane

EVE-OS is the operating system of edge devices that nobody can walk up to.  Some things have to
work on such a device whatever fails: an update of the base image must never leave it without an
image it can boot, a change of the network configuration must never cut it off for good, what it
downloads must be what was asked for, and it must prove what it runs (remote attestation) before
the controller hands it secrets.  This directory models the code behind these, under
`src/pkg/pillar`, and the two libraries all of it rests on, the topics of `pubsub` and the pool of
`worker`.  TLC checks the models on small instances; TLAPS proves the safety properties of every
component for all values of the constants.

`PROJECT.json` maps every definition to the lines it models and lists runs, mutants, findings,
hazards and theorems.  Definitions commented `Mutant:` are wrong variants of the definition after
them; they are used only to make sure that a property would notice such a bug.

## 1. Inventory

| component | state | operations | talks to | what is hard |
|---|---|---|---|---|
| **zboot, GRUB gptprio** | attributes of two partitions in the GPT, their images | states `active`, `updating`, `inprogress`, `unused`; choice of the partition to boot; write of an image | called by baseosmgr, run by the firmware | every GPT write is one step; power may fail between two |
| **baseosmgr** | BaseOsConfig and BaseOsStatus of each version, ZbootStatus, two retry counters and a fallback counter in files, jobs of the worker pool | install, activate, commit, uninstall, retry of a failed image, forced fallback | zedagent (config), volumemgr (content trees), nodeagent (ZbootConfig), worker pool, zboot | handlers of several disk writes; decisions on the *published* partition state; jobs that outlive what asked for them |
| **nodeagent** | state of the test of a new image, three clocks, scheduled node operations | test, fallback and reset when the controller is gone, reboot on a locked vault, reboot and poweroff commands | baseosmgr, zedagent, vaultmgr | three timers race in one tick; restarts of the test time |
| **worker pool** | workers with their pending keys, results on their way and results kept | TrySubmit, Pop, Cancel, Process, collection of idle workers | baseosmgr, volumemgr | a key is known only to the worker that has it; goroutines, locks and channels in every order |
| **attestation machine** (`attest/attest.go`) | state, one retry timer, a channel of one event | one handler for each event and state | itself (goroutines), zedagent | late events and timers, sends into its own channel |
| **zedagent attestation task** | nonce, quote, vault key, what was published | requests to the controller; handlers of quotes and keys | attestation machine, tpmmgr, vaultmgr, controller | two threads share the quote and the key |
| **tpmmgr** | nonces answered | quote for a nonce, deletion | zedagent | topics deliver last values, deletions late |
| **vaultmgr** | vault status | unlock, convert, ask the controller for the key | baseosmgr, nodeagent, zedagent | when to wipe; not modelled yet |
| **evalmgr** | three slots in the GPT, progress in a file, the reboot reason | try every slot for a time, note which were stable, choose the best, hold back onboarding | GRUB, client, nodeagent | three records of the same fact and resets between their writes |
| **pubsub** | published items and their files, one goroutine for each connection, the subscriber's copy | publish, unpublish, restart, snapshot, diffs, reconnect | every agent | dropped notifications, broken connections, a publisher that comes back |
| **dpcmanager** | persistent list of port configurations, the one in use, a verification and four timers | add, delete, verify, fall back, get back to the newest, last resort, override by the LPS | nim, zedagent, wwan, LPS | long tests overtaken by new input; early returns that leave no timer |
| **volumemgr** | content trees, blobs, references to configurations of other agents, jobs | create, change, delete; download, verify, load, retry | downloader, verifier, worker pool, CAS | late statuses and results that belong to something deleted meanwhile |
| **downloader**, **verifier** | a goroutine and a status for each configuration, the file | download and retry, verify, delete | volumemgr | an old goroutine next to a new one |
| zedmanager, domainmgr, zedrouter, nim, zedkube, logging and tools | | | | see `components` in PROJECT.json |

What makes them correct:

* update: there always is a complete committed image (`FallbackSafe`); decisions are based on what is
  on the disk (`StatusIsCurrent`); only whole images are tried (`TriedIsWhole`); a failed version is
  not tried again while the controller asks for the same (`RefusesFailed`); an update put off during a
  test is started after it (`UpdateNotForgotten`); an image is committed only after contact with the
  controller (`CommitAfterContact`) and with the vault open (`VaultReadyAtCommit`); a test ends
  (`TestDecided`).
* attestation: the quote answers the nonce (`QuoteMatchesNonce`); nothing late reaches a later
  state (`OneDriverAtATime`); the machine always has a wake-up coming (`NeverForgotten`); complete
  means escrowed (`CompleteMeansEscrowed`); a cycle ends (`Converges` of Attest).
* evaluation: what was stable stays bootable (`PassedStaysBootable`); the evaluation does not use up
  the images (`NotBricked`); the best slot is the only one and was stable (`BestPassed`); it ends,
  unless a record is lost for good (`EvaluationEnds`).
* topics: a subscriber's copy only moves along what was published (`LastValues`), reaches the last
  of it (`Converges` of PubSub), and a restart is not announced before what precedes it
  (`RestartAfterItems`, with two exceptions that the code does have: section 5).
* worker pool: an accepted job comes back (`AcceptedIsProcessed`), its result is found
  (`KeptIsFound`), and the channel of results is not closed under the reader (`ChannelStaysOpen`).
* port configurations: a verification that waits has its timer (`WaitHasTimer`); tests go on
  (`TestGoesOn`); one that worked is kept (`FallbackKept`); a switch is for a test or to one that
  worked (`SwitchIsTested`); the device gets back to the controller (`Recovers`) and to the newest
  configuration (`ReturnsToNewest`).
* content: references are counted and given back once (`RefsMatch`); LOADED means that the image
  and the blob are in the CAS (`LoadedInCAS`).

## 2. Modules

```
Zboot ---- BaseOsMgr ---- BaseOsMgr_proofs                    Attest ---- MCAttest, Attest_proofs
      \              \                   \                    EvalMgr ---- EvalMgr_proofs
       NodeAgent ---- BaseOsUpdate ---- BaseOsUpdate_proofs   PubSub ---> Topic;  PubSub_proofs
                          |                                   WorkerPool ---- WorkerPool_proofs
       MCBaseOsMgr    MCBaseOsUpdate                          DpcManager ---- MCDpcManager, DpcManager_proofs
                                                              VolumeMgr ---- MCVolumeMgr, VolumeMgr_proofs
```

Lines are EXTENDS.  `BaseOsUpdate` implements the specification of `BaseOsMgr` in its arbitrary
environment; `PubSub` implements `Topic` (arrow: INSTANCE with a refinement mapping), which is what
`BaseOsMgr`, `Attest` and `VolumeMgr` take a topic to be.

**Zboot** is the disk and what the agents share: `part` and `img` are the GPT states and the
contents of IMGA and IMGB, `cur` the booted one, `zstatus`, `zconfig` and `vault` the topics
ZbootStatus, ZbootConfig and VaultStatus.  `grubBoot` is `grub_find_next` of the gptprio patch: it
boots the bootable partition of the highest priority and turns `updating` into `inprogress`, so
that an image has one try.  An image is a version, `NoVer` (empty) or `Garbage` (not the complete
image of one version); reading the version of `Garbage` may give anything.

**BaseOsMgr** has one action for each event of the main loop.  A handler that writes to the disk
more than once, or calls another handler, is cut at those points: `pc` says what is left to do and
no other event is taken before it is `Idle`, but the device may go down.  The steps are in the
order of the code; for example `handleZbootTestComplete` (current partition active), `stepMarkOther`
(fallback unused), `stepAckTest`, `stepPublishAll`, `stepRetryInstall`, `handleUpdateRetryCounter`.
`baseOsHandleStatusUpdate` is `doBaseOsStatusUpdate` with one disjunct for each point of return.
The pool has `MaxWorkers` workers; `jobs`, `sent` and `kept` are the job of each worker (with its
pending key), the results on their way to the main loop and the results waiting for `Pop`.
`mixed` remembers the workers that wrote while another one wrote another image.  A configuration is
created or changed only when no other version is configured: zedagent publishes one version, and a
subscriber passes deletions on before what is new (`DetermineDiffs` of pubsub).
`BaseOsMgrSpec` puts baseosmgr in an environment that may do anything: resets at any step,
configurations, TestComplete set and withdrawn.  It is the abstract specification of an update.

**NodeAgent** has one action for each event of nodeagent.  Of every time stamp only the distance
to the present is kept, up to the largest value it is compared with, so `handleDeviceTimers` is one
tick: the clocks advance and the timers are looked at in the order of the code.

**BaseOsUpdate** composes the two with the vault and the controller, and adds power failures
(`crash`), an image that does not come up (`bootFailure`) and the scheduled operations
(`nodeOperation`).  History variables record what the properties are about: whether this boot has
reached the controller, which version failed with which counters.

**Attest** is the transition table of the attestation machine, its timer and its channel of
capacity one.  `selfEvents` are the goroutines of `triggerSelfEvent` that have not sent yet and
`mainSend` the event zedagent's main loop is blocked with: the three senders race.  zedagent's
handlers, tpmmgr and vaultmgr are actions of their own; topics deliver last values at any later
time.  `fatal` records a `log.Fatal`, after which the watchdog reboots the device.

**EvalMgr** has the three slots (`gpt`), the file (`file`), the reboot reason and evalmgr's own copy
of its record (`mem`).  Every write to the GPT or the file is a step and may fail; `pc` is the next
one, from the reconciliation at start (`FindFailedPartitions`, `stepMarkBad`, `stepSaveBad`) over
`analyzePreviousBoot` and `initializeScheduler` to the loop, the stability timer
(`handleStabilityTimeout`, `stepSaveGood`), the next slot (`scheduleNextSlotIfNeeded`) or the end
(`finalizeEvaluation`, `stepSaveFinal`).  GRUB gives a slot one try, as in Zboot, with the
priorities of evaluation platforms.  A broken image goes down before its stability period is over.

**Topic** is the promise of a topic: for every key the subscriber's value moves along the history of
published values.  **PubSub** is one topic over the socket driver: the publisher's map and files, a
call cut into its steps (`op`: the map, the notification, the file), the goroutine
`serveConnection` (`spc`: hello, snapshot, restart, wait, diffs), the messages on the wire and the
subscriber's map.  The process may end and come back from its files (`NewPublication`), and the
connection may break and be made again.  Values carry their place in the history of their key, a
history variable that makes the mapping to Topic the identity on `skm`.  A restart carries what its
publisher had before it (`need`).  The first restart of a connection also carries the keys for which
it is told too early (`tooEarly`): those that changed after the snapshot (`snap`) and before the
restart, and of which nothing that recent was sent.

**WorkerPool** is `Single` and `Pool`: `wpc` is where `processWork` of a worker is, `merged` what
`mergeResult` holds for the shared channel.  `TrySubmit` asks the workers in their order, one step
each, with the pool's lock held (`submit`); `addPending` comes after the job was handed over, as in
`submitImpl`.  `periodicGC` removes idle workers without results but for the last.

**DpcManager** keeps the struct of the same name in `m`.  Handlers are operators from a struct to a
struct (`restartVerify`, `setupVerify`, `runVerify`, `verifyDPC`, `compressDPCL`, `doAddDPC`), as
the methods call each other; an action is one case of the `select` of the goroutine.  Only the loop
of `runVerify` is several steps, one DPC each.  `net` is what a port with a given content would
find: the outcome of a test is a function of it.  The history variable `held` says that since the
boot an LPS config or radio silence has come, which stop tests as the code intends; the properties
about tests and switches leave such boots out, and DPCs without a management port (`AllUsable`).
Before the first global configuration the test time is zero, so a DPC is given up at once.

**VolumeMgr** has volumemgr's handlers as operators from `m` to `m` in the same way (`doUpdateContentTree`
and what it calls, the updates from the downloader's and verifier's statuses, the jobs of the CAS worker),
and the handlers of the downloader (`dg`) and verifier (`vg`) as goroutines that read their
configuration topic and publish statuses.  A topic is the sequence of values that are still to be
seen; by `LastValues` of PubSub any of them but the last may be skipped.  `fatal` records a
`log.Fatalf` or a panic.  The CAS workers run beside the main loop: a job (`m.jobs`) is cut where the
main loop may come between, at the lookup of the blob (`casIngestWorker`), the write (`IngestBlob`)
and the image (`CreateImage`), and may be refused (`jobRefused`) or fail (`ingestFails`).  A tree may
have several jobs, and their results come in any order.  containerd removes a blob that has neither
an image nor a lease (`containerdGC`, external).  A boot may find any images (`left` in `Init`), those of
trees that are gone included: `gcUnusedInitObjects` is there to remove them.  The history variable
`stale` has the trees whose image is of an earlier boot or was made while the tree was deleted.  A
cancel that was sent to a transfer stays sent when the reference comes back (`cancelled`).

## 3. Runs

| run | instance | shows |
|---|---|---|
| `attest` | 3 nonces, 1 restart request, fair | six invariants in every order of sends and deliveries, and `Converges` |
| `baseosmgr` | 2 versions, 2 retry counters, 2 workers, 1 forced fallback, any number of resets | `BosmTypeOK`, `FallbackSafe`, `StatusIsCurrent` |
| `baseosmgr_install` | 3 versions (the running one, one to install, one too large), no forced fallback, any number of resets | `TriedIsWhole` |
| `update` | the whole system from the installed device or with an update on its way: 3 versions, 1 configuration of any kind at any moment, 1 forced fallback, 1 retry, 1 power failure at any moment | `TypeOK`, `UpdateNotForgotten`, `RefusesFailed` |
| `update_live` | starts with an update installed; every report of controller and vault, a reboot command, fair | `CommitAfterContact`, `VaultReadyAtCommit`, `TestDecided` |
| `evalmgr` | 3 slots, any of them broken but not all, 2 power failures, 1 write that fails, fair | `EvalTypeOK`, `PassedStaysBootable`, `NotBricked`, `BestPassed`, `EvaluationEnds` |
| `pubsub` | 2 keys, 2 values, 3 calls, 1 fault, 2 messages on the wire, fair | `PubTypeOK`, `RestartAfterItems`, `Converges`, and that it implements `Topic` (`LastValues`) |
| `workerpool` | 2 keys, 2 workers at a time and 3 altogether, 3 submissions, fair | `PoolTypeOK`, `KeptIsFound`, `ChannelStaysOpen`, `AcceptedIsProcessed` |
| `dpcmanager` | 3 contents, 5 DPCs that may come (among them one that changes the priority of another, and one that changes its content), 2 commands of any kind, 1 change of the network, modems that are ready or not | `DpcTypeOK`, `WaitHasTimer`, `TestGoesOn`, `FallbackKept`, `SwitchIsTested` |
| `dpcmanager_live` | the same DPCs, 1 command, 1 change of the network, 1 reboot, networks that work or give no address, fair | `Recovers`, `ReturnsToNewest` |
| `dpcmanager_delete` | one manual DPC and the last resort, fair | ends with a violation of `RecoversAfterDelete` (section 5) |
| `volumes` | 2 content trees with one blob (symmetric), a boot that finds the blob and any images in the CAS (and has nothing once they were collected), 1 retry, 3 changes of the configuration, 1 failure, topics with one value on the way | `VolTypeOK`, `RefsMatch`, `LoadedInCAS` |

*Bounds.*  Two partitions (three slots for an evaluation) are the platform's.  Two versions allow an
update and its fallback; three, an update replaced by another one or one that is refused.  Two workers
are needed for jobs that overlap (the code has 20) and a third for a collected one that is replaced.
Timers are one or two ticks: what counts is their order, and `update_live` keeps that of the defaults
(test 600 s, fallback 300 s, vault 300 s).  In `update`, whose subject is the disk, all timers are
zero.  Three nonces let a cycle start while messages of the two before it are still on their way.
Resets are unbounded in the `baseosmgr` runs, bounded by `MaxCrashes` in the others; the second power
failure of `evalmgr` hits what the recovery from the first has written.  Three calls of a publisher
are a change before, during and after a snapshot.  Two commands let a DPC come while another one is
verified, or be replaced while in use; each retry of a wait is one tick.  Three changes of content
trees create two that share the blob and delete one, or create, delete and create again (a change of
what a tree contains is a deletion and a creation and counts as two).  `volumes` has one goroutine of
each agent (`MaxHandlers`): section 5 says what two would add; workers and jobs are not bounded.  In
`update` the one configuration is the update, or comes in any step of the test of one, which is what
puts an update off.  Deadlock is not checked: with the bounds used up, a device that has nothing to do
stops.

*Starting from an update.*  `update_live` starts in `InitUpdated`, and `update` in that state as well as
in `Init`.  It is a state of `Spec`: the new image is installed, the device is down on its way to it
and no forced fallback is left.

*Fairness.*  Attest: Go's `select` and the scheduler serve a goroutine that is always or again and
again able to go on, so the event loop, the blocked sends and the deliveries are fair; of the
controller, `Converges` assumes that a request that is repeated for ever is answered well in the
end.  BaseOsUpdate: the loops serve a channel that stays ready, timers tick, GRUB, the watchdog and
a scheduled node operation do their work; vaultmgr reports once and ends a conversion, but need not
unlock a locked vault.  Nothing is assumed of the controller, except that `TestDecided` leaves out
the behaviours in which it fails "temporarily" for ever: every such answer restarts the test time,
as the code intends.  The liveness run also assumes `StatusInTime`: baseosmgr publishes ZbootStatus
before the test time is over.  Without it the end of the test finds no status, is logged and lost.
EvalMgr: evalmgr's steps, its timers and GRUB go on, and a broken image does go down; power failures
are not fair.  PubSub: goroutines that can go on do; the publisher need not call anything, nor come
back.  WorkerPool: jobs end and the main loop reads its channel.  DpcManager: the goroutine goes on,
its timers fire and the clock advances; commands, events and networks that recover are not assumed.

*What the liveness properties leave out.*  `EvaluationEnds` leaves out an evaluation in which a write
failed, in which a record stays lost for ever (a reset fell between the mark in the GPT and the file,
and no later boot made up for it; the moment between the two writes of an ordinary run does not
count), or in which power failures used up the tries of all images.  `Converges` of PubSub leaves out
what was deleted while there was no connection and the restart counter of the race below.  `Recovers`
leaves out radio silence, an override by the LPS and deletions: the code stops testing in the first
two, and the third is the finding.

## 4. Proofs

`BaseOsMgr_proofs` is about `BaseOsMgrSpec`, with any set of versions, workers, configurations and
counters, assuming only that the three special images differ and that the inputs have their types.

* `BosmTypeCorrect`: the type invariant, which is inductive.
* `BosmInvariant`: `Inv`, the inductive strengthening of `FallbackSafe` and `StatusIsCurrent`.
  `FallbackSafe` alone is not inductive, because baseosmgr never looks at the GPT before it starts
  a job: it looks at ZbootStatus.  So `Inv` says that ZbootStatus is the GPT outside of a commit
  (`StatusIsCurrent`); that the device runs a committed image or one under test (`CurState`) and
  the latter has an active fallback (`FallbackThere`); what the disk looks like between the steps
  of a handler (`Handlers`); that handlers run in the main loop only (`Running`); and that a job
  exists only with the current partition committed and the other one not (`Jobs`), which only a
  reset, that ends all jobs, could change.
* `BosmFallbackSafe` and `BosmStatusIsCurrent` follow.
* `BosmTriedIsWhole`: `TriedIsWhole` in the behaviours in which always `PlainInstall`: the jobs and
  results in the pool are of one image at a time, no failed image is retried and no fallback is
  forced.  Without the first, two workers write two images to one partition and the label says
  nothing: section 5 has what comes of it.  The invariant (`WholeInv`) says that a
  result that ended well, on its way or kept, has left its image in the partition, and that no job
  that is still to write disagrees with the image to be tried.

`BaseOsUpdate_proofs` is about the composition.

* `TypeCorrect`; `Implements`: every step of the composition is a step of baseosmgr or of its
  environment, or leaves its state alone.  The composition uses the actions of baseosmgr, so there is
  nothing in it that could be wrong but what the others write to `zconfig`, and no run checks it: it is
  what makes the theorems of BaseOsMgr carry over, and gives `UpdateFallbackSafe`.
* `VaultReady`: only the handler of TestComplete commits (`OnlyTestCommits`), the main loop runs
  only after the vault is ready, and a vault that is ready stays so.
* `ContactBeforeCommit`: with `FallbackIfCloudGoneTime < MintimeUpdateSuccess`, no commit without
  contact.  `ContactInv` relates the two clocks: in a boot without contact the test clock is not
  ahead of the clock of the last contact, so that the fallback timer, which is looked at first,
  fires before the test ends.  The assumption holds for the default timers; the code does not
  enforce it (`timer.update.fallback.no.network` may be set to any value), and without it the test
  ends first and an image that never reached the controller is committed.
* `FailedIsRefused`: `RefusesFailed`, whatever the versions inside the images are.  `FailedInv` holds
  from a fallback until the controller asks for another version or changes the retry counter.  The
  restart has cleared the memory (`Down`), so configurations, jobs and results are of one version and a
  result that ended well has left its image in the partition (`OneVersion`); the saved counter is the
  one of the failure or the one asked for (`OneCounter`).  With the former (`Refused`) there are two
  cases.  The failed version is the one asked for: then it is still in the other partition, marked
  `inprogress`, and ZbootStatus says so, which is why `validatePartition` refuses it (`LeftAlone`).
  Or it is another one: then an image of that version that turns out to be the failed one is marked
  `unused`, because what was installed is read back.

`Attest_proofs`, for any set of nonces and number of restarts: `AttestTypes`, `QuoteAnswersNonce`,
`WaitsForOneThing`, `OnlyUnexpectedEventsKill`, `WaitIsWoken`, `CompletedIsEscrowed`.  None of these is
inductive, because a handler is entered with whatever event comes: `DriverInv` lists for each state
what may drive the machine on (an answer, the retry timer, or nothing) and says that it is there
once and nothing else is; `NonceInv` ties the nonce that is published to the quotes on their way,
`EscrowInv` the answer of the controller to the key.  `InitializeInv` counts the Initialize events,
the one exception: every surplus one was left behind by a restart request.

`EvalMgr_proofs`, for any number of slots, power failures and failed writes: `EvalTypes`,
`PassedSlotsStayBootable`, `BestSlotPassed`, `DeviceNotBricked`.  The invariant relates the three
records of the same fact at every point where power may fail: the GPT marks exactly the slots that
passed (`GptInv`), the file lags behind it (`FileInv`), the memory is ahead of the file by what the
present handler has not saved (`MemInv`), and a best slot is the one `selectBestSlot` would choose
again (`BestInv`).  `DeviceNotBricked` counts: each working image that cannot be booted any more has
cost a power failure (`LostInv`).

`PubSub_proofs`, for any keys, values, calls, faults and length of the wire: `PubTypes`,
`PubSubImplementsTopic` (the initial states and every step map to those of `Topic`),
`RestartComesAfterItems`.  `OrderInv` says that the items of a key are on the wire in the order of
their publication, ahead of what is still to be sent and behind what the subscriber has.
`AfterInv`, `PeerInv` and `SeenInv` follow a restart: what comes after it on the wire is not older
than it, and `serveConnection` knows what the subscriber will have when it has read the wire.  The
exception of `RestartAfterItems` is per key and per restart: a restart that precedes the connection, or
a key that was only replaced since, is not excused, so the order of the snapshot and the first restart
is part of what is proved.

`WorkerPool_proofs`, for any number of workers, keys and jobs: `PoolTypes`, `ResultsAreFound`,
`ResultChannelStaysOpen`.  The collector looks at two counters, not at the goroutines, so the proof
has to say that the counters tell where the jobs are (`FlowInv`, an equation over the job in hand,
the result in `mergeResult` and those in the channel), although a request is counted only after
the job was handed over.

`VolumeMgr_proofs`, for any number of content trees: `VolTypes`, `ReferencesMatch`,
`LoadedTreesInCAS`.  The invariant is a predicate of the struct, with a lemma for each function of
the handlers: references are counted (`Refs`, `RefCountInv`), an error of the verifier comes with the
reference that a retry gives back (`ErrorInv`), only a verified blob has trees beyond waiting
(`TreeInv`), and an image that is not `stale` is that of a tree that is there, with its blob in the CAS
(`ImageInv`): a deletion takes the image along, and a job makes one only when the CAS has the blob.

`DpcManager_proofs`, for any contents, DPCs, networks and bounds: `DpcTypes`, `WaitsHaveTimers`,
`TestingGoesOn`, `SwitchesAreTested`, `FallbackIsKept`.  `DpcInv` again is a predicate of the struct:
`Sound` (types; the list has a DPC once and one manual DPC at most), `Timers`, `Settled` (a manager at
rest is at a DPC that works, if there is one) and `Going` (a DPC under test may be tested, a manager
at rest has its timer).  `Settled` is what makes `FallbackKept` hold: an update that drops the
results of the last DPC that works meets the current one, which `compressDPCL` keeps.  The two
action properties rest on `Moves`, a relation between the struct before and after a handler.

The assumptions of these modules are those on the constants, which TLC evaluates on every run.

What the proofs changed.  Several properties held on the instances and were false: the attempt to
prove them showed the step, and a larger instance or a simulation confirmed it.  `RestartAfterItems`
lacked its second exception, `LoadedInCAS` the image made for a tree that was deleted, `TestGoesOn`,
`FallbackKept` and `SwitchIsTested` the unusable DPCs and radio silence; `SwitchIsTested` compares
DPCs by source and content, since a priority can be changed in place; `RefusesFailed` counted a retry
as unasked for when the controller takes its counter back before the device reboots; BaseOsMgr allowed
two configured versions, which the order of deletions in a topic excludes; and the answers of the
controller to an escrow overlapped in Attest.

Only model-checked: liveness under fairness (`Converges` of Attest and of PubSub, `EvaluationEnds`,
`AcceptedIsProcessed`, `Recovers`, `ReturnsToNewest`, `TestDecided`), which is beyond the prover.

## 5. Findings

`dpcmanager_delete`: the DPC under verification is deleted.  `doDelDPC`, unlike `doAddDPC`, does not
end the verification in progress, so `restartVerify` returns at once; `runVerify` later finds no
current DPC and returns without a timer.  No DPC of the list is ever tested again, until another one
is added or the device reboots.

### Observations

Other places where the code does something a doc, a comment or a test does not lead one to expect.
The configurations named here end with a violation of the property named; they can be run by hand.

* `MCAttestRestartRace.cfg`, `NoUnexpectedEvent`: a restart request between the expiry of the retry
  timer and the Initialize it sends makes two of them; the second meets a state without a row and
  stops zedagent.
* `MCAttestLostEscrow.cfg`, `EscrowWakeup`: a vault key that arrives between the check for it and the
  state that waits for it wakes nobody; the attestation waits for the next key or restart.
* `MCBaseOsBothActive.cfg`, `OtherActiveMeansTesting`: a power failure between the two GPT writes of
  a commit leaves both partitions active.  The device works, but every later update is deferred as
  if a test were going on.
* `MCBaseOsRetry.cfg`, `RetryOnlyWhenAsked`: a retry counter received during a test is ignored where
  a comment says it is recorded; after the fallback the image that failed is tried again.
* `MCBaseOsFallback.cfg`, `OneFallbackPerChange`: a power failure before the fallback counter is
  saved makes one change of the counter force two fallbacks.
* `MCBaseOsTwoJobs.cfg`, `OneJobPerKey`: the worker pool performs two jobs of the same key at once,
  which its documentation excludes.  baseosmgr is not harmed: both write the same image.
* `MCBaseOsTwoImages.cfg`, `TriedIsWhole`: an update that replaces one whose image is being written
  starts a second job, under another key, for the same partition.  A job that ended well while the
  other one wrote, and whose version is the one read back, has the partition marked for a try, with a
  mixture of two images in it.  The fallback is intact (`BosmFallbackSafe`).
* `MCEvalGate.cfg`, `OnboardingGate`: `reconcilePartitionStates` publishes an EvalStatus that is
  still zero (`reconcile.go:63`) before `evalmgr.go:77` fills it in.  A client that reads it then takes
  the platform for one without evaluation and onboards; `docs/evalmgr.md:124` says it waits.
* evalmgr: after a reset between `MarkBad` and the write of the file, or after a failed write in the
  handler of the stability timer, nothing goes on until the next reboot; a slot that counts as
  untried and is bad in the GPT is waited for in vain.
* PubSub: a key that is deleted while the connection is down stays in the subscriber's copy for good
  (`CopySynchronized` does not hold; `docs/IPC.md` calls the copy synchronized).  For the same reason
  a subscriber that reconnects may be told of a restart while it still has a key that was absent then.
  A restart that is signalled while the first snapshot is on its way may be announced before what
  precedes it (`RestartNeverEarly` does not hold), or not be sent.
* WorkerPool: a job that ends before `submitImpl` has noted its key leaves the key pending
  (`PendingIsInProgress` does not hold).  `Pool.Submit` is documented to wait when all workers are
  busy, and returns an error.  `lastUsed` is set in a copy of the worker only, so any idle worker may
  be collected.
* DpcManager: a change of interfaces updates `crucialIfs` before the old attributes are read and so
  never restarts the verification.  The early returns of `restartVerify` for radio silence and for
  the LPS leave the periodic test stopped.  Under an LPS override a new DPC of the controller is not
  verified.  `removeAllDPCbyKey` leaves `CurrentIndex` as it was, so that under an override it may
  point at another DPC that was never tested.
* `MCDpcUnusable.cfg`, `TestNeverStops`: a DPC without a usable management port "will be ignored", a
  comment says (`dpc.go:198`); it does end the verification in progress and takes the place of the
  DPC under test, and if the others failed recently no test is started again.
* `MCDpcRadioSilence.cfg`, `TestNeverStops`: radio silence that interrupts a verification leaves the
  state WwanWait of the DPC; `ProcessWwanStatus` then calls `runVerify`, which finds no verification
  in progress and does nothing, and the periodic test is stopped.
* DpcManager: an update of a DPC with the priority it has drops its results.  Under radio silence
  nothing is tested afterwards, and `compressDPCL` may remove the only DPC that worked.
* VolumeMgr: the CAS worker takes the first blob of its tree; if the blob was deleted before the job
  starts it panics (`fatal = "no_root_blob"`, which `RefsMatch` lets pass).  An image made by a late job
  for a tree that was deleted stays in the CAS, like one of an earlier boot until it is collected; if
  the tree comes again after the blob has left the CAS, the image and a late result can stand for a
  load (`stale` in `LoadedInCAS`; it takes five changes of the configuration and a boot that finds an
  image without its blob).  A late result also makes a blob LOADED that was created again after
  containerd has collected its content: the job for the image then fails, and the tree stays in
  LOADING with an error.  One failed verification
  of a blob with N trees uses up N retries.  A late status DOWNLOADED lets a file be verified while it
  is downloaded again (the verifier logs "XXX hits sometimes").  With two goroutines of an agent, one
  of a deleted configuration may delete the file or status of the configuration that came again.  A
  tree that was deferred in VERIFIED while the blob was LOADING stays so if that job failed.

## 6. Not modelled

The repository has about 190 000 lines of implementation.  The modules cover the control logic that
keeps a device bootable, reachable and supplied with images: about 9 000 lines, five per cent.  Most
of the rest is not of a kind that a model of this size says anything about: translation of the
controller's configuration and of status and metrics (zedagent), drivers of hypervisors, of the
kernel's network and of Kubernetes (`hypervisor`, `dpcreconciler`, `nireconciler`, `zedkube`), logging,
conversion and diagnosis.  Three components with control logic of their own are left for later: the
vault (unlock and wipe), zedmanager and domainmgr (life cycle of an application).

Of the modelled components the following is left out.

* Error texts, logging, metrics, the software state reported to the controller, encoding of
  messages, certificates and integrity tokens.
* The kubernetes drain before an update or reboot; maintenance mode; the shutdown operation, which
  leaves the device up.
* evalmgr: hardware inventories (the choice of the best slot does not look at them yet), the override
  file of onboarding, notes, countdowns.
* pubsub: subscriptions to a directory, persistent subscriptions, `Close`, large fields and limits on
  sizes.
* worker: `Peek` and `Done`, jobs without a key.  BaseOsMgr has its own coarser pool, without the
  collection of workers and with keys noted at once.
* dpcmanager: several ports in a DPC, changes of interfaces, geolocation, the publications of DNS and
  netdumps.  A changed wwan status restarts the verification only while a modem or radio silence is
  waited for (the code does so for any change, `wwan.go:82`); a configuration error of radio silence
  (`wwan.go:121`) and the test of `IsDPCTestable` for a clock that was set back (`types/dpc.go:562`) are
  left out.
* volumemgr: several blobs in a tree, tags, datastores, disk space, deferred deletion and volumes;
  downloader and verifier: the choice of a port and of a data store, the transfer itself.  A worker
  opens the file in the step in which it looks up the blob, and checks the blob in the step that makes
  the image.  Of two results of one tree that wait in two workers the later one is kept.
* GRUB and the installer are external apart from the gptprio patch.

## 7. Plan

1. **Vault**: unlock with the TPM key or the key from the controller, wipe only when that is allowed
   and no key can come any more; composed with Attest, which delivers the key.  Then zedmanager and
   domainmgr.
2. The pool inside BaseOsMgr and inside VolumeMgr as an abstraction that WorkerPool implements.
