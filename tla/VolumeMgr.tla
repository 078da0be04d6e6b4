----------------------------- MODULE VolumeMgr ------------------------------
(***************************************************************************)
(* How volumemgr gets a blob for its content trees: it asks the downloader *)
(* for the file, the verifier to check it, and a worker to load it into    *)
(* the content-addressed store (CAS) and to make the image of the tree.    *)
(*                                                                         *)
(* There is one blob, the only one of each content tree.  volumemgr's main *)
(* loop runs one handler at a time; the downloader and the verifier have a *)
(* goroutine per configuration they were given, and an old one may still   *)
(* be at work when the configuration is deleted and comes again.  The      *)
(* verifier's name for the file it verifies has an id of its own each      *)
(* time; it is one name here, "verifying".                                 *)
(*                                                                         *)
(* Configurations and statuses go through topics of pubsub.  A topic here  *)
(* is the sequence of the values of the key: the first is the subscriber's *)
(* copy, the last what is published, and what is between may or may not be *)
(* seen (module Topic, which PubSub implements).                           *)
(*                                                                         *)
(* Left out: several blobs in a tree and the manifests made for a bare     *)
(* blob, tags and their resolution, datastores that are not known yet, the *)
(* check of disk space, deferred deletion, and volumes.                    *)
(***************************************************************************)
EXTENDS Integers, Sequences, FiniteSets, SequencesExt

CONSTANTS
  Trees,       \* content trees
  Boots,       \* what a boot may find: "nothing", a file that was "verified", a blob "in_CAS"
  MaxRetries,  \* blob.download.max.retries
  MaxLag,      \* bound: values of a topic on their way
  MaxChanges,  \* bound: changes of the configuration of content trees
  MaxFails,    \* bound: downloads that fail or give a wrong file
  MaxHandlers  \* bound: goroutines of the downloader and of the verifier

ASSUME VolumeMgrAssumption ==
  /\ IsFiniteSet(Trees) /\ Boots \subseteq {"nothing", "verified", "in_CAS"}
  /\ MaxRetries \in Nat /\ MaxLag \in Nat \ {0} /\ MaxHandlers \in Nat \ {0}
  /\ MaxChanges \in Nat /\ MaxFails \in Nat

VARIABLES
  m,     \* volumemgr: content trees, the BlobStatus, jobs of the worker, what the CAS
         \* holds, and the topics DownloaderConfig (dc), VerifyImageConfig (vc),
         \* DownloaderStatus (ds) and VerifyImageStatus (vs)
  dg,    \* goroutines of the downloader, oldest first
  vg,    \* goroutines of the verifier, oldest first
  file,  \* the file in the directories of the downloader and of the verifier
  changes, fails, gced,
  stale  \* history: trees whose image, if any, is of an earlier boot, or was made after
         \* they were deleted

vars == <<m, dg, vg, file, changes, fails, gced, stale>>

None == [none |-> TRUE]

\* types.SwState, in its order
INITIAL == 0
DOWNLOADING == 1
DOWNLOADED == 2
VERIFYING == 3
VERIFIED == 4
LOADING == 5
LOADED == 6

TreeStates == {"none", "wait", "VERIFIED", "LOADING", "LOADING_with_error", "LOADED"}
Paths == {"", "target", "verifying", "verified"}
Contents == {"none", "part", "good", "bad"}

Blob == [state : INITIAL..LOADED, path : Paths, ref : 0..Cardinality(Trees), dref : BOOLEAN,
         vref : BOOLEAN, err : {"no", "DownloaderStatus", "VerifyImageStatus"}, retry : 0..MaxRetries]
DownloaderConfig == [ref : 0..1, last : Nat \ {0}]
DownloaderStatus == [ref : 0..1, exp : BOOLEAN, state : INITIAL..DOWNLOADED, err : BOOLEAN,
                     last : Nat, target : {"", "target"}]
VerifyImageConfig == [ref : 0..1, exp : BOOLEAN, path : Paths]
VerifyImageStatus == [ref : 0..1, exp : BOOLEAN, state : {VERIFYING, VERIFIED}, pend : BOOLEAN,
                      err : BOOLEAN, path : Paths]
Jobs == [t : Trees, at : {"queued", "write", "loaded", "image"}]
Results == [t : Trees, loaded : BOOLEAN, err : BOOLEAN]

TopicOf(S) == {q \in Seq(S \cup {None}) : Len(q) \in 1..(MaxLag + 1)}

-----------------------------------------------------------------------------
(* Topics                                                                  *)

Get(topic) == Last(topic)
Seen(topic) == Head(topic)

\* A value like the last one is not published; with MaxLag values on their way the
\* last of them is overtaken
Publish(topic, v) ==
  LET q == IF Len(topic) = MaxLag + 1 THEN Front(topic) ELSE topic
  IN  IF Last(topic) = v THEN topic ELSE IF Last(q) = v THEN q ELSE Append(q, v)

Unpublish(topic) == Publish(topic, None)

Deliveries(topic) == {SubSeq(topic, i, Len(topic)) : i \in 2..Len(topic)}

-----------------------------------------------------------------------------
(* volumemgr: references to configurations.  s is the value of m in a handler *)

Fatal(s, why) == [s EXCEPT !.fatal = why]

AddOrRefcountDownloaderConfig(s) ==
  LET c == Get(s.dc)
  IN  [s EXCEPT !.now = IF c = None THEN @ + 1 ELSE @,
                !.dc = Publish(@, IF c = None THEN [ref |-> 1, last |-> s.now]
                                  ELSE [c EXCEPT !.ref = @ + 1])]

MaybeRemoveDownloaderConfig(s) ==
  LET c == Get(s.dc)
  IN  IF c = None THEN s
      ELSE IF c.ref = 0 THEN Fatal(s, "DownloaderConfig")
      ELSE [s EXCEPT !.dc = Publish(@, [c EXCEPT !.ref = @ - 1]), !.blob.dref = FALSE]

retryDownload(s) ==
  LET c == Get(s.dc)
  IN  IF c = None THEN s
      ELSE [s EXCEPT !.now = @ + 1, !.dc = Publish(@, [c EXCEPT !.last = s.now])]

MaybeAddVerifyImageConfigBlob(s) ==
  LET c == Get(s.vc)
      n == IF c # None /\ ~c.exp THEN [c EXCEPT !.ref = @ + 1]
           ELSE [ref |-> 1 + IF c = None THEN 0 ELSE c.ref, exp |-> FALSE, path |-> s.blob.path]
  IN  [s EXCEPT !.vc = Publish(@, n)]

\* With deleteVerifyImageConfig
MaybeRemoveVerifyImageConfig(s) ==
  LET c == Get(s.vc)
  IN  IF c = None THEN s
      ELSE IF c.ref = 0 \/ (c.ref = 1 /\ c.exp) THEN Fatal(s, "VerifyImageConfig")
      ELSE [s EXCEPT !.vc = Publish(@, [c EXCEPT !.ref = @ - 1, !.exp = c.ref = 1]),
                     !.blob.vref = FALSE]

-----------------------------------------------------------------------------
(* volumemgr: the blob                                                     *)

NewBlob == [state |-> INITIAL, path |-> "", ref |-> 0, dref |-> FALSE, vref |-> FALSE,
            err |-> "no", retry |-> 0]

AtLeast(a, b) == IF a < b THEN b ELSE a

\* Mutant: a reference is taken whether or not the blob holds one
startBlobVerificationAgain(s) == [MaybeAddVerifyImageConfigBlob(s) EXCEPT !.blob.vref = TRUE]

startBlobVerification(s) ==
  IF s.blob.vref THEN s ELSE [MaybeAddVerifyImageConfigBlob(s) EXCEPT !.blob.vref = TRUE]

updateBlobFromVerifyImageStatus(st, b) ==
  LET c == [b EXCEPT !.state = AtLeast(@, st.state),
                     !.err = IF st.err THEN "VerifyImageStatus"
                             ELSE IF @ = "VerifyImageStatus" THEN "no" ELSE @]
  IN  IF st.err \/ st.pend THEN c ELSE [c EXCEPT !.path = st.path]

usableStatus(s) == Seen(s.vs) # None /\ ~Seen(s.vs).exp

lookupOrCreateBlobStatus(s) ==
  IF s.blob # None \/ ~usableStatus(s) THEN s
  ELSE LET st == Seen(s.vs)
           b == [NewBlob EXCEPT !.state = st.state, !.path = st.path]
       IN  startBlobVerification([s EXCEPT !.blob = updateBlobFromVerifyImageStatus(st, b)])

verifyBlob(s) ==
  startBlobVerification(
    [s EXCEPT !.blob = IF usableStatus(s)
                       THEN updateBlobFromVerifyImageStatus(Seen(s.vs), s.blob)
                       ELSE [s.blob EXCEPT !.state = AtLeast(@, VERIFYING)]])

\* What the blob takes over from a valid DownloaderStatus
updateBlobFromDownloaderStatus(st, b) ==
  [b EXCEPT !.state = st.state,
            !.path = IF @ = "" THEN st.target ELSE @,
            !.err = IF st.err THEN "DownloaderStatus"
                    ELSE IF @ = "DownloaderStatus" THEN "no" ELSE @]

holdDownloaderRef(s) ==
  IF s.blob.dref THEN s ELSE [AddOrRefcountDownloaderConfig(s) EXCEPT !.blob.dref = TRUE]

followDownload(s) ==
  LET st == Seen(s.ds)
  IN  IF st = None \/ st.exp \/ st.ref = 0 THEN [s EXCEPT !.blob.state = DOWNLOADING]
      ELSE IF st.state = DOWNLOADED /\ ~st.err
      THEN verifyBlob([s EXCEPT !.blob = updateBlobFromDownloaderStatus(st, s.blob)])
      ELSE [s EXCEPT !.blob = updateBlobFromDownloaderStatus(st, s.blob)]

downloadBlob(s) == followDownload(holdDownloaderRef(s))

dropDownloaderRef(s) == IF s.blob.dref THEN MaybeRemoveDownloaderConfig(s) ELSE s
dropVerifierRef(s) == IF s.blob.vref THEN MaybeRemoveVerifyImageConfig(s) ELSE s

\* Mutant: the reference to the VerifyImageConfig is kept
unpublishBlobStatusOfDownload(s) ==
  [dropDownloaderRef(s) EXCEPT !.cas = @ /\ s.blob.state # LOADED, !.blob = None]

unpublishBlobStatus(s) ==
  [dropVerifierRef(dropDownloaderRef(s)) EXCEPT !.cas = @ /\ s.blob.state # LOADED, !.blob = None]

AddRefToBlobStatus(s) == [s EXCEPT !.blob.ref = @ + 1]

RemoveRefFromBlobStatus(s) ==
  IF s.blob.ref = 0 THEN Fatal(s, "BlobStatus")
  ELSE IF s.blob.ref = 1 THEN unpublishBlobStatus([s EXCEPT !.blob.ref = 0])
  ELSE [s EXCEPT !.blob.ref = @ - 1]

-----------------------------------------------------------------------------
(* volumemgr: a content tree                                               *)

\* A blob that failed verification is downloaded again
retryBlob(s) ==
  [retryDownload(MaybeRemoveVerifyImageConfig(s)) EXCEPT
     !.blob.retry = @ + 1, !.blob.state = DOWNLOADING, !.blob.err = "no"]

downloadIfNeeded(s) == IF s.blob.state <= DOWNLOADING THEN downloadBlob(s) ELSE s
verifyIfNeeded(s) == IF s.blob.state \in {DOWNLOADED, VERIFYING} THEN verifyBlob(s) ELSE s

treeFollowsBlob(s, t) ==
  IF s.blob.err = "VerifyImageStatus" /\ s.blob.retry < MaxRetries THEN retryBlob(s)
  ELSE IF s.blob.err = "no" /\ s.blob.state >= VERIFIED THEN [s EXCEPT !.tree[t] = "VERIFIED"]
  ELSE s

updateBlob(s, t) ==
  IF s.blob = None THEN s ELSE treeFollowsBlob(verifyIfNeeded(downloadIfNeeded(s)), t)

\* The part of doUpdateContentTree for a tree that is not verified
updateBlobs(s, t) == updateBlob(lookupOrCreateBlobStatus(s), t)

\* With AddWorkLoad.  A job of the tree may still be at work: another worker can take
\* this one
startLoading(s, t) ==
  IF s.blob.state = LOADING THEN s
  ELSE [s EXCEPT !.blob.state = IF @ = VERIFIED THEN LOADING ELSE @,
                 !.tree[t] = "LOADING",
                 !.jobs = Append(@, [t |-> t, at |-> "queued"])]

dropReferences(s) ==
  [dropVerifierRef(dropDownloaderRef(s)) EXCEPT !.blob.path = IF s.blob.vref THEN "" ELSE @]

\* Mutant: the image is not looked up in the CAS
finishLoadingOfBlob(s, t) ==
  IF s.kept[t] = "error" THEN [s EXCEPT !.kept[t] = "none", !.tree[t] = "LOADING_with_error"]
  ELSE IF s.blob.state # LOADED THEN [s EXCEPT !.kept[t] = "none"]
  ELSE [dropReferences(s) EXCEPT !.kept[t] = "none", !.tree[t] = "LOADED"]

finishLoading(s, t) ==
  IF s.kept[t] = "error" THEN [s EXCEPT !.kept[t] = "none", !.tree[t] = "LOADING_with_error"]
  ELSE IF s.blob.state # LOADED THEN [s EXCEPT !.kept[t] = "none"]
  ELSE [dropReferences(s) EXCEPT !.kept[t] = "none",
                                 !.tree[t] = IF t \in s.images THEN "LOADED" ELSE @]

loadIfVerified(s, t) == IF s.tree[t] = "VERIFIED" THEN startLoading(s, t) ELSE s

doUpdateContentTree(s, t) ==
  IF s.tree[t] \in {"LOADING", "LOADING_with_error"} THEN finishLoading(s, t)
  ELSE loadIfVerified(IF s.tree[t] = "wait" THEN updateBlobs(s, t) ELSE s, t)

\* The orders in which GetAll may give the content trees: it has none
Orders ==
  LET T == {t \in Trees : m.tree[t] # "none"}
  IN  {q \in [1..Cardinality(T) -> T] : \A t \in T : \E i \in DOMAIN q : q[i] = t}

updateStatusByBlob(s, order) ==
  LET after[i \in 0..Len(order)] ==
        IF i = 0 THEN s ELSE doUpdateContentTree(after[i - 1], order[i])
  IN  after[Len(order)]

orNewBlob(s) == IF s.blob = None THEN [s EXCEPT !.blob = NewBlob] ELSE s

createContentTreeStatus(s, t) ==
  [AddRefToBlobStatus(orNewBlob(lookupOrCreateBlobStatus(s))) EXCEPT !.tree[t] = "wait"]

doDeleteContentTree(s, t) ==
  [(IF s.blob = None THEN s ELSE RemoveRefFromBlobStatus(s)) EXCEPT
     !.images = @ \ {t}, !.tree[t] = "none"]

-----------------------------------------------------------------------------
(* volumemgr: the handlers                                                 *)

Running == m.fatal = "no"

handleContentTreeCreate(t) ==
  /\ Running /\ m.tree[t] = "none" /\ changes < MaxChanges
  /\ m' = doUpdateContentTree(createContentTreeStatus(m, t), t)
  /\ changes' = changes + 1
  /\ UNCHANGED <<dg, vg, file, fails, gced, stale>>

\* A change of what the content is deletes the tree first, and counts as two changes
handleContentTreeModify(t) ==
  /\ Running /\ m.tree[t] # "none"
  /\ \/ /\ changes < MaxChanges /\ changes' = changes + 1 /\ UNCHANGED stale
        /\ m' = doUpdateContentTree(m, t)
     \/ /\ changes + 1 < MaxChanges /\ changes' = changes + 2 /\ stale' = stale \ {t}
        /\ m' = doUpdateContentTree(createContentTreeStatus(doDeleteContentTree(m, t), t), t)
  /\ UNCHANGED <<dg, vg, file, fails, gced>>

handleContentTreeDelete(t) ==
  /\ Running /\ m.tree[t] # "none" /\ changes < MaxChanges
  /\ m' = doDeleteContentTree(m, t)
  /\ changes' = changes + 1 /\ stale' = stale \ {t}
  /\ UNCHANGED <<dg, vg, file, fails, gced>>

unpublishUnused(s) ==
  IF Get(s.dc) # None /\ Get(s.dc).ref = 0 THEN [s EXCEPT !.dc = Unpublish(@)] ELSE s

handleDownloaderStatus(s, order) ==
  LET st == Seen(s.ds)
  IN  IF st # None /\ st.exp /\ Get(s.dc) # None /\ Get(s.dc).ref = 0 THEN unpublishUnused(s)
      ELSE IF st = None THEN unpublishUnused(updateStatusByBlob(s, order))
      ELSE updateStatusByBlob(s, order)

unpublishExpired(s) ==
  LET c == Get(s.vc)
  IN  IF Seen(s.vs) # None /\ Seen(s.vs).exp /\ c # None /\ c.ref = 0 /\ c.exp
      THEN [s EXCEPT !.vc = Unpublish(@)] ELSE s

handleVerifyImageStatus(s, order) ==
  LET st == Seen(s.vs)
  IN  IF st # None /\ st.ref = 0 /\ Get(s.vc) = None
      THEN [s EXCEPT !.vc = Publish(@, [ref |-> 0, exp |-> FALSE, path |-> st.path])]
      ELSE IF st # None /\ st.pend THEN unpublishExpired(s)
      ELSE updateStatusByBlob(unpublishExpired(s), order)

\* pubsub calls a handler for a value that differs from the one before
downloaderStatusArrives ==
  /\ Running
  /\ \E q \in Deliveries(m.ds), order \in Orders :
       m' = IF Seen(q) = Seen(m.ds) THEN [m EXCEPT !.ds = q]
            ELSE handleDownloaderStatus([m EXCEPT !.ds = q], order)
  /\ UNCHANGED <<dg, vg, file, changes, fails, gced, stale>>

verifyImageStatusArrives ==
  /\ Running
  /\ \E q \in Deliveries(m.vs), order \in Orders :
       m' = IF Seen(q) = Seen(m.vs) THEN [m EXCEPT !.vs = q]
            ELSE handleVerifyImageStatus([m EXCEPT !.vs = q], order)
  /\ UNCHANGED <<dg, vg, file, changes, fails, gced, stale>>

\* The results of different workers come in any order
processCasIngestWorkResult(i) ==
  /\ Running
  /\ LET r == m.results[i]
         a == [m EXCEPT !.results = RemoveAt(@, i), !.kept[r.t] = IF r.err THEN "error" ELSE "ok",
                        !.blob = IF m.blob # None /\ r.loaded THEN [m.blob EXCEPT !.state = LOADED]
                                 ELSE m.blob]
     IN  \E order \in Orders : m' = updateStatusByBlob(a, order)
  /\ UNCHANGED <<dg, vg, file, changes, fails, gced, stale>>

gcUnusedInitObjects ==
  /\ Running /\ ~gced
  /\ LET a == IF m.blob # None /\ m.blob.state = LOADED /\ m.blob.ref = 0
              THEN unpublishBlobStatus(m) ELSE m
         c == Get(a.vc)
         b == IF c # None /\ c.ref = 0 /\ ~c.exp
              THEN [a EXCEPT !.vc = Publish(@, [c EXCEPT !.exp = TRUE])] ELSE a
     IN  m' = [b EXCEPT !.images = {t \in @ : m.tree[t] # "none"}]
  /\ gced' = TRUE /\ stale' = stale \cap m'.images
  /\ UNCHANGED <<dg, vg, file, changes, fails>>

-----------------------------------------------------------------------------
(* The workers, beside the main loop: a job at each place where the main   *)
(* loop may come between                                                   *)

jobEnds(i, loaded, err) ==
  [m EXCEPT !.jobs = RemoveAt(@, i),
            !.results = Append(@, [t |-> m.jobs[i].t, loaded |-> loaded, err |-> err])]

\* TrySubmit refuses the job: its key is pending in a worker asked before an idle one,
\* or all workers are busy, with other jobs too
jobRefused(i) ==
  /\ m.jobs[i].at = "queued"
  /\ m' = [m EXCEPT !.jobs = RemoveAt(@, i)]
  /\ UNCHANGED <<dg, vg, file, changes, fails, gced, stale>>

\* The blob is looked up, and its file opened if it is to be loaded
casIngestWorker(i) ==
  /\ m.jobs[i].at = "queued"
  /\ m' = IF m.blob = None THEN Fatal(m, "no_root_blob")
          ELSE IF m.blob.state # LOADING THEN [m EXCEPT !.jobs[i].at = "image"]
          ELSE IF m.blob.path # "" /\ file[m.blob.path] = "good"
          THEN [m EXCEPT !.jobs[i].at = "write"]
          ELSE jobEnds(i, FALSE, TRUE)
  /\ UNCHANGED <<dg, vg, file, changes, fails, gced, stale>>

IngestBlob(i) ==
  /\ m.jobs[i].at = "write"
  /\ m' = [m EXCEPT !.jobs[i].at = "loaded", !.cas = TRUE]
  /\ UNCHANGED <<dg, vg, file, changes, fails, gced, stale>>

\* CreateImage or ReplaceImage, for which the CAS must have the blob
CreateImage(i) ==
  /\ m.jobs[i].at \in {"loaded", "image"} /\ m.cas
  /\ LET t == m.jobs[i].t
     IN  /\ m' = [jobEnds(i, m.jobs[i].at = "loaded", FALSE) EXCEPT !.images = @ \cup {t}]
         /\ stale' = IF m.tree[t] = "none" THEN stale \cup {t} ELSE stale \ {t}
  /\ UNCHANGED <<dg, vg, file, changes, fails, gced>>

ingestFails(i) ==
  /\ m.jobs[i].at # "queued"
  /\ IF m.jobs[i].at # "write" /\ ~m.cas THEN UNCHANGED fails
     ELSE fails < MaxFails /\ fails' = fails + 1
  /\ m' = jobEnds(i, FALSE, TRUE)
  /\ UNCHANGED <<dg, vg, file, changes, gced, stale>>

\* containerd removes a blob that has neither an image nor a lease
containerdGC ==
  /\ m.cas /\ m.images = {} /\ \A i \in DOMAIN m.jobs : m.jobs[i].at # "loaded"
  /\ m' = [m EXCEPT !.cas = FALSE]
  /\ UNCHANGED <<dg, vg, file, changes, fails, gced, stale>>

-----------------------------------------------------------------------------
(* downloader                                                              *)

\* The main loop hands changes of the configuration to the goroutine of the key; a
\* closed goroutine is one whose configuration was deleted
open(gs) == gs # <<>> /\ ~Last(gs).closed
notified(gs) == [gs EXCEPT ![Len(gs)].note = TRUE]
closing(gs) == [gs EXCEPT ![Len(gs)].closed = TRUE]
cancelled(gs) == [gs EXCEPT ![Len(gs)].pc = IF @ = "transfer" THEN "cancelled" ELSE @]

NewHandler == [note |-> TRUE, closed |-> FALSE, pc |-> "idle", st |-> None]

dispatch(gs, topic) ==
  IF Seen(topic) = None THEN IF open(gs) THEN cancelled(closing(gs)) ELSE gs
  ELSE IF ~open(gs) THEN Append(gs, NewHandler)
  ELSE IF Seen(topic).ref = 0 THEN cancelled(notified(gs))
  ELSE notified(gs)

downloaderConfigArrives ==
  /\ \E q \in Deliveries(m.dc) :
       /\ m' = [m EXCEPT !.dc = q]
       /\ dg' = IF Seen(q) = Seen(m.dc) THEN dg ELSE dispatch(dg, q)
  /\ Len(dg') <= MaxHandlers
  /\ UNCHANGED <<vg, file, changes, fails, gced, stale>>

\* doDownload up to the transfer; without a reference it is put off with an error
beginDownload(i, c, st) ==
  IF c.ref = 0
  THEN /\ m' = [m EXCEPT !.ds = Publish(@, [st EXCEPT !.err = TRUE])]
       /\ dg' = [dg EXCEPT ![i].note = FALSE]
       /\ UNCHANGED file
  ELSE \E n \in {[st EXCEPT !.state = DOWNLOADING, !.target = "target"]} :
         /\ m' = [m EXCEPT !.ds = Publish(@, n)]
         /\ dg' = [dg EXCEPT ![i].note = FALSE, ![i].pc = "transfer", ![i].st = n]
         /\ file' = [file EXCEPT !["target"] = "part"]

NewStatus(c) == [ref |-> c.ref, exp |-> FALSE, state |-> DOWNLOADING, err |-> FALSE,
                 last |-> 0, target |-> ""]

\* handleCreate and handleModify
downloadHandler(i) ==
  /\ dg[i].pc = "idle" /\ dg[i].note
  /\ LET c == Seen(m.dc)
         st == Get(m.ds)
     IN  IF c = None THEN dg' = [dg EXCEPT ![i].note = FALSE] /\ UNCHANGED <<m, file>>
         ELSE IF st = None THEN beginDownload(i, c, NewStatus(c))
         ELSE IF c.ref # 0 /\ (st.err \/ st.state # DOWNLOADED \/ st.last # c.last)
         THEN beginDownload(i, c, [st EXCEPT !.last = c.last, !.ref = c.ref, !.exp = FALSE,
                                             !.state = DOWNLOADING, !.err = FALSE])
         ELSE /\ m' = [m EXCEPT !.ds = Publish(@, [st EXCEPT !.ref = c.ref, !.exp = c.ref = 0])]
              /\ dg' = [dg EXCEPT ![i].note = FALSE]
              /\ UNCHANGED file
  /\ UNCHANGED <<vg, changes, fails, gced, stale>>

\* The end of doDownload.  A file that the verifier moved away meanwhile is completed
\* where it is
endOfTransfer(i, ok, content) ==
  /\ m' = [m EXCEPT !.ds = Publish(@, [dg[i].st EXCEPT !.err = ~ok,
                                         !.state = IF ok THEN DOWNLOADED ELSE @])]
  /\ file' = [p \in DOMAIN file |-> IF ok /\ file[p] = "part" THEN content ELSE file[p]]

endDownload(i) ==
  /\ dg[i].pc \in {"transfer", "cancelled"}
  /\ \/ endOfTransfer(i, TRUE, "good") /\ UNCHANGED fails
     \/ /\ fails < MaxFails /\ fails' = fails + 1
        /\ endOfTransfer(i, FALSE, "part") \/ endOfTransfer(i, TRUE, "bad")
     \/ /\ dg[i].pc = "cancelled"
        /\ endOfTransfer(i, FALSE, "part") /\ UNCHANGED fails
  /\ dg' = [dg EXCEPT ![i].pc = "idle", ![i].st = None]
  /\ UNCHANGED <<vg, changes, gced, stale>>

maybeRetryDownload(i) ==
  /\ dg[i].pc = "idle" /\ Get(m.ds) # None /\ Get(m.ds).err
  /\ Seen(m.dc) # None /\ Seen(m.dc).ref # 0
  /\ beginDownload(i, Seen(m.dc), Get(m.ds))
  /\ UNCHANGED <<vg, changes, fails, gced, stale>>

downloadDelete(i) ==
  /\ dg[i].pc = "idle" /\ dg[i].closed /\ ~dg[i].note
  /\ dg' = RemoveAt(dg, i)
  /\ m' = [m EXCEPT !.ds = IF Get(@) = None THEN @
                              ELSE Unpublish(Publish(@, [Get(@) EXCEPT !.state = INITIAL]))]
  /\ file' = IF Get(m.ds) # None /\ Get(m.ds).target = "target"
             THEN [file EXCEPT !["target"] = "none"] ELSE file
  /\ UNCHANGED <<vg, changes, fails, gced, stale>>

-----------------------------------------------------------------------------
(* verifier                                                                *)

verifyImageConfigArrives ==
  /\ \E q \in Deliveries(m.vc) :
       /\ m' = [m EXCEPT !.vc = q]
       /\ vg' = IF Seen(q) = Seen(m.vc) THEN vg ELSE dispatch(vg, q)
  /\ Len(vg') <= MaxHandlers
  /\ UNCHANGED <<dg, file, changes, fails, gced, stale>>

\* handleModify, and handleCreate up to the move of the file.  A goroutine that is
\* verifying works with the status and the file name it began with
verifyHandler(i) ==
  /\ vg[i].pc = "idle" /\ vg[i].note
  /\ LET c == Seen(m.vc)
         st == Get(m.vs)
         n == [ref |-> c.ref, exp |-> FALSE, state |-> VERIFYING, pend |-> TRUE, err |-> FALSE,
               path |-> ""]
     IN  IF c = None THEN vg' = [vg EXCEPT ![i].note = FALSE] /\ UNCHANGED m
         ELSE IF st = None
         THEN /\ m' = [m EXCEPT !.vs = Publish(@, n)]
              /\ vg' = [vg EXCEPT ![i].note = FALSE, ![i].pc = "mark",
                                  ![i].st = [n EXCEPT !.path = c.path]]
         ELSE /\ m' = [m EXCEPT !.vs = Publish(@, [st EXCEPT !.ref = c.ref, !.exp = c.exp])]
              /\ vg' = [vg EXCEPT ![i].note = FALSE]
  /\ UNCHANGED <<dg, file, changes, fails, gced, stale>>

verificationFailed(i, path) ==
  /\ m' = [m EXCEPT !.vs = Publish(@, [vg[i].st EXCEPT !.path = path, !.pend = FALSE, !.err = TRUE])]
  /\ vg' = [vg EXCEPT ![i].pc = "idle", ![i].st = None]

MarkObjectAsVerifying(i) ==
  /\ vg[i].pc = "mark"
  /\ LET from == vg[i].st.path
         n == [vg[i].st EXCEPT !.path = "verifying"]
     IN  IF from = "" \/ file[from] = "none" THEN verificationFailed(i, "") /\ UNCHANGED file
         ELSE /\ file' = [file EXCEPT ![from] = "none", !["verifying"] = file[from]]
              /\ m' = [m EXCEPT !.vs = Publish(@, n)]
              /\ vg' = [vg EXCEPT ![i].pc = "verify", ![i].st = n]
  /\ UNCHANGED <<dg, changes, fails, gced, stale>>

\* With MarkObjectAsVerified
VerifyObjectSha(i) ==
  /\ vg[i].pc = "verify"
  /\ IF file["verifying"] # "good" THEN verificationFailed(i, "verifying") /\ UNCHANGED file
     ELSE /\ file' = [file EXCEPT !["verifying"] = "none", !["verified"] = "good"]
          /\ m' = [m EXCEPT !.vs = Publish(@, [vg[i].st EXCEPT !.state = VERIFIED, !.pend = FALSE,
                                                               !.path = "verified"])]
          /\ vg' = [vg EXCEPT ![i].pc = "idle", ![i].st = None]
  /\ UNCHANGED <<dg, changes, fails, gced, stale>>

verifyDelete(i) ==
  /\ vg[i].pc = "idle" /\ vg[i].closed /\ ~vg[i].note
  /\ vg' = RemoveAt(vg, i)
  /\ m' = [m EXCEPT !.vs = Unpublish(@)]
  /\ file' = IF Get(m.vs) = None \/ Get(m.vs).path = "" THEN file
             ELSE [file EXCEPT ![Get(m.vs).path] = "none"]
  /\ UNCHANGED <<dg, changes, fails, gced, stale>>

-----------------------------------------------------------------------------

\* After a boot: populateExistingVolumes and handleInitVerifiedObjects.  The images of
\* earlier boots are in the CAS, whether or not their trees and blobs are gone
Init ==
  /\ \E boot \in Boots, left \in SUBSET Trees :
       /\ m = [tree |-> [t \in Trees |-> "none"],
               blob |-> IF boot = "in_CAS" THEN [NewBlob EXCEPT !.state = LOADED] ELSE None,
               dc |-> <<None>>, vc |-> <<None>>, ds |-> <<None>>,
               vs |-> Publish(<<None>>, IF boot # "verified" THEN None
                        ELSE [ref |-> 0, exp |-> FALSE, state |-> VERIFIED, pend |-> FALSE,
                              err |-> FALSE, path |-> "verified"]),
               jobs |-> <<>>, results |-> <<>>, kept |-> [t \in Trees |-> "none"],
               cas |-> boot = "in_CAS", images |-> left, now |-> 1, fatal |-> "no"]
       /\ file = [p \in Paths \ {""} |->
                    IF p = "verified" /\ boot = "verified" THEN "good" ELSE "none"]
       /\ stale = left
  /\ dg = <<>> /\ vg = <<>>
  /\ changes = 0 /\ fails = 0 /\ gced = FALSE

Agents ==
  \/ downloaderStatusArrives \/ verifyImageStatusArrives
  \/ downloaderConfigArrives \/ verifyImageConfigArrives
  \/ \E i \in DOMAIN m.results : processCasIngestWorkResult(i)
  \/ \E i \in DOMAIN m.jobs : \/ jobRefused(i) \/ casIngestWorker(i) \/ IngestBlob(i)
                              \/ CreateImage(i) \/ ingestFails(i)
  \/ containerdGC
  \/ \E i \in DOMAIN dg : \/ downloadHandler(i) \/ endDownload(i)
                          \/ maybeRetryDownload(i) \/ downloadDelete(i)
  \/ \E i \in DOMAIN vg : \/ verifyHandler(i) \/ MarkObjectAsVerifying(i)
                          \/ VerifyObjectSha(i) \/ verifyDelete(i)

\* (A Fatal ends it: the watchdog reboots the device.)
Next ==
  \/ Running /\ Agents
  \/ gcUnusedInitObjects
  \/ \E t \in Trees : \/ handleContentTreeCreate(t) \/ handleContentTreeModify(t)
                      \/ handleContentTreeDelete(t)

Spec == Init /\ [][Next]_vars

-----------------------------------------------------------------------------
(* Properties                                                              *)

\* The records stay of their types; a RefCount of a configuration is never above 1.
VolTypeOK ==
  /\ m.tree \in [Trees -> TreeStates] /\ m.blob \in Blob \cup {None}
  /\ m.dc \in TopicOf(DownloaderConfig) /\ m.vc \in TopicOf(VerifyImageConfig)
  /\ m.ds \in TopicOf(DownloaderStatus) /\ m.vs \in TopicOf(VerifyImageStatus)
  /\ m.jobs \in Seq(Jobs) /\ m.results \in Seq(Results) /\ m.images \subseteq Trees
  /\ file \in [Paths \ {""} -> Contents]

Count(c) == IF c = None THEN 0 ELSE c.ref

\* Every reference is counted and given back once: the RefCount of the blob is the
\* number of content trees, that of each configuration whether the blob holds a
\* reference (HasDownloaderRef, HasVerifierRef), through cancelled, failed and repeated
\* downloads and whatever statuses are late; so no release meets a RefCount of 0, which
\* MaybeRemoveDownloaderConfig, MaybeRemoveVerifyImageConfig and
\* RemoveRefFromBlobStatus answer with log.Fatalf.
RefsMatch ==
  /\ m.fatal \in {"no", "no_root_blob"}
  /\ Running => /\ Count(Get(m.dc)) = IF m.blob # None /\ m.blob.dref THEN 1 ELSE 0
                /\ Count(Get(m.vc)) = IF m.blob # None /\ m.blob.vref THEN 1 ELSE 0
                /\ Count(m.blob) = Cardinality({t \in Trees : m.tree[t] # "none"})

\* A content tree is LOADED only when the CAS has its image and the blob, although a
\* worker may be anywhere in its job when trees and the blob are deleted and come again,
\* two workers may have jobs of one tree, and a result may be that of a job for a tree of
\* before.  Not covered are images that were there at the boot and images made while
\* the tree was deleted (nobody removes those: processCasIngestWorkResult does not clean
\* up as processVolumeWorkResult does).  When the tree of such an image comes again after
\* the blob has left the CAS, a late result can make the blob LOADED and the image stand
\* for a load.
LoadedInCAS ==
  \A t \in Trees : m.tree[t] = "LOADED" => t \in m.images /\ (m.cas \/ t \in stale)
=============================================================================
