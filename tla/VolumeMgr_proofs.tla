-------------------------- MODULE VolumeMgr_proofs --------------------------
(***************************************************************************)
(* Proofs about the way of a blob into the CAS, for any number of content  *)
(* trees and any bounds: the types, that every reference is given back     *)
(* exactly once, and that a content tree is LOADED only with its image and *)
(* blob in the CAS.                                                        *)
(*                                                                         *)
(* The handlers of volumemgr are functions from the manager's record to    *)
(* its next value, so the invariant is a predicate of such a record, and   *)
(* there is a lemma for each function.                                     *)
(***************************************************************************)
EXTENDS VolumeMgr, FiniteSetTheorems, SequenceTheorems, WellFoundedInduction, TLAPS

USE VolumeMgrAssumption

-----------------------------------------------------------------------------
(* The inductive invariant *)

\* The values of m
Managers ==
  [tree : [Trees -> TreeStates], blob : Blob \cup {None},
   dc : TopicOf(DownloaderConfig), vc : TopicOf(VerifyImageConfig),
   ds : TopicOf(DownloaderStatus), vs : TopicOf(VerifyImageStatus),
   jobs : Seq(Jobs), results : Seq(Results), kept : [Trees -> {"none", "ok", "error"}],
   cas : BOOLEAN, images : SUBSET Trees, now : Nat \ {0}, fatal : {"no", "no_root_blob"}]

\* A configuration counts the reference of the blob; one that expires has none
Refs(s) ==
  /\ Count(Get(s.dc)) = IF s.blob # None /\ s.blob.dref THEN 1 ELSE 0
  /\ Count(Get(s.vc)) = IF s.blob # None /\ s.blob.vref THEN 1 ELSE 0
  /\ Get(s.vc) # None /\ Get(s.vc).ref = 1 => ~Get(s.vc).exp

\* What the verifier found wrong came with the reference that retryBlob gives back
ErrorInv(s) == s.blob # None /\ s.blob.err = "VerifyImageStatus" => s.blob.vref

\* Only a blob that is verified, without error, has trees beyond the waiting
TreeInv(s) ==
  (\E t \in Trees : s.tree[t] \notin {"none", "wait"})
    => s.blob # None /\ s.blob.state >= VERIFIED /\ s.blob.err = "no"

Live(s) == {t \in Trees : s.tree[t] # "none"}
RefCountInv(s) == Count(s.blob) = Cardinality(Live(s))

LoadedInv(s) == \A t \in Trees : s.tree[t] = "LOADED" => t \in s.images

Good(s) ==
  s \in Managers /\ Refs(s) /\ ErrorInv(s) /\ TreeInv(s) /\ RefCountInv(s) /\ LoadedInv(s)

\* An image that is not stale is of a tree that is there, and the CAS has the blob
ImageInv == \A t \in m.images \ stale : t \in Live(m) /\ m.cas

\* A goroutine at work has the status it works with
DownloadGoroutine ==
  {g \in [note : BOOLEAN, closed : BOOLEAN, pc : {"idle", "transfer", "cancelled"},
          st : DownloaderStatus \cup {None}] : g.pc # "idle" => g.st # None}
VerifyGoroutine ==
  {g \in [note : BOOLEAN, closed : BOOLEAN, pc : {"idle", "mark", "verify"},
          st : VerifyImageStatus \cup {None}] : g.pc # "idle" => g.st # None}

AgentInv ==
  /\ dg \in Seq(DownloadGoroutine) /\ vg \in Seq(VerifyGoroutine)
  /\ file \in [Paths \ {""} -> Contents]

VolInv == Good(m) /\ ImageInv /\ AgentInv

-----------------------------------------------------------------------------
(* Topics *)

\* None is no value of a topic and no blob
LEMMA NoneIsNoValue ==
  /\ None \notin Blob /\ None \notin DownloaderConfig /\ None \notin VerifyImageConfig
  /\ None \notin DownloaderStatus /\ None \notin VerifyImageStatus
<1>1. DOMAIN None = {"none"}
  BY DEF None
<1>2. \A b \in Blob : "state" \in DOMAIN b
  BY DEF Blob
<1>3. \A c \in DownloaderConfig : "ref" \in DOMAIN c
  BY DEF DownloaderConfig
<1>4. \A c \in VerifyImageConfig : "ref" \in DOMAIN c
  BY DEF VerifyImageConfig
<1>5. \A c \in DownloaderStatus : "ref" \in DOMAIN c
  BY DEF DownloaderStatus
<1>6. \A c \in VerifyImageStatus : "ref" \in DOMAIN c
  BY DEF VerifyImageStatus
<1>7. QED
  BY <1>1, <1>2, <1>3, <1>4, <1>5, <1>6

\* What a subscriber and the publisher have of a topic is a value of it
LEMMA TopicValues ==
  ASSUME NEW S, NEW topic \in TopicOf(S)
  PROVE  /\ topic \in Seq(S \cup {None}) /\ Len(topic) \in 1..(MaxLag + 1)
         /\ Get(topic) \in S \cup {None} /\ Seen(topic) \in S \cup {None}
<1>1. topic \in Seq(S \cup {None}) /\ Len(topic) \in 1..(MaxLag + 1)
  BY DEF TopicOf
<1>2. QED
  BY <1>1, ElementOfSeq DEF Get, Seen, Last

\* After a publication the publisher has the new value, whether or not values are overtaken
LEMMA Published ==
  ASSUME NEW S, NEW topic \in TopicOf(S), NEW v \in S \cup {None}
  PROVE  Publish(topic, v) \in TopicOf(S) /\ Get(Publish(topic, v)) = v
<1> DEFINE q == IF Len(topic) = MaxLag + 1 THEN Front(topic) ELSE topic
<1>1. topic \in Seq(S \cup {None}) /\ Len(topic) \in 1..(MaxLag + 1) /\ MaxLag \in Nat \ {0}
  BY DEF TopicOf
<1>2. q \in Seq(S \cup {None}) /\ Len(q) \in 1..MaxLag
  <2>1. CASE Len(topic) = MaxLag + 1
    <3>1. \A i \in 1..(Len(topic) - 1) : topic[i] \in S \cup {None}
      BY <1>1, ElementOfSeq
    <3>2. SubSeq(topic, 1, Len(topic) - 1) \in Seq(S \cup {None})
             /\ Len(SubSeq(topic, 1, Len(topic) - 1)) = MaxLag
      BY <1>1, <2>1, <3>1, SubSeqProperties
    <3>3. QED
      BY <1>1, <2>1, <3>2 DEF Front
  <2>2. CASE Len(topic) # MaxLag + 1
    BY <1>1, <2>2
  <2>3. QED
    BY <2>1, <2>2
<1> HIDE DEF q
<1>3. Append(q, v) \in Seq(S \cup {None}) /\ Len(Append(q, v)) = Len(q) + 1
         /\ Last(Append(q, v)) = v
  BY <1>2, AppendProperties DEF Last
<1>4. Publish(topic, v) = IF Last(topic) = v THEN topic ELSE IF Last(q) = v THEN q ELSE Append(q, v)
  BY DEF Publish, q
<1>5. QED
  BY <1>1, <1>2, <1>3, <1>4 DEF TopicOf, Get

\* A delivery leaves the published value alone
LEMMA Delivered ==
  ASSUME NEW S, NEW topic \in TopicOf(S), NEW q \in Deliveries(topic)
  PROVE  q \in TopicOf(S) /\ Get(q) = Get(topic)
<1>1. topic \in Seq(S \cup {None}) /\ Len(topic) \in 1..(MaxLag + 1) /\ MaxLag \in Nat \ {0}
  BY DEF TopicOf
<1>2. PICK i \in 2..Len(topic) : q = SubSeq(topic, i, Len(topic))
  BY DEF Deliveries
<1>3. \A j \in i..Len(topic) : topic[j] \in S \cup {None}
  BY <1>1, ElementOfSeq
<1>4. q \in Seq(S \cup {None}) /\ Len(q) = Len(topic) - i + 1 /\ q[Len(q)] = topic[Len(topic)]
  BY <1>1, <1>2, <1>3, SubSeqProperties
<1>5. QED
  BY <1>1, <1>4 DEF TopicOf, Get, Last

-----------------------------------------------------------------------------
(* References of the blob *)

\* What the functions on the blob leave alone
Frame(s, u) ==
  /\ u.tree = s.tree /\ u.ds = s.ds /\ u.vs = s.vs /\ u.jobs = s.jobs /\ u.results = s.results
  /\ u.kept = s.kept /\ u.cas = s.cas /\ u.images = s.images /\ u.fatal = s.fatal

BlobOK(s) == s \in Managers /\ s.blob # None /\ Refs(s)

\* Only the blob changes
LEMMA SetBlob ==
  ASSUME NEW s \in Managers, NEW b \in Blob \cup {None}
  PROVE  /\ [s EXCEPT !.blob = b] \in Managers /\ [s EXCEPT !.blob = b].blob = b
         /\ [s EXCEPT !.blob = b].dc = s.dc /\ [s EXCEPT !.blob = b].vc = s.vc
         /\ Frame(s, [s EXCEPT !.blob = b])
BY DEF Managers, Frame

\* Only the blob and the VerifyImageConfig change
LEMMA SetBlobAndVerifier ==
  ASSUME NEW s \in Managers, NEW b \in Blob, NEW c \in TopicOf(VerifyImageConfig)
  PROVE  LET u == [[s EXCEPT !.vc = c] EXCEPT !.blob = b]
         IN  u \in Managers /\ u.blob = b /\ u.vc = c /\ u.dc = s.dc /\ Frame(s, u)
<1> DEFINE w == [s EXCEPT !.vc = c]
<1>1. w \in Managers /\ w.vc = c /\ w.dc = s.dc /\ Frame(s, w)
  BY DEF Managers, Frame
<1> HIDE DEF w
<1>2. /\ [w EXCEPT !.blob = b] \in Managers /\ [w EXCEPT !.blob = b].blob = b
      /\ [w EXCEPT !.blob = b].dc = w.dc /\ [w EXCEPT !.blob = b].vc = w.vc
      /\ Frame(w, [w EXCEPT !.blob = b])
  BY <1>1, SetBlob
<1>3. Frame(s, [w EXCEPT !.blob = b])
  BY <1>1, <1>2 DEF Frame
<1> QED
  BY <1>1, <1>2, <1>3 DEF w

\* The counts of a manager with a blob, in the terms the functions use
LEMMA RefsOfBlob ==
  ASSUME NEW s, BlobOK(s)
  PROVE  /\ s.blob \in Blob /\ s.dc \in TopicOf(DownloaderConfig) /\ s.vc \in TopicOf(VerifyImageConfig)
         /\ Get(s.dc) \in DownloaderConfig \cup {None} /\ Get(s.vc) \in VerifyImageConfig \cup {None}
         /\ s.blob.dref => Get(s.dc) # None /\ Get(s.dc).ref = 1
         /\ ~s.blob.dref => Get(s.dc) = None \/ Get(s.dc).ref = 0
         /\ s.blob.vref => Get(s.vc) # None /\ Get(s.vc).ref = 1 /\ ~Get(s.vc).exp
         /\ ~s.blob.vref => Get(s.vc) = None \/ Get(s.vc).ref = 0
<1>1. s.blob \in Blob /\ s.dc \in TopicOf(DownloaderConfig) /\ s.vc \in TopicOf(VerifyImageConfig)
  BY DEF BlobOK, Managers
<1>2. Get(s.dc) \in DownloaderConfig \cup {None} /\ Get(s.vc) \in VerifyImageConfig \cup {None}
  BY <1>1, TopicValues
<1>3. s.blob.dref \in BOOLEAN /\ s.blob.vref \in BOOLEAN
  BY <1>1 DEF Blob
<1>4. QED
  BY <1>1, <1>2, <1>3 DEF BlobOK, Refs, Count

\* The blob takes a reference to the VerifyImageConfig unless it has one
LEMMA StartVerification ==
  ASSUME NEW s, BlobOK(s)
  PROVE  /\ BlobOK(startBlobVerification(s)) /\ Frame(s, startBlobVerification(s))
         /\ startBlobVerification(s).blob = [s.blob EXCEPT !.vref = TRUE]
<1>1. CASE s.blob.vref
  <2>1. s.blob.vref = TRUE /\ s.blob \in Blob
    BY <1>1, RefsOfBlob DEF Blob
  <2>2. [s.blob EXCEPT !.vref = TRUE] = s.blob
    BY <2>1 DEF Blob
  <2>3. QED
    BY <1>1, <2>2 DEF startBlobVerification, Frame
<1>2. CASE ~s.blob.vref
  <2> DEFINE c == Get(s.vc)
             n == IF c # None /\ ~c.exp THEN [c EXCEPT !.ref = @ + 1]
                  ELSE [ref |-> 1 + IF c = None THEN 0 ELSE c.ref, exp |-> FALSE, path |-> s.blob.path]
             u == [s EXCEPT !.vc = Publish(@, n)]
  <2>1. s.blob \in Blob /\ (c = None \/ (c \in VerifyImageConfig /\ c.ref = 0))
          /\ s.vc \in TopicOf(VerifyImageConfig)
    BY <1>2, RefsOfBlob
  <2>2. n \in VerifyImageConfig /\ n.ref = 1 /\ ~n.exp
    BY <2>1 DEF VerifyImageConfig, Blob
  <2> HIDE DEF n, c
  <2>3. Publish(s.vc, n) \in TopicOf(VerifyImageConfig) /\ Get(Publish(s.vc, n)) = n
    BY <2>1, <2>2, Published
  <2>4. startBlobVerification(s) = [u EXCEPT !.blob.vref = TRUE]
    BY <1>2 DEF startBlobVerification, MaybeAddVerifyImageConfigBlob, n, c
  <2>5. [s.blob EXCEPT !.vref = TRUE] \in Blob /\ [s.blob EXCEPT !.vref = TRUE].vref
          /\ [s.blob EXCEPT !.vref = TRUE].dref = s.blob.dref
    BY <2>1 DEF Blob
  <2>6. s \in Managers
    BY DEF BlobOK
  <2>7. /\ startBlobVerification(s) \in Managers
        /\ startBlobVerification(s).blob = [s.blob EXCEPT !.vref = TRUE]
        /\ startBlobVerification(s).vc = Publish(s.vc, n)
        /\ startBlobVerification(s).dc = s.dc
        /\ Frame(s, startBlobVerification(s))
    <3> DEFINE b == [s.blob EXCEPT !.vref = TRUE]
               q == Publish(s.vc, n)
               w == [s EXCEPT !.vc = q]
    <3>1. w.blob = s.blob
      BY <2>6 DEF Managers
    <3>2. startBlobVerification(s) = [w EXCEPT !.blob = [w.blob EXCEPT !.vref = TRUE]]
      BY <2>4
    <3>3. startBlobVerification(s) = [[s EXCEPT !.vc = q] EXCEPT !.blob = b]
      <4> HIDE DEF q
      <4> QED
        BY <3>1, <3>2, Zenon
    <3>4. b \in Blob /\ q \in TopicOf(VerifyImageConfig)
      BY <2>3, <2>5
    <3> HIDE DEF b, q
    <3>5. LET x == [[s EXCEPT !.vc = q] EXCEPT !.blob = b]
          IN  x \in Managers /\ x.blob = b /\ x.vc = q /\ x.dc = s.dc /\ Frame(s, x)
      BY <2>6, <3>4, SetBlobAndVerifier, Zenon
    <3> QED
      BY <3>3, <3>5, Zenon DEF b, q
  <2>8. n # None
    BY <2>2, NoneIsNoValue
  <2>9. [s.blob EXCEPT !.vref = TRUE] # None
    BY <2>5, NoneIsNoValue
  <2>10. QED
    BY <2>2, <2>3, <2>5, <2>7, <2>8, <2>9 DEF BlobOK, Refs, Count
<1>3. QED
  BY <1>1, <1>2

\* The blob takes a reference to the DownloaderConfig unless it has one
LEMMA HoldDownloader ==
  ASSUME NEW s, BlobOK(s)
  PROVE  /\ BlobOK(holdDownloaderRef(s)) /\ Frame(s, holdDownloaderRef(s))
         /\ holdDownloaderRef(s).blob = [s.blob EXCEPT !.dref = TRUE]
<1>1. CASE s.blob.dref
  <2>1. s.blob.dref = TRUE /\ s.blob \in Blob
    BY <1>1, RefsOfBlob DEF Blob
  <2>2. [s.blob EXCEPT !.dref = TRUE] = s.blob
    BY <2>1 DEF Blob
  <2>3. QED
    BY <1>1, <2>2 DEF holdDownloaderRef, Frame
<1>2. CASE ~s.blob.dref
  <2> DEFINE c == Get(s.dc)
             n == IF c = None THEN [ref |-> 1, last |-> s.now] ELSE [c EXCEPT !.ref = @ + 1]
             u == [s EXCEPT !.now = IF c = None THEN @ + 1 ELSE @, !.dc = Publish(@, n)]
  <2>1. s.blob \in Blob /\ (c = None \/ (c \in DownloaderConfig /\ c.ref = 0))
          /\ s.dc \in TopicOf(DownloaderConfig)
    BY <1>2, RefsOfBlob
  <2>2. s \in Managers /\ s.now \in Nat \ {0}
    BY DEF BlobOK, Managers
  <2>3. n \in DownloaderConfig /\ n.ref = 1
    BY <2>1, <2>2 DEF DownloaderConfig
  <2> HIDE DEF n, c
  <2>4. Publish(s.dc, n) \in TopicOf(DownloaderConfig) /\ Get(Publish(s.dc, n)) = n
    BY <2>1, <2>3, Published
  <2>5. holdDownloaderRef(s) = [u EXCEPT !.blob.dref = TRUE]
    BY <1>2 DEF holdDownloaderRef, AddOrRefcountDownloaderConfig, n, c
  <2>6. [s.blob EXCEPT !.dref = TRUE] \in Blob /\ [s.blob EXCEPT !.dref = TRUE].dref
          /\ [s.blob EXCEPT !.dref = TRUE].vref = s.blob.vref
    BY <2>1 DEF Blob
  <2>7. /\ holdDownloaderRef(s) \in Managers
        /\ holdDownloaderRef(s).blob = [s.blob EXCEPT !.dref = TRUE]
        /\ holdDownloaderRef(s).dc = Publish(s.dc, n)
        /\ holdDownloaderRef(s).vc = s.vc
        /\ Frame(s, holdDownloaderRef(s))
    <3>1. (IF c = None THEN s.now + 1 ELSE s.now) \in Nat \ {0}
      BY <2>2
    <3>2. /\ u \in Managers /\ u.blob = s.blob /\ u.dc = Publish(s.dc, n) /\ u.vc = s.vc
          /\ Frame(s, u)
      BY <2>2, <2>4, <3>1 DEF Managers, Frame
    <3>3. holdDownloaderRef(s) = [u EXCEPT !.blob = [s.blob EXCEPT !.dref = TRUE]]
      BY <2>5, <3>2
    <3> DEFINE b == [s.blob EXCEPT !.dref = TRUE]
    <3>4. b \in Blob /\ holdDownloaderRef(s) = [u EXCEPT !.blob = b]
      BY <2>6, <3>3
    <3> HIDE DEF u, b
    <3>5. /\ holdDownloaderRef(s) \in Managers /\ holdDownloaderRef(s).blob = b
          /\ holdDownloaderRef(s).dc = u.dc /\ holdDownloaderRef(s).vc = u.vc
          /\ Frame(u, holdDownloaderRef(s))
      BY <3>2, <3>4, SetBlob
    <3>6. QED
      BY <3>2, <3>5 DEF Frame, b
  <2>8. n # None
    BY <2>3, NoneIsNoValue
  <2>9. [s.blob EXCEPT !.dref = TRUE] # None
    BY <2>6, NoneIsNoValue
  <2>10. QED
    BY <2>3, <2>4, <2>6, <2>7, <2>8, <2>9 DEF BlobOK, Refs, Count
<1>3. QED
  BY <1>1, <1>2

\* The reference to the DownloaderConfig is given back, once
LEMMA DropDownloader ==
  ASSUME NEW s, BlobOK(s)
  PROVE  /\ BlobOK(dropDownloaderRef(s)) /\ Frame(s, dropDownloaderRef(s))
         /\ dropDownloaderRef(s).blob = [s.blob EXCEPT !.dref = FALSE]
<1>1. CASE ~s.blob.dref
  <2>1. s.blob.dref = FALSE /\ s.blob \in Blob
    BY <1>1, RefsOfBlob DEF Blob
  <2>2. [s.blob EXCEPT !.dref = FALSE] = s.blob
    BY <2>1 DEF Blob
  <2>3. QED
    BY <1>1, <2>2 DEF dropDownloaderRef, Frame
<1>2. CASE s.blob.dref
  <2> DEFINE c == Get(s.dc)
             n == [c EXCEPT !.ref = @ - 1]
  <2>1. s.blob \in Blob /\ c # None /\ c \in DownloaderConfig /\ c.ref = 1
          /\ s.dc \in TopicOf(DownloaderConfig)
    BY <1>2, RefsOfBlob
  <2>2. n \in DownloaderConfig /\ n.ref = 0
    BY <2>1 DEF DownloaderConfig
  <2> HIDE DEF n, c
  <2>3. Publish(s.dc, n) \in TopicOf(DownloaderConfig) /\ Get(Publish(s.dc, n)) = n
    BY <2>1, <2>2, Published
  <2>4. dropDownloaderRef(s) = [s EXCEPT !.dc = Publish(@, n), !.blob.dref = FALSE]
    BY <1>2, <2>1 DEF dropDownloaderRef, MaybeRemoveDownloaderConfig, n, c
  <2>5. [s.blob EXCEPT !.dref = FALSE] \in Blob /\ ~[s.blob EXCEPT !.dref = FALSE].dref
          /\ [s.blob EXCEPT !.dref = FALSE].vref = s.blob.vref
    BY <2>1 DEF Blob
  <2>6. s \in Managers
    BY DEF BlobOK
  <2>7. /\ dropDownloaderRef(s) \in Managers
        /\ dropDownloaderRef(s).blob = [s.blob EXCEPT !.dref = FALSE]
        /\ dropDownloaderRef(s).dc = Publish(s.dc, n)
        /\ dropDownloaderRef(s).vc = s.vc
        /\ Frame(s, dropDownloaderRef(s))
    <3> DEFINE u == [s EXCEPT !.dc = Publish(@, n)]
    <3>1. /\ u \in Managers /\ u.blob = s.blob /\ u.dc = Publish(s.dc, n) /\ u.vc = s.vc
          /\ Frame(s, u)
      BY <2>3, <2>6 DEF Managers, Frame
    <3>2. dropDownloaderRef(s) = [u EXCEPT !.blob = [s.blob EXCEPT !.dref = FALSE]]
      BY <2>4, <3>1
    <3> DEFINE b == [s.blob EXCEPT !.dref = FALSE]
    <3>3. b \in Blob /\ dropDownloaderRef(s) = [u EXCEPT !.blob = b]
      BY <2>5, <3>2
    <3> HIDE DEF u, b
    <3>4. /\ dropDownloaderRef(s) \in Managers /\ dropDownloaderRef(s).blob = b
          /\ dropDownloaderRef(s).dc = u.dc /\ dropDownloaderRef(s).vc = u.vc
          /\ Frame(u, dropDownloaderRef(s))
      BY <3>1, <3>3, SetBlob
    <3>5. QED
      BY <3>1, <3>4 DEF Frame, b
  <2>8. [s.blob EXCEPT !.dref = FALSE] # None
    BY <2>5, NoneIsNoValue
  <2>9. QED
    BY <2>2, <2>3, <2>5, <2>7, <2>8 DEF BlobOK, Refs, Count
<1>3. QED
  BY <1>1, <1>2

\* The reference to the VerifyImageConfig is given back, once, and the config expires
LEMMA RemoveVerifier ==
  ASSUME NEW s, BlobOK(s), s.blob.vref
  PROVE  /\ BlobOK(MaybeRemoveVerifyImageConfig(s)) /\ Frame(s, MaybeRemoveVerifyImageConfig(s))
         /\ MaybeRemoveVerifyImageConfig(s).blob = [s.blob EXCEPT !.vref = FALSE]
<1> DEFINE c == Get(s.vc)
           n == [c EXCEPT !.ref = @ - 1, !.exp = c.ref = 1]
<1>1. s.blob \in Blob /\ c # None /\ c \in VerifyImageConfig /\ c.ref = 1 /\ ~c.exp
        /\ s.vc \in TopicOf(VerifyImageConfig)
  BY RefsOfBlob
<1>2. n \in VerifyImageConfig /\ n.ref = 0
  <2>1. (c.ref = 1) = TRUE
    BY <1>1, Zenon
  <2> DEFINE d == [c EXCEPT !.ref = @ - 1]
  <2>2. d \in VerifyImageConfig /\ d.ref = 0
    BY <1>1 DEF VerifyImageConfig
  <2>3. n = [d EXCEPT !.exp = TRUE]
    BY <2>1, Zenon
  <2> HIDE DEF n, c, d
  <2>4. QED
    BY <2>2, <2>3 DEF VerifyImageConfig
<1> HIDE DEF n, c
<1>3. Publish(s.vc, n) \in TopicOf(VerifyImageConfig) /\ Get(Publish(s.vc, n)) = n
  BY <1>1, <1>2, Published
<1>4. MaybeRemoveVerifyImageConfig(s) = [s EXCEPT !.vc = Publish(@, n), !.blob.vref = FALSE]
  BY <1>1 DEF MaybeRemoveVerifyImageConfig, n, c
<1>5. [s.blob EXCEPT !.vref = FALSE] \in Blob /\ ~[s.blob EXCEPT !.vref = FALSE].vref
        /\ [s.blob EXCEPT !.vref = FALSE].dref = s.blob.dref
  BY <1>1 DEF Blob
<1>6. s \in Managers
  BY DEF BlobOK
<1>7. /\ MaybeRemoveVerifyImageConfig(s) \in Managers
      /\ MaybeRemoveVerifyImageConfig(s).blob = [s.blob EXCEPT !.vref = FALSE]
      /\ MaybeRemoveVerifyImageConfig(s).vc = Publish(s.vc, n)
      /\ MaybeRemoveVerifyImageConfig(s).dc = s.dc
      /\ Frame(s, MaybeRemoveVerifyImageConfig(s))
  <2> DEFINE b == [s.blob EXCEPT !.vref = FALSE]
             q == Publish(s.vc, n)
             w == [s EXCEPT !.vc = q]
  <2>1. w.blob = s.blob
    BY <1>6 DEF Managers
  <2>2. MaybeRemoveVerifyImageConfig(s) = [w EXCEPT !.blob = [w.blob EXCEPT !.vref = FALSE]]
    BY <1>4
  <2>3. MaybeRemoveVerifyImageConfig(s) = [[s EXCEPT !.vc = q] EXCEPT !.blob = b]
    <3> HIDE DEF q
    <3> QED
      BY <2>1, <2>2, Zenon
  <2>4. b \in Blob /\ q \in TopicOf(VerifyImageConfig)
    BY <1>3, <1>5
  <2> HIDE DEF b, q
  <2>5. LET u == [[s EXCEPT !.vc = q] EXCEPT !.blob = b]
        IN  u \in Managers /\ u.blob = b /\ u.vc = q /\ u.dc = s.dc /\ Frame(s, u)
    BY <1>6, <2>4, SetBlobAndVerifier, Zenon
  <2> QED
    BY <2>3, <2>5, Zenon DEF b, q
<1>8. [s.blob EXCEPT !.vref = FALSE] # None
  BY <1>5, NoneIsNoValue
<1>9. QED
  BY <1>2, <1>3, <1>5, <1>7, <1>8 DEF BlobOK, Refs, Count

\* dropVerifierRef gives the reference back if there is one
LEMMA DropVerifier ==
  ASSUME NEW s, BlobOK(s)
  PROVE  /\ BlobOK(dropVerifierRef(s)) /\ Frame(s, dropVerifierRef(s))
         /\ dropVerifierRef(s).blob = [s.blob EXCEPT !.vref = FALSE]
<1>1. CASE s.blob.vref
  BY <1>1, RemoveVerifier DEF dropVerifierRef
<1>2. CASE ~s.blob.vref
  <2>1. s.blob.vref = FALSE /\ s.blob \in Blob
    BY <1>2, RefsOfBlob DEF Blob
  <2>2. [s.blob EXCEPT !.vref = FALSE] = s.blob
    BY <2>1 DEF Blob
  <2>3. QED
    BY <1>2, <2>2 DEF dropVerifierRef, Frame
<1>3. QED
  BY <1>1, <1>2

-----------------------------------------------------------------------------
(* The blob follows the statuses *)

\* The blob changes and keeps its references
LEMMA ChangeBlob ==
  ASSUME NEW s, BlobOK(s), NEW b \in Blob, b.dref = s.blob.dref, b.vref = s.blob.vref
  PROVE  /\ BlobOK([s EXCEPT !.blob = b]) /\ Frame(s, [s EXCEPT !.blob = b])
         /\ [s EXCEPT !.blob = b].blob = b
<1> DEFINE u == [s EXCEPT !.blob = b]
<1>1. u \in Managers /\ u.blob = b /\ u.dc = s.dc /\ u.vc = s.vc /\ Frame(s, u)
  BY SetBlob DEF BlobOK
<1>2. b # None
  BY NoneIsNoValue
<1> HIDE DEF u
<1>3. BlobOK(u)
  BY <1>1, <1>2 DEF BlobOK, Refs
<1>4. QED
  BY <1>1, <1>3 DEF u

\* A function on the blob keeps it, its RefCount and, with an error of the verifier,
\* its reference
BlobStep(s, u) ==
  BlobOK(u) /\ Frame(s, u) /\ u.blob.ref = s.blob.ref /\ (ErrorInv(s) => ErrorInv(u))

\* Such functions compose
LEMMA BlobSteps ==
  ASSUME NEW s, NEW u, NEW v, BlobStep(s, u), BlobStep(u, v)
  PROVE  BlobStep(s, v)
BY DEF BlobStep, Frame

\* A blob stays one with what a status of the verifier says
LEMMA FromVerifier ==
  ASSUME NEW st \in VerifyImageStatus, NEW b \in Blob
  PROVE  /\ updateBlobFromVerifyImageStatus(st, b) \in Blob
         /\ updateBlobFromVerifyImageStatus(st, b).dref = b.dref
         /\ updateBlobFromVerifyImageStatus(st, b).vref = b.vref
         /\ updateBlobFromVerifyImageStatus(st, b).ref = b.ref
<1> DEFINE n == AtLeast(b.state, st.state)
           e == IF st.err THEN "VerifyImageStatus"
                ELSE IF b.err = "VerifyImageStatus" THEN "no" ELSE b.err
           c == [b EXCEPT !.state = n, !.err = e]
<1>1. n \in INITIAL..LOADED
  BY DEF AtLeast, Blob, VerifyImageStatus, INITIAL, LOADED, VERIFYING, VERIFIED
<1>2. e \in {"no", "DownloaderStatus", "VerifyImageStatus"}
  BY DEF Blob
<1>3. st.path \in Paths
  BY DEF VerifyImageStatus
<1> HIDE DEF n, e
<1>4. c \in Blob /\ c.dref = b.dref /\ c.vref = b.vref /\ c.ref = b.ref
  BY <1>1, <1>2 DEF Blob
<1>5. updateBlobFromVerifyImageStatus(st, b)
        = IF st.err \/ st.pend THEN c ELSE [c EXCEPT !.path = st.path]
  BY DEF updateBlobFromVerifyImageStatus, n, e
<1> HIDE DEF c
<1>6. QED
  BY <1>3, <1>4, <1>5 DEF Blob

\* A status the blob may follow is one
LEMMA Usable ==
  ASSUME NEW s \in Managers
  PROVE  /\ Seen(s.vs) \in VerifyImageStatus \cup {None} /\ Seen(s.ds) \in DownloaderStatus \cup {None}
         /\ usableStatus(s) => Seen(s.vs) \in VerifyImageStatus
<1>1. s.vs \in TopicOf(VerifyImageStatus) /\ s.ds \in TopicOf(DownloaderStatus)
  BY DEF Managers
<1>2. QED
  BY <1>1, TopicValues DEF usableStatus

\* startBlobVerification is such a function
LEMMA StartStep ==
  ASSUME NEW s, BlobOK(s)
  PROVE  BlobStep(s, startBlobVerification(s)) /\ startBlobVerification(s).blob.vref
<1>1. s.blob \in Blob
  BY RefsOfBlob
<1>2. [s.blob EXCEPT !.vref = TRUE].vref /\ [s.blob EXCEPT !.vref = TRUE].ref = s.blob.ref
  BY <1>1 DEF Blob
<1>3. QED
  BY <1>2, StartVerification DEF BlobStep, ErrorInv

\* The blob is verified, or follows the verification
LEMMA VerifyBlob ==
  ASSUME NEW s, BlobOK(s)
  PROVE  BlobStep(s, verifyBlob(s))
<1> DEFINE b == IF usableStatus(s) THEN updateBlobFromVerifyImageStatus(Seen(s.vs), s.blob)
                ELSE [s.blob EXCEPT !.state = AtLeast(@, VERIFYING)]
           u == [s EXCEPT !.blob = b]
<1>1. s.blob \in Blob /\ s \in Managers
  BY RefsOfBlob DEF BlobOK
<1>2. b \in Blob /\ b.dref = s.blob.dref /\ b.vref = s.blob.vref /\ b.ref = s.blob.ref
  <2>1. CASE usableStatus(s)
    BY <1>1, <2>1, FromVerifier, Usable
  <2>2. CASE ~usableStatus(s)
    <3>1. AtLeast(s.blob.state, VERIFYING) \in INITIAL..LOADED
      BY <1>1 DEF AtLeast, Blob, VERIFYING, INITIAL, LOADED
    <3>2. b = [s.blob EXCEPT !.state = AtLeast(s.blob.state, VERIFYING)]
      BY <2>2
    <3> HIDE DEF b
    <3>3. QED
      BY <1>1, <3>1, <3>2 DEF Blob
  <2>3. QED
    BY <2>1, <2>2
<1>3. verifyBlob(s) = startBlobVerification(u)
  BY DEF verifyBlob
<1> HIDE DEF b
<1>4. BlobOK(u) /\ Frame(s, u) /\ u.blob = b
  BY <1>2, ChangeBlob
<1> HIDE DEF u
<1>5. BlobStep(u, startBlobVerification(u)) /\ startBlobVerification(u).blob.vref
  BY <1>4, StartStep
<1>6. QED
  BY <1>2, <1>3, <1>4, <1>5 DEF BlobStep, Frame, ErrorInv

\* A blob stays one with what a status of the downloader says
LEMMA FromDownloader ==
  ASSUME NEW st \in DownloaderStatus, NEW b \in Blob
  PROVE  /\ updateBlobFromDownloaderStatus(st, b) \in Blob
         /\ updateBlobFromDownloaderStatus(st, b).dref = b.dref
         /\ updateBlobFromDownloaderStatus(st, b).vref = b.vref
         /\ updateBlobFromDownloaderStatus(st, b).ref = b.ref
         /\ updateBlobFromDownloaderStatus(st, b).err = "VerifyImageStatus"
              => b.err = "VerifyImageStatus"
<1> DEFINE e == IF st.err THEN "DownloaderStatus"
                ELSE IF b.err = "DownloaderStatus" THEN "no" ELSE b.err
           p == IF b.path = "" THEN st.target ELSE b.path
<1>1. st.state \in INITIAL..LOADED
  <2>1. st.state \in INITIAL..DOWNLOADED
    BY DEF DownloaderStatus
  <2>2. QED
    BY <2>1 DEF INITIAL, LOADED, DOWNLOADED
<1>2. e \in {"no", "DownloaderStatus", "VerifyImageStatus"}
         /\ (e = "VerifyImageStatus" => b.err = "VerifyImageStatus")
  BY DEF Blob
<1>3. p \in Paths
  BY DEF Blob, DownloaderStatus, Paths
<1>4. updateBlobFromDownloaderStatus(st, b) = [b EXCEPT !.state = st.state, !.path = p, !.err = e]
  BY DEF updateBlobFromDownloaderStatus
<1> HIDE DEF e, p
<1>5. QED
  BY <1>1, <1>2, <1>3, <1>4 DEF Blob

\* The blob's next value is that of a step
LEMMA BlobStepTo ==
  ASSUME NEW s, BlobOK(s), NEW b \in Blob, b.dref = s.blob.dref, b.vref = s.blob.vref,
         b.ref = s.blob.ref, b.err = "VerifyImageStatus" => s.blob.err = "VerifyImageStatus"
  PROVE  BlobStep(s, [s EXCEPT !.blob = b])
<1> DEFINE u == [s EXCEPT !.blob = b]
<1>1. BlobOK(u) /\ Frame(s, u) /\ u.blob = b
  BY ChangeBlob
<1>2. s.blob # None
  BY DEF BlobOK
<1> HIDE DEF u
<1>3. BlobStep(s, u)
  BY <1>1, <1>2 DEF BlobStep, ErrorInv
<1>4. QED
  BY <1>3 DEF u

\* The blob follows the download
LEMMA FollowDownload ==
  ASSUME NEW s, BlobOK(s)
  PROVE  BlobStep(s, followDownload(s))
<1> DEFINE st == Seen(s.ds)
           b == updateBlobFromDownloaderStatus(st, s.blob)
           u == [s EXCEPT !.blob = b]
<1>1. s.blob \in Blob /\ st \in DownloaderStatus \cup {None}
  BY RefsOfBlob, Usable DEF BlobOK
<1>2. CASE st = None \/ st.exp \/ st.ref = 0
  <2> DEFINE c == [s.blob EXCEPT !.state = DOWNLOADING]
  <2>1. c \in Blob /\ c.dref = s.blob.dref /\ c.vref = s.blob.vref /\ c.ref = s.blob.ref
           /\ c.err = s.blob.err
    BY <1>1 DEF Blob, DOWNLOADING, INITIAL, LOADED
  <2>2. followDownload(s) = [s EXCEPT !.blob = c]
    BY <1>2 DEF followDownload
  <2> HIDE DEF c
  <2>3. QED
    BY <2>1, <2>2, BlobStepTo
<1>3. CASE ~(st = None \/ st.exp \/ st.ref = 0)
  <2>1. BlobStep(s, u)
    <3>1. st \in DownloaderStatus
      BY <1>1, <1>3
    <3> HIDE DEF st
    <3>2. b \in Blob /\ b.dref = s.blob.dref /\ b.vref = s.blob.vref /\ b.ref = s.blob.ref
             /\ (b.err = "VerifyImageStatus" => s.blob.err = "VerifyImageStatus")
      BY <1>1, <3>1, FromDownloader
    <3> HIDE DEF b
    <3>3. QED
      BY <3>2, BlobStepTo
  <2>2. followDownload(s) = IF st.state = DOWNLOADED /\ ~st.err THEN verifyBlob(u) ELSE u
    BY <1>3 DEF followDownload
  <2> HIDE DEF u, st, b
  <2>3. BlobStep(u, verifyBlob(u))
    BY <2>1, VerifyBlob DEF BlobStep
  <2>4. BlobStep(s, verifyBlob(u))
    BY <2>1, <2>3, BlobSteps
  <2>5. QED
    BY <2>1, <2>2, <2>4
<1>4. QED
  BY <1>2, <1>3

\* The blob is downloaded, with a reference to the DownloaderConfig
LEMMA DownloadBlob ==
  ASSUME NEW s, BlobOK(s)
  PROVE  BlobStep(s, downloadBlob(s))
<1> DEFINE u == holdDownloaderRef(s)
<1>1. s.blob \in Blob
  BY RefsOfBlob
<1>2. /\ [s.blob EXCEPT !.dref = TRUE].ref = s.blob.ref
      /\ [s.blob EXCEPT !.dref = TRUE].vref = s.blob.vref
      /\ [s.blob EXCEPT !.dref = TRUE].err = s.blob.err
  BY <1>1 DEF Blob
<1>3. BlobOK(u) /\ Frame(s, u) /\ u.blob = [s.blob EXCEPT !.dref = TRUE]
  BY HoldDownloader
<1>4. downloadBlob(s) = followDownload(u)
  BY DEF downloadBlob
<1>5. s.blob # None
  BY DEF BlobOK
<1> HIDE DEF u
<1>6. BlobStep(s, u)
  BY <1>2, <1>3, <1>5 DEF BlobStep, ErrorInv
<1>7. BlobStep(u, followDownload(u))
  BY <1>3, FollowDownload
<1>8. QED
  BY <1>4, <1>6, <1>7, BlobSteps

\* The DownloaderConfig gets another time; its RefCount stays
LEMMA RetryDownload ==
  ASSUME NEW s, BlobOK(s)
  PROVE  /\ BlobOK(retryDownload(s)) /\ Frame(s, retryDownload(s))
         /\ retryDownload(s).blob = s.blob
<1> DEFINE c == Get(s.dc)
           n == [c EXCEPT !.last = s.now]
<1>1. CASE c = None
  BY <1>1 DEF retryDownload, Frame
<1>2. CASE c # None
  <2>1. c \in DownloaderConfig /\ s.dc \in TopicOf(DownloaderConfig) /\ s \in Managers
    BY <1>2, RefsOfBlob DEF BlobOK
  <2>2. s.now \in Nat \ {0}
    BY <2>1 DEF Managers
  <2> HIDE DEF c
  <2>3. n \in DownloaderConfig /\ n.ref = c.ref
    BY <2>1, <2>2 DEF DownloaderConfig
  <2>4. retryDownload(s) = [s EXCEPT !.now = s.now + 1, !.dc = Publish(s.dc, n)]
    BY <1>2 DEF retryDownload, c
  <2> HIDE DEF n
  <2>5. Publish(s.dc, n) \in TopicOf(DownloaderConfig) /\ Get(Publish(s.dc, n)) = n
    BY <2>1, <2>3, Published
  <2>6. s.now + 1 \in Nat \ {0}
    BY <2>2
  <2>7. /\ retryDownload(s) \in Managers /\ retryDownload(s).blob = s.blob
        /\ retryDownload(s).dc = Publish(s.dc, n) /\ retryDownload(s).vc = s.vc
        /\ Frame(s, retryDownload(s))
    <3> DEFINE u == [s EXCEPT !.now = s.now + 1]
    <3>1. u \in Managers /\ u.blob = s.blob /\ u.dc = s.dc /\ u.vc = s.vc /\ Frame(s, u)
      BY <2>1, <2>6 DEF Managers, Frame
    <3>2. retryDownload(s) = [u EXCEPT !.dc = Publish(s.dc, n)]
      BY <2>4
    <3> DEFINE p == Publish(s.dc, n)
    <3>3. p \in TopicOf(DownloaderConfig)
      BY <2>5
    <3> HIDE DEF u, p
    <3>4. /\ retryDownload(s) \in Managers /\ retryDownload(s).blob = u.blob
          /\ retryDownload(s).dc = p /\ retryDownload(s).vc = u.vc
      BY <3>1, <3>2, <3>3 DEF Managers, p
    <3>5. Frame(u, retryDownload(s))
      BY <3>1, <3>2 DEF Managers, Frame
    <3>6. QED
      BY <3>1, <3>4, <3>5 DEF Frame, p
  <2>8. n # None
    BY <2>3, NoneIsNoValue
  <2>9. Count(n) = Count(Get(s.dc))
    BY <1>2, <2>3, <2>8 DEF Count, c
  <2>10. QED
    BY <2>5, <2>7, <2>9 DEF BlobOK, Refs
<1>3. QED
  BY <1>1, <1>2

\* A failed verification gives the reference back and begins again, MaxRetries times
LEMMA RetryBlob ==
  ASSUME NEW s, BlobOK(s), s.blob.vref, s.blob.retry < MaxRetries
  PROVE  BlobStep(s, retryBlob(s))
<1> DEFINE v == MaybeRemoveVerifyImageConfig(s)
           u == retryDownload(v)
           b == [s.blob EXCEPT !.vref = FALSE]
           c == [b EXCEPT !.retry = @ + 1, !.state = DOWNLOADING, !.err = "no"]
<1>1. s.blob \in Blob
  BY RefsOfBlob
<1>2. b \in Blob /\ b.ref = s.blob.ref /\ b.retry = s.blob.retry
  BY <1>1 DEF Blob
<1>3. BlobOK(v) /\ Frame(s, v) /\ v.blob = b
  BY RemoveVerifier
<1>4. BlobOK(u) /\ Frame(v, u) /\ u.blob = b
  <2> HIDE DEF v
  <2>1. QED
    BY <1>3, RetryDownload
<1>5. retryBlob(s) = [u EXCEPT !.blob = [[[u.blob EXCEPT !.retry = @ + 1] EXCEPT !.state = DOWNLOADING]
                                            EXCEPT !.err = "no"]]
  <2> HIDE DEF u
  <2>1. retryBlob(s) = [u EXCEPT !.blob.retry = @ + 1, !.blob.state = DOWNLOADING, !.blob.err = "no"]
    BY DEF retryBlob, u
  <2>2. u \in Managers /\ u.blob \in Blob
    BY <1>2, <1>4 DEF BlobOK
  <2>3. QED
    BY <2>1, <2>2 DEF Managers
<1> HIDE DEF b, u, v
<1>6. b.retry + 1 \in 0..MaxRetries
  BY <1>2 DEF Blob
<1>7. c \in Blob /\ c.dref = b.dref /\ c.vref = b.vref /\ c.ref = b.ref /\ c.err = "no"
  <2>1. DOWNLOADING \in INITIAL..LOADED
    BY DEF DOWNLOADING, INITIAL, LOADED
  <2>2. c = [b EXCEPT !.retry = b.retry + 1, !.state = DOWNLOADING, !.err = "no"]
    OBVIOUS
  <2> HIDE DEF c
  <2>3. QED
    BY <1>2, <1>6, <2>1, <2>2 DEF Blob
<1>8. retryBlob(s) = [u EXCEPT !.blob = c]
  BY <1>4, <1>5
<1> HIDE DEF c
<1>9. BlobStep(u, retryBlob(s)) /\ retryBlob(s).blob = c
  BY <1>4, <1>7, <1>8, BlobStepTo, ChangeBlob
<1>10. QED
  BY <1>2, <1>3, <1>4, <1>7, <1>9 DEF BlobStep, Frame, ErrorInv

\* downloadIfNeeded and verifyIfNeeded leave a verified blob alone
LEMMA IfNeeded ==
  ASSUME NEW s, BlobOK(s)
  PROVE  /\ BlobStep(s, verifyIfNeeded(downloadIfNeeded(s)))
         /\ s.blob.state >= VERIFIED => verifyIfNeeded(downloadIfNeeded(s)) = s
<1>1. BlobStep(s, s)
  BY DEF BlobStep, Frame
<1>2. BlobStep(s, downloadIfNeeded(s))
  BY <1>1, DownloadBlob DEF downloadIfNeeded
<1>3. BlobStep(downloadIfNeeded(s), verifyIfNeeded(downloadIfNeeded(s)))
  <2> DEFINE u == downloadIfNeeded(s)
  <2>1. BlobOK(u)
    BY <1>2 DEF BlobStep
  <2> HIDE DEF u
  <2>2. BlobStep(u, u)
    BY <2>1 DEF BlobStep, Frame
  <2>3. BlobStep(u, verifyIfNeeded(u))
    BY <2>1, <2>2, VerifyBlob DEF verifyIfNeeded
  <2>4. QED
    BY <2>3 DEF u
<1>4. BlobStep(s, verifyIfNeeded(downloadIfNeeded(s)))
  BY <1>2, <1>3, BlobSteps
<1>5. ASSUME s.blob.state >= VERIFIED
      PROVE  verifyIfNeeded(downloadIfNeeded(s)) = s
  <2>1. s.blob.state \in Int
    BY RefsOfBlob DEF Blob, INITIAL, LOADED
  <2>2. downloadIfNeeded(s) = s
    BY <1>5, <2>1 DEF downloadIfNeeded, VERIFIED, DOWNLOADING
  <2>3. verifyIfNeeded(s) = s
    BY <1>5, <2>1 DEF verifyIfNeeded, VERIFIED, VERIFYING, DOWNLOADED
  <2>4. QED
    BY <2>2, <2>3
<1>6. QED
  BY <1>4, <1>5

-----------------------------------------------------------------------------
(* A content tree follows the blob *)

\* What handling a content tree leaves alone: which trees there are and what the CAS has
Kept(s, u) ==
  Live(u) = Live(s) /\ u.cas = s.cas /\ u.images = s.images /\ u.fatal = s.fatal

\* Only a content tree changes
LEMMA SetTree ==
  ASSUME NEW s \in Managers, NEW t \in Trees, NEW v \in TreeStates
  PROVE  /\ [s EXCEPT !.tree[t] = v] \in Managers
         /\ [s EXCEPT !.tree[t] = v].tree = [s.tree EXCEPT ![t] = v]
         /\ [s EXCEPT !.tree[t] = v].blob = s.blob
         /\ [s EXCEPT !.tree[t] = v].dc = s.dc /\ [s EXCEPT !.tree[t] = v].vc = s.vc
         /\ [s EXCEPT !.tree[t] = v].cas = s.cas /\ [s EXCEPT !.tree[t] = v].images = s.images
         /\ [s EXCEPT !.tree[t] = v].fatal = s.fatal
<1> DEFINE f == [s.tree EXCEPT ![t] = v]
<1>1. f \in [Trees -> TreeStates]
  BY DEF Managers
<1>2. [s EXCEPT !.tree[t] = v] = [s EXCEPT !.tree = f]
  OBVIOUS
<1> HIDE DEF f
<1>3. QED
  BY <1>1, <1>2 DEF Managers, f

\* A step of the blob keeps what is good when it keeps TreeInv
LEMMA GoodStep ==
  ASSUME NEW s, NEW u, Good(s), s.blob # None, BlobStep(s, u), TreeInv(u)
  PROVE  Good(u) /\ Kept(s, u) /\ u.tree = s.tree /\ u.blob # None
<1>1. u \in Managers /\ Refs(u) /\ u.blob # None /\ Frame(s, u) /\ ErrorInv(u)
  BY DEF BlobStep, BlobOK, Good
<1>2. RefCountInv(u) /\ LoadedInv(u) /\ Live(u) = Live(s)
  BY <1>1 DEF BlobStep, Good, RefCountInv, LoadedInv, Live, Frame, Count
<1>3. QED
  BY <1>1, <1>2 DEF Good, Kept, Frame

\* A content tree that goes on from waiting
LEMMA GoodTree ==
  ASSUME NEW s, Good(s), NEW t \in Trees, s.tree[t] # "none", s.blob # None,
         s.blob.state >= VERIFIED, s.blob.err = "no",
         NEW v \in TreeStates, v # "none", v = "LOADED" => t \in s.images
  PROVE  Good([s EXCEPT !.tree[t] = v]) /\ Kept(s, [s EXCEPT !.tree[t] = v])
<1> DEFINE u == [s EXCEPT !.tree[t] = v]
<1>1. s \in Managers
  BY DEF Good
<1>2. /\ u \in Managers /\ u.tree = [s.tree EXCEPT ![t] = v] /\ u.blob = s.blob
      /\ u.dc = s.dc /\ u.vc = s.vc /\ u.cas = s.cas /\ u.images = s.images /\ u.fatal = s.fatal
  BY <1>1, SetTree
<1>3. s.tree \in [Trees -> TreeStates]
  BY <1>1 DEF Managers
<1> HIDE DEF u
<1>4. \A x \in Trees : u.tree[x] = IF x = t THEN v ELSE s.tree[x]
  BY <1>2, <1>3
<1>5. Live(u) = Live(s)
  BY <1>4 DEF Live
<1>6. Refs(u) /\ ErrorInv(u)
  BY <1>2 DEF Good, Refs, ErrorInv
<1>7. TreeInv(u)
  BY <1>2 DEF TreeInv
<1>8. RefCountInv(u)
  BY <1>2, <1>5 DEF Good, RefCountInv
<1>9. LoadedInv(u)
  BY <1>2, <1>4 DEF Good, LoadedInv
<1>10. Good(u) /\ Kept(s, u)
  BY <1>2, <1>5, <1>6, <1>7, <1>8, <1>9 DEF Good, Kept
<1>11. QED
  BY <1>10 DEF u

\* Of a tree that waits: it is verified with the blob, or the blob is downloaded again
LEMMA TreeFollows ==
  ASSUME NEW s, Good(s), NEW t \in Trees, s.blob # None, s.tree[t] = "wait"
  PROVE  Good(treeFollowsBlob(s, t)) /\ Kept(s, treeFollowsBlob(s, t))
<1>1. CASE s.blob.err = "VerifyImageStatus" /\ s.blob.retry < MaxRetries
  <2>1. BlobOK(s) /\ s.blob.vref
    BY <1>1 DEF Good, BlobOK, ErrorInv
  <2>2. BlobStep(s, retryBlob(s))
    BY <1>1, <2>1, RetryBlob
  <2>3. TreeInv(retryBlob(s))
    BY <1>1, <2>2 DEF Good, TreeInv, BlobStep, Frame
  <2>4. treeFollowsBlob(s, t) = retryBlob(s)
    BY <1>1 DEF treeFollowsBlob
  <2>5. QED
    BY <2>2, <2>3, <2>4, GoodStep
<1>2. CASE /\ ~(s.blob.err = "VerifyImageStatus" /\ s.blob.retry < MaxRetries)
           /\ s.blob.err = "no" /\ s.blob.state >= VERIFIED
  <2>1. treeFollowsBlob(s, t) = [s EXCEPT !.tree[t] = "VERIFIED"]
    BY <1>2 DEF treeFollowsBlob
  <2>2. "VERIFIED" \in TreeStates
    BY DEF TreeStates
  <2>3. QED
    BY <1>2, <2>1, <2>2, GoodTree
<1>3. CASE /\ ~(s.blob.err = "VerifyImageStatus" /\ s.blob.retry < MaxRetries)
           /\ ~(s.blob.err = "no" /\ s.blob.state >= VERIFIED)
  <2>1. treeFollowsBlob(s, t) = s
    BY <1>3 DEF treeFollowsBlob
  <2>2. QED
    BY <2>1 DEF Kept
<1>4. QED
  BY <1>1, <1>2, <1>3

\* The blob of a waiting tree
LEMMA UpdateBlob ==
  ASSUME NEW s, Good(s), NEW t \in Trees, s.tree[t] = "wait"
  PROVE  Good(updateBlob(s, t)) /\ Kept(s, updateBlob(s, t))
<1>1. CASE s.blob = None
  BY <1>1 DEF updateBlob, Kept
<1>2. CASE s.blob # None
  <2> DEFINE u == verifyIfNeeded(downloadIfNeeded(s))
  <2>1. BlobOK(s)
    BY <1>2 DEF Good, BlobOK
  <2>2. BlobStep(s, u) /\ (s.blob.state >= VERIFIED => u = s)
    BY <2>1, IfNeeded
  <2>3. updateBlob(s, t) = treeFollowsBlob(u, t)
    BY <1>2 DEF updateBlob
  <2> HIDE DEF u
  <2>4. TreeInv(u)
    <3>1. CASE s.blob.state >= VERIFIED
      BY <2>2, <3>1 DEF Good
    <3>2. CASE ~(s.blob.state >= VERIFIED)
      BY <2>2, <3>2 DEF Good, TreeInv, BlobStep, Frame
    <3>3. QED
      BY <3>1, <3>2
  <2>5. Good(u) /\ Kept(s, u) /\ u.tree = s.tree /\ u.blob # None
    BY <1>2, <2>2, <2>4, GoodStep
  <2>6. Good(treeFollowsBlob(u, t)) /\ Kept(u, treeFollowsBlob(u, t))
    BY <2>5, TreeFollows
  <2>7. QED
    BY <2>3, <2>5, <2>6 DEF Kept
<1>3. QED
  BY <1>1, <1>2

\* The blob a new blob status is made of
LEMMA NewBlobOK ==
  NewBlob \in Blob /\ NewBlob.ref = 0 /\ NewBlob.dref = FALSE /\ NewBlob.vref = FALSE
    /\ NewBlob.err = "no"
<1>1. IsFiniteSet(Trees)
  BY DEF VolumeMgrAssumption
<1>2. Cardinality(Trees) \in Nat
  BY <1>1, FS_CardinalityType
<1>3. QED
  BY <1>2 DEF NewBlob, Blob, Paths, INITIAL, LOADED

\* A manager without a blob has no references, and gets one that has none
LEMMA FirstBlob ==
  ASSUME NEW s, Good(s), s.blob = None, NEW b \in Blob,
         b.ref = 0, b.dref = FALSE, b.vref = FALSE
  PROVE  /\ BlobOK([s EXCEPT !.blob = b]) /\ Frame(s, [s EXCEPT !.blob = b])
         /\ [s EXCEPT !.blob = b].blob = b
<1> DEFINE u == [s EXCEPT !.blob = b]
<1>1. u \in Managers /\ u.blob = b /\ u.dc = s.dc /\ u.vc = s.vc /\ Frame(s, u)
  BY SetBlob DEF Good
<1>2. b # None
  BY NoneIsNoValue
<1> HIDE DEF u
<1>3. BlobOK(u)
  BY <1>1, <1>2 DEF BlobOK, Refs, Good
<1>4. QED
  BY <1>1, <1>3 DEF u

\* A new blob status, with no reference but that of its verification
LEMMA GoodNewBlob ==
  ASSUME NEW s, NEW u, Good(s), s.blob = None, BlobOK(u), Frame(s, u), u.blob.ref = 0, ErrorInv(u)
  PROVE  Good(u) /\ Kept(s, u) /\ u.tree = s.tree
<1>1. u \in Managers /\ Refs(u) /\ u.blob # None /\ u.tree = s.tree /\ u.images = s.images
         /\ u.cas = s.cas /\ u.fatal = s.fatal
  BY DEF BlobOK, Frame
<1>2. Live(u) = Live(s) /\ LoadedInv(u)
  BY <1>1 DEF Good, LoadedInv, Live
<1>3. TreeInv(u)
  BY <1>1 DEF Good, TreeInv
<1>4. RefCountInv(u)
  BY <1>1, <1>2 DEF Good, RefCountInv, Count
<1>5. QED
  BY <1>1, <1>2, <1>3, <1>4 DEF Good, Kept

\* A file that is verified already makes a blob status
LEMMA LookupOrCreate ==
  ASSUME NEW s, Good(s)
  PROVE  /\ Good(lookupOrCreateBlobStatus(s)) /\ Kept(s, lookupOrCreateBlobStatus(s))
         /\ lookupOrCreateBlobStatus(s).tree = s.tree
<1>1. CASE s.blob # None \/ ~usableStatus(s)
  <2>1. lookupOrCreateBlobStatus(s) = s
    BY <1>1 DEF lookupOrCreateBlobStatus
  <2>2. QED
    BY <2>1 DEF Kept
<1>2. CASE s.blob = None /\ usableStatus(s)
  <2> DEFINE st == Seen(s.vs)
             b == [NewBlob EXCEPT !.state = st.state, !.path = st.path]
             c == updateBlobFromVerifyImageStatus(st, b)
             u == [s EXCEPT !.blob = c]
  <2>1. lookupOrCreateBlobStatus(s) = startBlobVerification(u)
    BY <1>2 DEF lookupOrCreateBlobStatus
  <2>2. s \in Managers
    BY DEF Good
  <2>3. st \in VerifyImageStatus
    BY <1>2, <2>2, Usable
  <2> HIDE DEF st
  <2>4. st.state \in INITIAL..LOADED /\ st.path \in Paths
    BY <2>3 DEF VerifyImageStatus, VERIFYING, VERIFIED, INITIAL, LOADED
  <2>5. b \in Blob /\ b.ref = 0 /\ b.dref = FALSE /\ b.vref = FALSE
    BY <2>4, NewBlobOK DEF Blob
  <2> HIDE DEF b
  <2>6. c \in Blob /\ c.ref = 0 /\ c.dref = FALSE /\ c.vref = FALSE
    BY <2>3, <2>5, FromVerifier
  <2> HIDE DEF c
  <2>7. BlobOK(u) /\ Frame(s, u) /\ u.blob = c
    BY <1>2, <2>6, FirstBlob
  <2> HIDE DEF u
  <2>8. BlobStep(u, startBlobVerification(u)) /\ startBlobVerification(u).blob.vref
    BY <2>7, StartStep
  <2> DEFINE v == startBlobVerification(u)
  <2>9. BlobOK(v) /\ Frame(s, v) /\ v.blob.ref = 0 /\ ErrorInv(v)
    BY <2>6, <2>7, <2>8 DEF BlobStep, Frame, ErrorInv
  <2> HIDE DEF v
  <2>10. Good(v) /\ Kept(s, v) /\ v.tree = s.tree
    BY <1>2, <2>9, GoodNewBlob
  <2>11. QED
    BY <2>1, <2>10 DEF v
<1>3. QED
  BY <1>1, <1>2

\* doUpdateContentTree of a tree that waits
LEMMA UpdateBlobs ==
  ASSUME NEW s, Good(s), NEW t \in Trees, s.tree[t] = "wait"
  PROVE  Good(updateBlobs(s, t)) /\ Kept(s, updateBlobs(s, t))
<1> DEFINE u == lookupOrCreateBlobStatus(s)
<1>1. Good(u) /\ Kept(s, u) /\ u.tree = s.tree
  BY LookupOrCreate
<1> HIDE DEF u
<1>2. Good(updateBlob(u, t)) /\ Kept(u, updateBlob(u, t))
  BY <1>1, UpdateBlob
<1>3. QED
  BY <1>1, <1>2 DEF updateBlobs, u, Kept

\* A blob in which only state and path change keeps what is good
LEMMA GoodBlob ==
  ASSUME NEW s, Good(s), s.blob # None, NEW b \in Blob, b.dref = s.blob.dref,
         b.vref = s.blob.vref, b.ref = s.blob.ref, b.err = s.blob.err,
         s.blob.state >= VERIFIED => b.state >= VERIFIED
  PROVE  /\ Good([s EXCEPT !.blob = b]) /\ Kept(s, [s EXCEPT !.blob = b])
         /\ [s EXCEPT !.blob = b].blob = b /\ [s EXCEPT !.blob = b].tree = s.tree
<1> DEFINE u == [s EXCEPT !.blob = b]
<1>1. BlobOK(s)
  BY DEF Good, BlobOK
<1>2. BlobStep(s, u) /\ u.blob = b
  BY <1>1, BlobStepTo, ChangeBlob
<1> HIDE DEF u
<1>3. TreeInv(u)
  BY <1>2, NoneIsNoValue DEF Good, TreeInv, BlobStep, Frame
<1>4. Good(u) /\ Kept(s, u) /\ u.tree = s.tree
  BY <1>2, <1>3, GoodStep
<1>5. QED
  BY <1>2, <1>4 DEF u

\* The jobs, their results and what is kept of them do not matter to what is good
LEMMA GoodOther ==
  ASSUME NEW s, Good(s), NEW u \in Managers, u.tree = s.tree, u.blob = s.blob, u.dc = s.dc,
         u.vc = s.vc, u.cas = s.cas, u.images = s.images, u.fatal = s.fatal
  PROVE  Good(u) /\ Kept(s, u)
<1>1. Live(u) = Live(s)
  BY DEF Live
<1>2. Refs(u) /\ ErrorInv(u) /\ TreeInv(u) /\ LoadedInv(u)
  BY DEF Good, Refs, ErrorInv, TreeInv, LoadedInv
<1>3. RefCountInv(u)
  BY <1>1 DEF Good, RefCountInv
<1>4. QED
  BY <1>1, <1>2, <1>3 DEF Good, Kept

\* A job is added
LEMMA GoodJobs ==
  ASSUME NEW s, Good(s), NEW j \in Seq(Jobs)
  PROVE  Good([s EXCEPT !.jobs = j]) /\ Kept(s, [s EXCEPT !.jobs = j])
<1> DEFINE u == [s EXCEPT !.jobs = j]
<1>1. s \in Managers
  BY DEF Good
<1>2. /\ u \in Managers /\ u.tree = s.tree /\ u.blob = s.blob /\ u.dc = s.dc
      /\ u.vc = s.vc /\ u.cas = s.cas /\ u.images = s.images /\ u.fatal = s.fatal
  BY <1>1 DEF Managers
<1> HIDE DEF u
<1>3. Good(u) /\ Kept(s, u)
  BY <1>2, GoodOther
<1>4. QED
  BY <1>3 DEF u

\* A result is kept for a tree, or taken
LEMMA GoodKept ==
  ASSUME NEW s, Good(s), NEW t \in Trees, NEW v \in {"none", "ok", "error"}
  PROVE  /\ Good([s EXCEPT !.kept[t] = v]) /\ Kept(s, [s EXCEPT !.kept[t] = v])
         /\ [s EXCEPT !.kept[t] = v].tree = s.tree /\ [s EXCEPT !.kept[t] = v].blob = s.blob
         /\ [s EXCEPT !.kept[t] = v].images = s.images
<1> DEFINE k == [s.kept EXCEPT ![t] = v]
           u == [s EXCEPT !.kept = k]
<1>1. s \in Managers
  BY DEF Good
<1>2. k \in [Trees -> {"none", "ok", "error"}]
  BY <1>1 DEF Managers
<1>3. [s EXCEPT !.kept[t] = v] = u
  OBVIOUS
<1> HIDE DEF k
<1>4. /\ u \in Managers /\ u.tree = s.tree /\ u.blob = s.blob /\ u.dc = s.dc
      /\ u.vc = s.vc /\ u.cas = s.cas /\ u.images = s.images /\ u.fatal = s.fatal
  BY <1>1, <1>2 DEF Managers
<1> HIDE DEF u
<1>5. Good(u) /\ Kept(s, u)
  BY <1>4, GoodOther
<1>6. QED
  BY <1>3, <1>4, <1>5

\* A tree that is verified is loaded
LEMMA StartLoading ==
  ASSUME NEW s, Good(s), NEW t \in Trees, s.tree[t] = "VERIFIED"
  PROVE  Good(startLoading(s, t)) /\ Kept(s, startLoading(s, t))
<1>1. s.blob # None /\ s.blob.state >= VERIFIED /\ s.blob.err = "no" /\ s \in Managers
  BY DEF Good, TreeInv
<1>2. s.blob \in Blob
  BY <1>1 DEF Managers
<1>3. CASE s.blob.state = LOADING
  BY <1>3 DEF startLoading, Kept
<1>4. CASE s.blob.state # LOADING
  <2> DEFINE n == IF s.blob.state = VERIFIED THEN LOADING ELSE s.blob.state
             b == [s.blob EXCEPT !.state = n]
             u == [s EXCEPT !.blob = b]
             v == [u EXCEPT !.tree[t] = "LOADING"]
             j == Append(s.jobs, [t |-> t, at |-> "queued"])
             w == [v EXCEPT !.jobs = j]
  <2>1. startLoading(s, t) = w
    BY <1>4 DEF startLoading
  <2>2. n \in INITIAL..LOADED /\ n >= VERIFIED
    BY <1>1, <1>2 DEF Blob, INITIAL, LOADED, VERIFIED, LOADING
  <2> HIDE DEF n
  <2>3. b \in Blob /\ b.dref = s.blob.dref /\ b.vref = s.blob.vref /\ b.ref = s.blob.ref
          /\ b.err = s.blob.err /\ b.state >= VERIFIED
    BY <1>2, <2>2 DEF Blob
  <2> HIDE DEF b
  <2>4. Good(u) /\ Kept(s, u) /\ u.blob = b /\ u.tree = s.tree
    BY <1>1, <2>3, GoodBlob
  <2>5. b # None /\ "LOADING" \in TreeStates
    BY <2>3, NoneIsNoValue DEF TreeStates
  <2> HIDE DEF u
  <2>6. Good(v) /\ Kept(u, v)
    BY <1>1, <2>3, <2>4, <2>5, GoodTree
  <2>7. j \in Seq(Jobs)
    <3>1. s.jobs \in Seq(Jobs)
      BY <1>1 DEF Managers
    <3>2. [t |-> t, at |-> "queued"] \in Jobs
      BY DEF Jobs
    <3>3. QED
      BY <3>1, <3>2, AppendProperties
  <2> HIDE DEF v, j
  <2>8. Good(w) /\ Kept(v, w)
    BY <2>6, <2>7, GoodJobs
  <2>9. QED
    BY <2>1, <2>4, <2>6, <2>8 DEF Kept
<1>5. QED
  BY <1>3, <1>4

\* Once it is loaded the blob gives its references back
LEMMA DropReferences ==
  ASSUME NEW s, Good(s), s.blob # None, s.blob.err = "no"
  PROVE  /\ Good(dropReferences(s)) /\ Kept(s, dropReferences(s))
         /\ dropReferences(s).tree = s.tree /\ dropReferences(s).blob # None
         /\ dropReferences(s).blob.state = s.blob.state /\ dropReferences(s).blob.err = "no"
         /\ dropReferences(s).kept = s.kept
<1> DEFINE u == dropDownloaderRef(s)
           v == dropVerifierRef(u)
           b == [s.blob EXCEPT !.dref = FALSE]
           c == [b EXCEPT !.vref = FALSE]
           d == [c EXCEPT !.path = IF s.blob.vref THEN "" ELSE c.path]
<1>1. BlobOK(s) /\ s.blob \in Blob
  BY RefsOfBlob DEF Good, BlobOK
<1>2. BlobOK(u) /\ Frame(s, u) /\ u.blob = b
  BY <1>1, DropDownloader
<1>3. BlobOK(v) /\ Frame(u, v) /\ v.blob = c
  <2> HIDE DEF u
  <2>1. QED
    BY <1>2, DropVerifier
<1>4. b \in Blob /\ b.state = s.blob.state /\ b.err = "no" /\ b.ref = s.blob.ref
  BY <1>1 DEF Blob
<1>5. dropReferences(s) = [v EXCEPT !.blob = d]
  <2>1. dropReferences(s) = [v EXCEPT !.blob.path = IF s.blob.vref THEN "" ELSE @]
    BY DEF dropReferences
  <2> HIDE DEF v, c
  <2>2. QED
    BY <1>3, <2>1
<1> HIDE DEF u, v, b
<1>6. c \in Blob /\ c.state = b.state /\ c.err = b.err /\ c.ref = b.ref
  BY <1>4 DEF Blob
<1> HIDE DEF c
<1>7. (IF s.blob.vref THEN "" ELSE c.path) \in Paths
  BY <1>6 DEF Blob, Paths
<1>8. d \in Blob /\ d.state = c.state /\ d.err = c.err /\ d.ref = c.ref /\ d.dref = c.dref
        /\ d.vref = c.vref
  BY <1>6, <1>7 DEF Blob
<1> HIDE DEF d
<1> DEFINE w == [v EXCEPT !.blob = d]
<1>9. BlobOK(w) /\ Frame(v, w) /\ w.blob = d
  BY <1>3, <1>8, ChangeBlob
<1> HIDE DEF w
<1>10. BlobStep(s, w)
  BY <1>2, <1>3, <1>4, <1>6, <1>8, <1>9 DEF BlobStep, Frame, ErrorInv
<1>11. TreeInv(w)
  BY <1>4, <1>6, <1>8, <1>9, <1>10, NoneIsNoValue DEF Good, TreeInv, BlobStep, Frame
<1>12. Good(w) /\ Kept(s, w) /\ w.tree = s.tree /\ w.blob # None
  BY <1>10, <1>11, GoodStep
<1>13. w.kept = s.kept
  BY <1>10 DEF BlobStep, Frame
<1>14. dropReferences(s) = w
  BY <1>5 DEF w
<1>15. QED
  BY <1>4, <1>6, <1>8, <1>9, <1>12, <1>13, <1>14

\* The result of a job is taken: the tree is LOADED when the CAS has its image
LEMMA FinishLoading ==
  ASSUME NEW s, Good(s), NEW t \in Trees, s.tree[t] \in {"LOADING", "LOADING_with_error"}
  PROVE  Good(finishLoading(s, t)) /\ Kept(s, finishLoading(s, t))
<1>1. s.blob # None /\ s.blob.state >= VERIFIED /\ s.blob.err = "no" /\ s \in Managers
  BY DEF Good, TreeInv
<1>2. CASE s.kept[t] = "error"
  <2> DEFINE u == [s EXCEPT !.kept[t] = "none"]
  <2>1. Good(u) /\ Kept(s, u) /\ u.tree = s.tree /\ u.blob = s.blob
    BY GoodKept
  <2>2. finishLoading(s, t) = [u EXCEPT !.tree[t] = "LOADING_with_error"]
    BY <1>2 DEF finishLoading
  <2>3. "LOADING_with_error" \in TreeStates
    BY DEF TreeStates
  <2> HIDE DEF u
  <2>4. Good([u EXCEPT !.tree[t] = "LOADING_with_error"])
           /\ Kept(u, [u EXCEPT !.tree[t] = "LOADING_with_error"])
    BY <1>1, <2>1, <2>3, GoodTree
  <2>5. QED
    BY <2>1, <2>2, <2>4 DEF Kept
<1>3. CASE s.kept[t] # "error" /\ s.blob.state # LOADED
  <2> DEFINE u == [s EXCEPT !.kept[t] = "none"]
  <2>1. finishLoading(s, t) = u
    BY <1>3 DEF finishLoading
  <2>2. Good(u) /\ Kept(s, u)
    BY GoodKept
  <2>3. QED
    BY <2>1, <2>2
<1>4. CASE s.kept[t] # "error" /\ s.blob.state = LOADED
  <2> DEFINE d == dropReferences(s)
             u == [d EXCEPT !.kept[t] = "none"]
             x == IF t \in s.images THEN "LOADED" ELSE u.tree[t]
  <2>1. /\ Good(d) /\ Kept(s, d) /\ d.tree = s.tree /\ d.blob # None
        /\ d.blob.state = s.blob.state /\ d.blob.err = "no"
    BY <1>1, DropReferences
  <2>2. finishLoading(s, t) = [u EXCEPT !.tree[t] = x]
    BY <1>4 DEF finishLoading
  <2> HIDE DEF d
  <2>3. Good(u) /\ Kept(d, u) /\ u.tree = d.tree /\ u.blob = d.blob
    BY <2>1, GoodKept
  <2>4. x \in TreeStates /\ x # "none" /\ (x = "LOADED" => t \in u.images)
    BY <2>1, <2>3 DEF TreeStates, Kept
  <2> HIDE DEF u, x
  <2>5. Good([u EXCEPT !.tree[t] = x]) /\ Kept(u, [u EXCEPT !.tree[t] = x])
    BY <1>1, <2>1, <2>3, <2>4, GoodTree
  <2>6. QED
    BY <2>1, <2>2, <2>3, <2>5 DEF Kept
<1>5. QED
  BY <1>2, <1>3, <1>4

\* Handling a content tree keeps what is good, which trees there are, and the CAS
LEMMA DoUpdate ==
  ASSUME NEW s, Good(s), NEW t \in Trees
  PROVE  Good(doUpdateContentTree(s, t)) /\ Kept(s, doUpdateContentTree(s, t))
<1>1. CASE s.tree[t] \in {"LOADING", "LOADING_with_error"}
  BY <1>1, FinishLoading DEF doUpdateContentTree
<1>2. CASE s.tree[t] \notin {"LOADING", "LOADING_with_error"}
  <2> DEFINE u == IF s.tree[t] = "wait" THEN updateBlobs(s, t) ELSE s
  <2>1. Good(u) /\ Kept(s, u)
    BY UpdateBlobs DEF Kept
  <2>2. doUpdateContentTree(s, t) = loadIfVerified(u, t)
    BY <1>2 DEF doUpdateContentTree
  <2> HIDE DEF u
  <2>3. Good(loadIfVerified(u, t)) /\ Kept(u, loadIfVerified(u, t))
    BY <2>1, StartLoading DEF loadIfVerified, Kept
  <2>4. QED
    BY <2>1, <2>2, <2>3 DEF Kept
<1>3. QED
  BY <1>1, <1>2

\* The values between the content trees that updateStatusByBlob handles one after another
Between(f, s, order, n) ==
  f = [i \in 0..n |-> IF i = 0 THEN s ELSE doUpdateContentTree(f[i - 1], order[i])]

\* There are such values for as many trees as there are
LEMMA BetweenExists ==
  ASSUME NEW s, NEW order, NEW n \in Nat
  PROVE  \E f : Between(f, s, order, n)
<1> DEFINE B == {k \in Nat : ~\E f : Between(f, s, order, k)}
<1>1. SUFFICES ASSUME B # {} PROVE FALSE
  OBVIOUS
<1>2. PICK k \in B : \A j \in B : ~(j < k)
  <2>1. IsWellFoundedOn(OpToRel(<, Nat), Nat)
    BY NatLessThanWellFounded
  <2>2. B \subseteq Nat
    OBVIOUS
  <2>3. \E k \in B : \A j \in B : ~ (<<j, k>> \in OpToRel(<, Nat))
    BY <1>1, <2>1, <2>2, WFMin
  <2>4. QED
    BY <2>3, <2>2, Zenon DEF OpToRel
<1>3. k \in Nat /\ ~\E f : Between(f, s, order, k)
  OBVIOUS
<1>4. k # 0
  <2> DEFINE f == [i \in 0..0 |-> s]
  <2>1. f = [i \in 0..0 |-> IF i = 0 THEN s ELSE doUpdateContentTree(f[i - 1], order[i])]
    OBVIOUS
  <2>2. Between(f, s, order, 0)
    BY <2>1 DEF Between
  <2>3. QED
    BY <1>3, <2>2
<1>5. k - 1 \in Nat /\ k - 1 < k
  BY <1>3, <1>4
<1>6. \E f : Between(f, s, order, k - 1)
  BY <1>2, <1>5
<1>7. PICK g : Between(g, s, order, k - 1)
  BY <1>6
<1> HIDE DEF B
<1> DEFINE f == [i \in 0..k |-> IF i = k THEN doUpdateContentTree(g[k - 1], order[k]) ELSE g[i]]
<1>8. \A i \in 0..k : f[i] = IF i = 0 THEN s ELSE doUpdateContentTree(f[i - 1], order[i])
  <2> SUFFICES ASSUME NEW i \in 0..k
               PROVE  f[i] = IF i = 0 THEN s ELSE doUpdateContentTree(f[i - 1], order[i])
    OBVIOUS
  <2>1. \A j \in 0..(k - 1) : g[j] = IF j = 0 THEN s ELSE doUpdateContentTree(g[j - 1], order[j])
    BY <1>7 DEF Between
  <2>2. CASE i = k
    <3>1. f[k - 1] = g[k - 1] /\ f[k] = doUpdateContentTree(g[k - 1], order[k])
      BY <1>3, <1>4
    <3>2. QED
      BY <1>4, <2>2, <3>1
  <2>3. CASE i # k
    <3>1. i \in 0..(k - 1) /\ f[i] = g[i] /\ (i # 0 => f[i - 1] = g[i - 1])
      BY <1>3, <2>3
    <3>2. QED
      BY <2>1, <3>1
  <2>4. QED
    BY <2>2, <2>3
<1>9. Between(f, s, order, k)
  <2> DEFINE h == [i \in 0..k |-> IF i = 0 THEN s ELSE doUpdateContentTree(f[i - 1], order[i])]
  <2>1. \A i \in 0..k : f[i] = h[i]
    BY <1>8
  <2>2. DOMAIN f = 0..k /\ DOMAIN h = 0..k /\ f = [i \in 0..k |-> f[i]] /\ h = [i \in 0..k |-> h[i]]
    OBVIOUS
  <2> HIDE DEF f
  <2>3. f = h
    <3> HIDE DEF h
    <3>1. QED
      BY <2>1, <2>2
  <2>4. QED
    BY <2>3 DEF Between
<1>10. QED
  BY <1>3, <1>9

\* Handling the content trees, in whatever order, keeps what handling one of them keeps
LEMMA UpdateStatus ==
  ASSUME NEW s, Good(s), NEW order \in Seq(Trees)
  PROVE  Good(updateStatusByBlob(s, order)) /\ Kept(s, updateStatusByBlob(s, order))
<1> DEFINE n == Len(order)
           f == CHOOSE g : Between(g, s, order, n)
           B == {k \in 0..n : ~(Good(f[k]) /\ Kept(s, f[k]))}
<1>1. n \in Nat
  OBVIOUS
<1>2. updateStatusByBlob(s, order) = f[n]
  BY DEF updateStatusByBlob, Between
<1>3. Between(f, s, order, n)
  BY <1>1, BetweenExists
<1> HIDE DEF f
<1>4. \A i \in 0..n : f[i] = IF i = 0 THEN s ELSE doUpdateContentTree(f[i - 1], order[i])
  BY <1>3 DEF Between
<1>5. SUFFICES ASSUME B # {} PROVE FALSE
  <2>1. n \in 0..n
    BY <1>1
  <2>2. Good(f[n]) /\ Kept(s, f[n])
    BY <1>5, <2>1
  <2>3. QED
    BY <1>2, <2>2
<1>6. PICK k \in B : \A j \in B : ~(j < k)
  <2>1. IsWellFoundedOn(OpToRel(<, Nat), Nat)
    BY NatLessThanWellFounded
  <2>2. B \subseteq Nat
    BY <1>1
  <2>3. \E k \in B : \A j \in B : ~ (<<j, k>> \in OpToRel(<, Nat))
    BY <1>5, <2>1, <2>2, WFMin
  <2>4. QED
    BY <2>3, <2>2, Zenon DEF OpToRel
<1>7. k \in 0..n /\ ~(Good(f[k]) /\ Kept(s, f[k]))
  OBVIOUS
<1>8. k # 0
  <2>1. f[0] = s
    BY <1>1, <1>4
  <2>2. QED
    BY <1>7, <2>1 DEF Kept
<1>9. k - 1 \in 0..n /\ k - 1 < k
  BY <1>1, <1>7, <1>8
<1>10. Good(f[k - 1]) /\ Kept(s, f[k - 1])
  BY <1>6, <1>9
<1>11. order[k] \in Trees
  BY <1>7, <1>8, ElementOfSeq
<1>12. f[k] = doUpdateContentTree(f[k - 1], order[k])
  BY <1>4, <1>7, <1>8
<1>13. Good(f[k]) /\ Kept(f[k - 1], f[k])
  BY <1>10, <1>11, <1>12, DoUpdate
<1>14. QED
  BY <1>7, <1>10, <1>13 DEF Kept

-----------------------------------------------------------------------------
(* Content trees come and go *)

\* The number of content trees
LEMMA LiveCount ==
  ASSUME NEW s
  PROVE  /\ IsFiniteSet(Live(s)) /\ Cardinality(Live(s)) \in Nat
         /\ Cardinality(Trees) \in Nat /\ Cardinality(Live(s)) <= Cardinality(Trees)
         /\ (Cardinality(Live(s)) = 0 <=> Live(s) = {})
<1>1. IsFiniteSet(Trees) /\ Live(s) \subseteq Trees
  BY DEF VolumeMgrAssumption, Live
<1>2. IsFiniteSet(Live(s)) /\ Cardinality(Live(s)) <= Cardinality(Trees)
  BY <1>1, FS_Subset
<1>3. QED
  BY <1>1, <1>2, FS_CardinalityType, FS_EmptySet

\* A blob that no other content tree has
LEMMA OrNewBlob ==
  ASSUME NEW s, Good(s)
  PROVE  /\ Good(orNewBlob(s)) /\ Kept(s, orNewBlob(s)) /\ orNewBlob(s).tree = s.tree
         /\ orNewBlob(s).blob # None
<1>1. CASE s.blob # None
  BY <1>1 DEF orNewBlob, Kept
<1>2. CASE s.blob = None
  <2> DEFINE u == [s EXCEPT !.blob = NewBlob]
  <2>1. BlobOK(u) /\ Frame(s, u) /\ u.blob = NewBlob
    BY <1>2, NewBlobOK, FirstBlob
  <2>2. orNewBlob(s) = u
    BY <1>2 DEF orNewBlob
  <2> HIDE DEF u
  <2>3. ErrorInv(u) /\ u.blob.ref = 0 /\ u.blob # None
    BY <2>1, NewBlobOK, NoneIsNoValue DEF ErrorInv
  <2>4. QED
    BY <1>2, <2>1, <2>2, <2>3, GoodNewBlob
<1>3. QED
  BY <1>1, <1>2

\* A content tree that comes takes a reference to the blob
LEMMA Create ==
  ASSUME NEW s, Good(s), NEW t \in Trees, s.tree[t] = "none"
  PROVE  /\ Good(createContentTreeStatus(s, t))
         /\ Live(createContentTreeStatus(s, t)) = Live(s) \cup {t}
         /\ createContentTreeStatus(s, t).images = s.images
         /\ createContentTreeStatus(s, t).cas = s.cas
<1> DEFINE l == lookupOrCreateBlobStatus(s)
           o == orNewBlob(l)
           b == [o.blob EXCEPT !.ref = @ + 1]
           u == [o EXCEPT !.blob = b]
           v == [u EXCEPT !.tree[t] = "wait"]
<1>1. Good(l) /\ Kept(s, l) /\ l.tree = s.tree
  BY LookupOrCreate
<1>2. Good(o) /\ Kept(l, o) /\ o.tree = l.tree /\ o.blob # None
  <2> HIDE DEF l
  <2>1. QED
    BY <1>1, OrNewBlob
<1>3. createContentTreeStatus(s, t) = v
  BY DEF createContentTreeStatus, AddRefToBlobStatus
<1> HIDE DEF o, l
<1>4. o \in Managers /\ o.blob \in Blob /\ o.tree = s.tree /\ o.images = s.images /\ o.cas = s.cas
  BY <1>1, <1>2 DEF Good, Managers, Kept
<1>5. o.blob.ref + 1 \in 0..Cardinality(Trees)
  <2>1. t \notin Live(o) /\ Live(o) \cup {t} \subseteq Trees
    BY <1>4 DEF Live
  <2>2. Cardinality(Live(o) \cup {t}) = Cardinality(Live(o)) + 1
    BY <2>1, LiveCount, FS_AddElement
  <2>3. Cardinality(Live(o) \cup {t}) <= Cardinality(Trees)
    BY <2>1, FS_Subset DEF VolumeMgrAssumption
  <2>4. o.blob.ref = Cardinality(Live(o))
    BY <1>2 DEF Good, RefCountInv, Count
  <2>5. QED
    BY <2>2, <2>3, <2>4, LiveCount
<1>6. b \in Blob /\ b.dref = o.blob.dref /\ b.vref = o.blob.vref /\ b.err = o.blob.err
         /\ b.state = o.blob.state /\ b.ref = o.blob.ref + 1
  BY <1>4, <1>5 DEF Blob
<1> HIDE DEF b
<1>7. BlobOK(o)
  BY <1>2 DEF Good, BlobOK
<1>8. BlobOK(u) /\ Frame(o, u) /\ u.blob = b
  BY <1>6, <1>7, ChangeBlob
<1> HIDE DEF u
<1>9. u \in Managers /\ "wait" \in TreeStates
  BY <1>8 DEF BlobOK, TreeStates
<1>10. /\ v \in Managers /\ v.tree = [u.tree EXCEPT ![t] = "wait"] /\ v.blob = b
       /\ v.dc = u.dc /\ v.vc = u.vc /\ v.cas = o.cas /\ v.images = o.images
  BY <1>8, <1>9, SetTree DEF Frame
<1>11. u.tree = s.tree /\ s.tree \in [Trees -> TreeStates]
  BY <1>4, <1>8 DEF Frame, Managers
<1> HIDE DEF v
<1>12. \A x \in Trees : v.tree[x] = IF x = t THEN "wait" ELSE s.tree[x]
  BY <1>10, <1>11
<1>13. b # None
  BY <1>6, NoneIsNoValue
<1>14. Live(v) = Live(s) \cup {t} /\ Live(o) = Live(s)
  BY <1>4, <1>12 DEF Live
<1>15. Refs(v)
  BY <1>8, <1>10 DEF BlobOK, Refs
<1>16. ErrorInv(v)
  BY <1>2, <1>6, <1>10 DEF Good, ErrorInv
<1>17. TreeInv(v)
  BY <1>2, <1>4, <1>6, <1>10, <1>12, <1>13 DEF Good, TreeInv
<1>18. RefCountInv(v)
  <2>1. t \notin Live(s)
    BY DEF Live
  <2>2. Cardinality(Live(s) \cup {t}) = Cardinality(Live(s)) + 1
    BY <2>1, LiveCount, FS_AddElement
  <2>3. o.blob.ref = Cardinality(Live(s))
    BY <1>2, <1>14 DEF Good, RefCountInv, Count
  <2>4. QED
    BY <1>6, <1>10, <1>13, <1>14, <2>2, <2>3 DEF RefCountInv, Count
<1>19. LoadedInv(v)
  BY <1>2, <1>4, <1>10, <1>12 DEF Good, LoadedInv
<1>20. QED
  BY <1>3, <1>4, <1>10, <1>14, <1>15, <1>16, <1>17, <1>18, <1>19 DEF Good

\* A blob that goes gives both references back and, when it is LOADED, leaves the CAS
LEMMA UnpublishBlob ==
  ASSUME NEW s, BlobOK(s)
  PROVE  /\ unpublishBlobStatus(s) \in Managers /\ Refs(unpublishBlobStatus(s))
         /\ unpublishBlobStatus(s).blob = None /\ unpublishBlobStatus(s).tree = s.tree
         /\ unpublishBlobStatus(s).images = s.images
<1> DEFINE u == dropDownloaderRef(s)
           v == dropVerifierRef(u)
           c == v.cas /\ s.blob.state # LOADED
           w == [v EXCEPT !.cas = c]
           x == [w EXCEPT !.blob = None]
<1>1. BlobOK(u) /\ Frame(s, u) /\ u.blob = [s.blob EXCEPT !.dref = FALSE]
  BY DropDownloader
<1>2. unpublishBlobStatus(s) = x
  BY DEF unpublishBlobStatus
<1> HIDE DEF u
<1>3. BlobOK(v) /\ Frame(u, v) /\ v.blob = [u.blob EXCEPT !.vref = FALSE]
  BY <1>1, DropVerifier
<1> HIDE DEF v
<1>4. ~v.blob.dref /\ ~v.blob.vref
  <2>1. s.blob \in Blob
    BY RefsOfBlob
  <2>2. u.blob \in Blob /\ ~u.blob.dref
    BY <1>1, <2>1 DEF Blob
  <2>3. QED
    BY <1>3, <2>2 DEF Blob
<1>5. c \in BOOLEAN
  OBVIOUS
<1> HIDE DEF c
<1>6. v \in Managers
  BY <1>3 DEF BlobOK
<1>7. w \in Managers /\ w.dc = v.dc /\ w.vc = v.vc /\ w.tree = v.tree /\ w.images = v.images
  BY <1>5, <1>6 DEF Managers
<1> HIDE DEF w
<1>8. x \in Managers /\ x.blob = None /\ x.dc = w.dc /\ x.vc = w.vc /\ Frame(w, x)
  BY <1>7, SetBlob
<1> HIDE DEF x
<1>9. Refs(x)
  BY <1>3, <1>4, <1>7, <1>8 DEF BlobOK, Refs
<1>10. x.tree = s.tree /\ x.images = s.images
  BY <1>1, <1>3, <1>7, <1>8 DEF Frame
<1>11. QED
  BY <1>2, <1>8, <1>9, <1>10

\* A tree is no more, and its image with it
LEMMA Gone ==
  ASSUME NEW s \in Managers, NEW t \in Trees
  PROVE  LET u == [s EXCEPT !.images = @ \ {t}, !.tree[t] = "none"]
         IN  /\ u \in Managers /\ u.images = s.images \ {t} /\ u.blob = s.blob /\ u.dc = s.dc
             /\ u.vc = s.vc /\ u.cas = s.cas
             /\ \A x \in Trees : u.tree[x] = IF x = t THEN "none" ELSE s.tree[x]
<1> DEFINE v == [s EXCEPT !.images = s.images \ {t}]
           u == [v EXCEPT !.tree[t] = "none"]
<1>1. s.images \ {t} \in SUBSET Trees /\ s.tree \in [Trees -> TreeStates]
  BY DEF Managers
<1>2. /\ v \in Managers /\ v.images = s.images \ {t} /\ v.blob = s.blob /\ v.dc = s.dc
      /\ v.vc = s.vc /\ v.cas = s.cas /\ v.tree = s.tree
  BY <1>1 DEF Managers
<1>3. [s EXCEPT !.images = @ \ {t}, !.tree[t] = "none"] = u
  OBVIOUS
<1> HIDE DEF v
<1>4. "none" \in TreeStates
  BY DEF TreeStates
<1>5. /\ u \in Managers /\ u.tree = [v.tree EXCEPT ![t] = "none"] /\ u.blob = v.blob
      /\ u.dc = v.dc /\ u.vc = v.vc /\ u.cas = v.cas /\ u.images = v.images
  BY <1>2, <1>4, SetTree
<1> HIDE DEF u
<1>6. \A x \in Trees : u.tree[x] = IF x = t THEN "none" ELSE s.tree[x]
  BY <1>1, <1>2, <1>5
<1>7. QED
  BY <1>2, <1>3, <1>5, <1>6

\* A content tree that goes gives its reference to the blob back; the last one takes
\* the blob with it
LEMMA Delete ==
  ASSUME NEW s, Good(s), NEW t \in Trees, s.tree[t] # "none"
  PROVE  /\ Good(doDeleteContentTree(s, t))
         /\ Live(doDeleteContentTree(s, t)) = Live(s) \ {t}
         /\ doDeleteContentTree(s, t).tree[t] = "none"
         /\ doDeleteContentTree(s, t).images = s.images \ {t}
         /\ doDeleteContentTree(s, t).cas = s.cas \/ Live(s) = {t}
<1> DEFINE n == Cardinality(Live(s))
           r == RemoveRefFromBlobStatus(s)
           u == [r EXCEPT !.images = @ \ {t}, !.tree[t] = "none"]
<1>1. s \in Managers /\ t \in Live(s) /\ n \in Nat \ {0}
  BY LiveCount DEF Good, Live
<1>2. Cardinality(Live(s) \ {t}) = n - 1
  BY <1>1, LiveCount, FS_RemoveElement
<1>3. s.blob # None /\ s.blob.ref = n /\ s.blob \in Blob /\ BlobOK(s)
  BY <1>1 DEF Good, RefCountInv, Count, Managers, BlobOK
<1>4. doDeleteContentTree(s, t) = u
  BY <1>3 DEF doDeleteContentTree
<1> HIDE DEF n
<1>5. CASE n = 1
  <2> DEFINE b == [s.blob EXCEPT !.ref = 0]
             v == [s EXCEPT !.blob = b]
  <2>1. Live(s) = {t}
    <3>1. Cardinality(Live(s) \ {t}) = 0 /\ IsFiniteSet(Live(s) \ {t})
      BY <1>2, <1>5, LiveCount, FS_RemoveElement
    <3>2. Live(s) \ {t} = {}
      BY <3>1, FS_EmptySet
    <3>3. QED
      BY <1>1, <3>2
  <2>2. b \in Blob /\ b.dref = s.blob.dref /\ b.vref = s.blob.vref
    BY <1>3, LiveCount DEF Blob
  <2>3. r = unpublishBlobStatus(v)
    BY <1>3, <1>5 DEF RemoveRefFromBlobStatus
  <2> HIDE DEF b
  <2>4. BlobOK(v) /\ Frame(s, v)
    BY <1>3, <2>2, ChangeBlob
  <2> HIDE DEF v
  <2>5. r \in Managers /\ Refs(r) /\ r.blob = None /\ r.tree = v.tree /\ r.images = v.images
    BY <2>3, <2>4, UnpublishBlob
  <2> HIDE DEF r
  <2>6. /\ u \in Managers /\ u.images = r.images \ {t} /\ u.blob = r.blob /\ u.dc = r.dc
        /\ u.vc = r.vc /\ \A x \in Trees : u.tree[x] = IF x = t THEN "none" ELSE r.tree[x]
    BY <2>5, Gone
  <2> HIDE DEF u
  <2>7. r.tree = s.tree /\ r.images = s.images
    BY <2>4, <2>5 DEF Frame
  <2>8. \A x \in Trees : u.tree[x] = "none"
    BY <2>1, <2>6, <2>7 DEF Live
  <2>9. Live(u) = {}
    BY <2>8 DEF Live
  <2>10. Refs(u)
    BY <2>5, <2>6 DEF Refs
  <2>11. ErrorInv(u) /\ TreeInv(u) /\ LoadedInv(u)
    BY <2>5, <2>6, <2>8 DEF ErrorInv, TreeInv, LoadedInv
  <2>12. RefCountInv(u)
    BY <2>5, <2>6, <2>9, FS_EmptySet DEF RefCountInv, Count
  <2>13. QED
    BY <1>4, <2>1, <2>6, <2>7, <2>8, <2>9, <2>10, <2>11, <2>12 DEF Good
<1>6. CASE n # 1
  <2> DEFINE b == [s.blob EXCEPT !.ref = @ - 1]
  <2>1. n - 1 \in 0..Cardinality(Trees)
    BY <1>1, LiveCount DEF n
  <2>2. b \in Blob /\ b.dref = s.blob.dref /\ b.vref = s.blob.vref /\ b.ref = n - 1
          /\ b.err = s.blob.err /\ b.state = s.blob.state
    BY <1>3, <2>1 DEF Blob
  <2>3. r = [s EXCEPT !.blob = b]
    BY <1>1, <1>3, <1>6 DEF RemoveRefFromBlobStatus
  <2> HIDE DEF b
  <2>4. BlobOK(r) /\ Frame(s, r) /\ r.blob = b
    BY <1>3, <2>2, <2>3, ChangeBlob
  <2> HIDE DEF r
  <2>5. r \in Managers /\ Refs(r) /\ r.tree = s.tree /\ r.images = s.images /\ r.cas = s.cas
    BY <2>4 DEF BlobOK, Frame
  <2>6. /\ u \in Managers /\ u.images = s.images \ {t} /\ u.blob = b /\ u.dc = r.dc
        /\ u.vc = r.vc /\ u.cas = s.cas
        /\ \A x \in Trees : u.tree[x] = IF x = t THEN "none" ELSE s.tree[x]
    <3>1. /\ u \in Managers /\ u.images = r.images \ {t} /\ u.blob = r.blob /\ u.dc = r.dc
          /\ u.vc = r.vc /\ u.cas = r.cas
          /\ \A x \in Trees : u.tree[x] = IF x = t THEN "none" ELSE r.tree[x]
      BY <2>5, Gone
    <3> HIDE DEF u
    <3>2. QED
      BY <2>4, <2>5, <3>1
  <2> HIDE DEF u
  <2>7. Live(u) = Live(s) \ {t}
    BY <2>6 DEF Live
  <2>8. b # None
    BY <2>2, NoneIsNoValue
  <2>9. Refs(u)
    BY <2>4, <2>5, <2>6 DEF Refs
  <2>10. ErrorInv(u) /\ LoadedInv(u)
    BY <1>3, <2>2, <2>6 DEF Good, ErrorInv, LoadedInv
  <2>11. TreeInv(u)
    BY <1>3, <2>2, <2>6, <2>8 DEF Good, TreeInv
  <2>12. RefCountInv(u)
    BY <1>2, <2>2, <2>6, <2>7, <2>8 DEF RefCountInv, Count
  <2>13. QED
    BY <1>4, <2>6, <2>7, <2>9, <2>10, <2>11, <2>12 DEF Good
<1>7. QED
  BY <1>5, <1>6

-----------------------------------------------------------------------------
(* The handlers *)

\* What is good depends on what is published of the configurations, and images only help
LEMMA GoodFrame ==
  ASSUME NEW s, Good(s), NEW u \in Managers, u.tree = s.tree, u.blob = s.blob,
         Get(u.dc) = Get(s.dc), Get(u.vc) = Get(s.vc), s.images \subseteq u.images
  PROVE  Good(u) /\ Live(u) = Live(s)
<1>1. Live(u) = Live(s)
  BY DEF Live
<1>2. Refs(u) /\ ErrorInv(u) /\ TreeInv(u) /\ LoadedInv(u)
  BY DEF Good, Refs, ErrorInv, TreeInv, LoadedInv
<1>3. RefCountInv(u)
  BY <1>1 DEF Good, RefCountInv
<1>4. QED
  BY <1>1, <1>2, <1>3 DEF Good

\* A configuration without references may go or come
LEMMA GoodConfigs ==
  ASSUME NEW s, Good(s), NEW u \in Managers, u.tree = s.tree, u.blob = s.blob, u.images = s.images,
         u.cas = s.cas, u.fatal = s.fatal, Count(Get(u.dc)) = Count(Get(s.dc)),
         Count(Get(u.vc)) = Count(Get(s.vc)),
         Get(u.vc) # None /\ Get(u.vc).ref = 1 => ~Get(u.vc).exp
  PROVE  Good(u) /\ Kept(s, u)
<1>1. Live(u) = Live(s)
  BY DEF Live
<1>2. ErrorInv(u) /\ TreeInv(u) /\ LoadedInv(u)
  BY DEF Good, ErrorInv, TreeInv, LoadedInv
<1>3. Refs(u)
  BY DEF Good, Refs
<1>4. RefCountInv(u)
  BY <1>1 DEF Good, RefCountInv
<1>5. QED
  BY <1>1, <1>2, <1>3, <1>4 DEF Good, Kept

\* The DownloaderConfig is published anew, with the same RefCount
LEMMA GoodDownloaderConfig ==
  ASSUME NEW s, Good(s), NEW n \in DownloaderConfig \cup {None}, Count(n) = Count(Get(s.dc))
  PROVE  Good([s EXCEPT !.dc = Publish(@, n)]) /\ Kept(s, [s EXCEPT !.dc = Publish(@, n)])
<1> DEFINE q == Publish(s.dc, n)
           u == [s EXCEPT !.dc = q]
<1>1. s \in Managers
  BY DEF Good
<1>2. s.dc \in TopicOf(DownloaderConfig)
  BY <1>1 DEF Managers
<1>3. q \in TopicOf(DownloaderConfig) /\ Get(q) = n
  BY <1>2, Published
<1> HIDE DEF q
<1>4. /\ u \in Managers /\ u.tree = s.tree /\ u.blob = s.blob /\ u.images = s.images
      /\ u.cas = s.cas /\ u.fatal = s.fatal /\ u.dc = q /\ u.vc = s.vc
  BY <1>1, <1>3 DEF Managers
<1> HIDE DEF u
<1>5. Get(s.vc) # None /\ Get(s.vc).ref = 1 => ~Get(s.vc).exp
  BY DEF Good, Refs
<1>6. Good(u) /\ Kept(s, u)
  BY <1>3, <1>4, <1>5, GoodConfigs
<1>7. QED
  BY <1>6 DEF u, q

\* The VerifyImageConfig is published anew, with no reference as before
LEMMA GoodVerifierConfig ==
  ASSUME NEW s, Good(s), NEW n \in VerifyImageConfig \cup {None}, Count(n) = 0,
         Count(Get(s.vc)) = 0
  PROVE  Good([s EXCEPT !.vc = Publish(@, n)]) /\ Kept(s, [s EXCEPT !.vc = Publish(@, n)])
<1> DEFINE q == Publish(s.vc, n)
           u == [s EXCEPT !.vc = q]
<1>1. s \in Managers
  BY DEF Good
<1>2. s.vc \in TopicOf(VerifyImageConfig)
  BY <1>1 DEF Managers
<1>3. q \in TopicOf(VerifyImageConfig) /\ Get(q) = n
  BY <1>2, Published
<1> HIDE DEF q
<1>4. /\ u \in Managers /\ u.tree = s.tree /\ u.blob = s.blob /\ u.images = s.images
      /\ u.cas = s.cas /\ u.fatal = s.fatal /\ u.dc = s.dc /\ u.vc = q
  BY <1>1, <1>3 DEF Managers
<1> HIDE DEF u
<1>5. n # None => n.ref # 1
  BY DEF Count
<1>6. Good(u) /\ Kept(s, u)
  BY <1>3, <1>4, <1>5, GoodConfigs
<1>7. QED
  BY <1>6 DEF u, q

\* The orders of the content trees are sequences of them
LEMMA OrdersOfTrees == Orders \subseteq Seq(Trees)
<1> DEFINE T == {t \in Trees : m.tree[t] # "none"}
<1>1. IsFiniteSet(T) /\ T \subseteq Trees
  BY FS_Subset DEF VolumeMgrAssumption
<1>2. Cardinality(T) \in Nat
  BY <1>1, FS_CardinalityType
<1>3. Orders \subseteq [1..Cardinality(T) -> T]
  BY DEF Orders
<1> HIDE DEF T
<1>4. QED
  BY <1>1, <1>2, <1>3

\* A DownloaderStatus is handled
LEMMA HandleDownloaderStatus ==
  ASSUME NEW s, Good(s), NEW order \in Seq(Trees)
  PROVE  Good(handleDownloaderStatus(s, order)) /\ Kept(s, handleDownloaderStatus(s, order))
<1>1. ASSUME NEW x, Good(x)
      PROVE  Good(unpublishUnused(x)) /\ Kept(x, unpublishUnused(x))
  <2>1. CASE Get(x.dc) # None /\ Get(x.dc).ref = 0
    <3>1. Count(None) = Count(Get(x.dc))
      BY <2>1 DEF Count
    <3>2. unpublishUnused(x) = [x EXCEPT !.dc = Publish(@, None)]
      BY <2>1 DEF unpublishUnused, Unpublish
    <3>3. QED
      BY <1>1, <3>1, <3>2, GoodDownloaderConfig
  <2>2. CASE ~(Get(x.dc) # None /\ Get(x.dc).ref = 0)
    BY <1>1, <2>2 DEF unpublishUnused, Kept
  <2>3. QED
    BY <2>1, <2>2
<1> DEFINE u == updateStatusByBlob(s, order)
<1>2. Good(u) /\ Kept(s, u)
  BY UpdateStatus
<1>3. handleDownloaderStatus(s, order) \in {unpublishUnused(s), unpublishUnused(u), u}
  BY DEF handleDownloaderStatus
<1> HIDE DEF u
<1>4. Good(unpublishUnused(u)) /\ Kept(u, unpublishUnused(u))
  BY <1>1, <1>2
<1>5. Kept(s, unpublishUnused(u))
  BY <1>2, <1>4 DEF Kept
<1>6. QED
  BY <1>1, <1>2, <1>3, <1>4, <1>5

\* A VerifyImageStatus is handled
LEMMA HandleVerifyImageStatus ==
  ASSUME NEW s, Good(s), NEW order \in Seq(Trees)
  PROVE  Good(handleVerifyImageStatus(s, order)) /\ Kept(s, handleVerifyImageStatus(s, order))
<1> DEFINE st == Seen(s.vs)
           x == unpublishExpired(s)
           u == updateStatusByBlob(x, order)
           n == [ref |-> 0, exp |-> FALSE, path |-> st.path]
           a == [s EXCEPT !.vc = Publish(@, n)]
<1>1. Good(x) /\ Kept(s, x)
  <2> DEFINE c == Get(s.vc)
  <2>1. CASE Seen(s.vs) # None /\ Seen(s.vs).exp /\ c # None /\ c.ref = 0 /\ c.exp
    <3>1. Count(Get(s.vc)) = 0 /\ Count(None) = 0
      BY <2>1 DEF Count
    <3>2. x = [s EXCEPT !.vc = Publish(@, None)]
      BY <2>1 DEF unpublishExpired, Unpublish
    <3>3. QED
      BY <3>1, <3>2, GoodVerifierConfig
  <2>2. CASE ~(Seen(s.vs) # None /\ Seen(s.vs).exp /\ c # None /\ c.ref = 0 /\ c.exp)
    BY <2>2 DEF unpublishExpired, Kept
  <2>3. QED
    BY <2>1, <2>2
<1>2. Good(u) /\ Kept(x, u)
  <2> HIDE DEF x
  <2>1. QED
    BY <1>1, UpdateStatus
<1>3. Kept(s, u)
  BY <1>1, <1>2 DEF Kept
<1>4. ASSUME st # None, Get(s.vc) = None
      PROVE  Good(a) /\ Kept(s, a)
  <2>1. st \in VerifyImageStatus
    BY <1>4, Usable DEF Good
  <2> HIDE DEF st
  <2>2. n \in VerifyImageConfig /\ n.ref = 0
    BY <2>1 DEF VerifyImageStatus, VerifyImageConfig
  <2> HIDE DEF n
  <2>3. Count(n) = 0 /\ Count(Get(s.vc)) = 0
    BY <1>4, <2>2 DEF Count
  <2>4. QED
    BY <2>2, <2>3, GoodVerifierConfig
<1>5. /\ handleVerifyImageStatus(s, order) \in {a, x, u}
      /\ handleVerifyImageStatus(s, order) \in {x, u} \/ (st # None /\ Get(s.vc) = None)
  BY DEF handleVerifyImageStatus
<1> HIDE DEF a, x, u, st
<1>6. QED
  BY <1>1, <1>2, <1>3, <1>4, <1>5

\* What is kept of the trees and of the CAS keeps the images
LEMMA ImagesKept ==
  ASSUME ImageInv, Kept(m, m'), UNCHANGED stale
  PROVE  ImageInv'
BY DEF ImageInv, Kept

\* handleContentTreeCreate
LEMMA CreateStep ==
  ASSUME NEW t \in Trees, Good(m), ImageInv, handleContentTreeCreate(t)
  PROVE  Good(m') /\ ImageInv'
<1> DEFINE u == createContentTreeStatus(m, t)
<1>1. m.tree[t] = "none" /\ m' = doUpdateContentTree(u, t) /\ stale' = stale
  BY DEF handleContentTreeCreate
<1>2. Good(u) /\ Live(u) = Live(m) \cup {t} /\ u.images = m.images /\ u.cas = m.cas
  BY <1>1, Create
<1> HIDE DEF u
<1>3. Good(m') /\ Kept(u, m')
  BY <1>1, <1>2, DoUpdate
<1>4. Live(m') = Live(m) \cup {t} /\ m'.images = m.images /\ m'.cas = m.cas
  BY <1>2, <1>3 DEF Kept
<1>5. QED
  BY <1>1, <1>3, <1>4 DEF ImageInv

\* What the deletion of a tree leaves of the images
LEMMA ImagesAfterDelete ==
  ASSUME NEW t \in Trees, Good(m), ImageInv, m.tree[t] # "none"
  PROVE  LET u == doDeleteContentTree(m, t)
         IN  \A x \in u.images \ stale : x \in Live(u) /\ u.cas
<1> DEFINE u == doDeleteContentTree(m, t)
<1>1. Live(u) = Live(m) \ {t} /\ u.images = m.images \ {t} /\ (u.cas = m.cas \/ Live(m) = {t})
  BY Delete
<1> HIDE DEF u
<1>2. \A x \in u.images \ stale : x \in Live(u) /\ u.cas
  BY <1>1 DEF ImageInv
<1>3. QED
  BY <1>2 DEF u

\* handleContentTreeDelete
LEMMA DeleteStep ==
  ASSUME NEW t \in Trees, Good(m), ImageInv, handleContentTreeDelete(t)
  PROVE  Good(m') /\ ImageInv'
<1>1. m.tree[t] # "none" /\ m' = doDeleteContentTree(m, t) /\ stale' = stale \ {t}
  BY DEF handleContentTreeDelete
<1>2. Good(m') /\ m'.images = m.images \ {t}
  BY <1>1, Delete
<1>3. \A x \in m'.images \ stale : x \in Live(m') /\ m'.cas
  BY <1>1, ImagesAfterDelete
<1>4. QED
  BY <1>1, <1>2, <1>3 DEF ImageInv

\* handleContentTreeModify
LEMMA ModifyStep ==
  ASSUME NEW t \in Trees, Good(m), ImageInv, handleContentTreeModify(t)
  PROVE  Good(m') /\ ImageInv'
<1> DEFINE d == doDeleteContentTree(m, t)
           u == createContentTreeStatus(d, t)
<1>1. /\ m.tree[t] # "none"
      /\ \/ m' = doUpdateContentTree(m, t) /\ stale' = stale
         \/ m' = doUpdateContentTree(u, t) /\ stale' = stale \ {t}
  BY DEF handleContentTreeModify
<1>2. CASE m' = doUpdateContentTree(m, t) /\ stale' = stale
  <2>1. Good(m') /\ Kept(m, m')
    BY <1>2, DoUpdate
  <2>2. QED
    BY <1>2, <2>1, ImagesKept
<1>3. CASE m' = doUpdateContentTree(u, t) /\ stale' = stale \ {t}
  <2>1. Good(d) /\ d.tree[t] = "none" /\ d.images = m.images \ {t}
    BY <1>1, Delete
  <2>2. \A x \in d.images \ stale : x \in Live(d) /\ d.cas
    BY <1>1, ImagesAfterDelete
  <2> HIDE DEF d
  <2>3. Good(u) /\ Live(u) = Live(d) \cup {t} /\ u.images = d.images /\ u.cas = d.cas
    BY <2>1, Create
  <2> HIDE DEF u
  <2>4. Good(m') /\ Kept(u, m')
    BY <1>3, <2>3, DoUpdate
  <2>5. QED
    BY <1>3, <2>1, <2>2, <2>3, <2>4 DEF Kept, ImageInv
<1>4. QED
  BY <1>1, <1>2, <1>3

\* The downloader's statuses arrive
LEMMA GoodDownloaderStatus ==
  ASSUME NEW s, Good(s), NEW q \in TopicOf(DownloaderStatus)
  PROVE  Good([s EXCEPT !.ds = q]) /\ Kept(s, [s EXCEPT !.ds = q])
<1> DEFINE u == [s EXCEPT !.ds = q]
<1>1. s \in Managers
  BY DEF Good
<1>2. /\ u \in Managers /\ u.tree = s.tree /\ u.blob = s.blob /\ u.dc = s.dc
      /\ u.vc = s.vc /\ u.cas = s.cas /\ u.images = s.images /\ u.fatal = s.fatal
  BY <1>1 DEF Managers
<1> HIDE DEF u
<1>3. Good(u) /\ Kept(s, u)
  BY <1>2, GoodOther
<1>4. QED
  BY <1>3 DEF u

\* The verifier's statuses arrive
LEMMA GoodVerifyImageStatus ==
  ASSUME NEW s, Good(s), NEW q \in TopicOf(VerifyImageStatus)
  PROVE  Good([s EXCEPT !.vs = q]) /\ Kept(s, [s EXCEPT !.vs = q])
<1> DEFINE u == [s EXCEPT !.vs = q]
<1>1. s \in Managers
  BY DEF Good
<1>2. /\ u \in Managers /\ u.tree = s.tree /\ u.blob = s.blob /\ u.dc = s.dc
      /\ u.vc = s.vc /\ u.cas = s.cas /\ u.images = s.images /\ u.fatal = s.fatal
  BY <1>1 DEF Managers
<1> HIDE DEF u
<1>3. Good(u) /\ Kept(s, u)
  BY <1>2, GoodOther
<1>4. QED
  BY <1>3 DEF u

\* downloaderStatusArrives
LEMMA DownloaderStatusStep ==
  ASSUME Good(m), ImageInv, downloaderStatusArrives
  PROVE  Good(m') /\ ImageInv'
<1>1. PICK q \in Deliveries(m.ds), order \in Orders :
        m' = IF Seen(q) = Seen(m.ds) THEN [m EXCEPT !.ds = q]
             ELSE handleDownloaderStatus([m EXCEPT !.ds = q], order)
  BY DEF downloaderStatusArrives
<1> DEFINE u == [m EXCEPT !.ds = q]
<1>2. m.ds \in TopicOf(DownloaderStatus)
  BY DEF Good, Managers
<1>3. q \in TopicOf(DownloaderStatus) /\ order \in Seq(Trees)
  BY <1>2, Delivered, OrdersOfTrees
<1>4. Good(u) /\ Kept(m, u)
  BY <1>3, GoodDownloaderStatus
<1>5. m' = u \/ m' = handleDownloaderStatus(u, order)
  BY <1>1
<1> HIDE DEF u
<1>6. Good(m') /\ Kept(u, m')
  BY <1>3, <1>4, <1>5, HandleDownloaderStatus DEF Kept
<1>7. Kept(m, m')
  BY <1>4, <1>6 DEF Kept
<1>8. stale' = stale
  BY DEF downloaderStatusArrives
<1>9. QED
  BY <1>6, <1>7, <1>8, ImagesKept

\* verifyImageStatusArrives
LEMMA VerifyImageStatusStep ==
  ASSUME Good(m), ImageInv, verifyImageStatusArrives
  PROVE  Good(m') /\ ImageInv'
<1>1. PICK q \in Deliveries(m.vs), order \in Orders :
        m' = IF Seen(q) = Seen(m.vs) THEN [m EXCEPT !.vs = q]
             ELSE handleVerifyImageStatus([m EXCEPT !.vs = q], order)
  BY DEF verifyImageStatusArrives
<1> DEFINE u == [m EXCEPT !.vs = q]
<1>2. m.vs \in TopicOf(VerifyImageStatus)
  BY DEF Good, Managers
<1>3. q \in TopicOf(VerifyImageStatus) /\ order \in Seq(Trees)
  BY <1>2, Delivered, OrdersOfTrees
<1>4. Good(u) /\ Kept(m, u)
  BY <1>3, GoodVerifyImageStatus
<1>5. m' = u \/ m' = handleVerifyImageStatus(u, order)
  BY <1>1
<1> HIDE DEF u
<1>6. Good(m') /\ Kept(u, m')
  BY <1>3, <1>4, <1>5, HandleVerifyImageStatus DEF Kept
<1>7. Kept(m, m')
  BY <1>4, <1>6 DEF Kept
<1>8. stale' = stale
  BY DEF verifyImageStatusArrives
<1>9. QED
  BY <1>6, <1>7, <1>8, ImagesKept

\* A goroutine or a job changes
LEMMA SetGoroutine ==
  ASSUME NEW G, NEW gs \in Seq(G), NEW i \in DOMAIN gs, NEW g \in G
  PROVE  [gs EXCEPT ![i] = g] \in Seq(G)
OBVIOUS

\* A goroutine, a job or a result is taken out of the sequence
LEMMA Removed ==
  ASSUME NEW G, NEW gs \in Seq(G), NEW i \in DOMAIN gs
  PROVE  RemoveAt(gs, i) \in Seq(G)
<1>1. Len(gs) \in Nat /\ i \in 1..Len(gs)
  OBVIOUS
<1>2. \A j \in 1..Len(gs) : gs[j] \in G
  OBVIOUS
<1>3. SubSeq(gs, 1, i - 1) \in Seq(G)
  BY <1>1, <1>2, SubSeqProperties
<1>4. SubSeq(gs, i + 1, Len(gs)) \in Seq(G)
  BY <1>1, <1>2, SubSeqProperties
<1>5. QED
  BY <1>3, <1>4, ConcatProperties DEF RemoveAt

\* processCasIngestWorkResult: the blob is LOADED and the result is kept for its tree
LEMMA ResultStep ==
  ASSUME Good(m), ImageInv, NEW i \in DOMAIN m.results, processCasIngestWorkResult(i)
  PROVE  Good(m') /\ ImageInv'
<1> DEFINE r == m.results[i]
           q == RemoveAt(m.results, i)
           k == IF r.err THEN "error" ELSE "ok"
           b == IF m.blob # None /\ r.loaded THEN [m.blob EXCEPT !.state = LOADED] ELSE m.blob
           u == [m EXCEPT !.results = q]
           v == [u EXCEPT !.kept[r.t] = k]
           w == [v EXCEPT !.blob = b]
<1>1. stale' = stale
  BY DEF processCasIngestWorkResult
<1>2. m \in Managers /\ m.results \in Seq(Results)
  BY DEF Good, Managers
<1>3. r \in Results /\ q \in Seq(Results)
  BY <1>2, Removed, ElementOfSeq
<1>4. PICK order \in Orders : m' = updateStatusByBlob(w, order)
  <2>1. PICK order \in Orders :
          m' = updateStatusByBlob([m EXCEPT !.results = q, !.kept[r.t] = k, !.blob = b], order)
    BY DEF processCasIngestWorkResult
  <2>2. QED
    BY <2>1
<1> HIDE DEF r, q
<1>5. r.t \in Trees /\ k \in {"none", "ok", "error"}
  BY <1>3 DEF Results
<1> HIDE DEF k
<1>6. Good(u) /\ Kept(m, u) /\ u.blob = m.blob /\ u.tree = m.tree
  <2>1. /\ u \in Managers /\ u.tree = m.tree /\ u.blob = m.blob /\ u.dc = m.dc
        /\ u.vc = m.vc /\ u.cas = m.cas /\ u.images = m.images /\ u.fatal = m.fatal
    BY <1>2, <1>3 DEF Managers
  <2> HIDE DEF u
  <2>2. QED
    BY <2>1, GoodOther
<1> HIDE DEF u
<1>7. Good(v) /\ Kept(u, v) /\ v.blob = m.blob
  BY <1>5, <1>6, GoodKept
<1> HIDE DEF v
<1>8. Good(w) /\ Kept(v, w)
  <2>1. CASE m.blob # None /\ r.loaded
    <3>1. m.blob \in Blob
      BY <1>2, <2>1 DEF Managers
    <3>2. b = [m.blob EXCEPT !.state = LOADED]
      BY <2>1
    <3>3. LOADED \in INITIAL..LOADED /\ LOADED >= VERIFIED
      BY DEF INITIAL, LOADED, VERIFIED
    <3> HIDE DEF b
    <3>4. b \in Blob /\ b.dref = m.blob.dref /\ b.vref = m.blob.vref /\ b.ref = m.blob.ref
             /\ b.err = m.blob.err /\ b.state = LOADED
      BY <3>1, <3>2, <3>3 DEF Blob
    <3>5. QED
      BY <1>7, <2>1, <3>3, <3>4, GoodBlob
  <2>2. CASE ~(m.blob # None /\ r.loaded)
    <3>1. b = v.blob
      BY <1>7, <2>2
    <3> HIDE DEF b
    <3>2. v \in Managers
      BY <1>7 DEF Good
    <3>3. w = v
      BY <3>1, <3>2 DEF Managers
    <3>4. QED
      BY <1>7, <3>3 DEF Kept
  <2>3. QED
    BY <2>1, <2>2
<1> HIDE DEF w
<1>9. Good(m') /\ Kept(w, m')
  BY <1>4, <1>8, UpdateStatus, OrdersOfTrees
<1>10. Kept(m, m')
  BY <1>6, <1>7, <1>8, <1>9 DEF Kept
<1>11. QED
  BY <1>1, <1>9, <1>10, ImagesKept

\* Images of trees that are not there go
LEMMA GoodImages ==
  ASSUME NEW s, Good(s), NEW i, i \subseteq s.images, s.images \cap Live(s) \subseteq i
  PROVE  /\ Good([s EXCEPT !.images = i]) /\ Live([s EXCEPT !.images = i]) = Live(s)
         /\ [s EXCEPT !.images = i].images = i /\ [s EXCEPT !.images = i].cas = s.cas
<1> DEFINE u == [s EXCEPT !.images = i]
<1>1. s \in Managers
  BY DEF Good
<1>2. i \in SUBSET Trees
  BY <1>1 DEF Managers
<1>3. /\ u \in Managers /\ u.tree = s.tree /\ u.blob = s.blob /\ u.dc = s.dc
      /\ u.vc = s.vc /\ u.cas = s.cas /\ u.images = i
  BY <1>1, <1>2 DEF Managers
<1> HIDE DEF u
<1>4. Live(u) = Live(s)
  BY <1>3 DEF Live
<1>5. Refs(u) /\ ErrorInv(u) /\ TreeInv(u)
  BY <1>3 DEF Good, Refs, ErrorInv, TreeInv
<1>6. LoadedInv(u)
  BY <1>3 DEF Good, LoadedInv, Live
<1>7. RefCountInv(u)
  BY <1>3, <1>4 DEF Good, RefCountInv
<1>8. Good(u) /\ Live(u) = Live(s) /\ u.images = i /\ u.cas = s.cas
  BY <1>3, <1>4, <1>5, <1>6, <1>7 DEF Good
<1>9. QED
  BY <1>8 DEF u

\* gcUnusedInitObjects: a blob no tree has, a configuration without references that no
\* status expires, and images of no tree
LEMMA GcStep ==
  ASSUME Good(m), ImageInv, gcUnusedInitObjects
  PROVE  Good(m') /\ ImageInv'
<1> DEFINE a == IF m.blob # None /\ m.blob.state = LOADED /\ m.blob.ref = 0
                THEN unpublishBlobStatus(m) ELSE m
           c == Get(a.vc)
           n == [c EXCEPT !.exp = TRUE]
           b == IF c # None /\ c.ref = 0 /\ ~c.exp THEN [a EXCEPT !.vc = Publish(@, n)] ELSE a
           i == {t \in b.images : m.tree[t] # "none"}
<1>1. m' = [b EXCEPT !.images = i] /\ stale' = stale \cap m'.images
  BY DEF gcUnusedInitObjects
<1>2. Good(a) /\ Live(a) = Live(m) /\ a.images = m.images /\ (a.cas = m.cas \/ Live(m) = {})
  <2>1. CASE m.blob # None /\ m.blob.state = LOADED /\ m.blob.ref = 0
    <3>1. a = unpublishBlobStatus(m)
      BY <2>1
    <3>2. Cardinality(Live(m)) = 0
      BY <2>1 DEF Good, RefCountInv, Count
    <3>3. Live(m) = {}
      BY <3>2, LiveCount
    <3>4. BlobOK(m)
      BY <2>1 DEF Good, BlobOK
    <3> HIDE DEF a
    <3>5. a \in Managers /\ Refs(a) /\ a.blob = None /\ a.tree = m.tree /\ a.images = m.images
      BY <3>1, <3>4, UnpublishBlob
    <3>6. Live(a) = Live(m)
      BY <3>5 DEF Live
    <3>7. ErrorInv(a) /\ TreeInv(a) /\ LoadedInv(a)
      BY <3>3, <3>5 DEF ErrorInv, TreeInv, LoadedInv, Live
    <3>8. RefCountInv(a)
      BY <3>2, <3>5, <3>6 DEF RefCountInv, Count
    <3>9. QED
      BY <3>3, <3>5, <3>6, <3>7, <3>8 DEF Good
  <2>2. CASE ~(m.blob # None /\ m.blob.state = LOADED /\ m.blob.ref = 0)
    BY <2>2
  <2>3. QED
    BY <2>1, <2>2
<1> HIDE DEF a
<1>3. Good(b) /\ Kept(a, b)
  <2>1. CASE c # None /\ c.ref = 0 /\ ~c.exp
    <3>1. a.vc \in TopicOf(VerifyImageConfig)
      BY <1>2 DEF Good, Managers
    <3>2. c \in VerifyImageConfig
      BY <2>1, <3>1, TopicValues
    <3>3. b = [a EXCEPT !.vc = Publish(@, n)]
      BY <2>1
    <3>4. Count(Get(a.vc)) = 0
      BY <2>1 DEF Count
    <3> HIDE DEF c
    <3>5. n \in VerifyImageConfig /\ n.ref = c.ref
      BY <3>2 DEF VerifyImageConfig
    <3> HIDE DEF n, b
    <3>6. Count(n) = 0
      BY <2>1, <3>5 DEF Count
    <3>7. QED
      BY <1>2, <3>3, <3>4, <3>5, <3>6, GoodVerifierConfig
  <2>2. CASE ~(c # None /\ c.ref = 0 /\ ~c.exp)
    BY <1>2, <2>2 DEF Kept
  <2>3. QED
    BY <2>1, <2>2
<1> HIDE DEF b
<1>4. i \subseteq b.images /\ b.images \cap Live(b) \subseteq i /\ i \subseteq m.images
  BY <1>2, <1>3 DEF Live, Kept
<1> HIDE DEF i
<1>5. Good(m') /\ Live(m') = Live(b) /\ m'.images = i /\ m'.cas = b.cas
  BY <1>1, <1>3, <1>4, GoodImages
<1>6. Live(m') = Live(m) /\ m'.images \subseteq m.images /\ (m'.cas = m.cas \/ Live(m) = {})
  BY <1>2, <1>3, <1>4, <1>5 DEF Kept
<1>7. \A t \in m'.images \ stale' : t \in Live(m) /\ m'.cas
  BY <1>1, <1>6 DEF ImageInv
<1>8. QED
  BY <1>5, <1>6, <1>7 DEF ImageInv

\* A job leaves its place and its result comes
LEMMA JobEnds ==
  ASSUME Good(m), NEW i \in DOMAIN m.jobs, NEW loaded \in BOOLEAN, NEW err \in BOOLEAN
  PROVE  Good(jobEnds(i, loaded, err)) /\ Kept(m, jobEnds(i, loaded, err))
           /\ jobEnds(i, loaded, err).tree = m.tree
<1> DEFINE j == RemoveAt(m.jobs, i)
           r == [t |-> m.jobs[i].t, loaded |-> loaded, err |-> err]
           q == Append(m.results, r)
           u == [m EXCEPT !.jobs = j]
           v == [u EXCEPT !.results = q]
<1>1. m \in Managers /\ m.jobs \in Seq(Jobs) /\ m.results \in Seq(Results)
  BY DEF Good, Managers
<1>2. j \in Seq(Jobs) /\ m.jobs[i] \in Jobs
  BY <1>1, Removed, ElementOfSeq
<1>3. r \in Results
  BY <1>2 DEF Jobs, Results
<1>4. jobEnds(i, loaded, err) = v
  BY DEF jobEnds
<1> HIDE DEF j, r
<1>5. q \in Seq(Results)
  BY <1>1, <1>3, AppendProperties
<1>6. Good(u) /\ Kept(m, u) /\ u.tree = m.tree
  <2>1. u.tree = m.tree
    BY <1>1 DEF Managers
  <2>2. QED
    BY <1>2, <2>1, GoodJobs
<1>7. u \in Managers
  BY <1>6 DEF Good
<1> HIDE DEF q, u
<1>8. /\ v \in Managers /\ v.tree = u.tree /\ v.blob = u.blob /\ v.dc = u.dc
      /\ v.vc = u.vc /\ v.cas = u.cas /\ v.images = u.images /\ v.fatal = u.fatal
  BY <1>5, <1>7 DEF Managers
<1> HIDE DEF v
<1>9. Good(v) /\ Kept(u, v)
  BY <1>6, <1>8, GoodOther
<1>10. QED
  BY <1>4, <1>6, <1>8, <1>9 DEF Kept

\* A job goes on
LEMMA JobGoesOn ==
  ASSUME Good(m), NEW i \in DOMAIN m.jobs, NEW p \in {"queued", "write", "loaded", "image"}
  PROVE  [m.jobs EXCEPT ![i].at = p] \in Seq(Jobs)
<1> DEFINE j == [m.jobs[i] EXCEPT !.at = p]
<1>1. m.jobs \in Seq(Jobs)
  BY DEF Good, Managers
<1>2. m.jobs[i] \in Jobs
  BY <1>1, ElementOfSeq
<1>3. j \in Jobs
  BY <1>2 DEF Jobs
<1>4. [m.jobs EXCEPT ![i].at = p] = [m.jobs EXCEPT ![i] = j]
  OBVIOUS
<1> HIDE DEF j
<1>5. [m.jobs EXCEPT ![i] = j] \in Seq(Jobs)
  BY <1>1, <1>3, SetGoroutine
<1>6. QED
  BY <1>4, <1>5

\* The pool refuses a job
LEMMA RefusedStep ==
  ASSUME Good(m), ImageInv, NEW i \in DOMAIN m.jobs, jobRefused(i)
  PROVE  Good(m') /\ ImageInv'
<1> DEFINE j == RemoveAt(m.jobs, i)
<1>1. m' = [m EXCEPT !.jobs = j] /\ stale' = stale
  BY DEF jobRefused
<1>2. j \in Seq(Jobs)
  BY Removed DEF Good, Managers
<1> HIDE DEF j
<1>3. Good(m') /\ Kept(m, m')
  BY <1>1, <1>2, GoodJobs
<1>4. QED
  BY <1>1, <1>3, ImagesKept

\* casIngestWorker: only the job, or what ended volumemgr
LEMMA WorkerStep ==
  ASSUME Good(m), ImageInv, NEW i \in DOMAIN m.jobs, casIngestWorker(i)
  PROVE  Good(m') /\ ImageInv'
<1>1. m \in Managers /\ stale' = stale
  BY DEF Good, casIngestWorker
<1>2. CASE m' = Fatal(m, "no_root_blob")
  <2>1. m' = [m EXCEPT !.fatal = "no_root_blob"]
    BY <1>2 DEF Fatal
  <2>2. /\ m' \in Managers /\ m'.tree = m.tree /\ m'.blob = m.blob /\ m'.dc = m.dc
        /\ m'.vc = m.vc /\ m'.cas = m.cas /\ m'.images = m.images
    BY <1>1, <2>1 DEF Managers
  <2>3. Good(m') /\ Live(m') = Live(m)
    BY <2>2, GoodFrame
  <2>4. QED
    BY <1>1, <2>2, <2>3 DEF ImageInv
<1>3. ASSUME NEW p \in {"image", "write"}, m' = [m EXCEPT !.jobs[i].at = p]
      PROVE  Good(m') /\ ImageInv'
  <2> DEFINE j == [m.jobs EXCEPT ![i].at = p]
  <2>1. m' = [m EXCEPT !.jobs = j]
    BY <1>3
  <2>2. j \in Seq(Jobs)
    BY <1>3, JobGoesOn
  <2> HIDE DEF j
  <2>3. Good(m') /\ Kept(m, m')
    BY <2>1, <2>2, GoodJobs
  <2>4. QED
    BY <1>1, <2>3, ImagesKept
<1>4. CASE m' = jobEnds(i, FALSE, TRUE)
  <2>1. Good(m') /\ Kept(m, m')
    BY <1>4, JobEnds
  <2>2. QED
    BY <1>1, <2>1, ImagesKept
<1>5. \/ m' = Fatal(m, "no_root_blob") \/ m' = jobEnds(i, FALSE, TRUE)
      \/ m' = [m EXCEPT !.jobs[i].at = "image"] \/ m' = [m EXCEPT !.jobs[i].at = "write"]
  BY DEF casIngestWorker
<1>6. QED
  BY <1>2, <1>3, <1>4, <1>5

\* What the CAS has does not matter to what is good
LEMMA GoodCAS ==
  ASSUME NEW s, Good(s), NEW c \in BOOLEAN
  PROVE  /\ Good([s EXCEPT !.cas = c]) /\ Live([s EXCEPT !.cas = c]) = Live(s)
         /\ [s EXCEPT !.cas = c].cas = c /\ [s EXCEPT !.cas = c].images = s.images
<1> DEFINE u == [s EXCEPT !.cas = c]
<1>1. s \in Managers
  BY DEF Good
<1>2. /\ u \in Managers /\ u.tree = s.tree /\ u.blob = s.blob /\ u.dc = s.dc
      /\ u.vc = s.vc /\ u.cas = c /\ u.images = s.images
  BY <1>1 DEF Managers
<1> HIDE DEF u
<1>3. Good(u) /\ Live(u) = Live(s) /\ u.cas = c /\ u.images = s.images
  BY <1>2, GoodFrame
<1>4. QED
  BY <1>3 DEF u

\* IngestBlob
LEMMA IngestStep ==
  ASSUME Good(m), ImageInv, NEW i \in DOMAIN m.jobs, IngestBlob(i)
  PROVE  Good(m') /\ ImageInv'
<1> DEFINE j == [m.jobs EXCEPT ![i].at = "loaded"]
           u == [m EXCEPT !.jobs = j]
<1>1. m' = [u EXCEPT !.cas = TRUE] /\ stale' = stale
  BY DEF IngestBlob
<1>2. j \in Seq(Jobs)
  BY JobGoesOn
<1> HIDE DEF j
<1>3. Good(u) /\ Kept(m, u)
  BY <1>2, GoodJobs
<1> HIDE DEF u
<1>4. Good(m') /\ Live(m') = Live(u) /\ m'.cas = TRUE /\ m'.images = u.images
  BY <1>1, <1>3, GoodCAS
<1>5. QED
  BY <1>1, <1>3, <1>4 DEF ImageInv, Kept

\* CreateImage: an image is made with the blob in the CAS, for a tree that is there or
\* one that is stale
LEMMA ImageStep ==
  ASSUME Good(m), ImageInv, NEW i \in DOMAIN m.jobs, CreateImage(i)
  PROVE  Good(m') /\ ImageInv'
<1> DEFINE t == m.jobs[i].t
           loaded == m.jobs[i].at = "loaded"
           u == jobEnds(i, loaded, FALSE)
           k == u.images \cup {t}
<1>1. /\ m' = [u EXCEPT !.images = k] /\ m.cas
      /\ stale' = IF m.tree[t] = "none" THEN stale \cup {t} ELSE stale \ {t}
  BY DEF CreateImage
<1>2. loaded \in BOOLEAN
  BY Zenon
<1>3. t \in Trees
  <2>1. m.jobs \in Seq(Jobs)
    BY DEF Good, Managers
  <2>2. m.jobs[i] \in Jobs
    BY <2>1, ElementOfSeq
  <2>3. QED
    BY <2>2 DEF Jobs
<1> HIDE DEF loaded, t
<1>4. Good(u) /\ Kept(m, u) /\ u.tree = m.tree
  BY <1>2, JobEnds
<1>5. u \in Managers /\ u.images = m.images /\ u.cas = m.cas
  BY <1>4 DEF Good, Kept
<1> HIDE DEF u
<1>6. k \in SUBSET Trees
  BY <1>3, <1>5 DEF Managers
<1> HIDE DEF k
<1>7. /\ m' \in Managers /\ m'.tree = u.tree /\ m'.blob = u.blob /\ m'.dc = u.dc
      /\ m'.vc = u.vc /\ m'.cas = u.cas /\ m'.images = k
  BY <1>1, <1>5, <1>6 DEF Managers
<1>8. u.images \subseteq m'.images
  BY <1>7 DEF k
<1>9. Good(m') /\ Live(m') = Live(u)
  BY <1>4, <1>7, <1>8, GoodFrame
<1>10. Live(m') = Live(m) /\ m'.images = m.images \cup {t} /\ m'.cas
  BY <1>1, <1>4, <1>5, <1>7, <1>9 DEF Kept, k
<1>11. \A x \in m'.images \ stale' : x \in Live(m)
  BY <1>1, <1>3, <1>10 DEF ImageInv, Live
<1>12. QED
  BY <1>9, <1>10, <1>11 DEF ImageInv

\* A job fails
LEMMA FailStep ==
  ASSUME Good(m), ImageInv, NEW i \in DOMAIN m.jobs, ingestFails(i)
  PROVE  Good(m') /\ ImageInv'
<1>1. m' = jobEnds(i, FALSE, TRUE) /\ stale' = stale
  BY DEF ingestFails
<1>2. Good(m') /\ Kept(m, m')
  BY <1>1, JobEnds
<1>3. QED
  BY <1>1, <1>2, ImagesKept

\* containerd takes a blob without an image
LEMMA ContainerdStep ==
  ASSUME Good(m), ImageInv, containerdGC
  PROVE  Good(m') /\ ImageInv'
<1>1. m' = [m EXCEPT !.cas = FALSE] /\ stale' = stale /\ m.images = {}
  BY DEF containerdGC
<1>2. Good(m') /\ m'.images = m.images
  BY <1>1, GoodCAS
<1>3. QED
  BY <1>1, <1>2 DEF ImageInv

-----------------------------------------------------------------------------
(* The downloader and the verifier *)

\* The main loop of an agent gives a configuration to a goroutine
LEMMA Dispatched ==
  ASSUME NEW G, NEW gs \in Seq(G), NEW topic, NewHandler \in G,
         \A g \in G : /\ [g EXCEPT !.note = TRUE] \in G /\ [g EXCEPT !.closed = TRUE] \in G
                      /\ [g EXCEPT !.pc = IF @ = "transfer" THEN "cancelled" ELSE @] \in G
  PROVE  dispatch(gs, topic) \in Seq(G)
<1>1. Append(gs, NewHandler) \in Seq(G)
  BY AppendProperties
<1>2. ASSUME NEW hs \in Seq(G), Len(hs) \in DOMAIN hs
      PROVE  /\ notified(hs) \in Seq(G) /\ closing(hs) \in Seq(G) /\ cancelled(hs) \in Seq(G)
             /\ Len(notified(hs)) \in DOMAIN notified(hs) /\ Len(closing(hs)) \in DOMAIN closing(hs)
  <2>1. hs[Len(hs)] \in G
    BY <1>2, ElementOfSeq
  <2> DEFINE n == [hs[Len(hs)] EXCEPT !.note = TRUE]
             c == [hs[Len(hs)] EXCEPT !.closed = TRUE]
             x == [hs[Len(hs)] EXCEPT !.pc = IF @ = "transfer" THEN "cancelled" ELSE @]
  <2>2. n \in G /\ c \in G /\ x \in G
    BY <2>1
  <2>3. /\ notified(hs) = [hs EXCEPT ![Len(hs)] = n] /\ closing(hs) = [hs EXCEPT ![Len(hs)] = c]
        /\ cancelled(hs) = [hs EXCEPT ![Len(hs)] = x]
    BY DEF notified, closing, cancelled
  <2> HIDE DEF n, c, x
  <2>4. notified(hs) \in Seq(G) /\ closing(hs) \in Seq(G) /\ cancelled(hs) \in Seq(G)
    BY <1>2, <2>2, <2>3, SetGoroutine
  <2>5. Len(notified(hs)) = Len(hs) /\ Len(closing(hs)) = Len(hs)
    BY <1>2, <2>3
  <2>6. DOMAIN notified(hs) = DOMAIN hs /\ DOMAIN closing(hs) = DOMAIN hs
    BY <2>3
  <2>7. QED
    BY <1>2, <2>4, <2>5, <2>6
<1>3. dispatch(gs, topic) \in {gs, Append(gs, NewHandler)}
         \/ (open(gs) /\ dispatch(gs, topic) \in {notified(gs), cancelled(notified(gs)), cancelled(closing(gs))})
  BY DEF dispatch
<1>4. open(gs) => Len(gs) \in DOMAIN gs
  BY DEF open
<1>5. open(gs) => /\ notified(gs) \in Seq(G) /\ closing(gs) \in Seq(G)
                  /\ Len(notified(gs)) \in DOMAIN notified(gs) /\ Len(closing(gs)) \in DOMAIN closing(gs)
  BY <1>2, <1>4
<1>6. open(gs) => cancelled(notified(gs)) \in Seq(G) /\ cancelled(closing(gs)) \in Seq(G)
  BY <1>2, <1>5
<1>7. QED
  BY <1>1, <1>3, <1>5, <1>6

\* The goroutines of both agents are such
LEMMA Goroutines ==
  /\ NewHandler \in DownloadGoroutine /\ NewHandler \in VerifyGoroutine
  /\ \A g \in DownloadGoroutine : /\ [g EXCEPT !.note = TRUE] \in DownloadGoroutine
                                  /\ [g EXCEPT !.note = FALSE] \in DownloadGoroutine
                                  /\ [g EXCEPT !.closed = TRUE] \in DownloadGoroutine
                                  /\ [g EXCEPT !.pc = IF @ = "transfer" THEN "cancelled" ELSE @] \in DownloadGoroutine
  /\ \A g \in VerifyGoroutine : /\ [g EXCEPT !.note = TRUE] \in VerifyGoroutine
                                /\ [g EXCEPT !.note = FALSE] \in VerifyGoroutine
                                /\ [g EXCEPT !.closed = TRUE] \in VerifyGoroutine
                                /\ [g EXCEPT !.pc = IF @ = "transfer" THEN "cancelled" ELSE @] \in VerifyGoroutine
<1>1. NewHandler \in DownloadGoroutine /\ NewHandler \in VerifyGoroutine
  BY DEF NewHandler, DownloadGoroutine, VerifyGoroutine
<1>2. \A g \in DownloadGoroutine : /\ [g EXCEPT !.note = TRUE] \in DownloadGoroutine
                                   /\ [g EXCEPT !.note = FALSE] \in DownloadGoroutine
                                   /\ [g EXCEPT !.closed = TRUE] \in DownloadGoroutine
                                   /\ [g EXCEPT !.pc = IF @ = "transfer" THEN "cancelled" ELSE @] \in DownloadGoroutine
                                  /\ [g EXCEPT !.pc = IF @ = "transfer" THEN "cancelled" ELSE @] \in DownloadGoroutine
  BY DEF DownloadGoroutine
<1>3. \A g \in VerifyGoroutine : /\ [g EXCEPT !.note = TRUE] \in VerifyGoroutine
                                 /\ [g EXCEPT !.note = FALSE] \in VerifyGoroutine
                                 /\ [g EXCEPT !.closed = TRUE] \in VerifyGoroutine
                                 /\ [g EXCEPT !.pc = IF @ = "transfer" THEN "cancelled" ELSE @] \in VerifyGoroutine
                                /\ [g EXCEPT !.pc = IF @ = "transfer" THEN "cancelled" ELSE @] \in VerifyGoroutine
  BY DEF VerifyGoroutine
<1>4. QED
  BY <1>1, <1>2, <1>3

\* downloaderConfigArrives
LEMMA DownloaderConfigStep ==
  ASSUME VolInv, downloaderConfigArrives
  PROVE  VolInv'
<1>1. Good(m) /\ ImageInv /\ AgentInv /\ m \in Managers
  BY DEF VolInv, Good
<1>2. PICK q \in Deliveries(m.dc) :
        m' = [m EXCEPT !.dc = q] /\ dg' = IF Seen(q) = Seen(m.dc) THEN dg ELSE dispatch(dg, q)
  BY DEF downloaderConfigArrives
<1>3. vg' = vg /\ file' = file /\ stale' = stale
  BY DEF downloaderConfigArrives
<1>4. m.dc \in TopicOf(DownloaderConfig)
  BY <1>1 DEF Managers
<1>5. q \in TopicOf(DownloaderConfig) /\ Get(q) = Get(m.dc)
  BY <1>4, Delivered
<1>6. /\ m' \in Managers /\ m'.tree = m.tree /\ m'.blob = m.blob /\ m'.dc = q /\ m'.vc = m.vc
      /\ m'.cas = m.cas /\ m'.images = m.images
  BY <1>1, <1>2, <1>5 DEF Managers
<1>7. Good(m') /\ Live(m') = Live(m)
  BY <1>1, <1>5, <1>6, GoodFrame
<1>8. ImageInv'
  BY <1>1, <1>3, <1>6, <1>7 DEF ImageInv
<1>9. dg' \in Seq(DownloadGoroutine)
  BY <1>1, <1>2, Dispatched, Goroutines DEF AgentInv
<1>10. AgentInv'
  BY <1>1, <1>3, <1>9 DEF AgentInv
<1>11. QED
  BY <1>7, <1>8, <1>10 DEF VolInv

\* verifyImageConfigArrives
LEMMA VerifyImageConfigStep ==
  ASSUME VolInv, verifyImageConfigArrives
  PROVE  VolInv'
<1>1. Good(m) /\ ImageInv /\ AgentInv /\ m \in Managers
  BY DEF VolInv, Good
<1>2. PICK q \in Deliveries(m.vc) :
        m' = [m EXCEPT !.vc = q] /\ vg' = IF Seen(q) = Seen(m.vc) THEN vg ELSE dispatch(vg, q)
  BY DEF verifyImageConfigArrives
<1>3. dg' = dg /\ file' = file /\ stale' = stale
  BY DEF verifyImageConfigArrives
<1>4. m.vc \in TopicOf(VerifyImageConfig)
  BY <1>1 DEF Managers
<1>5. q \in TopicOf(VerifyImageConfig) /\ Get(q) = Get(m.vc)
  BY <1>4, Delivered
<1>6. /\ m' \in Managers /\ m'.tree = m.tree /\ m'.blob = m.blob /\ m'.vc = q /\ m'.dc = m.dc
      /\ m'.cas = m.cas /\ m'.images = m.images
  BY <1>1, <1>2, <1>5 DEF Managers
<1>7. Good(m') /\ Live(m') = Live(m)
  BY <1>1, <1>5, <1>6, GoodFrame
<1>8. ImageInv'
  BY <1>1, <1>3, <1>6, <1>7 DEF ImageInv
<1>9. vg' \in Seq(VerifyGoroutine)
  BY <1>1, <1>2, Dispatched, Goroutines DEF AgentInv
<1>10. AgentInv'
  BY <1>1, <1>3, <1>9 DEF AgentInv
<1>11. QED
  BY <1>7, <1>8, <1>10 DEF VolInv

\* The downloader publishes a status
LEMMA PublishDownloaderStatus ==
  ASSUME Good(m), ImageInv, NEW n \in DownloaderStatus \cup {None},
         m' = [m EXCEPT !.ds = Publish(@, n)], UNCHANGED stale
  PROVE  Good(m') /\ ImageInv'
<1>1. m.ds \in TopicOf(DownloaderStatus)
  BY DEF Good, Managers
<1>2. Publish(m.ds, n) \in TopicOf(DownloaderStatus)
  BY <1>1, Published
<1>3. Good(m') /\ Kept(m, m')
  BY <1>2, GoodDownloaderStatus
<1>4. QED
  BY <1>3, ImagesKept

\* The verifier publishes a status
LEMMA PublishVerifyImageStatus ==
  ASSUME Good(m), ImageInv, NEW n \in VerifyImageStatus \cup {None},
         m' = [m EXCEPT !.vs = Publish(@, n)], UNCHANGED stale
  PROVE  Good(m') /\ ImageInv'
<1>1. m.vs \in TopicOf(VerifyImageStatus)
  BY DEF Good, Managers
<1>2. Publish(m.vs, n) \in TopicOf(VerifyImageStatus)
  BY <1>1, Published
<1>3. Good(m') /\ Kept(m, m')
  BY <1>2, GoodVerifyImageStatus
<1>4. QED
  BY <1>3, ImagesKept

\* Each goroutine is one
LEMMA GoroutineOf ==
  ASSUME AgentInv
  PROVE  /\ \A i \in DOMAIN dg : dg[i] \in DownloadGoroutine
         /\ \A i \in DOMAIN vg : vg[i] \in VerifyGoroutine
<1>1. dg \in Seq(DownloadGoroutine) /\ vg \in Seq(VerifyGoroutine)
  BY DEF AgentInv
<1>2. QED
  BY <1>1, ElementOfSeq

\* doDownload begins
LEMMA BeginDownload ==
  ASSUME VolInv, NEW i \in DOMAIN dg, NEW c, NEW st \in DownloaderStatus,
         beginDownload(i, c, st), UNCHANGED <<vg, stale>>
  PROVE  VolInv'
<1>1. Good(m) /\ ImageInv /\ AgentInv /\ dg[i] \in DownloadGoroutine
  BY GoroutineOf DEF VolInv
<1>2. CASE c.ref = 0
  <2> DEFINE n == [st EXCEPT !.err = TRUE]
             g == [dg[i] EXCEPT !.note = FALSE]
  <2>1. m' = [m EXCEPT !.ds = Publish(@, n)] /\ dg' = [dg EXCEPT ![i] = g] /\ file' = file
    BY <1>2 DEF beginDownload
  <2>2. n \in DownloaderStatus
    BY DEF DownloaderStatus
  <2>3. g \in DownloadGoroutine
    BY <1>1, Goroutines
  <2> HIDE DEF n, g
  <2>4. Good(m') /\ ImageInv'
    BY <1>1, <2>1, <2>2, PublishDownloaderStatus
  <2>5. AgentInv'
    BY <1>1, <2>1, <2>3, SetGoroutine DEF AgentInv
  <2>6. QED
    BY <2>4, <2>5 DEF VolInv
<1>3. CASE c.ref # 0
  <2> DEFINE n == [st EXCEPT !.state = DOWNLOADING, !.target = "target"]
             g == [dg[i] EXCEPT !.note = FALSE, !.pc = "transfer", !.st = n]
  <2>1. /\ m' = [m EXCEPT !.ds = Publish(@, n)]
        /\ dg' = [dg EXCEPT ![i].note = FALSE, ![i].pc = "transfer", ![i].st = n]
        /\ file' = [file EXCEPT !["target"] = "part"]
    BY <1>3 DEF beginDownload
  <2>2. DOWNLOADING \in INITIAL..DOWNLOADED
    BY DEF DOWNLOADING, INITIAL, DOWNLOADED
  <2>3. n \in DownloaderStatus
    BY <2>2 DEF DownloaderStatus
  <2> HIDE DEF n
  <2>4. n # None
    BY <2>3, NoneIsNoValue
  <2>5. g \in DownloadGoroutine
    BY <1>1, <2>3, <2>4 DEF DownloadGoroutine
  <2>6. dg' = [dg EXCEPT ![i] = g]
    BY <2>1
  <2> HIDE DEF g
  <2>7. Good(m') /\ ImageInv'
    BY <1>1, <2>1, <2>3, PublishDownloaderStatus
  <2>8. file' \in [Paths \ {""} -> Contents]
    BY <1>1, <2>1 DEF AgentInv, Contents
  <2>9. AgentInv'
    BY <1>1, <2>5, <2>6, <2>8, SetGoroutine DEF AgentInv
  <2>10. QED
    BY <2>7, <2>9 DEF VolInv
<1>4. QED
  BY <1>2, <1>3

\* What the downloader reads
LEMMA DownloaderReads ==
  ASSUME Good(m)
  PROVE  Seen(m.dc) \in DownloaderConfig \cup {None} /\ Get(m.ds) \in DownloaderStatus \cup {None}
<1>1. m.dc \in TopicOf(DownloaderConfig) /\ m.ds \in TopicOf(DownloaderStatus)
  BY DEF Good, Managers
<1>2. QED
  BY <1>1, TopicValues

\* handleCreate and handleModify of the downloader
LEMMA DownloadHandlerStep ==
  ASSUME VolInv, NEW i \in DOMAIN dg, downloadHandler(i)
  PROVE  VolInv'
<1> DEFINE c == Seen(m.dc)
           st == Get(m.ds)
           g == [dg[i] EXCEPT !.note = FALSE]
<1>1. Good(m) /\ ImageInv /\ AgentInv /\ dg[i] \in DownloadGoroutine
  BY GoroutineOf DEF VolInv
<1>2. vg' = vg /\ stale' = stale
  BY DEF downloadHandler
<1>3. c \in DownloaderConfig \cup {None} /\ st \in DownloaderStatus \cup {None}
  BY <1>1, DownloaderReads
<1>4. g \in DownloadGoroutine
  BY <1>1, Goroutines
<1>5. [dg EXCEPT ![i] = g] \in Seq(DownloadGoroutine)
  <2> HIDE DEF g
  <2>1. QED
    BY <1>1, <1>4, SetGoroutine DEF AgentInv
<1>6. CASE c = None
  <2>1. dg' = [dg EXCEPT ![i] = g] /\ m' = m /\ file' = file
    BY <1>6 DEF downloadHandler
  <2>2. QED
    BY <1>1, <1>2, <1>5, <2>1 DEF VolInv, ImageInv, AgentInv
<1>7. CASE c # None /\ st = None
  <2> DEFINE n == NewStatus(c)
  <2>1. beginDownload(i, c, n)
    BY <1>7 DEF downloadHandler
  <2>2. c \in DownloaderConfig
    BY <1>3, <1>7
  <2> HIDE DEF c
  <2>3. DOWNLOADING \in INITIAL..DOWNLOADED
    BY DEF DOWNLOADING, INITIAL, DOWNLOADED
  <2>4. n \in DownloaderStatus
    BY <2>2, <2>3 DEF NewStatus, DownloaderConfig, DownloaderStatus
  <2> HIDE DEF n
  <2>5. QED
    BY <1>2, <2>1, <2>4, BeginDownload
<1>8. CASE c # None /\ st # None /\ c.ref # 0 /\ (st.err \/ st.state # DOWNLOADED \/ st.last # c.last)
  <2> DEFINE n == [st EXCEPT !.last = c.last, !.ref = c.ref, !.exp = FALSE,
                             !.state = DOWNLOADING, !.err = FALSE]
  <2>1. beginDownload(i, c, n)
    BY <1>8 DEF downloadHandler
  <2>2. c \in DownloaderConfig /\ st \in DownloaderStatus
    BY <1>3, <1>8
  <2> HIDE DEF c, st
  <2>3. DOWNLOADING \in INITIAL..DOWNLOADED /\ c.last \in Nat /\ c.ref \in 0..1
    BY <2>2 DEF DOWNLOADING, INITIAL, DOWNLOADED, DownloaderConfig
  <2>4. n \in DownloaderStatus
    BY <2>2, <2>3 DEF DownloaderStatus
  <2> HIDE DEF n
  <2>5. QED
    BY <1>2, <2>1, <2>4, BeginDownload
<1>9. CASE c # None /\ st # None
             /\ ~(c.ref # 0 /\ (st.err \/ st.state # DOWNLOADED \/ st.last # c.last))
  <2> DEFINE n == [st EXCEPT !.ref = c.ref, !.exp = c.ref = 0]
  <2>1. m' = [m EXCEPT !.ds = Publish(@, n)] /\ dg' = [dg EXCEPT ![i] = g] /\ file' = file
    BY <1>9 DEF downloadHandler
  <2>2. c \in DownloaderConfig /\ st \in DownloaderStatus
    BY <1>3, <1>9
  <2>3. n \in DownloaderStatus
    <3> DEFINE e == c.ref = 0
               d == [st EXCEPT !.ref = c.ref]
    <3>1. e \in BOOLEAN
      BY Zenon
    <3>2. n = [d EXCEPT !.exp = e]
      BY Zenon
    <3> HIDE DEF c, st, n, e
    <3>3. c.ref \in 0..1
      BY <2>2 DEF DownloaderConfig
    <3>4. d \in DownloaderStatus
      BY <2>2, <3>3 DEF DownloaderStatus
    <3> HIDE DEF d
    <3>5. QED
      BY <3>1, <3>2, <3>4 DEF DownloaderStatus
  <2> HIDE DEF n
  <2>4. Good(m') /\ ImageInv'
    BY <1>1, <1>2, <2>1, <2>3, PublishDownloaderStatus
  <2>5. AgentInv'
    BY <1>1, <1>2, <1>5, <2>1 DEF AgentInv
  <2>6. QED
    BY <2>4, <2>5 DEF VolInv
<1>10. QED
  BY <1>6, <1>7, <1>8, <1>9

\* A transfer ends
LEMMA EndOfTransfer ==
  ASSUME Good(m), ImageInv, AgentInv, NEW i \in DOMAIN dg, dg[i].pc # "idle",
         NEW ok \in BOOLEAN, NEW content \in Contents, endOfTransfer(i, ok, content),
         UNCHANGED stale
  PROVE  Good(m') /\ ImageInv' /\ file' \in [Paths \ {""} -> Contents]
<1> DEFINE st == dg[i].st
           d == [st EXCEPT !.err = ~ok]
           s == IF ok THEN DOWNLOADED ELSE st.state
           n == [d EXCEPT !.state = s]
<1>1. st \in DownloaderStatus
  <2>1. dg[i] \in DownloadGoroutine
    BY GoroutineOf
  <2>2. QED
    BY <2>1 DEF DownloadGoroutine
<1>2. m' = [m EXCEPT !.ds = Publish(@, n)]
  BY DEF endOfTransfer
<1> HIDE DEF st
<1>3. s \in INITIAL..DOWNLOADED
  <2>1. st.state \in INITIAL..DOWNLOADED
    BY <1>1 DEF DownloaderStatus
  <2>2. DOWNLOADED \in INITIAL..DOWNLOADED
    BY DEF INITIAL, DOWNLOADED
  <2>3. QED
    BY <2>1, <2>2
<1>4. (~ok) \in BOOLEAN
  OBVIOUS
<1>5. d \in DownloaderStatus
  BY <1>1, <1>4 DEF DownloaderStatus
<1> HIDE DEF d, s
<1>6. n \in DownloaderStatus
  BY <1>3, <1>5 DEF DownloaderStatus
<1> HIDE DEF n
<1>7. Good(m') /\ ImageInv'
  BY <1>2, <1>6, PublishDownloaderStatus
<1>8. file' \in [Paths \ {""} -> Contents]
  BY DEF endOfTransfer, AgentInv
<1>9. QED
  BY <1>7, <1>8

\* endDownload
LEMMA EndDownloadStep ==
  ASSUME VolInv, NEW i \in DOMAIN dg, endDownload(i)
  PROVE  VolInv'
<1> DEFINE g == [dg[i] EXCEPT !.pc = "idle", !.st = None]
<1>1. Good(m) /\ ImageInv /\ AgentInv /\ dg[i] \in DownloadGoroutine
  BY GoroutineOf DEF VolInv
<1>2. vg' = vg /\ stale' = stale /\ dg[i].pc # "idle" /\ dg' = [dg EXCEPT ![i] = g]
  BY DEF endDownload
<1>3. g \in DownloadGoroutine
  BY <1>1 DEF DownloadGoroutine
<1> HIDE DEF g
<1>4. endOfTransfer(i, TRUE, "good") \/ endOfTransfer(i, FALSE, "part") \/ endOfTransfer(i, TRUE, "bad")
  BY DEF endDownload
<1>5. "good" \in Contents /\ "part" \in Contents /\ "bad" \in Contents
  BY DEF Contents
<1>6. Good(m') /\ ImageInv' /\ file' \in [Paths \ {""} -> Contents]
  BY <1>1, <1>2, <1>4, <1>5, EndOfTransfer
<1>7. AgentInv'
  BY <1>1, <1>2, <1>3, <1>6, SetGoroutine DEF AgentInv
<1>8. QED
  BY <1>6, <1>7 DEF VolInv

\* maybeRetryDownload
LEMMA MaybeRetryStep ==
  ASSUME VolInv, NEW i \in DOMAIN dg, maybeRetryDownload(i)
  PROVE  VolInv'
<1>1. Good(m)
  BY DEF VolInv
<1>2. Get(m.ds) \in DownloaderStatus
  BY <1>1, DownloaderReads DEF maybeRetryDownload
<1>3. QED
  BY <1>2, BeginDownload DEF maybeRetryDownload

\* handleDelete of the downloader
LEMMA DownloadDeleteStep ==
  ASSUME VolInv, NEW i \in DOMAIN dg, downloadDelete(i)
  PROVE  VolInv'
<1> DEFINE d == Get(m.ds)
           n == [d EXCEPT !.state = INITIAL]
           q == IF d = None THEN m.ds ELSE Publish(Publish(m.ds, n), None)
<1>1. Good(m) /\ ImageInv /\ AgentInv
  BY DEF VolInv
<1>2. vg' = vg /\ stale' = stale /\ dg' = RemoveAt(dg, i) /\ m' = [m EXCEPT !.ds = q]
  BY DEF downloadDelete, Unpublish
<1>3. m.ds \in TopicOf(DownloaderStatus) /\ d \in DownloaderStatus \cup {None}
  BY <1>1, DownloaderReads DEF Good, Managers
<1>4. q \in TopicOf(DownloaderStatus)
  <2>1. CASE d = None
    BY <1>3, <2>1
  <2>2. CASE d # None
    <3>1. n \in DownloaderStatus
      <4>1. d \in DownloaderStatus /\ INITIAL \in INITIAL..DOWNLOADED
        BY <1>3, <2>2 DEF INITIAL, DOWNLOADED
      <4> HIDE DEF d
      <4>2. QED
        BY <4>1 DEF DownloaderStatus
    <3>2. q = Publish(Publish(m.ds, n), None)
      BY <2>2
    <3> HIDE DEF n, q
    <3>3. QED
      BY <1>3, <3>1, <3>2, Published
  <2>3. QED
    BY <2>1, <2>2
<1> HIDE DEF q
<1>5. Good(m') /\ Kept(m, m')
  BY <1>1, <1>2, <1>4, GoodDownloaderStatus
<1>6. file' \in [Paths \ {""} -> Contents]
  BY <1>1 DEF downloadDelete, AgentInv, Contents
<1>7. AgentInv'
  BY <1>1, <1>2, <1>6, Removed DEF AgentInv
<1>8. QED
  BY <1>1, <1>2, <1>5, <1>7, ImagesKept DEF VolInv

\* handleCreate, up to the move of the file, and handleModify of the verifier
LEMMA VerifyHandlerStep ==
  ASSUME VolInv, NEW i \in DOMAIN vg, verifyHandler(i)
  PROVE  VolInv'
<1> DEFINE c == Seen(m.vc)
           st == Get(m.vs)
           n == [ref |-> c.ref, exp |-> FALSE, state |-> VERIFYING, pend |-> TRUE, err |-> FALSE,
                 path |-> ""]
           g == [vg[i] EXCEPT !.note = FALSE]
<1>1. Good(m) /\ ImageInv /\ AgentInv /\ vg[i] \in VerifyGoroutine
  BY GoroutineOf DEF VolInv
<1>2. dg' = dg /\ file' = file /\ stale' = stale
  BY DEF verifyHandler
<1>3. c \in VerifyImageConfig \cup {None} /\ st \in VerifyImageStatus \cup {None}
  <2>1. m.vc \in TopicOf(VerifyImageConfig) /\ m.vs \in TopicOf(VerifyImageStatus)
    BY <1>1 DEF Good, Managers
  <2>2. QED
    BY <2>1, TopicValues
<1>4. g \in VerifyGoroutine
  BY <1>1, Goroutines
<1>5. [vg EXCEPT ![i] = g] \in Seq(VerifyGoroutine)
  <2> HIDE DEF g
  <2>1. QED
    BY <1>1, <1>4, SetGoroutine DEF AgentInv
<1>6. CASE c = None
  <2>1. vg' = [vg EXCEPT ![i] = g] /\ m' = m
    BY <1>6 DEF verifyHandler
  <2>2. QED
    BY <1>1, <1>2, <1>5, <2>1 DEF VolInv, ImageInv, AgentInv
<1>7. CASE c # None /\ st = None
  <2> DEFINE x == [n EXCEPT !.path = c.path]
             h == [vg[i] EXCEPT !.note = FALSE, !.pc = "mark", !.st = x]
  <2>1. m' = [m EXCEPT !.vs = Publish(@, n)] /\ vg' = [vg EXCEPT ![i] = h]
    BY <1>7 DEF verifyHandler
  <2>2. c \in VerifyImageConfig
    BY <1>3, <1>7
  <2> HIDE DEF c
  <2>3. n \in VerifyImageStatus
    BY <2>2 DEF VerifyImageConfig, VerifyImageStatus, Paths
  <2> HIDE DEF n
  <2>4. x \in VerifyImageStatus
    BY <2>2, <2>3 DEF VerifyImageConfig, VerifyImageStatus
  <2> HIDE DEF x
  <2>5. x # None
    BY <2>4, NoneIsNoValue
  <2>6. h \in VerifyGoroutine
    BY <1>1, <2>4, <2>5 DEF VerifyGoroutine
  <2> HIDE DEF h
  <2>7. Good(m') /\ ImageInv'
    BY <1>1, <1>2, <2>1, <2>3, PublishVerifyImageStatus
  <2>8. AgentInv'
    BY <1>1, <1>2, <2>1, <2>6, SetGoroutine DEF AgentInv
  <2>9. QED
    BY <2>7, <2>8 DEF VolInv
<1>8. CASE c # None /\ st # None
  <2> DEFINE x == [st EXCEPT !.ref = c.ref, !.exp = c.exp]
  <2>1. m' = [m EXCEPT !.vs = Publish(@, x)] /\ vg' = [vg EXCEPT ![i] = g]
    BY <1>8 DEF verifyHandler
  <2>2. c \in VerifyImageConfig /\ st \in VerifyImageStatus
    BY <1>3, <1>8
  <2> HIDE DEF c, st
  <2>3. c.ref \in 0..1 /\ c.exp \in BOOLEAN
    BY <2>2 DEF VerifyImageConfig
  <2>4. x \in VerifyImageStatus
    BY <2>2, <2>3 DEF VerifyImageStatus
  <2> HIDE DEF x
  <2>5. Good(m') /\ ImageInv'
    BY <1>1, <1>2, <2>1, <2>4, PublishVerifyImageStatus
  <2>6. AgentInv'
    BY <1>1, <1>2, <1>5, <2>1 DEF AgentInv
  <2>7. QED
    BY <2>5, <2>6 DEF VolInv
<1>9. QED
  BY <1>6, <1>7, <1>8

\* A goroutine of the verifier that is done publishes its status
LEMMA Verified ==
  ASSUME VolInv, NEW i \in DOMAIN vg, NEW n \in VerifyImageStatus,
         m' = [m EXCEPT !.vs = Publish(@, n)],
         vg' = [vg EXCEPT ![i].pc = "idle", ![i].st = None],
         file' \in [Paths \ {""} -> Contents], UNCHANGED <<dg, stale>>
  PROVE  VolInv'
<1> DEFINE g == [vg[i] EXCEPT !.pc = "idle", !.st = None]
<1>1. Good(m) /\ ImageInv /\ AgentInv /\ vg[i] \in VerifyGoroutine
  BY GoroutineOf DEF VolInv
<1>2. g \in VerifyGoroutine
  BY <1>1 DEF VerifyGoroutine
<1>3. vg' = [vg EXCEPT ![i] = g]
  OBVIOUS
<1> HIDE DEF g
<1>4. Good(m') /\ ImageInv'
  BY <1>1, PublishVerifyImageStatus
<1>5. AgentInv'
  <2>1. vg' \in Seq(VerifyGoroutine)
    <3>1. vg \in Seq(VerifyGoroutine)
      BY <1>1 DEF AgentInv
    <3>2. [vg EXCEPT ![i] = g] \in Seq(VerifyGoroutine)
      BY <1>2, <3>1, SetGoroutine
    <3>3. QED
      BY <1>3, <3>2
  <2>2. dg' \in Seq(DownloadGoroutine)
    BY <1>1 DEF AgentInv
  <2>3. QED
    BY <2>1, <2>2 DEF AgentInv
<1>6. QED
  BY <1>4, <1>5 DEF VolInv

\* verificationFailed
LEMMA Failed ==
  ASSUME VolInv, NEW i \in DOMAIN vg, vg[i].pc # "idle", NEW path \in Paths,
         verificationFailed(i, path), UNCHANGED <<file, dg, stale>>
  PROVE  VolInv'
<1> DEFINE n == [vg[i].st EXCEPT !.path = path, !.pend = FALSE, !.err = TRUE]
<1>1. vg[i].st \in VerifyImageStatus
  <2>1. vg[i] \in VerifyGoroutine
    BY GoroutineOf DEF VolInv
  <2>2. QED
    BY <2>1 DEF VerifyGoroutine
<1>2. n \in VerifyImageStatus
  BY <1>1 DEF VerifyImageStatus
<1>3. m' = [m EXCEPT !.vs = Publish(@, n)] /\ vg' = [vg EXCEPT ![i].pc = "idle", ![i].st = None]
  BY DEF verificationFailed
<1>4. file' \in [Paths \ {""} -> Contents]
  BY DEF VolInv, AgentInv
<1> HIDE DEF n
<1>5. QED
  BY <1>2, <1>3, <1>4, Verified

\* MarkObjectAsVerifying
LEMMA MarkStep ==
  ASSUME VolInv, NEW i \in DOMAIN vg, MarkObjectAsVerifying(i)
  PROVE  VolInv'
<1> DEFINE st == vg[i].st
           from == st.path
           n == [st EXCEPT !.path = "verifying"]
           g == [vg[i] EXCEPT !.pc = "verify", !.st = n]
<1>1. Good(m) /\ ImageInv /\ AgentInv /\ vg[i] \in VerifyGoroutine
  BY GoroutineOf DEF VolInv
<1>2. dg' = dg /\ stale' = stale /\ vg[i].pc = "mark"
  BY DEF MarkObjectAsVerifying
<1>3. st \in VerifyImageStatus
  BY <1>1, <1>2 DEF VerifyGoroutine
<1>4. CASE from = "" \/ file[from] = "none"
  <2>1. verificationFailed(i, "") /\ file' = file /\ "" \in Paths
    BY <1>4 DEF MarkObjectAsVerifying, Paths
  <2>2. QED
    BY <1>2, <2>1, Failed
<1>5. CASE ~(from = "" \/ file[from] = "none")
  <2>1. /\ file' = [file EXCEPT ![from] = "none", !["verifying"] = file[from]]
        /\ m' = [m EXCEPT !.vs = Publish(@, n)]
        /\ vg' = [vg EXCEPT ![i].pc = "verify", ![i].st = n]
    BY <1>5 DEF MarkObjectAsVerifying
  <2>2. from \in Paths \ {""} /\ "verifying" \in Paths
    BY <1>3, <1>5 DEF VerifyImageStatus, Paths
  <2> HIDE DEF st
  <2>3. n \in VerifyImageStatus
    BY <1>3, <2>2 DEF VerifyImageStatus
  <2> HIDE DEF n, from
  <2>4. n # None
    BY <2>3, NoneIsNoValue
  <2>5. g \in VerifyGoroutine
    BY <1>1, <2>3, <2>4 DEF VerifyGoroutine
  <2>6. vg' = [vg EXCEPT ![i] = g]
    BY <2>1
  <2> HIDE DEF g
  <2>7. file' \in [Paths \ {""} -> Contents]
    BY <1>1, <2>1, <2>2 DEF AgentInv, Contents
  <2>8. Good(m') /\ ImageInv'
    BY <1>1, <1>2, <2>1, <2>3, PublishVerifyImageStatus
  <2>9. AgentInv'
    BY <1>1, <1>2, <2>5, <2>6, <2>7, SetGoroutine DEF AgentInv
  <2>10. QED
    BY <2>8, <2>9 DEF VolInv
<1>6. QED
  BY <1>4, <1>5

\* VerifyObjectSha and MarkObjectAsVerified
LEMMA ShaStep ==
  ASSUME VolInv, NEW i \in DOMAIN vg, VerifyObjectSha(i)
  PROVE  VolInv'
<1> DEFINE st == vg[i].st
           n == [st EXCEPT !.state = VERIFIED, !.pend = FALSE, !.path = "verified"]
<1>1. Good(m) /\ ImageInv /\ AgentInv /\ vg[i] \in VerifyGoroutine
  BY GoroutineOf DEF VolInv
<1>2. dg' = dg /\ stale' = stale /\ vg[i].pc = "verify"
  BY DEF VerifyObjectSha
<1>3. CASE file["verifying"] # "good"
  <2>1. verificationFailed(i, "verifying") /\ file' = file /\ "verifying" \in Paths
    BY <1>3 DEF VerifyObjectSha, Paths
  <2>2. QED
    BY <1>2, <2>1, Failed
<1>4. CASE file["verifying"] = "good"
  <2>1. /\ file' = [file EXCEPT !["verifying"] = "none", !["verified"] = "good"]
        /\ m' = [m EXCEPT !.vs = Publish(@, n)]
        /\ vg' = [vg EXCEPT ![i].pc = "idle", ![i].st = None]
    BY <1>4 DEF VerifyObjectSha
  <2>2. st \in VerifyImageStatus /\ "verified" \in Paths
    BY <1>1, <1>2 DEF VerifyGoroutine, Paths
  <2> HIDE DEF st
  <2>3. n \in VerifyImageStatus
    BY <2>2 DEF VerifyImageStatus
  <2> HIDE DEF n
  <2>4. file' \in [Paths \ {""} -> Contents]
    BY <1>1, <2>1 DEF AgentInv, Contents
  <2>5. QED
    BY <1>2, <2>1, <2>3, <2>4, Verified
<1>5. QED
  BY <1>3, <1>4

\* handleDelete of the verifier
LEMMA VerifyDeleteStep ==
  ASSUME VolInv, NEW i \in DOMAIN vg, verifyDelete(i)
  PROVE  VolInv'
<1>1. Good(m) /\ ImageInv /\ AgentInv
  BY DEF VolInv
<1>2. dg' = dg /\ stale' = stale /\ vg' = RemoveAt(vg, i)
        /\ m' = [m EXCEPT !.vs = Publish(@, None)]
  BY DEF verifyDelete, Unpublish
<1>3. Good(m') /\ ImageInv'
  BY <1>1, <1>2, PublishVerifyImageStatus
<1>4. file' \in [Paths \ {""} -> Contents]
  BY <1>1 DEF verifyDelete, AgentInv, Contents
<1>5. AgentInv'
  BY <1>1, <1>2, <1>4, Removed DEF AgentInv
<1>6. QED
  BY <1>3, <1>5 DEF VolInv

-----------------------------------------------------------------------------
(* The theorems *)

\* After a boot the invariant holds
LEMMA VolInit == Init => VolInv
<1> SUFFICES ASSUME Init PROVE VolInv
  OBVIOUS
<1>1. PICK boot \in Boots, left \in SUBSET Trees :
        /\ m = [tree |-> [t \in Trees |-> "none"],
                blob |-> IF boot = "in_CAS" THEN [NewBlob EXCEPT !.state = LOADED] ELSE None,
                dc |-> <<None>>, vc |-> <<None>>, ds |-> <<None>>,
                vs |-> Publish(<<None>>, IF boot # "verified" THEN None
                         ELSE [ref |-> 0, exp |-> FALSE, state |-> VERIFIED, pend |-> FALSE,
                               err |-> FALSE, path |-> "verified"]),
                jobs |-> <<>>, results |-> <<>>, kept |-> [t \in Trees |-> "none"],
                cas |-> boot = "in_CAS", images |-> left, now |-> 1, fatal |-> "no"]
        /\ file = [p \in Paths \ {""} |->
                     IF p = "verified" /\ boot = "verified" THEN "good" ELSE "none"]
        /\ stale = left
  BY DEF Init
<1> DEFINE b == IF boot = "in_CAS" THEN [NewBlob EXCEPT !.state = LOADED] ELSE None
           st == [ref |-> 0, exp |-> FALSE, state |-> VERIFIED, pend |-> FALSE, err |-> FALSE,
                  path |-> "verified"]
           n == IF boot # "verified" THEN None ELSE st
           c == boot = "in_CAS"
<1>2. b \in Blob \cup {None} /\ (b # None => b.ref = 0 /\ ~b.dref /\ ~b.vref /\ b.err = "no")
  <2>1. LOADED \in INITIAL..LOADED
    BY DEF LOADED, INITIAL
  <2> DEFINE d == [NewBlob EXCEPT !.state = LOADED]
  <2>2. d \in Blob /\ d.ref = 0 /\ ~d.dref /\ ~d.vref /\ d.err = "no"
    BY <2>1, NewBlobOK DEF Blob
  <2> HIDE DEF d
  <2>3. b = IF boot = "in_CAS" THEN d ELSE None
    BY DEF d
  <2> HIDE DEF b
  <2>4. QED
    BY <2>2, <2>3
<1>3. n \in VerifyImageStatus \cup {None}
  <2>1. st \in VerifyImageStatus
    BY DEF VerifyImageStatus, Paths
  <2>2. QED
    BY <2>1
<1>4. c \in BOOLEAN
  BY Zenon
<1> DEFINE vs == Publish(<<None>>, n)
<1>5. \A S : <<None>> \in TopicOf(S) /\ Get(<<None>>) = None
  <2> TAKE S
  <2>1. <<None>> \in Seq(S \cup {None}) /\ Len(<<None>>) = 1 /\ <<None>>[1] = None
    OBVIOUS
  <2>2. 1 \in 1..(MaxLag + 1)
    BY DEF VolumeMgrAssumption
  <2>3. QED
    BY <2>1, <2>2 DEF TopicOf, Get, Last
<1>6. vs \in TopicOf(VerifyImageStatus)
  <2> HIDE DEF n
  <2>1. QED
    BY <1>3, <1>5, Published
<1> DEFINE tree == [t \in Trees |-> "none"]
<1>7. m = [tree |-> tree, blob |-> b, dc |-> <<None>>, vc |-> <<None>>, ds |-> <<None>>, vs |-> vs,
           jobs |-> <<>>, results |-> <<>>, kept |-> tree, cas |-> c, images |-> left, now |-> 1,
           fatal |-> "no"]
  BY <1>1
<1>8. tree \in [Trees -> TreeStates] /\ tree \in [Trees -> {"none", "ok", "error"}]
         /\ \A t \in Trees : tree[t] = "none"
  BY DEF TreeStates
<1> HIDE DEF b, n, c, vs, tree
<1>9. m \in Managers /\ m.tree = tree /\ m.blob = b /\ m.dc = <<None>> /\ m.vc = <<None>>
         /\ m.images = left
  <2>1. <<>> \in Seq(Jobs) /\ <<>> \in Seq(Results) /\ 1 \in Nat \ {0}
    OBVIOUS
  <2>2. QED
    BY <1>2, <1>4, <1>5, <1>6, <1>7, <1>8, <2>1 DEF Managers
<1>10. Live(m) = {}
  BY <1>8, <1>9 DEF Live
<1>11. Refs(m)
  BY <1>2, <1>5, <1>9 DEF Refs, Count
<1>12. ErrorInv(m) /\ TreeInv(m) /\ LoadedInv(m)
  BY <1>2, <1>8, <1>9 DEF ErrorInv, TreeInv, LoadedInv
<1>13. RefCountInv(m)
  BY <1>2, <1>9, <1>10, FS_EmptySet DEF RefCountInv, Count
<1>14. Good(m) /\ ImageInv
  BY <1>1, <1>9, <1>11, <1>12, <1>13 DEF Good, ImageInv
<1>15. AgentInv
  <2>1. dg = <<>> /\ vg = <<>>
    BY DEF Init
  <2>2. dg \in Seq(DownloadGoroutine) /\ vg \in Seq(VerifyGoroutine)
    BY <2>1
  <2>3. file \in [Paths \ {""} -> Contents]
    BY <1>1 DEF Contents
  <2>4. QED
    BY <2>2, <2>3 DEF AgentInv
<1>16. QED
  BY <1>14, <1>15 DEF VolInv

\* Every step keeps the invariant
LEMMA VolStep == VolInv /\ [Next]_vars => VolInv'
<1> SUFFICES ASSUME VolInv, [Next]_vars PROVE VolInv'
  OBVIOUS
<1>1. Good(m) /\ ImageInv /\ AgentInv
  BY DEF VolInv
<1>2. ASSUME Good(m') /\ ImageInv', UNCHANGED <<dg, vg, file>>
      PROVE  VolInv'
  <2>1. AgentInv'
    BY <1>1, <1>2 DEF AgentInv
  <2>2. QED
    BY <1>2, <2>1 DEF VolInv
<1>3. CASE downloaderStatusArrives
  BY <1>1, <1>2, <1>3, DownloaderStatusStep DEF downloaderStatusArrives
<1>4. CASE verifyImageStatusArrives
  BY <1>1, <1>2, <1>4, VerifyImageStatusStep DEF verifyImageStatusArrives
<1>5. ASSUME NEW i \in DOMAIN m.results, processCasIngestWorkResult(i) PROVE VolInv'
  BY <1>1, <1>2, <1>5, ResultStep DEF processCasIngestWorkResult
<1>6. CASE downloaderConfigArrives
  BY <1>6, DownloaderConfigStep
<1>7. CASE verifyImageConfigArrives
  BY <1>7, VerifyImageConfigStep
<1>8. ASSUME \/ containerdGC
             \/ \E i \in DOMAIN m.jobs : \/ jobRefused(i) \/ casIngestWorker(i) \/ IngestBlob(i)
                                         \/ CreateImage(i) \/ ingestFails(i)
      PROVE  VolInv'
  <2>1. UNCHANGED <<dg, vg, file>>
    BY <1>8 DEF containerdGC, jobRefused, casIngestWorker, IngestBlob, CreateImage, ingestFails
  <2>2. Good(m') /\ ImageInv'
    BY <1>1, <1>8, ContainerdStep, RefusedStep, WorkerStep, IngestStep, ImageStep, FailStep
  <2>3. QED
    BY <1>2, <2>1, <2>2
<1>9. ASSUME NEW i \in DOMAIN dg,
             downloadHandler(i) \/ endDownload(i) \/ maybeRetryDownload(i) \/ downloadDelete(i)
      PROVE  VolInv'
  BY <1>9, DownloadHandlerStep, EndDownloadStep, MaybeRetryStep, DownloadDeleteStep
<1>10. ASSUME NEW i \in DOMAIN vg,
              verifyHandler(i) \/ MarkObjectAsVerifying(i) \/ VerifyObjectSha(i) \/ verifyDelete(i)
       PROVE  VolInv'
  BY <1>10, VerifyHandlerStep, MarkStep, ShaStep, VerifyDeleteStep
<1>11. CASE gcUnusedInitObjects
  BY <1>1, <1>2, <1>11, GcStep DEF gcUnusedInitObjects
<1>12. ASSUME NEW t \in Trees,
              handleContentTreeCreate(t) \/ handleContentTreeModify(t) \/ handleContentTreeDelete(t)
       PROVE  VolInv'
  <2>1. UNCHANGED <<dg, vg, file>>
    BY <1>12 DEF handleContentTreeCreate, handleContentTreeModify, handleContentTreeDelete
  <2>2. QED
    BY <1>1, <1>2, <1>12, <2>1, CreateStep, ModifyStep, DeleteStep
<1>13. CASE UNCHANGED vars
  BY <1>1, <1>13 DEF vars, VolInv, ImageInv, AgentInv
<1>14. QED
  BY <1>3, <1>4, <1>5, <1>6, <1>7, <1>8, <1>9, <1>10, <1>11, <1>12, <1>13 DEF Next, Agents

\* The inductive invariant holds, whatever the content trees, the boot, the number of
\* retries, and the bounds
THEOREM VolInvariant == Spec => []VolInv
BY VolInit, VolStep, PTL DEF Spec

\* The records stay of their types: a RefCount never leaves 0..1, the topics never hold
\* another kind of value, and no path but those of the directories is ever opened
THEOREM VolTypes == Spec => []VolTypeOK
<1>1. VolInv => VolTypeOK
  BY DEF VolInv, Good, Managers, AgentInv, VolTypeOK
<1>2. QED
  BY <1>1, VolInvariant, PTL

\* Every reference to a configuration or to the blob is counted and given back exactly
\* once, so no release of volumemgr meets a RefCount of 0 and ends in log.Fatalf
THEOREM ReferencesMatch == Spec => []RefsMatch
<1>1. VolInv => RefsMatch
  <2> SUFFICES ASSUME VolInv PROVE RefsMatch
    OBVIOUS
  <2>1. Refs(m) /\ RefCountInv(m) /\ m.fatal \in {"no", "no_root_blob"}
    BY DEF VolInv, Good, Managers
  <2>2. QED
    BY <2>1 DEF Refs, RefCountInv, Live, RefsMatch
<1>2. QED
  BY <1>1, VolInvariant, PTL

\* A content tree is LOADED only with its image in the CAS, and with the blob unless the
\* image was there at the boot or was made while the tree was deleted: the workers that
\* load blobs and make images may be anywhere when trees are deleted and come again
THEOREM LoadedTreesInCAS == Spec => []LoadedInCAS
<1>1. VolInv => LoadedInCAS
  BY DEF VolInv, Good, LoadedInv, ImageInv, LoadedInCAS
<1>2. QED
  BY <1>1, VolInvariant, PTL
=============================================================================
