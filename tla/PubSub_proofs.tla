---------------------------- MODULE PubSub_proofs ----------------------------
(***************************************************************************)
(* Proofs about a topic of pubsub, for any keys, values, number of calls,  *)
(* faults and messages on their way: its types, that the subscriber's copy *)
(* implements Topic, and that a restart comes after the items it is about. *)
(***************************************************************************)
EXTENDS PubSub, SequenceTheorems, TLAPS

USE PubSubAssumption

-----------------------------------------------------------------------------
(* The inductive invariant *)

\* An item is what its key had at its place
ItemOK(k, item) == item.i \in 1..Len(hist[k]) /\ item.v = hist[k][item.i]

\* What was noted of key k, at a restart, is a place that exists
NeedOK(c) == \A k \in Keys : c.need[k] \in 1..Len(hist[k])

IsItem(m) == m.t \in {"update", "delete"}
ItemsOf(k) == {b \in 1..Len(wire) : IsItem(wire[b]) /\ wire[b].k = k}
Restarts == {a \in 1..Len(wire) : wire[a].t = "restarted"}

\* The map has the last value of each key, the peer was sent, and will see, values a key had
PlacesInv ==
  /\ \A k \in Keys : Len(hist[k]) >= 1 /\ hist[k][1] = NoValue
  /\ \A k \in Keys : ItemOK(k, km[k]) /\ km[k].i = Len(hist[k])
  /\ \A k \in Keys : ItemOK(k, sendToPeer[k]) /\ ItemOK(k, skm[k])
  /\ \A k \in Keys : \A b \in ItemsOf(k) : ItemOK(k, wire[b].item)

\* The items of a key are on the wire in the order of their places; what is still to be sent
\* is behind them and what the subscriber has before them
OrderInv ==
  \A k \in Keys :
    /\ \A b, c \in ItemsOf(k) : b < c => wire[b].item.i <= wire[c].item.i
    /\ \A b \in ItemsOf(k) : skm[k].i <= wire[b].item.i
    /\ k \in keys => /\ \A b \in ItemsOf(k) : wire[b].item.i <= sendToPeer[k].i
                     /\ skm[k].i <= sendToPeer[k].i

\* Every restart counter was noted when the places it names existed
NeedInv ==
  /\ NeedOK(rc) /\ NeedOK(frc) /\ NeedOK(newRestart) /\ NeedOK(src)
  /\ \A a \in Restarts : NeedOK(wire[a].rc)

\* What comes after a restart, on the wire or later, is not older than it
AfterInv ==
  \A k \in Keys :
    /\ \A b \in ItemsOf(k) : src.need[k] <= wire[b].item.i
    /\ \A a \in Restarts, b \in ItemsOf(k) : a < b => wire[a].rc.need[k] <= wire[b].item.i
    /\ k \in keys => /\ src.need[k] <= sendToPeer[k].i
                     /\ \A a \in Restarts : wire[a].rc.need[k] <= sendToPeer[k].i

\* The value the subscriber will have of key k when it has handled the messages before a (the
\* one element of this set)
Views(k, a) ==
  {wire[b].item.v : b \in {b \in ItemsOf(k) : b < a /\ \A c \in ItemsOf(k) : c < a => c <= b}}
    \cup {v \in {skm[k].v} : \A c \in ItemsOf(k) : ~(c < a)}

\* serveConnection knows what the subscriber will have, but for what was deleted before the
\* connection; what it was first sent are the values at the snapshot; and without a first
\* connection there is nothing
PeerInv ==
  /\ reconnects = 0 => spc = "none" /\ wire = <<>> /\ \A k \in Keys : skm[k].v = NoValue
  /\ spc \in {"none", "hello", "snapshot"} =>
       keys = {} /\ \A k \in Keys : sendToPeer[k].v = NoValue
  /\ spc \notin {"initial", "changes"} => keys = {}
  /\ spc # "none" => \A k \in Keys \ keys : \A v \in Views(k, Len(wire) + 1) :
       v = sendToPeer[k].v \/ (reconnects > 1 /\ sendToPeer[k].v = NoValue)
  /\ spc = "changes" => \A k \in Keys :
       \E i \in newRestart.need[k]..Len(hist[k]) : hist[k][i] = sendToPeer[k].v
  /\ spc \in {"initial", "check", "send"} => \A k \in Keys :
       snap[k] \in 1..Len(hist[k]) /\ hist[k][snap[k]] = sendToPeer[k].v

\* v is good enough for who was told of a restart at place n of a key with history h
SeenIn(h, conns, v, n) ==
  \E i \in n..Len(h) : h[i] = v \/ (conns > 1 /\ h[i] = NoValue)
Seen(k, v, n) == SeenIn(hist[k], reconnects, v, n)

\* What the subscriber will have when it handles a restart is good enough, but for the keys
\* for which the restart was sent too early
SeenInv ==
  \A k \in Keys :
    /\ k \notin src.early => Seen(k, skm[k].v, src.need[k])
    /\ \A a \in Restarts :
         k \notin wire[a].rc.early => \A v \in Views(k, a) : Seen(k, v, wire[a].rc.need[k])

PubInv ==
  PubTypeOK /\ PlacesInv /\ OrderInv /\ NeedInv /\ AfterInv /\ PeerInv /\ SeenInv

-----------------------------------------------------------------------------
(* Types *)

\* The constants of the records
LEMMA ConstantTypes ==
  /\ NoItem \in Item /\ Zero \in Counter
  /\ NoOp \in [step : {"none", "notify", "write"}, file : Keys \cup {Restarted, NoValue}]
  BY DEF NoItem, Item, Content, Zero, Counter, NoOp

\* The messages
LEMMA MessageTypes ==
  /\ \A t \in {"update", "delete"}, k \in Keys, item \in Item :
       [t |-> t, k |-> k, item |-> item] \in Messages
  /\ [t |-> "complete"] \in Messages
  /\ \A c \in Counter : [t |-> "restarted", rc |-> c] \in Messages
  BY DEF Messages

\* What a message has
LEMMA MessageFields ==
  ASSUME NEW m \in Messages
  PROVE  /\ IsItem(m) => m.k \in Keys /\ m.item \in Item
         /\ m.t = "restarted" => m.rc \in Counter
         /\ m.t \in {"update", "delete", "complete", "restarted"}
  BY DEF Messages, IsItem

\* A message can only be sent while there is room for it
LEMMA SendType ==
  ASSUME PubTypeOK, NEW m \in Messages, Send(m)
  PROVE  wire' \in Seq(Messages) /\ Len(wire') <= MaxWire
<1>1. wire \in Seq(Messages) /\ Len(wire) \in Nat
  BY LenProperties DEF PubTypeOK
<1>2. wire' \in Seq(Messages) /\ Len(wire') = Len(wire) + 1
  BY <1>1, AppendProperties DEF Send
<1> QED
  BY <1>1, <1>2 DEF Send

\* A connection that ends keeps the types
LEMMA CloseType ==
  ASSUME PubTypeOK, closeConnection
  PROVE  /\ sendToPeer' \in [Keys -> Item] /\ newRestart' \in Counter
         /\ wire' \in Seq(Messages) /\ Len(wire') <= MaxWire /\ faults' \in 0..MaxFaults
<1>1. wire \in Seq(Messages) /\ Len(wire) \in Nat /\ Len(wire) <= MaxWire
  BY LenProperties DEF PubTypeOK
<1>2. PICK n \in 0..Len(wire) : wire' = SubSeq(wire, 1, n)
  BY DEF closeConnection
<1>3. wire' \in Seq(Messages) /\ Len(wire') = n
  BY <1>1, <1>2, SubSeqProperties
<1> QED
  BY <1>1, <1>3, ConstantTypes DEF PubTypeOK, closeConnection

\* The numbers of the values of the keys
LEMMA NeedType ==
  ASSUME PubTypeOK
  PROVE  [k \in Keys |-> Len(hist[k])] \in [Keys -> Nat]
  BY LenProperties DEF PubTypeOK

\* A new value of a key
LEMMA StoreType ==
  ASSUME PubTypeOK, NEW k \in Keys, NEW v \in Content, Store(k, v)
  PROVE  km' \in [Keys -> Item] /\ hist' \in [Keys -> Seq(Content)]
<1>1. hist[k] \in Seq(Content) /\ Len(hist[k]) + 1 \in Nat
  BY LenProperties DEF PubTypeOK
<1>2. [v |-> v, i |-> Len(hist[k]) + 1] \in Item
  BY <1>1 DEF Item
<1>3. Append(hist[k], v) \in Seq(Content)
  BY <1>1, AppendProperties
<1> QED
  BY <1>2, <1>3 DEF Store, PubTypeOK

\* A call of the publisher keeps the types of what it changes first
LEMMA CallType ==
  ASSUME PubTypeOK, NEW f \in Keys \cup {Restarted}, Call(f)
  PROVE  /\ op' \in [step : {"none", "notify", "write"}, file : Keys \cup {Restarted, NoValue}]
         /\ ops' \in 0..MaxOps
  BY DEF PubTypeOK, Call

\* A restart that is signalled or cleared keeps the types
LEMMA RestartType ==
  ASSUME PubTypeOK, NEW n \in Nat, restartImpl(n)
  PROVE  PubTypeOK'
<1>1. rc' \in Counter
  BY NeedType DEF restartImpl, Counter
<1>2. /\ op' \in [step : {"none", "notify", "write"}, file : Keys \cup {Restarted, NoValue}]
      /\ ops' \in 0..MaxOps
  BY CallType DEF restartImpl
<1>3. UNCHANGED <<km, hist, up, fileVars, srvVars, wire, subVars, faults, reconnects, raceVars>>
  BY DEF restartImpl, Call
<1> QED
  BY <1>1, <1>2, <1>3 DEF PubTypeOK, fileVars, srvVars, subVars, raceVars

\* and with the count it publishes
LEMMA SignalType ==
  ASSUME PubTypeOK, SignalRestarted
  PROVE  PubTypeOK'
<1>1. rc \in Counter
  BY DEF PubTypeOK
<1>2. rc.n + 1 \in Nat
  BY <1>1 DEF Counter
<1>3. restartImpl(rc.n + 1)
  BY DEF SignalRestarted
<1> QED
  BY <1>2, <1>3, RestartType, Zenon

\* Every step keeps the types
LEMMA TypeStep ==
  ASSUME PubTypeOK, [Next]_vars
  PROVE  PubTypeOK'
<1> USE ConstantTypes DEF PubTypeOK, pubVars, fileVars, srvVars, subVars, raceVars, At, serveUnchanged
<1>1. ASSUME NEW k \in Keys, NEW v \in Values, Publish(k, v)
      PROVE  PubTypeOK'
  <2>1. km' \in [Keys -> Item] /\ hist' \in [Keys -> Seq(Content)]
    BY <1>1, StoreType DEF Publish, Content
  <2>2. /\ op' \in [step : {"none", "notify", "write"}, file : Keys \cup {Restarted, NoValue}]
        /\ ops' \in 0..MaxOps
    BY <1>1, CallType DEF Publish
  <2> QED
    BY <1>1, <2>1, <2>2 DEF Publish, Call, Store
<1>2. ASSUME NEW k \in Keys, Unpublish(k)
      PROVE  PubTypeOK'
  <2>1. km' \in [Keys -> Item] /\ hist' \in [Keys -> Seq(Content)]
    BY <1>2, StoreType DEF Unpublish, Content
  <2>2. /\ op' \in [step : {"none", "notify", "write"}, file : Keys \cup {Restarted, NoValue}]
        /\ ops' \in 0..MaxOps
    BY <1>2, CallType DEF Unpublish
  <2> QED
    BY <1>2, <2>1, <2>2 DEF Unpublish, Call, Store
<1>3. CASE SignalRestarted
  BY ONLY PubTypeOK, <1>3, SignalType
<1>4. CASE ClearRestarted
  BY <1>4, RestartType DEF ClearRestarted
<1>5. CASE updatersNotify
  BY <1>5 DEF updatersNotify
<1>6. CASE driverWrite
  <2>1. file' \in [Keys -> Item] /\ frc' \in Counter
    BY <1>6 DEF driverWrite
  <2> QED
    BY <1>6, <2>1 DEF driverWrite
<1>7. CASE breakConnection
  BY <1>7, CloseType DEF breakConnection, closeConnection
<1>8. CASE endProcess
  BY <1>8, CloseType DEF endProcess, closeConnection
<1>9. CASE NewPublication
  <2>1. \A k \in Keys : file[k].v \in Content /\ file[k] \in Item /\ km[k] \in Item
    BY DEF Item
  <2>2. \A k \in Keys : Len(hist[k]) + 1 \in Nat /\ Append(hist[k], file[k].v) \in Seq(Content)
    BY <2>1, LenProperties, AppendProperties
  <2>3. \A k \in Keys : [v |-> file[k].v, i |-> Len(hist[k]) + 1] \in Item
    BY <2>1, <2>2 DEF Item
  <2>4. km' \in [Keys -> Item] /\ hist' \in [Keys -> Seq(Content)]
    BY <1>9, <2>1, <2>2, <2>3 DEF NewPublication
  <2> QED
    BY <1>9, <2>4 DEF NewPublication
<1>10. CASE connect
  BY <1>10 DEF connect
<1>11. CASE addUpdater
  BY <1>11 DEF addUpdater
<1>12. CASE determineDiffs
  <2>1. snap' \in [Keys -> Nat]
    BY <1>12, NeedType DEF determineDiffs
  <2> QED
    BY <1>12, <2>1 DEF determineDiffs, DetermineDiffs
<1>13. CASE serialize
  <2>1. \A k \in Keys : \A t \in {"update", "delete"} :
          [t |-> t, k |-> k, item |-> sendToPeer[k]] \in Messages
    BY MessageTypes
  <2>2. wire' \in Seq(Messages) /\ Len(wire') <= MaxWire
    BY <1>13, <2>1, SendType DEF serialize
  <2> QED
    BY <1>13, <2>2 DEF serialize
<1>14. CASE sendComplete
  <2>1. wire' \in Seq(Messages) /\ Len(wire') <= MaxWire
    BY <1>14, SendType, MessageTypes DEF sendComplete
  <2> QED
    BY <1>14, <2>1 DEF sendComplete
<1>15. CASE checkRestart
  BY <1>15 DEF checkRestart
<1>16. CASE sendRestarted
  <2>0. [rc EXCEPT !.early = tooEarly] \in Counter
    BY DEF Counter, tooEarly
  <2>1. wire' \in Seq(Messages) /\ Len(wire') <= MaxWire
    BY <1>16, <2>0, SendType, MessageTypes DEF sendRestarted
  <2> QED
    BY <1>16, <2>1 DEF sendRestarted
<1>17. CASE noteRestart
  <2>1. missed' \in BOOLEAN
    BY <1>17 DEF noteRestart
  <2>2. sentRestart' \in Nat
    BY <1>17 DEF noteRestart, Counter
  <2> QED
    BY <1>17, <2>1, <2>2 DEF noteRestart
<1>18. CASE waitNotify
  BY <1>18 DEF waitNotify
<1>19. CASE grabRestart
  BY <1>19 DEF grabRestart
<1>20. CASE sentChanges
  <2>1. wire' \in Seq(Messages) /\ Len(wire') <= MaxWire
    BY <1>20, SendType, MessageTypes DEF sentChanges
  <2>2. sentRestart' \in Nat
    BY <1>20 DEF sentChanges, Counter
  <2> QED
    BY <1>20, <2>1, <2>2 DEF sentChanges
<1>21. CASE ProcessChange
  <2> DEFINE m == Head(wire)
  <2>1. m \in Messages /\ wire' \in Seq(Messages) /\ Len(wire') <= MaxWire
    BY <1>21, HeadTailProperties, LenProperties DEF ProcessChange
  <2>2. skm' \in [Keys -> Item] /\ src' \in Counter /\ synchronized' \in BOOLEAN
    <3> HIDE DEF m
    <3>1. IsItem(m) => m.k \in Keys /\ m.item \in Item
      BY <2>1, MessageFields
    <3>2. m.t = "restarted" => m.rc \in Counter
      BY <2>1, MessageFields
    <3>3. handle(m)
      BY <1>21 DEF ProcessChange, m
    <3>4. CASE IsItem(m)
      BY <3>1, <3>3, <3>4 DEF handle, IsItem, handleItem
    <3>5. CASE m.t = "restarted"
      BY <3>2, <3>3, <3>5 DEF handle, IsItem, handleRestart
    <3>6. CASE ~IsItem(m) /\ m.t # "restarted"
      BY <3>3, <3>6 DEF handle, IsItem, handleSynchronized
    <3> QED
      BY <3>4, <3>5, <3>6
  <2> QED
    BY <1>21, <2>1, <2>2 DEF ProcessChange
<1>22. CASE UNCHANGED vars
  BY <1>22 DEF vars
<1> QED
  BY <1>1, <1>2, <1>3, <1>4, <1>5, <1>6, <1>7, <1>8, <1>9, <1>10, <1>11, <1>12, <1>13, <1>14, <1>15, <1>16, <1>17, <1>18, <1>19, <1>20, <1>21, <1>22
     DEF Next, Calls, Serve

-----------------------------------------------------------------------------
(* What steps do to the history and to the wire *)

\* The history of a key only gets longer
Grows(k) ==
  /\ Len(hist[k]) <= Len(hist'[k])
  /\ \A i \in 1..Len(hist[k]) : hist'[k][i] = hist[k][i]

\* The lengths are numbers
LEMMA Lengths ==
  ASSUME PubTypeOK
  PROVE  Len(wire) \in Nat /\ \A k \in Keys : Len(hist[k]) \in Nat
  BY LenProperties DEF PubTypeOK

\* A value appended to the history of a key
LEMMA AppendGrows ==
  ASSUME PubTypeOK, NEW k \in Keys, NEW v \in Content, hist'[k] = Append(hist[k], v)
  PROVE  Grows(k) /\ Len(hist'[k]) = Len(hist[k]) + 1 /\ hist'[k][Len(hist[k]) + 1] = v
<1>1. hist[k] \in Seq(Content) /\ Len(hist[k]) \in Nat
  BY LenProperties DEF PubTypeOK
<1>2. Len(hist'[k]) = Len(hist[k]) + 1 /\ hist'[k][Len(hist[k]) + 1] = v
  BY <1>1, AppendProperties
<1>3. \A i \in 1..Len(hist[k]) : hist'[k][i] = hist[k][i]
  BY <1>1, AppendProperties
<1> QED
  BY <1>1, <1>2, <1>3 DEF Grows

\* What was good enough stays so while the history grows
LEMMA SeenGrows ==
  ASSUME PubTypeOK, NEW k \in Keys, NEW v, NEW n \in 1..Len(hist[k]), Grows(k),
         Len(hist'[k]) \in Nat, reconnects' \in Nat, reconnects <= reconnects', Seen(k, v, n)
  PROVE  SeenIn(hist'[k], reconnects', v, n)
<1>1. PICK i \in n..Len(hist[k]) : hist[k][i] = v \/ (reconnects > 1 /\ hist[k][i] = NoValue)
  BY DEF Seen, SeenIn
<1>2. n \in Nat /\ Len(hist[k]) \in Nat
  BY Lengths
<1>3. i \in 1..Len(hist[k]) /\ i \in n..Len(hist'[k])
  BY <1>1, <1>2 DEF Grows
<1>4. hist'[k][i] = hist[k][i]
  BY <1>3 DEF Grows
<1>5. reconnects > 1 => reconnects' > 1
  BY DEF PubTypeOK
<1> QED
  BY <1>1, <1>3, <1>4, <1>5 DEF SeenIn

\* A message sent comes last
LEMMA AppendWire ==
  ASSUME PubTypeOK, NEW m \in Messages, wire' = Append(wire, m), UNCHANGED skm
  PROVE  /\ Len(wire') = Len(wire) + 1 /\ wire'[Len(wire) + 1] = m
         /\ \A b \in 1..Len(wire) : wire'[b] = wire[b]
         /\ \A k : \A b : b \in ItemsOf(k)' <=>
              b \in ItemsOf(k) \/ (b = Len(wire) + 1 /\ IsItem(m) /\ m.k = k)
         /\ \A a : a \in Restarts' <=>
              a \in Restarts \/ (a = Len(wire) + 1 /\ m.t = "restarted")
<1>1. wire \in Seq(Messages) /\ Len(wire) \in Nat
  BY LenProperties DEF PubTypeOK
<1>2. Len(wire') = Len(wire) + 1 /\ wire'[Len(wire) + 1] = m
  BY <1>1, AppendProperties
<1>3. \A b \in 1..Len(wire) : wire'[b] = wire[b]
  BY <1>1, AppendProperties
<1>4. \A b : b \in 1..Len(wire') <=> b \in 1..Len(wire) \/ b = Len(wire) + 1
  BY <1>1, <1>2
<1> QED
  BY <1>1, <1>2, <1>3, <1>4 DEF ItemsOf, Restarts, IsItem

\* A message sent leaves the views before it alone
LEMMA AppendViews ==
  ASSUME PubTypeOK, NEW m \in Messages, wire' = Append(wire, m), UNCHANGED skm, NEW k
  PROVE  /\ \A a \in 1..(Len(wire) + 1) : Views(k, a)' \subseteq Views(k, a)
         /\ IsItem(m) /\ m.k = k => Views(k, Len(wire) + 1)' \subseteq {m.item.v}
         /\ ~(IsItem(m) /\ m.k = k) =>
              Views(k, Len(wire) + 1)' \subseteq Views(k, Len(wire) + 1)
<1>n. PICK n \in Nat : n = Len(wire)
  BY Lengths
<1>0. \A b \in ItemsOf(k) : b \in 1..n
  BY <1>n DEF ItemsOf
<1>1. /\ Len(wire') = n + 1 /\ wire'[n + 1] = m
      /\ \A b \in ItemsOf(k) : wire'[b] = wire[b]
      /\ \A b : b \in ItemsOf(k)' <=> b \in ItemsOf(k) \/ (b = n + 1 /\ IsItem(m) /\ m.k = k)
  BY <1>n, <1>0, AppendWire
<1>2. \A a \in 1..(n + 1) : Views(k, a)' \subseteq Views(k, a)
  BY <1>0, <1>1 DEF Views
<1>3. ASSUME IsItem(m), m.k = k
      PROVE  Views(k, n + 2)' \subseteq {m.item.v}
  <2>1. n + 1 \in ItemsOf(k)' /\ n + 1 < n + 2
    BY <1>0, <1>1, <1>3
  <2>2. \A b \in ItemsOf(k)' : (\A c \in ItemsOf(k)' : c < n + 2 => c <= b) => b = n + 1
    BY <1>0, <1>1, <2>1
  <2> QED
    BY <1>1, <2>1, <2>2 DEF Views
<1>4. ASSUME ~(IsItem(m) /\ m.k = k)
      PROVE  Views(k, n + 2)' \subseteq Views(k, n + 1)
  <2>1. \A b : b \in ItemsOf(k)' <=> b \in ItemsOf(k)
    BY <1>1, <1>4
  <2>2. \A b \in ItemsOf(k) : b < n + 1 /\ b < n + 2
    BY <1>0
  <2> QED
    BY <1>1, <2>1, <2>2 DEF Views
<1>5. Views(k, Len(wire) + 1)' = Views(k, n + 2)'
  <2>1. Len(wire') + 1 = n + 2
    BY <1>1
  <2> QED
    BY <2>1 DEF Views
<1> QED
  BY <1>n, <1>2, <1>3, <1>4, <1>5

\* A connection that ends leaves a prefix
LEMMA PrefixWire ==
  ASSUME PubTypeOK, NEW n \in 0..Len(wire), wire' = SubSeq(wire, 1, n), UNCHANGED skm
  PROVE  /\ Len(wire') = n /\ \A b \in 1..n : wire'[b] = wire[b]
         /\ \A k : \A b : b \in ItemsOf(k)' <=> b \in ItemsOf(k) /\ b <= n
         /\ \A a : a \in Restarts' <=> a \in Restarts /\ a <= n
         /\ \A k : \A a \in 1..(n + 1) : Views(k, a)' \subseteq Views(k, a)
<1>1. wire \in Seq(Messages) /\ Len(wire) \in Nat /\ n \in Nat
  BY Lengths DEF PubTypeOK
<1>2. Len(wire') = n /\ \A b \in 1..n : wire'[b] = wire[b]
  BY <1>1, SubSeqProperties
<1>3. \A b : b \in 1..Len(wire') <=> b \in 1..Len(wire) /\ b <= n
  BY <1>1, <1>2
<1>4. /\ \A k : \A b : b \in ItemsOf(k)' <=> b \in ItemsOf(k) /\ b <= n
      /\ \A a : a \in Restarts' <=> a \in Restarts /\ a <= n
  BY <1>2, <1>3 DEF ItemsOf, Restarts, IsItem
<1>5. ASSUME NEW k, NEW a \in 1..(n + 1)
      PROVE  Views(k, a)' \subseteq Views(k, a)
  <2>1. \A b \in ItemsOf(k)' : wire'[b] = wire[b]
    BY <1>1, <1>2 DEF ItemsOf
  <2>2. \A b \in ItemsOf(k) : b < a => b \in ItemsOf(k)'
    BY <1>1, <1>4 DEF ItemsOf
  <2> QED
    BY <1>4, <2>1, <2>2 DEF Views
<1> QED
  BY <1>2, <1>4, <1>5

\* The first message is taken from the wire
LEMMA TailWire ==
  ASSUME PubTypeOK, wire # <<>>, wire' = Tail(wire)
  PROVE  /\ Head(wire) = wire[1] /\ wire[1] \in Messages /\ 1 \in 1..Len(wire)
         /\ Len(wire') = Len(wire) - 1 /\ Len(wire') \in Nat
         /\ \A b \in 1..Len(wire') : wire'[b] = wire[b + 1]
         /\ \A k : \A b \in ItemsOf(k)' : b + 1 \in ItemsOf(k) /\ b \in Nat
         /\ \A k : \A c \in ItemsOf(k) : c # 1 => c - 1 \in ItemsOf(k)'
         /\ \A a \in Restarts' : a + 1 \in Restarts /\ a \in 1..Len(wire')
<1>1. wire \in Seq(Messages) /\ Len(wire) \in Nat
  BY Lengths DEF PubTypeOK
<1>2. /\ Len(wire) # 0 /\ Head(wire) = wire[1] /\ Head(wire) \in Messages
      /\ Len(wire') = Len(wire) - 1 /\ \A b \in 1..Len(wire') : wire'[b] = wire[b + 1]
  BY <1>1, HeadTailProperties, EmptySeq
<1>3. \A b \in 1..Len(wire') : b + 1 \in 1..Len(wire) /\ b \in Nat
  BY <1>1, <1>2
<1>4. \A c \in 1..Len(wire) : c # 1 => c - 1 \in 1..Len(wire') /\ (c - 1) + 1 = c
  BY <1>1, <1>2
<1>5. \A k : \A b \in ItemsOf(k)' : b + 1 \in ItemsOf(k) /\ b \in Nat
  BY <1>2, <1>3 DEF ItemsOf, IsItem
<1>6. \A k : \A c \in ItemsOf(k) : c # 1 => c - 1 \in ItemsOf(k)'
  BY <1>2, <1>4 DEF ItemsOf, IsItem
<1>7. \A a \in Restarts' : a + 1 \in Restarts /\ a \in 1..Len(wire')
  BY <1>2, <1>3 DEF Restarts
<1> QED
  BY <1>1, <1>2, <1>5, <1>6, <1>7

\* The views move on with the message that is handled
LEMMA TailViews ==
  ASSUME PubTypeOK, wire # <<>>, wire' = Tail(wire), NEW k,
         skm'[k].v = IF 1 \in ItemsOf(k) THEN wire[1].item.v ELSE skm[k].v,
         NEW a \in 1..Len(wire)
  PROVE  Views(k, a)' \subseteq Views(k, a + 1)
<1>1. /\ \A b \in 1..Len(wire') : wire'[b] = wire[b + 1]
      /\ \A b \in ItemsOf(k)' : b + 1 \in ItemsOf(k) /\ b \in Nat /\ b \in 1..Len(wire')
      /\ \A c \in ItemsOf(k) : c # 1 => c - 1 \in ItemsOf(k)'
      /\ \A c \in ItemsOf(k) : c \in Nat \ {0}
      /\ a \in Nat \ {0}
  BY TailWire, Lengths DEF ItemsOf
<1>2. ASSUME NEW b \in ItemsOf(k)', b < a, \A c \in ItemsOf(k)' : c < a => c <= b
      PROVE  wire'[b].item.v \in Views(k, a + 1)
  <2>1. b + 1 \in ItemsOf(k) /\ b + 1 < a + 1 /\ wire'[b] = wire[b + 1]
    BY <1>1, <1>2
  <2>2. ASSUME NEW c \in ItemsOf(k), c < a + 1 PROVE c <= b + 1
    <3>1. CASE c = 1
      BY <1>1, <1>2, <3>1
    <3>2. CASE c # 1
      <4>1. c - 1 \in ItemsOf(k)' /\ c \in Nat /\ b \in Nat /\ a \in Nat
        BY <1>1, <3>2
      <4>2. c - 1 < a
        BY <2>2, <4>1
      <4>3. c - 1 <= b
        BY <1>2, <4>1, <4>2
      <4> QED
        BY <4>1, <4>3
    <3> QED
      BY <3>1, <3>2
  <2> QED
    BY <2>1, <2>2 DEF Views
<1>3. ASSUME \A c \in ItemsOf(k)' : ~(c < a)
      PROVE  skm'[k].v \in Views(k, a + 1)
  <2>1. \A c \in ItemsOf(k) : c < a + 1 => c = 1
    BY <1>1, <1>3
  <2>2. CASE 1 \in ItemsOf(k)
    <3>1. 1 < a + 1
      BY <1>1
    <3> QED
      BY <1>1, <2>1, <2>2, <3>1 DEF Views
  <2>3. CASE 1 \notin ItemsOf(k)
    <3>1. \A c \in ItemsOf(k) : ~(c < a + 1)
      BY <2>1, <2>3
    <3> QED
      BY <2>3, <3>1 DEF Views
  <2> QED
    BY <2>2, <2>3
<1> QED
  BY <1>2, <1>3 DEF Views

-----------------------------------------------------------------------------
(* The steps, by what they change *)

\* What holds of the wire when it does not change
LEMMA SameWire ==
  ASSUME UNCHANGED wire
  PROVE  /\ \A k : ItemsOf(k)' = ItemsOf(k)
         /\ Restarts' = Restarts
         /\ UNCHANGED skm => \A k, a : Views(k, a)' = Views(k, a)
  BY DEF ItemsOf, Restarts, Views, IsItem

\* Places that exist stay the places of the same values
LEMMA ItemGrows ==
  ASSUME PubTypeOK, PubTypeOK', NEW k \in Keys, Grows(k)
  PROVE  /\ \A item : ItemOK(k, item) =>
              item.i \in 1..Len(hist'[k]) /\ item.v = hist'[k][item.i]
         /\ \A n \in 1..Len(hist[k]) : n \in 1..Len(hist'[k])
<1>1. Len(hist[k]) \in Nat /\ Len(hist'[k]) \in Nat
  BY LenProperties DEF PubTypeOK
<1> QED
  BY <1>1 DEF ItemOK, Grows

\* The publisher only adds to the history and to its map, whatever else goes on
LEMMA PublisherStep ==
  ASSUME PubInv, PubTypeOK', \A k \in Keys : Grows(k),
         UNCHANGED <<wire, spc, sendToPeer, keys, newRestart, skm, src, reconnects, snap>>,
         \A k \in Keys : ItemOK(k, km[k])' /\ km'[k].i = Len(hist'[k]),
         NeedOK(rc)', NeedOK(frc)'
  PROVE  PubInv'
<1>0. /\ PubTypeOK /\ PlacesInv /\ OrderInv /\ NeedInv /\ AfterInv /\ PeerInv /\ SeenInv
      /\ Len(wire) \in Nat
      /\ \A k \in Keys : Len(hist[k]) \in Nat /\ Len(hist'[k]) \in Nat
  BY LenProperties, Lengths DEF PubInv, PubTypeOK
<1>1. /\ \A k : ItemsOf(k)' = ItemsOf(k)
      /\ Restarts' = Restarts
      /\ \A k, a : Views(k, a)' = Views(k, a)
  BY SameWire
<1>2. PlacesInv'
  <2>1. \A k \in Keys : Len(hist'[k]) >= 1 /\ hist'[k][1] = NoValue
    BY <1>0 DEF PlacesInv, Grows
  <2>2. \A k \in Keys : ItemOK(k, sendToPeer[k])' /\ ItemOK(k, skm[k])'
    <3>1. \A k \in Keys : ItemOK(k, sendToPeer[k]) /\ ItemOK(k, skm[k])
      BY <1>0 DEF PlacesInv
    <3> QED
      BY <1>0, <3>1, ItemGrows DEF ItemOK
  <2>3. \A k \in Keys : \A b \in ItemsOf(k)' : ItemOK(k, wire[b].item)'
    <3>1. \A k \in Keys : \A b \in ItemsOf(k) : ItemOK(k, wire[b].item)
      BY <1>0 DEF PlacesInv
    <3> QED
      BY <1>0, <1>1, <3>1, ItemGrows DEF ItemOK
  <2> QED
    BY <2>1, <2>2, <2>3 DEF PlacesInv
<1>3. OrderInv' /\ AfterInv'
  BY <1>0, <1>1 DEF OrderInv, AfterInv
<1>4. NeedInv'
  <2>1. NeedOK(newRestart)' /\ NeedOK(src)'
    BY <1>0, ItemGrows DEF NeedInv, NeedOK
  <2>2. \A a \in Restarts' : NeedOK(wire[a].rc)'
    BY <1>0, <1>1, ItemGrows DEF NeedInv, NeedOK
  <2> QED
    BY <2>1, <2>2 DEF NeedInv
<1>5. PeerInv'
  <2>1. ASSUME spc = "changes", NEW k \in Keys
        PROVE  \E i \in newRestart.need[k]..Len(hist'[k]) : hist'[k][i] = sendToPeer[k].v
    <3>1. PICK i \in newRestart.need[k]..Len(hist[k]) : hist[k][i] = sendToPeer[k].v
      BY <1>0, <2>1 DEF PeerInv
    <3>2. newRestart.need[k] \in 1..Len(hist[k])
      BY <1>0 DEF NeedInv, NeedOK
    <3>3. i \in 1..Len(hist[k]) /\ i \in newRestart.need[k]..Len(hist'[k])
      BY <1>0, <3>1, <3>2 DEF Grows
    <3> QED
      BY <3>1, <3>3 DEF Grows
  <2>2. ASSUME NEW k \in Keys, snap[k] \in 1..Len(hist[k])
        PROVE  snap[k] \in 1..Len(hist'[k]) /\ hist'[k][snap[k]] = hist[k][snap[k]]
    BY <1>0, <2>2 DEF Grows
  <2> QED
    BY <1>0, <1>1, <2>1, <2>2 DEF PeerInv
<1>6. SeenInv'
  <2>1. SUFFICES ASSUME NEW k \in Keys
                 PROVE  /\ k \notin src.early => Seen(k, skm[k].v, src.need[k])'
                        /\ \A a \in Restarts : k \notin wire[a].rc.early =>
                             \A v \in Views(k, a) : Seen(k, v, wire[a].rc.need[k])'
    BY <1>1 DEF SeenInv
  <2>2. \A v : \A n \in 1..Len(hist[k]) :
          Seen(k, v, n) => SeenIn(hist'[k], reconnects', v, n)
    BY <1>0, SeenGrows DEF PubTypeOK
  <2>3. /\ k \notin src.early => Seen(k, skm[k].v, src.need[k])
        /\ src.need[k] \in 1..Len(hist[k])
    BY <1>0 DEF SeenInv, NeedInv, NeedOK
  <2>4. \A a \in Restarts :
          /\ wire[a].rc.need[k] \in 1..Len(hist[k])
          /\ k \notin wire[a].rc.early =>
               \A v \in Views(k, a) : Seen(k, v, wire[a].rc.need[k])
    BY <1>0 DEF SeenInv, NeedInv, NeedOK
  <2> QED
    BY <2>2, <2>3, <2>4 DEF Seen
<1> QED
  BY <1>2, <1>3, <1>4, <1>5, <1>6 DEF PubInv

\* serveConnection between its messages: only where it is, its connection and the counter it
\* has read may change
LEMMA QuietStep ==
  ASSUME PubInv, PubTypeOK',
         UNCHANGED <<hist, km, rc, frc, wire, sendToPeer, keys, skm, src>>,
         reconnects <= reconnects', NeedOK(newRestart)', PeerInv'
  PROVE  PubInv'
<1>0. /\ PubTypeOK /\ PlacesInv /\ OrderInv /\ NeedInv /\ AfterInv /\ SeenInv
      /\ reconnects \in Nat /\ reconnects' \in Nat
  BY DEF PubInv, PubTypeOK
<1>1. /\ \A k : ItemsOf(k)' = ItemsOf(k)
      /\ Restarts' = Restarts
      /\ \A k, a : Views(k, a)' = Views(k, a)
  BY SameWire
<1>2. PlacesInv' /\ OrderInv' /\ AfterInv'
  BY <1>0, <1>1 DEF PlacesInv, ItemOK, OrderInv, AfterInv
<1>3. NeedInv'
  BY <1>0, <1>1 DEF NeedInv, NeedOK
<1>4. SeenInv'
  <2>1. \A k, v, n : Seen(k, v, n) => SeenIn(hist'[k], reconnects', v, n)
    BY <1>0 DEF Seen, SeenIn
  <2>2. SUFFICES ASSUME NEW k \in Keys
                 PROVE  /\ k \notin src.early => Seen(k, skm[k].v, src.need[k])'
                        /\ \A a \in Restarts : k \notin wire[a].rc.early =>
                             \A v \in Views(k, a) : Seen(k, v, wire[a].rc.need[k])'
    BY <1>1 DEF SeenInv
  <2>3. /\ k \notin src.early => Seen(k, skm[k].v, src.need[k])
        /\ \A a \in Restarts : k \notin wire[a].rc.early =>
             \A v \in Views(k, a) : Seen(k, v, wire[a].rc.need[k])
    BY <1>0 DEF SeenInv
  <2> QED
    BY <2>1, <2>3 DEF Seen
<1> QED
  BY <1>2, <1>3, <1>4 DEF PubInv

\* determineDiffs: what is to be sent are the last values of the keys
LEMMA DiffStep ==
  ASSUME PubInv, PubTypeOK', DetermineDiffs,
         UNCHANGED <<hist, km, rc, frc, newRestart, wire, skm, src, reconnects>>,
         \/ spc = "snapshot" /\ spc' = "initial" /\ snap' = [k \in Keys |-> Len(hist[k])]
         \/ spc = "diff" /\ spc' = "changes"
  PROVE  PubInv'
<1>0. /\ PubTypeOK /\ PlacesInv /\ OrderInv /\ NeedInv /\ AfterInv /\ PeerInv /\ SeenInv
      /\ \A k \in Keys : Len(hist[k]) \in Nat
  BY Lengths DEF PubInv
<1>1. /\ \A k : ItemsOf(k)' = ItemsOf(k)
      /\ Restarts' = Restarts
      /\ \A k, a : Views(k, a)' = Views(k, a)
  BY SameWire
<1>2. \A k \in Keys : /\ k \in keys' => sendToPeer'[k] = km[k]
                      /\ k \notin keys' => sendToPeer'[k] = sendToPeer[k]
                      /\ sendToPeer'[k].v = km[k].v
  BY DEF DetermineDiffs
<1>3. PlacesInv'
  BY <1>0, <1>1, <1>2 DEF PlacesInv, ItemOK
<1>4. \A k \in Keys : /\ \A b \in ItemsOf(k) : wire[b].item.i <= Len(hist[k])
                      /\ skm[k].i <= Len(hist[k]) /\ km[k].i = Len(hist[k])
                      /\ src.need[k] <= Len(hist[k])
                      /\ \A a \in Restarts : wire[a].rc.need[k] <= Len(hist[k])
  BY <1>0 DEF PlacesInv, NeedInv, NeedOK, ItemOK
<1>5. OrderInv' /\ AfterInv'
  BY <1>0, <1>1, <1>2, <1>4 DEF OrderInv, AfterInv
<1>6. NeedInv' /\ SeenInv'
  BY <1>0, <1>1 DEF NeedInv, NeedOK, SeenInv, Seen
<1>7. PeerInv'
  <2>1. ASSUME NEW k \in Keys, k \notin keys', NEW v \in Views(k, Len(wire) + 1)
        PROVE  v = sendToPeer'[k].v \/ (reconnects > 1 /\ sendToPeer'[k].v = NoValue)
    BY <1>0, <1>2, <2>1 DEF PeerInv
  <2>2. ASSUME NEW k \in Keys
        PROVE  \E i \in newRestart.need[k]..Len(hist[k]) : hist[k][i] = sendToPeer'[k].v
    <3>1. /\ newRestart.need[k] \in 1..Len(hist[k])
          /\ hist[k][Len(hist[k])] = km[k].v
      BY <1>0 DEF PlacesInv, NeedInv, NeedOK, ItemOK
    <3>2. Len(hist[k]) \in newRestart.need[k]..Len(hist[k])
      BY <1>0, <3>1
    <3> QED
      BY <1>2, <3>1, <3>2
  <2>3. ASSUME spc' = "initial", NEW k \in Keys
        PROVE  snap'[k] \in 1..Len(hist[k]) /\ hist[k][snap'[k]] = sendToPeer'[k].v
    <3>1. snap'[k] = Len(hist[k])
      BY <2>3
    <3>2. km[k].v = hist[k][Len(hist[k])] /\ Len(hist[k]) >= 1
      BY <1>0 DEF PlacesInv, ItemOK
    <3> QED
      BY <1>0, <1>2, <3>1, <3>2
  <2> QED
    BY <1>0, <1>1, <2>1, <2>2, <2>3 DEF PeerInv
<1> QED
  BY <1>3, <1>5, <1>6, <1>7 DEF PubInv

\* serialize: an item goes behind the older ones of its key
LEMMA SendItemStep ==
  ASSUME PubInv, PubTypeOK', NEW k \in keys, NEW m \in Messages, Send(m),
         IsItem(m), m.k = k, m.item = sendToPeer[k], keys' = keys \ {k},
         spc \in {"initial", "changes"},
         UNCHANGED <<hist, km, rc, frc, spc, sendToPeer, newRestart, skm, src, snap, reconnects>>
  PROVE  PubInv'
<1>0. /\ PubTypeOK /\ PlacesInv /\ OrderInv /\ NeedInv /\ AfterInv /\ PeerInv /\ SeenInv
      /\ \A j \in Keys : Len(hist[j]) \in Nat
      /\ keys \subseteq Keys
  BY Lengths DEF PubInv, PubTypeOK
<1>n. PICK n \in Nat : n = Len(wire)
  BY <1>0, Lengths
<1>1. /\ Len(wire') = n + 1 /\ wire'[n + 1] = m /\ wire' = Append(wire, m)
      /\ \A b \in 1..n : wire'[b] = wire[b]
      /\ \A j : \A b : b \in ItemsOf(j)' <=> b \in ItemsOf(j) \/ (b = n + 1 /\ j = k)
      /\ \A a : a \in Restarts' <=> a \in Restarts
  BY <1>0, <1>n, AppendWire DEF Send, IsItem
<1>2. /\ \A j : \A b \in ItemsOf(j) : b \in 1..n /\ wire'[b] = wire[b]
      /\ \A a \in Restarts : a \in 1..n /\ wire'[a] = wire[a]
  BY <1>n, <1>1 DEF ItemsOf, Restarts
<1>3. PlacesInv'
  BY <1>0, <1>1, <1>2 DEF PlacesInv, ItemOK
<1>4. OrderInv'
  <2>1. ASSUME NEW j \in Keys, NEW b \in ItemsOf(j)', NEW c \in ItemsOf(j)', b < c
        PROVE  wire'[b].item.i <= wire'[c].item.i
    <3>1. CASE c \in ItemsOf(j)
      <4>1. b \in ItemsOf(j)
        BY <1>1, <1>2, <2>1, <3>1
      <4> QED
        BY <1>0, <1>2, <2>1, <3>1, <4>1 DEF OrderInv
    <3>2. CASE c = n + 1 /\ j = k
      <4>1. b \in ItemsOf(j)
        BY <1>1, <2>1, <3>2
      <4> QED
        BY <1>0, <1>1, <1>2, <3>2, <4>1 DEF OrderInv
    <3>3. c \in ItemsOf(j) \/ (c = n + 1 /\ j = k)
      BY <1>1, <2>1, Zenon
    <3> QED
      BY <3>1, <3>2, <3>3
  <2>2. ASSUME NEW j \in Keys, NEW b \in ItemsOf(j)'
        PROVE  skm[j].i <= wire'[b].item.i
    BY <1>0, <1>1, <1>2, <2>2 DEF OrderInv
  <2>3. ASSUME NEW j \in keys', NEW b \in ItemsOf(j)'
        PROVE  wire'[b].item.i <= sendToPeer[j].i
    BY <1>0, <1>1, <1>2, <2>3 DEF OrderInv
  <2>4. \A j \in keys' : skm[j].i <= sendToPeer[j].i
    BY <1>0 DEF OrderInv
  <2> QED
    BY <2>1, <2>2, <2>3, <2>4 DEF OrderInv
<1>5. NeedInv'
  BY <1>0, <1>1, <1>2 DEF NeedInv, NeedOK
<1>6. AfterInv'
  <2>1. ASSUME NEW j \in Keys, NEW b \in ItemsOf(j)'
        PROVE  /\ src.need[j] <= wire'[b].item.i
               /\ \A a \in Restarts' : a < b => wire'[a].rc.need[j] <= wire'[b].item.i
    <3>1. CASE b \in ItemsOf(j)
      BY <1>0, <1>1, <1>2, <3>1 DEF AfterInv
    <3>2. CASE b = n + 1 /\ j = k
      BY <1>0, <1>1, <1>2, <3>2 DEF AfterInv
    <3>3. b \in ItemsOf(j) \/ (b = n + 1 /\ j = k)
      BY <1>1, <2>1, Zenon
    <3> QED
      BY <3>1, <3>2, <3>3
  <2>2. \A j \in keys' : /\ src.need[j] <= sendToPeer[j].i
                         /\ \A a \in Restarts' : wire'[a].rc.need[j] <= sendToPeer[j].i
    BY <1>0, <1>1, <1>2 DEF AfterInv
  <2> QED
    BY <2>1, <2>2 DEF AfterInv
<1>7. PeerInv'
  <2>1. ASSUME NEW j \in Keys \ keys', NEW v \in Views(j, Len(wire) + 1)'
        PROVE  v = sendToPeer[j].v \/ (reconnects > 1 /\ sendToPeer[j].v = NoValue)
    <3>1. CASE j = k
      BY <1>0, <1>1, <2>1, <3>1, AppendViews
    <3>2. CASE j # k
      <4>1. v \in Views(j, Len(wire) + 1)
        BY <1>0, <1>1, <2>1, <3>2, AppendViews
      <4> QED
        BY <1>0, <2>1, <3>2, <4>1 DEF PeerInv
    <3> QED
      BY <3>1, <3>2
  <2>2. reconnects # 0
    BY <1>0 DEF PeerInv
  <2> QED
    BY <1>0, <2>1, <2>2 DEF PeerInv
<1>8. SeenInv'
  <2>1. \A j : \A a \in Restarts : Views(j, a)' \subseteq Views(j, a)
    <3>1. \A a \in Restarts : a \in 1..(Len(wire) + 1)
      BY <1>n, <1>2
    <3> QED
      BY <1>0, <1>1, <3>1, AppendViews
  <2> QED
    BY <1>0, <1>1, <1>2, <2>1 DEF SeenInv, Seen
<1> QED
  BY <1>3, <1>4, <1>5, <1>6, <1>7, <1>8 DEF PubInv

\* The other messages: complete, and a restart that what was sent before it is good enough for
LEMMA SendOtherStep ==
  ASSUME PubInv, PubTypeOK', NEW m \in Messages, Send(m), ~IsItem(m), keys = {},
         spc # "none", spc' \in {"check", "note", "wait"},
         m.t = "restarted" => NeedOK(m.rc),
         m.t = "restarted" => \A k \in Keys \ m.rc.early :
           SeenIn(hist[k], 0, sendToPeer[k].v, m.rc.need[k]),
         UNCHANGED <<hist, km, rc, frc, sendToPeer, keys, skm, src, snap, reconnects>>,
         spc' = "check" => spc = "initial", NeedOK(newRestart)'
  PROVE  PubInv'
<1>0. /\ PubTypeOK /\ PlacesInv /\ OrderInv /\ NeedInv /\ AfterInv /\ PeerInv /\ SeenInv
      /\ \A j \in Keys : Len(hist[j]) \in Nat
  BY Lengths DEF PubInv
<1>n. PICK n \in Nat : n = Len(wire)
  BY <1>0, Lengths
<1>1. /\ Len(wire') = n + 1 /\ wire'[n + 1] = m /\ wire' = Append(wire, m)
      /\ \A b \in 1..n : wire'[b] = wire[b]
      /\ \A j : ItemsOf(j)' = ItemsOf(j)
      /\ \A a : a \in Restarts' <=> a \in Restarts \/ (a = n + 1 /\ m.t = "restarted")
  <2>1. wire' = Append(wire, m)
    BY DEF Send
  <2>2. \A j : \A b : b \in ItemsOf(j)' <=> b \in ItemsOf(j)
    BY <1>0, <2>1, AppendWire
  <2>3. ASSUME NEW j PROVE ItemsOf(j)' = ItemsOf(j)
    <3>1. ItemsOf(j)' \subseteq ItemsOf(j) /\ ItemsOf(j) \subseteq ItemsOf(j)'
      BY <2>2
    <3> QED
      BY <3>1
  <2> QED
    BY <1>0, <1>n, <2>1, <2>3, AppendWire
<1>2. /\ \A j : \A b \in ItemsOf(j) : b \in 1..n /\ wire'[b] = wire[b]
      /\ \A a \in Restarts : a \in 1..n /\ wire'[a] = wire[a]
  BY <1>n, <1>1 DEF ItemsOf, Restarts
<1>3. PlacesInv'
  BY <1>0, <1>1, <1>2 DEF PlacesInv, ItemOK
<1>4. OrderInv'
  BY <1>0, <1>1, <1>2 DEF OrderInv
<1>5. NeedInv'
  BY <1>0, <1>1, <1>2 DEF NeedInv, NeedOK
<1>6. AfterInv'
  BY <1>0, <1>1, <1>2 DEF AfterInv
<1>7. \A k \in Keys : \A v \in Views(k, n + 1) :
        v = sendToPeer[k].v \/ (reconnects > 1 /\ sendToPeer[k].v = NoValue)
  BY <1>0, <1>n DEF PeerInv
<1>8. PeerInv'
  <2>1. ASSUME NEW j \in Keys, NEW v \in Views(j, Len(wire) + 1)'
        PROVE  v = sendToPeer[j].v \/ (reconnects > 1 /\ sendToPeer[j].v = NoValue)
    <3>1. v \in Views(j, n + 1)
      BY <1>0, <1>n, <1>1, <2>1, AppendViews
    <3> QED
      BY <1>7, <3>1
  <2>2. reconnects # 0
    BY <1>0 DEF PeerInv
  <2> QED
    BY <1>0, <2>1, <2>2 DEF PeerInv
<1>9. SeenInv'
  <2>1. \A j : \A a \in 1..(n + 1) : Views(j, a)' \subseteq Views(j, a)
    BY <1>0, <1>n, <1>1, AppendViews
  <2>2. SUFFICES ASSUME NEW k \in Keys
                 PROVE  /\ k \notin src.early => Seen(k, skm[k].v, src.need[k])
                        /\ \A a \in Restarts' : k \notin wire'[a].rc.early =>
                             \A v \in Views(k, a)' : Seen(k, v, wire'[a].rc.need[k])
    BY DEF SeenInv, Seen
  <2>3. /\ k \notin src.early => Seen(k, skm[k].v, src.need[k])
        /\ \A a \in Restarts : k \notin wire[a].rc.early =>
             \A v \in Views(k, a) : Seen(k, v, wire[a].rc.need[k])
    BY <1>0 DEF SeenInv
  <2>4. ASSUME NEW a \in Restarts', k \notin wire'[a].rc.early, NEW v \in Views(k, a)'
        PROVE  Seen(k, v, wire'[a].rc.need[k])
    <3>1. CASE a \in Restarts
      BY <1>2, <2>1, <2>3, <2>4, <3>1
    <3>2. CASE a = n + 1 /\ m.t = "restarted"
      <4>1. v \in Views(k, n + 1)
        BY <2>1, <2>4, <3>2
      <4>2. SeenIn(hist[k], 0, sendToPeer[k].v, m.rc.need[k])
        BY <1>1, <2>4, <3>2
      <4>3. v = sendToPeer[k].v \/ (reconnects > 1 /\ sendToPeer[k].v = NoValue)
        BY <1>7, <4>1
      <4>4. SeenIn(hist[k], reconnects, v, m.rc.need[k])
        BY <4>2, <4>3 DEF SeenIn
      <4> QED
        BY <1>1, <3>2, <4>4 DEF Seen
    <3> QED
      BY <1>1, <2>4, <3>1, <3>2
  <2> QED
    BY <2>3, <2>4
<1> QED
  BY <1>3, <1>4, <1>5, <1>6, <1>8, <1>9 DEF PubInv

\* A connection ends, with the process of the publisher or without it
LEMMA CloseStep ==
  ASSUME PubInv, PubTypeOK', closeConnection, UNCHANGED <<hist, km, rc>>
  PROVE  PubInv'
<1>0. /\ PubTypeOK /\ PlacesInv /\ OrderInv /\ NeedInv /\ AfterInv /\ PeerInv /\ SeenInv
      /\ \A j \in Keys : Len(hist[j]) \in Nat
  BY Lengths DEF PubInv
<1>1. PICK n \in 0..Len(wire) : wire' = SubSeq(wire, 1, n)
  BY DEF closeConnection
<1>2. /\ UNCHANGED <<frc, skm, src, reconnects>> /\ keys' = {} /\ spc' = "none"
      /\ newRestart' = Zero /\ sendToPeer' = [k \in Keys |-> NoItem]
  BY DEF closeConnection, fileVars, subVars, raceVars
<1>3. /\ \A b \in 1..n : wire'[b] = wire[b]
      /\ \A k : \A b : b \in ItemsOf(k)' <=> b \in ItemsOf(k) /\ b <= n
      /\ \A a : a \in Restarts' <=> a \in Restarts /\ a <= n
      /\ \A k : \A a \in 1..(n + 1) : Views(k, a)' \subseteq Views(k, a)
  BY <1>0, <1>1, <1>2, PrefixWire
<1>4. /\ \A k : \A b \in ItemsOf(k)' : b \in ItemsOf(k) /\ wire'[b] = wire[b]
      /\ \A a \in Restarts' : a \in Restarts /\ a \in 1..(n + 1) /\ wire'[a] = wire[a]
  <2>1. n \in Nat
    BY <1>0, Lengths
  <2>2. ASSUME NEW k, NEW b \in ItemsOf(k)'
        PROVE  b \in ItemsOf(k) /\ b \in 1..n
    <3>1. b \in ItemsOf(k) /\ b <= n
      BY <1>3, Zenon
    <3> QED
      BY <2>1, <3>1 DEF ItemsOf
  <2>3. \A a \in Restarts' : a \in Restarts /\ a \in 1..n /\ a \in 1..(n + 1)
    BY <1>3, <2>1 DEF Restarts
  <2> QED
    BY <1>3, <2>2, <2>3
<1>5. PlacesInv'
  BY <1>0, <1>2, <1>4 DEF PlacesInv, ItemOK, NoItem
<1>6. OrderInv' /\ AfterInv'
  BY <1>0, <1>2, <1>4 DEF OrderInv, AfterInv
<1>7. NeedInv'
  BY <1>0, <1>2, <1>4 DEF NeedInv, NeedOK, Zero, PlacesInv
<1>8. PeerInv'
  <2>1. reconnects = 0 => wire' = <<>>
    <3>1. ASSUME reconnects = 0 PROVE wire' = <<>>
      <4>1. wire = <<>> /\ n = 0
        BY <1>0, <1>1, <3>1, EmptySeq DEF PeerInv
      <4> QED
        BY <1>1, <4>1
    <3> QED
      BY <3>1
  <2> QED
    BY <1>0, <1>2, <2>1 DEF PeerInv, NoItem
<1>9. SeenInv'
  BY <1>0, <1>2, <1>3, <1>4 DEF SeenInv, Seen
<1> QED
  BY <1>5, <1>6, <1>7, <1>8, <1>9 DEF PubInv

\* The copy of a key takes the value of an item that is handled, and its place unless the
\* value is the same
LEMMA HandledItem ==
  ASSUME PubInv, ProcessChange, NEW k \in Keys
  PROVE  /\ 1 \in ItemsOf(k) =>
              /\ skm'[k].v = wire[1].item.v
              /\ skm'[k] \in {skm[k], wire[1].item}
         /\ 1 \notin ItemsOf(k) => skm'[k] = skm[k]
<1>0. PubTypeOK
  BY DEF PubInv
<1>1. wire[1] \in Messages /\ handle(wire[1]) /\ 1 \in 1..Len(wire)
  BY <1>0, TailWire DEF ProcessChange
<1>2. skm \in [Keys -> Item]
  BY <1>0 DEF PubTypeOK
<1>3. CASE IsItem(wire[1])
  <2>1. handleItem(wire[1]) /\ wire[1].k \in Keys
    BY <1>1, <1>3, MessageFields DEF handle, IsItem
  <2> QED
    BY <1>1, <1>2, <1>3, <2>1 DEF handleItem, ItemsOf
<1>4. CASE ~IsItem(wire[1])
  BY <1>1, <1>4 DEF handle, IsItem, handleRestart, handleSynchronized, ItemsOf
<1> QED
  BY <1>3, <1>4

\* The subscriber's counter is the one it had or the one of a restart that is handled
LEMMA HandledRestart ==
  ASSUME PubInv, ProcessChange
  PROVE  src' = src \/ (1 \in Restarts /\ src' = wire[1].rc /\ skm' = skm)
<1>1. wire[1] \in Messages /\ handle(wire[1]) /\ 1 \in 1..Len(wire)
  BY TailWire DEF ProcessChange, PubInv
<1> QED
  BY <1>1 DEF handle, handleItem, handleRestart, handleSynchronized, Restarts

\* ProcessChange: the subscriber handles the first message
LEMMA ProcessStep ==
  ASSUME PubInv, PubTypeOK', ProcessChange
  PROVE  PubInv'
<1>0. /\ PubTypeOK /\ PlacesInv /\ OrderInv /\ NeedInv /\ AfterInv /\ PeerInv /\ SeenInv
      /\ \A k \in Keys : Len(hist[k]) \in Nat
      /\ wire # <<>> /\ wire' = Tail(wire)
  BY Lengths DEF PubInv, ProcessChange
<1>1. UNCHANGED <<hist, km, rc, frc, spc, sendToPeer, keys, newRestart, reconnects, snap>>
  BY DEF ProcessChange, pubVars, fileVars, srvVars, raceVars
<1>2. /\ 1 \in 1..Len(wire) /\ Len(wire) \in Nat
      /\ Len(wire') = Len(wire) - 1 /\ Len(wire') \in Nat
      /\ \A b \in 1..Len(wire') : wire'[b] = wire[b + 1]
      /\ \A a \in Restarts' : a + 1 \in Restarts /\ a \in 1..Len(wire')
  BY <1>0, TailWire, Lengths
<1>3. \A k : \A b \in ItemsOf(k)' :
        b + 1 \in ItemsOf(k) /\ b \in Nat /\ b \in 1..Len(wire') /\ wire'[b] = wire[b + 1]
  <2>1. \A k : \A b \in ItemsOf(k)' : b + 1 \in ItemsOf(k) /\ b \in Nat
    BY <1>0, TailWire
  <2>2. \A k : \A b \in ItemsOf(k)' : b \in 1..Len(wire')
    BY DEF ItemsOf
  <2> QED
    BY <1>2, <2>1, <2>2
<1>4. \A a \in Restarts' : wire'[a] = wire[a + 1]
  BY <1>2
<1>5. \A k \in Keys :
        /\ 1 \in ItemsOf(k) => skm'[k].v = wire[1].item.v /\ skm'[k] \in {skm[k], wire[1].item}
        /\ 1 \notin ItemsOf(k) => skm'[k] = skm[k]
  BY HandledItem
<1>6. src' = src \/ (1 \in Restarts /\ src' = wire[1].rc /\ skm' = skm)
  BY HandledRestart
<1>7. PlacesInv'
  <2>1. \A k \in Keys : ItemOK(k, skm'[k])
    BY <1>0, <1>5 DEF PlacesInv
  <2>2. \A k \in Keys : \A b \in ItemsOf(k)' : ItemOK(k, wire'[b].item)
    BY <1>0, <1>3 DEF PlacesInv
  <2> QED
    BY <1>0, <1>1, <2>1, <2>2 DEF PlacesInv, ItemOK
<1>8. OrderInv'
  <2>1. ASSUME NEW k \in Keys, NEW b \in ItemsOf(k)', NEW c \in ItemsOf(k)', b < c
        PROVE  wire'[b].item.i <= wire'[c].item.i
    <3>1. b + 1 \in ItemsOf(k) /\ c + 1 \in ItemsOf(k) /\ b + 1 < c + 1
      BY <1>3, <2>1
    <3>2. wire[b + 1].item.i <= wire[c + 1].item.i
      BY <1>0, <3>1 DEF OrderInv
    <3> QED
      BY <1>3, <3>2
  <2>2. ASSUME NEW k \in Keys, NEW b \in ItemsOf(k)'
        PROVE  skm'[k].i <= wire'[b].item.i
    <3>1. b + 1 \in ItemsOf(k) /\ wire'[b] = wire[b + 1] /\ 1 < b + 1
      BY <1>3
    <3>2. skm[k].i <= wire[b + 1].item.i
      BY <1>0, <3>1 DEF OrderInv
    <3>3. 1 \in ItemsOf(k) => wire[1].item.i <= wire[b + 1].item.i
      BY <1>0, <3>1 DEF OrderInv
    <3> QED
      BY <1>5, <3>1, <3>2, <3>3
  <2>3. ASSUME NEW k \in Keys, k \in keys
        PROVE  /\ \A b \in ItemsOf(k)' : wire'[b].item.i <= sendToPeer[k].i
               /\ skm'[k].i <= sendToPeer[k].i
    BY <1>0, <1>3, <1>5, <2>3 DEF OrderInv
  <2> QED
    BY <1>1, <2>1, <2>2, <2>3 DEF OrderInv
<1>9. NeedInv'
  <2>1. \A a \in Restarts' : NeedOK(wire'[a].rc)
    BY <1>0, <1>2, <1>4 DEF NeedInv
  <2>2. NeedOK(src')
    BY <1>0, <1>6 DEF NeedInv
  <2> QED
    BY <1>0, <1>1, <2>1, <2>2 DEF NeedInv, NeedOK
<1>10. AfterInv'
  <2>1. ASSUME NEW k \in Keys, NEW b \in ItemsOf(k)'
        PROVE  /\ src'.need[k] <= wire'[b].item.i
               /\ \A a \in Restarts' : a < b => wire'[a].rc.need[k] <= wire'[b].item.i
    <3>1. b + 1 \in ItemsOf(k) /\ wire'[b] = wire[b + 1] /\ 1 < b + 1
      BY <1>3
    <3>2. src'.need[k] <= wire[b + 1].item.i
      BY <1>0, <1>6, <3>1 DEF AfterInv
    <3>3. ASSUME NEW a \in Restarts', a < b
          PROVE  wire'[a].rc.need[k] <= wire[b + 1].item.i
      <4>1. a + 1 \in Restarts /\ a + 1 < b + 1 /\ wire'[a] = wire[a + 1]
        BY <1>2, <1>3, <1>4, <3>3
      <4> QED
        BY <1>0, <3>1, <4>1 DEF AfterInv
    <3> QED
      BY <3>1, <3>2, <3>3
  <2>2. ASSUME NEW k \in Keys, k \in keys
        PROVE  /\ src'.need[k] <= sendToPeer[k].i
               /\ \A a \in Restarts' : wire'[a].rc.need[k] <= sendToPeer[k].i
    BY <1>0, <1>2, <1>4, <1>6, <2>2 DEF AfterInv
  <2> QED
    BY <1>1, <2>1, <2>2 DEF AfterInv
<1>11. \A k \in Keys : \A a \in 1..Len(wire) : Views(k, a)' \subseteq Views(k, a + 1)
  BY <1>0, <1>5, TailViews
<1>12. PeerInv'
  <2>1. reconnects # 0
    BY <1>0 DEF PeerInv
  <2>2. ASSUME NEW k \in Keys, NEW v \in Views(k, Len(wire) + 1)'
        PROVE  v \in Views(k, Len(wire) + 1)
    <3>1. PICK n \in Nat : n = Len(wire) /\ n \in 1..Len(wire)
      BY <1>2
    <3>2. Views(k, Len(wire) + 1)' = Views(k, n)'
      <4>1. Len(wire') + 1 = n
        BY <1>2, <3>1
      <4> QED
        BY <4>1 DEF Views
    <3>3. v \in Views(k, n + 1)
      BY <1>11, <2>2, <3>1, <3>2
    <3> QED
      BY <3>1, <3>3
  <2> QED
    BY <1>0, <1>1, <2>1, <2>2 DEF PeerInv
<1>13. SeenInv'
  <2>1. SUFFICES ASSUME NEW k \in Keys
                 PROVE  /\ k \notin src'.early => Seen(k, skm'[k].v, src'.need[k])
                        /\ \A a \in Restarts' : k \notin wire'[a].rc.early =>
                             \A v \in Views(k, a)' : Seen(k, v, wire'[a].rc.need[k])
    BY <1>1 DEF SeenInv, Seen
  <2>2. /\ k \notin src.early => Seen(k, skm[k].v, src.need[k])
        /\ \A a \in Restarts : k \notin wire[a].rc.early =>
             \A v \in Views(k, a) : Seen(k, v, wire[a].rc.need[k])
    BY <1>0 DEF SeenInv
  <2>3. ASSUME NEW a \in Restarts', k \notin wire'[a].rc.early, NEW v \in Views(k, a)'
        PROVE  Seen(k, v, wire'[a].rc.need[k])
    <3>1. a + 1 \in Restarts /\ a \in 1..Len(wire) /\ wire'[a] = wire[a + 1]
      BY <1>2, <1>4
    <3>2. v \in Views(k, a + 1)
      BY <1>11, <2>3, <3>1
    <3> QED
      BY <2>2, <2>3, <3>1, <3>2
  <2>4. ASSUME k \notin src'.early
        PROVE  Seen(k, skm'[k].v, src'.need[k])
    <3>1. CASE src' = src /\ 1 \notin ItemsOf(k)
      BY <1>5, <2>2, <2>4, <3>1
    <3>2. CASE src' = src /\ 1 \in ItemsOf(k)
      <4>1. /\ wire[1].item.i \in 1..Len(hist[k])
            /\ hist[k][wire[1].item.i] = skm'[k].v
            /\ src.need[k] <= wire[1].item.i /\ src.need[k] \in 1..Len(hist[k])
        BY <1>0, <1>5, <3>2 DEF PlacesInv, ItemOK, AfterInv, NeedInv, NeedOK
      <4>2. wire[1].item.i \in src.need[k]..Len(hist[k])
        BY <1>0, <4>1
      <4> QED
        BY <3>2, <4>1, <4>2 DEF Seen, SeenIn
    <3>3. CASE 1 \in Restarts /\ src' = wire[1].rc /\ skm' = skm
      <4>1. \A c \in ItemsOf(k) : ~(c < 1)
        BY <1>2 DEF ItemsOf
      <4>2. skm[k].v \in Views(k, 1)
        BY <4>1 DEF Views
      <4> QED
        BY <2>2, <2>4, <3>3, <4>2
    <3> QED
      BY <1>6, <3>1, <3>2, <3>3
  <2> QED
    BY <2>3, <2>4
<1> QED
  BY <1>7, <1>8, <1>9, <1>10, <1>12, <1>13 DEF PubInv

\* The first states
LEMMA InitInv == Init => PubInv
<1> SUFFICES ASSUME Init PROVE PubInv
  OBVIOUS
<1>1. /\ wire = <<>> /\ wire \in Seq(Messages) /\ Len(wire) = 0
      /\ <<NoValue>> \in Seq(Content) /\ Len(<<NoValue>>) = 1 /\ <<NoValue>>[1] = NoValue
  BY DEF Init, Content
<1>2. PubTypeOK
  <2>1. hist \in [Keys -> Seq(Content)] /\ Len(wire) <= MaxWire
    BY <1>1 DEF Init
  <2>2. /\ km \in [Keys -> Item] /\ file \in [Keys -> Item] /\ skm \in [Keys -> Item]
        /\ sendToPeer \in [Keys -> Item]
    BY ConstantTypes DEF Init
  <2>5. snap \in [Keys -> Nat]
    BY DEF Init
  <2>3. /\ sentRestart \in Nat /\ reconnects \in Nat
        /\ ops \in 0..MaxOps /\ faults \in 0..MaxFaults
    BY DEF Init
  <2>4. /\ up \in BOOLEAN /\ synchronized \in BOOLEAN /\ missed \in BOOLEAN
        /\ rc \in Counter /\ frc \in Counter /\ newRestart \in Counter /\ src \in Counter
        /\ op \in [step : {"none", "notify", "write"}, file : Keys \cup {Restarted, NoValue}]
        /\ updater \in {"absent", "empty", "full"} /\ keys \subseteq Keys /\ spc = "none"
    BY ConstantTypes, Zenon DEF Init
  <2> QED
    BY <1>1, <2>1, <2>2, <2>3, <2>4, <2>5 DEF PubTypeOK
<1>3. /\ \A k : ItemsOf(k) = {}
      /\ Restarts = {}
  BY <1>1 DEF ItemsOf, Restarts
<1>4. PlacesInv
  BY <1>1, <1>3 DEF Init, PlacesInv, ItemOK, NoItem
<1>5. OrderInv /\ AfterInv
  BY <1>3 DEF Init, OrderInv, AfterInv
<1>6. NeedInv
  BY <1>1, <1>3 DEF Init, NeedInv, NeedOK, Zero
<1>7. PeerInv
  BY <1>1 DEF Init, PeerInv, NoItem
<1>8. SeenInv
  <2>1. \A k \in Keys : SeenIn(hist[k], 0, NoValue, 1)
    <3>1. \A k \in Keys : hist[k] = <<NoValue>>
      BY DEF Init
    <3>2. 1 \in 1..Len(<<NoValue>>) /\ <<NoValue>>[1] = NoValue
      BY <1>1
    <3> QED
      BY <3>1, <3>2 DEF SeenIn
  <2> QED
    BY <1>3, <2>1 DEF Init, SeenInv, Seen, Zero, NoItem
<1> QED
  BY <1>2, <1>4, <1>5, <1>6, <1>7, <1>8 DEF PubInv

\* Every step keeps the invariant
LEMMA InvStep ==
  ASSUME PubInv, [Next]_vars
  PROVE  PubInv'
<1> USE DEF pubVars, fileVars, srvVars, subVars, raceVars, At, serveUnchanged
<1>0. /\ PubTypeOK /\ PubTypeOK' /\ PlacesInv /\ NeedInv /\ PeerInv
      /\ \A k \in Keys : Len(hist[k]) \in Nat
  BY TypeStep, Lengths DEF PubInv
<1>g. UNCHANGED hist => \A k \in Keys : Grows(k)
  BY <1>0 DEF Grows
<1>1. ASSUME NEW k \in Keys, NEW v \in Content, NEW f, Call(f), Store(k, v)
      PROVE  PubInv'
  <2>1. hist'[k] = Append(hist[k], v) /\ km'[k] = [v |-> v, i |-> Len(hist[k]) + 1]
    BY <1>0, <1>1 DEF Store, PubTypeOK
  <2>2. \A j \in Keys \ {k} : hist'[j] = hist[j] /\ km'[j] = km[j]
    BY <1>0, <1>1 DEF Store, PubTypeOK
  <2>3. Grows(k) /\ Len(hist'[k]) = Len(hist[k]) + 1 /\ hist'[k][Len(hist[k]) + 1] = v
    BY <1>0, <2>1, AppendGrows
  <2>4. \A j \in Keys : Grows(j)
    BY <1>0, <2>2, <2>3 DEF Grows
  <2>5. \A j \in Keys : ItemOK(j, km[j])' /\ km'[j].i = Len(hist'[j])
    <3>1. ItemOK(k, km[k])' /\ km'[k].i = Len(hist'[k])
      BY <1>0, <2>1, <2>3 DEF ItemOK
    <3>2. \A j \in Keys \ {k} : ItemOK(j, km[j])' /\ km'[j].i = Len(hist'[j])
      BY <1>0, <2>2 DEF PlacesInv, ItemOK
    <3> QED
      BY <3>1, <3>2
  <2>6. NeedOK(rc)' /\ NeedOK(frc)'
    BY <1>0, <1>1, <2>4, ItemGrows DEF NeedInv, NeedOK, Store, Call
  <2> QED
    BY <1>0, <1>1, <2>4, <2>5, <2>6, PublisherStep DEF Call, Store
<1>2. ASSUME NEW k \in Keys, NEW v \in Values, Publish(k, v)
      PROVE  PubInv'
  BY <1>1, <1>2 DEF Publish, Content
<1>3. ASSUME NEW k \in Keys, Unpublish(k)
      PROVE  PubInv'
  BY <1>1, <1>3 DEF Unpublish, Content
<1>4. ASSUME NEW n, restartImpl(n)
      PROVE  PubInv'
  <2>1. NeedOK(rc)' /\ NeedOK(frc)'
    BY <1>0, <1>4 DEF restartImpl, Call, NeedOK, NeedInv, PlacesInv
  <2>2. \A j \in Keys : ItemOK(j, km[j])' /\ km'[j].i = Len(hist'[j])
    BY <1>0, <1>4 DEF restartImpl, ItemOK, PlacesInv
  <2> QED
    BY <1>0, <1>g, <1>4, <2>1, <2>2, PublisherStep DEF restartImpl, Call
<1>5. CASE updatersNotify
  <2>1. NeedOK(rc)' /\ NeedOK(frc)'
    BY <1>0, <1>5 DEF updatersNotify, NeedOK, NeedInv
  <2>2. \A j \in Keys : ItemOK(j, km[j])' /\ km'[j].i = Len(hist'[j])
    BY <1>0, <1>5 DEF updatersNotify, ItemOK, PlacesInv
  <2> QED
    BY <1>0, <1>g, <1>5, <2>1, <2>2, PublisherStep DEF updatersNotify
<1>6. CASE driverWrite
  <2>1. NeedOK(rc)' /\ NeedOK(frc)'
    BY <1>0, <1>6 DEF driverWrite, NeedOK, NeedInv
  <2>2. \A j \in Keys : ItemOK(j, km[j])' /\ km'[j].i = Len(hist'[j])
    BY <1>0, <1>6 DEF driverWrite, ItemOK, PlacesInv
  <2> QED
    BY <1>0, <1>g, <1>6, <2>1, <2>2, PublisherStep DEF driverWrite
<1>7. CASE breakConnection \/ endProcess
  BY <1>0, <1>7, CloseStep DEF breakConnection, endProcess
<1>8. CASE NewPublication
  <2>1. ASSUME NEW j \in Keys
        PROVE  Grows(j) /\ ItemOK(j, km[j])' /\ km'[j].i = Len(hist'[j])
    <3>1. CASE file[j].v = km[j].v
      <4>1. hist'[j] = hist[j] /\ km'[j] = km[j]
        BY <1>8, <3>1 DEF NewPublication
      <4> QED
        BY <1>0, <4>1 DEF Grows, PlacesInv, ItemOK
    <3>2. CASE file[j].v # km[j].v
      <4>1. /\ hist'[j] = Append(hist[j], file[j].v) /\ file[j].v \in Content
            /\ km'[j] = [v |-> file[j].v, i |-> Len(hist[j]) + 1]
        BY <1>0, <1>8, <3>2 DEF NewPublication, PubTypeOK, Item
      <4>2. /\ Grows(j) /\ Len(hist'[j]) = Len(hist[j]) + 1
            /\ hist'[j][Len(hist[j]) + 1] = file[j].v
        BY <1>0, <4>1, AppendGrows
      <4> QED
        BY <1>0, <4>1, <4>2 DEF ItemOK
    <3> QED
      BY <3>1, <3>2
  <2>2. NeedOK(rc)' /\ NeedOK(frc)'
    BY <1>0, <1>8, <2>1, ItemGrows DEF NeedInv, NeedOK, NewPublication
  <2> QED
    BY <1>0, <1>8, <2>1, <2>2, PublisherStep DEF NewPublication
<1>9. CASE connect
  <2>1. PeerInv'
    <3>1. spc' = "hello" /\ reconnects' = reconnects + 1 /\ reconnects \in Nat
      BY <1>0, <1>9 DEF connect, PubTypeOK
    <3>2. \A k \in Keys : \A v \in Views(k, Len(wire) + 1) : reconnects = 0 => v = NoValue
      <4>1. reconnects = 0 => Len(wire) = 0
        BY <1>0 DEF PeerInv
      <4>2. reconnects = 0 => \A k \in Keys : ItemsOf(k) = {} /\ skm[k].v = NoValue
        BY <1>0, <4>1 DEF PeerInv, ItemsOf
      <4> QED
        BY <4>2 DEF Views
    <3>3. \A k, a : Views(k, a)' = Views(k, a)
      BY <1>9, SameWire DEF connect
    <3> QED
      BY <1>0, <1>9, <3>1, <3>2, <3>3 DEF connect, PeerInv
  <2>2. NeedOK(newRestart)' /\ reconnects <= reconnects'
    BY <1>0, <1>9 DEF connect, NeedInv, NeedOK, PubTypeOK
  <2> QED
    BY <1>0, <1>9, <2>1, <2>2, QuietStep DEF connect
<1>10. CASE addUpdater \/ checkRestart \/ noteRestart \/ waitNotify \/ grabRestart
  <2> USE DEF addUpdater, checkRestart, noteRestart, waitNotify, grabRestart
  <2>1. NeedOK(newRestart)'
    BY <1>0, <1>10 DEF NeedInv, NeedOK
  <2>2. /\ UNCHANGED <<hist, km, rc, frc, wire, sendToPeer, keys, skm, src, snap, reconnects>>
        /\ spc \notin {"none", "initial", "changes"}
        /\ spc' \in {"snapshot", "send", "wait", "grab", "diff"}
        /\ spc' = "snapshot" => spc = "hello"
        /\ spc' = "send" => spc = "check"
    BY <1>10
  <2>3. \A k, a : Views(k, a)' = Views(k, a)
    BY <2>2, SameWire
  <2>4. PeerInv'
    BY <1>0, <2>2, <2>3 DEF PeerInv
  <2>5. reconnects <= reconnects'
    BY <1>0, <2>2 DEF PubTypeOK
  <2> QED
    BY <1>0, <2>1, <2>2, <2>4, <2>5, QuietStep
<1>11. CASE determineDiffs
  BY <1>0, <1>11, DiffStep DEF determineDiffs
<1>12. CASE serialize
  <2>1. PICK k \in keys : \E t \in {"update", "delete"} :
          Send([t |-> t, k |-> k, item |-> sendToPeer[k]]) /\ keys' = keys \ {k}
    BY <1>12 DEF serialize
  <2>2. PICK t \in {"update", "delete"} : Send([t |-> t, k |-> k, item |-> sendToPeer[k]])
    BY <2>1
  <2> DEFINE m == [t |-> t, k |-> k, item |-> sendToPeer[k]]
  <2>3. m \in Messages /\ IsItem(m) /\ m.k = k /\ m.item = sendToPeer[k]
    BY <1>0, MessageTypes DEF PubTypeOK, IsItem
  <2> HIDE DEF m
  <2>4. Send(m)
    BY <2>2 DEF m
  <2> QED
    BY <1>0, <1>12, <2>1, <2>3, <2>4, SendItemStep DEF serialize
<1>13. CASE sendComplete
  <2> DEFINE m == [t |-> "complete"]
  <2>1. m \in Messages /\ ~IsItem(m) /\ m.t # "restarted"
    BY MessageTypes DEF IsItem
  <2>2. NeedOK(newRestart)'
    BY <1>0, <1>13 DEF sendComplete, NeedInv, NeedOK
  <2>3. Send(m)
    BY <1>13 DEF sendComplete
  <2> HIDE DEF m
  <2> QED
    BY <1>0, <1>13, <2>1, <2>2, <2>3, SendOtherStep DEF sendComplete
<1>14. CASE sendRestarted
  <2> DEFINE c == [rc EXCEPT !.early = tooEarly]
             m == [t |-> "restarted", rc |-> c]
  <2>0. c \in Counter /\ c.need = rc.need /\ c.early = tooEarly
    BY <1>0 DEF Counter, PubTypeOK, tooEarly
  <2> HIDE DEF c
  <2>1. m \in Messages /\ ~IsItem(m) /\ m.rc = c /\ Send(m)
    BY <1>14, <2>0, MessageTypes DEF IsItem, sendRestarted, c
  <2> HIDE DEF m
  <2>2. NeedOK(newRestart)' /\ NeedOK(m.rc)
    BY <1>0, <1>14, <2>0, <2>1 DEF sendRestarted, NeedInv, NeedOK
  <2>3. ASSUME NEW k \in Keys, k \notin m.rc.early
        PROVE  SeenIn(hist[k], 0, sendToPeer[k].v, m.rc.need[k])
    <3>1. \E i \in rc.need[k]..Len(hist[k]) : hist[k][i] = sendToPeer[k].v
      <4>1. CASE ~(snap[k] < rc.need[k])
        <5>1. snap[k] \in 1..Len(hist[k]) /\ hist[k][snap[k]] = sendToPeer[k].v
          BY <1>0, <1>14 DEF sendRestarted, PeerInv
        <5>2. rc.need[k] \in 1..Len(hist[k])
          BY <1>0 DEF NeedInv, NeedOK
        <5>3. snap[k] \in rc.need[k]..Len(hist[k])
          BY <1>0, <4>1, <5>1, <5>2
        <5> QED
          BY <5>1, <5>3
      <4>2. CASE snap[k] < rc.need[k]
        BY <2>0, <2>1, <2>3, <4>2 DEF tooEarly
      <4> QED
        BY <4>1, <4>2
    <3> QED
      BY <2>0, <2>1, <3>1 DEF SeenIn
  <2>4. keys = {} /\ spc # "none" /\ spc' = "note"
    BY <1>0, <1>14 DEF sendRestarted, PeerInv
  <2> QED
    BY <1>0, <1>14, <2>1, <2>2, <2>3, <2>4, SendOtherStep DEF sendRestarted
<1>15. CASE sentChanges
  <2>1. CASE newRestart.n = sentRestart
    <3>1. PeerInv'
      <4>1. \A k, a : Views(k, a)' = Views(k, a)
        BY <1>15, <2>1, SameWire DEF sentChanges
      <4> QED
        BY <1>0, <1>15, <2>1, <4>1 DEF sentChanges, PeerInv
    <3>2. NeedOK(newRestart)' /\ reconnects <= reconnects'
      BY <1>0, <1>15 DEF sentChanges, NeedInv, NeedOK, PubTypeOK
    <3> QED
      BY <1>0, <1>15, <2>1, <3>1, <3>2, QuietStep DEF sentChanges
  <2>2. CASE newRestart.n # sentRestart
    <3> DEFINE m == [t |-> "restarted", rc |-> newRestart]
    <3>1. m \in Messages /\ ~IsItem(m) /\ m.rc = newRestart /\ Send(m)
      BY <1>0, <1>15, <2>2, MessageTypes DEF IsItem, sentChanges, PubTypeOK
    <3> HIDE DEF m
    <3>2. NeedOK(newRestart)' /\ NeedOK(m.rc)
      BY <1>0, <1>15, <3>1 DEF sentChanges, NeedInv, NeedOK
    <3>3. \A k \in Keys : SeenIn(hist[k], 0, sendToPeer[k].v, m.rc.need[k])
      BY <1>0, <1>15, <3>1 DEF sentChanges, PeerInv, SeenIn
    <3> QED
      BY <1>0, <1>15, <3>1, <3>2, <3>3, SendOtherStep DEF sentChanges
  <2> QED
    BY <2>1, <2>2
<1>16. CASE ProcessChange
  BY <1>0, <1>16, ProcessStep
<1>17. CASE UNCHANGED vars
  <2>1. NeedOK(rc)' /\ NeedOK(frc)'
    BY <1>0, <1>17 DEF vars, NeedOK, NeedInv
  <2>2. \A j \in Keys : ItemOK(j, km[j])' /\ km'[j].i = Len(hist'[j])
    BY <1>0, <1>17 DEF vars, ItemOK, PlacesInv
  <2> QED
    BY <1>0, <1>g, <1>17, <2>1, <2>2, PublisherStep DEF vars
<1> QED
  BY <1>2, <1>3, <1>4, <1>5, <1>6, <1>7, <1>8, <1>9, <1>10, <1>11, <1>12, <1>13, <1>14,
     <1>15, <1>16, <1>17 DEF Next, Calls, SignalRestarted, ClearRestarted, Serve

-----------------------------------------------------------------------------
(* Theorems *)

\* The invariant: every copy of a value, in the map, with serveConnection, on the wire and with
\* the subscriber, has its place in the history of its key, and the places are in order
THEOREM PubInvariant == Spec => []PubInv
<1>1. PubInv /\ [Next]_vars => PubInv'
  BY InvStep
<1> QED
  BY InitInv, <1>1, PTL DEF Spec

\* Publisher, driver, serveConnection and subscriber keep their types
THEOREM PubTypes == Spec => []PubTypeOK
<1>1. PubInv => PubTypeOK
  BY DEF PubInv
<1> QED
  BY PubInvariant, <1>1, PTL

\* serveConnection tells of a restart after the first snapshot and later reads the counter
\* before it looks for changes: who is told of a restart has been sent what was published before
\* it, but for the keys that changed between the first snapshot and a restart told right after it
THEOREM RestartComesAfterItems == Spec => []RestartAfterItems
<1>1. PubInv => RestartAfterItems
  BY DEF PubInv, SeenInv, Seen, SeenIn, RestartAfterItems
<1> QED
  BY PubInvariant, <1>1, PTL

\* A step is one of Topic: the publisher changes keys, a copy catches up, or nothing is seen
LEMMA TopicStep ==
  ASSUME PubInv, [Next]_vars
  PROVE  [T!TopicNext]_<<hist, skm>>
<1> USE DEF pubVars, fileVars, srvVars, subVars, raceVars, At, serveUnchanged
<1>0. PubTypeOK /\ PlacesInv /\ OrderInv
  BY DEF PubInv
<1>1. ASSUME NEW k \in Keys, NEW v \in Content, NEW f, Call(f), Store(k, v)
      PROVE  T!Change
  <2> DEFINE new == [j \in Keys |-> v]
             grown == [j \in Keys |-> IF j \in {k} THEN Append(hist[j], new[j]) ELSE hist[j]]
  <2>1. hist' = grown
    BY <1>0, <1>1 DEF Store, PubTypeOK
  <2>2. {k} \in SUBSET Keys /\ new \in [Keys -> T!Content]
    BY DEF T!Content, Content
  <2>3. UNCHANGED skm
    BY <1>1 DEF Call
  <2> QED
    BY <2>1, <2>2, <2>3 DEF T!Change
<1>2. ASSUME NEW k \in Keys, NEW v \in Values, Publish(k, v)
      PROVE  T!Change
  BY <1>1, <1>2 DEF Publish, Content
<1>3. ASSUME NEW k \in Keys, Unpublish(k)
      PROVE  T!Change
  BY <1>1, <1>3 DEF Unpublish, Content
<1>4. CASE NewPublication
  <2> DEFINE changed == {k \in Keys : file[k].v # km[k].v}
             new == [k \in Keys |-> file[k].v]
  <2>1. hist' = [k \in Keys |-> IF k \in changed THEN Append(hist[k], new[k]) ELSE hist[k]]
    BY <1>4 DEF NewPublication
  <2>2. changed \in SUBSET Keys /\ new \in [Keys -> T!Content]
    BY <1>0 DEF PubTypeOK, Item, Content, T!Content
  <2>3. UNCHANGED skm
    BY <1>4 DEF NewPublication
  <2> HIDE DEF changed, new
  <2>4. T!Change
    BY <2>1, <2>2, <2>3 DEF T!Change
  <2> QED
    BY <2>4 DEF T!TopicNext
<1>5. CASE ProcessChange
  <2>1. UNCHANGED hist
    BY <1>5 DEF ProcessChange
  <2>2. wire[1] \in Messages /\ handle(wire[1]) /\ 1 \in 1..Len(wire)
    BY <1>0, <1>5, TailWire DEF ProcessChange
  <2>3. CASE skm' = skm
    BY <2>1, <2>3
  <2>4. CASE skm' # skm
    <3> DEFINE k == wire[1].k
               item == wire[1].item
    <3>1. IsItem(wire[1]) /\ handleItem(wire[1])
      BY <2>2, <2>4 DEF handle, IsItem, handleRestart, handleSynchronized
    <3>2. /\ k \in Keys /\ item \in Item
          /\ skm[k].v # item.v /\ skm' = [skm EXCEPT ![k] = item]
      BY <2>2, <2>4, <3>1, MessageFields DEF handleItem
    <3>3. 1 \in ItemsOf(k)
      BY <2>2, <3>1 DEF ItemsOf
    <3>4. /\ item.i \in 1..Len(hist[k]) /\ item.v = hist[k][item.i]
          /\ skm[k].i \in 1..Len(hist[k]) /\ skm[k].v = hist[k][skm[k].i]
          /\ skm[k].i <= item.i
      BY <1>0, <3>2, <3>3 DEF PlacesInv, OrderInv, ItemOK
    <3>5. item.i \in (skm[k].i + 1)..Len(hist[k])
      <4>1. skm[k].i # item.i /\ Len(hist[k]) \in Nat
        BY <1>0, <3>2, <3>4, Lengths
      <4> QED
        BY <3>4, <4>1
    <3>6. item = [v |-> hist[k][item.i], i |-> item.i]
      BY <3>2, <3>4 DEF Item
    <3> HIDE DEF k, item
    <3>7. skm' = [skm EXCEPT ![k] = [v |-> hist[k][item.i], i |-> item.i]]
      BY <3>2, <3>6
    <3>8. T!Deliver
      BY <2>1, <3>2, <3>5, <3>7 DEF T!Deliver
    <3> QED
      BY <3>8 DEF T!TopicNext
  <2> QED
    BY <2>3, <2>4
<1>6. CASE \/ SignalRestarted \/ ClearRestarted \/ updatersNotify \/ driverWrite
           \/ breakConnection \/ endProcess \/ Serve \/ UNCHANGED vars
  <2>1. UNCHANGED <<hist, skm>>
    BY <1>6 DEF SignalRestarted, ClearRestarted, restartImpl, Call, updatersNotify, driverWrite,
       breakConnection, endProcess, closeConnection, Serve, connect, addUpdater, determineDiffs,
       serialize, sendComplete, checkRestart, sendRestarted, noteRestart, waitNotify,
       grabRestart, sentChanges, vars
  <2> QED
    BY <2>1
<1> QED
  BY <1>2, <1>3, <1>4, <1>5, <1>6 DEF Next, Calls, T!TopicNext

\* pubsub keeps what Topic promises to agents: whatever is notified, dropped, sent again after a
\* reconnection or read from files after a restart, the copy of a key never goes back
THEOREM PubSubImplementsTopic == Spec => LastValues
<1>1. Init => T!TopicInit
  BY DEF Init, T!TopicInit, NoItem
<1>2. PubInv /\ [Next]_vars => [T!TopicNext]_<<hist, skm>>
  BY TopicStep
<1> QED
  BY <1>1, <1>2, PubInvariant, PTL DEF Spec, LastValues, T!TopicSpec
=============================================================================
