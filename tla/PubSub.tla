------------------------------- MODULE PubSub -------------------------------
(***************************************************************************)
(* One topic of pubsub over the socket driver: the publication with its    *)
(* map and its files, the goroutine that serves the connection of one      *)
(* subscriber, and that subscriber.  The process of the publisher may end  *)
(* and come back with what is in its files, and the connection may break.  *)
(*                                                                         *)
(* `wire' is what is on its way: the socket, the message watchSock has in  *)
(* its hand and the channel of Changes.  A value is kept together with its *)
(* place in the history of its key (a history variable: no code looks at   *)
(* the place), and a restart counter with the places of all keys when it   *)
(* was signalled and the keys for which it was sent too early.             *)
(*                                                                         *)
(* Left out: subscriptions to a directory, persistent subscriptions, which *)
(* read the files before they connect, Close, large fields and the size    *)
(* limit, the encoding.                                                    *)
(***************************************************************************)
EXTENDS Integers, Sequences

CONSTANTS
  Keys, Values, NoValue,
  MaxOps,    \* bound: calls of the publisher
  MaxFaults, \* bound: ends of its process and broken connections
  MaxWire    \* bound: messages on their way

ASSUME PubSubAssumption ==
  /\ NoValue \notin Values
  /\ MaxOps \in Nat /\ MaxFaults \in Nat /\ MaxWire \in Nat \ {0}

VARIABLES
  up, km, rc,             \* the publisher's process, its map, its restartCounter
  op,                     \* what is left of the call it is in
  file, frc,              \* the files of the keys, the file `restarted'
  spc, updater,           \* serveConnection: where it is; its notification channel
  sendToPeer, keys,       \* what the peer was sent; the keys still to be sent
  newRestart, sentRestart,
  wire,
  skm, src, synchronized, \* the subscriber: its map, its restartCounter
  hist,                   \* history: the values of each key
  ops, faults, reconnects,
  snap,                   \* history: the places of all keys in the first snapshot
  missed                  \* history: the counter was read twice at first, and had changed

pubVars == <<up, km, rc, op, hist, ops>>
fileVars == <<file, frc>>
srvVars == <<spc, updater, sendToPeer, keys, newRestart, sentRestart>>
subVars == <<skm, src, synchronized>>
raceVars == <<snap, missed>>
vars == <<pubVars, fileVars, srvVars, wire, subVars, faults, reconnects, raceVars>>

Content == Values \cup {NoValue}
Item == [v : Content, i : Nat]
Counter == [n : Nat, need : [Keys -> Nat], early : SUBSET Keys]
NoItem == [v |-> NoValue, i |-> 1]
Zero == [n |-> 0, need |-> [k \in Keys |-> 1], early |-> {}]
NoOp == [step |-> "none", file |-> NoValue]
Messages ==
  [t : {"update", "delete"}, k : Keys, item : Item] \cup [t : {"complete"}]
    \cup [t : {"restarted"}, rc : Counter]
Restarted == "restarted"

\* Maps, files and messages have their types; a restart counter never goes below 0
PubTypeOK ==
  /\ up \in BOOLEAN /\ km \in [Keys -> Item] /\ rc \in Counter
  /\ op \in [step : {"none", "notify", "write"}, file : Keys \cup {Restarted, NoValue}]
  /\ file \in [Keys -> Item] /\ frc \in Counter
  /\ spc \in {"none", "hello", "snapshot", "initial", "check", "send", "note", "wait",
              "grab", "diff", "changes"}
  /\ updater \in {"absent", "empty", "full"}
  /\ sendToPeer \in [Keys -> Item] /\ keys \subseteq Keys
  /\ newRestart \in Counter /\ sentRestart \in Nat
  /\ wire \in Seq(Messages) /\ Len(wire) <= MaxWire
  /\ skm \in [Keys -> Item] /\ src \in Counter /\ synchronized \in BOOLEAN
  /\ hist \in [Keys -> Seq(Content)]
  /\ ops \in 0..MaxOps /\ faults \in 0..MaxFaults /\ reconnects \in Nat
  /\ snap \in [Keys -> Nat] /\ missed \in BOOLEAN

Init ==
  /\ up = TRUE /\ km = [k \in Keys |-> NoItem] /\ rc = Zero /\ op = NoOp
  /\ file = km /\ frc = Zero
  /\ spc = "none" /\ updater = "absent" /\ sendToPeer = km /\ keys = {}
  /\ newRestart = Zero /\ sentRestart = 0 /\ wire = <<>>
  /\ skm = km /\ src = Zero /\ synchronized = FALSE
  /\ hist = [k \in Keys |-> <<NoValue>>]
  /\ ops = 0 /\ faults = 0 /\ reconnects = 0
  /\ snap = [k \in Keys |-> 1] /\ missed = FALSE

-----------------------------------------------------------------------------
(* The publisher: the map first, then the notification, then the file *)

Call(f) ==
  /\ up /\ op = NoOp /\ op' = [step |-> "notify", file |-> f]
  /\ ops < MaxOps /\ ops' = ops + 1
  /\ UNCHANGED <<up, fileVars, srvVars, wire, subVars, faults, reconnects, raceVars>>

Store(k, v) ==
  /\ km' = [km EXCEPT ![k] = [v |-> v, i |-> Len(hist[k]) + 1]]
  /\ hist' = [hist EXCEPT ![k] = Append(@, v)]
  /\ UNCHANGED rc

Publish(k, v) == Call(k) /\ km[k].v # v /\ Store(k, v)
Unpublish(k) == Call(k) /\ km[k].v # NoValue /\ Store(k, NoValue)

restartImpl(n) ==
  /\ Call(Restarted) /\ n # rc.n
  /\ rc' = [n |-> n, need |-> [k \in Keys |-> Len(hist[k])], early |-> {}]
  /\ UNCHANGED <<km, hist>>

SignalRestarted == restartImpl(rc.n + 1)

\* Mutant: one restart is taken back
UnsignalRestarted == restartImpl(rc.n - 1)

ClearRestarted == restartImpl(0)

\* The channel holds one notification; a second one is dropped
updatersNotify ==
  /\ up /\ op.step = "notify" /\ op' = [op EXCEPT !.step = "write"]
  /\ updater' = IF updater = "absent" THEN "absent" ELSE "full"
  /\ UNCHANGED <<up, km, rc, hist, ops, fileVars, spc, sendToPeer, keys, newRestart,
                 sentRestart, wire, subVars, faults, reconnects, raceVars>>

\* Publish, Unpublish and Restart of the driver: a file appears or goes in one step
driverWrite ==
  /\ up /\ op.step = "write" /\ op' = NoOp
  /\ IF op.file = Restarted
     THEN frc' = rc /\ UNCHANGED file
     ELSE file' = [file EXCEPT ![op.file] = km[op.file]] /\ UNCHANGED frc
  /\ UNCHANGED <<up, km, rc, hist, ops, srvVars, wire, subVars, faults, reconnects, raceVars>>

\* What was written and not yet read when a connection ends may be lost in part
closeConnection ==
  /\ spc' = "none" /\ updater' = "absent" /\ keys' = {}
  /\ sendToPeer' = [k \in Keys |-> NoItem] /\ newRestart' = Zero /\ sentRestart' = 0
  /\ \E n \in 0..Len(wire) : wire' = SubSeq(wire, 1, n)
  /\ faults < MaxFaults /\ faults' = faults + 1
  /\ snap' = [k \in Keys |-> 1]
  /\ UNCHANGED <<fileVars, subVars, reconnects, missed>>

breakConnection ==
  /\ spc # "none" /\ closeConnection
  /\ UNCHANGED pubVars

endProcess ==
  /\ up /\ up' = FALSE /\ op' = NoOp /\ closeConnection
  /\ UNCHANGED <<km, rc, hist, ops>>

\* populate: the files are the map now
NewPublication ==
  /\ ~up /\ up' = TRUE
  /\ hist' = [k \in Keys |-> IF file[k].v = km[k].v THEN hist[k] ELSE Append(hist[k], file[k].v)]
  /\ km' = [k \in Keys |->
              IF file[k].v = km[k].v THEN km[k] ELSE [v |-> file[k].v, i |-> Len(hist[k]) + 1]]
  /\ file' = km' /\ rc' = frc
  /\ UNCHANGED <<op, ops, frc, srvVars, wire, subVars, faults, reconnects, raceVars>>

-----------------------------------------------------------------------------
(* serveConnection *)

At(p) == up /\ spc = p
Send(m) == Len(wire) < MaxWire /\ wire' = Append(wire, m)
serveUnchanged == UNCHANGED <<pubVars, fileVars, subVars, faults, reconnects>>

\* connectAndRead dials, serveConnection reads the request and says hello
connect ==
  /\ At("none") /\ spc' = "hello" /\ reconnects' = reconnects + 1
  /\ UNCHANGED <<pubVars, fileVars, updater, sendToPeer, keys, newRestart, sentRestart, wire,
                 subVars, faults, raceVars>>

addUpdater ==
  /\ At("hello") /\ spc' = "snapshot" /\ updater' = "empty"
  /\ UNCHANGED <<sendToPeer, keys, newRestart, sentRestart, wire, raceVars>> /\ serveUnchanged

DetermineDiffs ==
  LET changed == {k \in Keys : km[k].v # sendToPeer[k].v} IN
  /\ keys' = changed
  /\ sendToPeer' = [k \in Keys |-> IF k \in changed THEN km[k] ELSE sendToPeer[k]]

determineDiffs ==
  \/ /\ At("snapshot") /\ spc' = "initial" /\ DetermineDiffs
     /\ snap' = [k \in Keys |-> Len(hist[k])]
     /\ UNCHANGED <<updater, newRestart, sentRestart, wire, missed>> /\ serveUnchanged
  \/ /\ At("diff") /\ spc' = "changes" /\ DetermineDiffs
     /\ UNCHANGED <<updater, newRestart, sentRestart, wire, raceVars>> /\ serveUnchanged

\* The deleted keys come before the others
serialize ==
  /\ At("initial") \/ At("changes")
  /\ \E k \in keys :
       LET gone(j) == sendToPeer[j].v = NoValue IN
       /\ ~gone(k) => \A j \in keys : ~gone(j)
       /\ Send([t |-> IF gone(k) THEN "delete" ELSE "update", k |-> k, item |-> sendToPeer[k]])
       /\ keys' = keys \ {k}
  /\ UNCHANGED <<spc, updater, sendToPeer, newRestart, sentRestart, raceVars>> /\ serveUnchanged

\* Mutant: a notification that came during the snapshot is taken for settled
sendCompleteAndDrain ==
  /\ At("initial") /\ keys = {} /\ spc' = "check" /\ Send([t |-> "complete"])
  /\ updater' = "empty"
  /\ UNCHANGED <<sendToPeer, keys, newRestart, sentRestart, raceVars>> /\ serveUnchanged

sendComplete ==
  /\ At("initial") /\ keys = {} /\ spc' = "check" /\ Send([t |-> "complete"])
  /\ UNCHANGED <<updater, sendToPeer, keys, newRestart, sentRestart, raceVars>> /\ serveUnchanged

\* The keys that changed after the first snapshot and before the restart was signalled, and of
\* which nothing that recent was sent
tooEarly ==
  {k \in Keys : /\ snap[k] < rc.need[k]
                /\ \A i \in rc.need[k]..Len(hist[k]) : hist[k][i] # sendToPeer[k].v}

\* At first the counter is read three times: to compare, to send, and to note what was sent
checkRestart ==
  /\ At("check") /\ spc' = IF rc.n = sentRestart THEN "wait" ELSE "send"
  /\ UNCHANGED <<updater, sendToPeer, keys, newRestart, sentRestart, wire, raceVars>>
  /\ serveUnchanged

sendRestarted ==
  /\ At("send") /\ spc' = "note"
  /\ Send([t |-> "restarted", rc |-> [rc EXCEPT !.early = tooEarly]])
  /\ newRestart' = rc
  /\ UNCHANGED <<updater, sendToPeer, keys, sentRestart, raceVars>> /\ serveUnchanged

noteRestart ==
  /\ At("note") /\ spc' = "wait" /\ sentRestart' = rc.n
  /\ missed' = (missed \/ rc.n # newRestart.n)
  /\ UNCHANGED <<updater, sendToPeer, keys, newRestart, wire, snap>> /\ serveUnchanged

waitNotify ==
  /\ At("wait") /\ updater = "full" /\ updater' = "empty" /\ spc' = "grab"
  /\ UNCHANGED <<sendToPeer, keys, newRestart, sentRestart, wire, raceVars>> /\ serveUnchanged

\* The counter is read before the changes are looked for
grabRestart ==
  /\ At("grab") /\ spc' = "diff" /\ newRestart' = rc
  /\ UNCHANGED <<updater, sendToPeer, keys, sentRestart, wire, raceVars>> /\ serveUnchanged

\* Mutant: the counter is read after the changes were sent
sentChangesReadLate ==
  /\ At("changes") /\ keys = {} /\ spc' = "wait"
  /\ IF rc.n = sentRestart
     THEN UNCHANGED <<wire, sentRestart>>
     ELSE Send([t |-> "restarted", rc |-> rc]) /\ sentRestart' = rc.n
  /\ UNCHANGED <<updater, sendToPeer, keys, newRestart, raceVars>> /\ serveUnchanged

sentChanges ==
  /\ At("changes") /\ keys = {} /\ spc' = "wait"
  /\ IF newRestart.n = sentRestart
     THEN UNCHANGED <<wire, sentRestart>>
     ELSE Send([t |-> "restarted", rc |-> newRestart]) /\ sentRestart' = newRestart.n
  /\ UNCHANGED <<updater, sendToPeer, keys, newRestart, raceVars>> /\ serveUnchanged

-----------------------------------------------------------------------------
(* The subscriber *)

\* handleModify and handleDelete, whose handlers are the agent's
handleItem(m) ==
  /\ skm' = IF skm[m.k].v = m.item.v THEN skm ELSE [skm EXCEPT ![m.k] = m.item]
  /\ UNCHANGED <<src, synchronized>>

handleRestart(m) ==
  /\ src' = IF src.n = m.rc.n THEN src ELSE m.rc
  /\ UNCHANGED <<skm, synchronized>>

handleSynchronized(m) == synchronized' = TRUE /\ UNCHANGED <<skm, src>>

Remove(i) == wire' = SubSeq(wire, 1, i - 1) \o SubSeq(wire, i + 1, Len(wire))

handle(m) ==
  CASE m.t \in {"update", "delete"} -> handleItem(m)
    [] m.t = "restarted" -> handleRestart(m)
    [] OTHER -> handleSynchronized(m)

\* Mutant: every message goes through a goroutine of its own
ProcessChangeAny ==
  /\ \E i \in 1..Len(wire) : Remove(i) /\ handle(wire[i])
  /\ UNCHANGED <<pubVars, fileVars, srvVars, faults, reconnects, raceVars>>

ProcessChange ==
  /\ wire # <<>> /\ wire' = Tail(wire) /\ handle(Head(wire))
  /\ UNCHANGED <<pubVars, fileVars, srvVars, faults, reconnects, raceVars>>

-----------------------------------------------------------------------------
Calls ==
  \/ \E k \in Keys, v \in Values : Publish(k, v)
  \/ \E k \in Keys : Unpublish(k)
  \/ SignalRestarted \/ ClearRestarted

Serve ==
  \/ connect \/ addUpdater \/ determineDiffs \/ serialize \/ sendComplete \/ checkRestart
  \/ sendRestarted \/ noteRestart \/ waitNotify \/ grabRestart \/ sentChanges

Next ==
  \/ Calls \/ updatersNotify \/ driverWrite
  \/ breakConnection \/ endProcess \/ NewPublication
  \/ Serve \/ ProcessChange

Spec == Init /\ [][Next]_vars

\* Goroutines that can go on do.  The publisher need not call anything nor come back.
FairSpec ==
  Spec /\ WF_vars(updatersNotify) /\ WF_vars(driverWrite) /\ WF_vars(Serve) /\ WF_vars(ProcessChange)

-----------------------------------------------------------------------------
(* Properties *)

T == INSTANCE Topic WITH view <- skm

\* The subscriber's copy of each key moves along what was published, never back and never to
\* anything else, whatever order snapshots, notifications, reconnections and restarts come in
LastValues == T!TopicSpec

\* Who is told of a restart has what was published before it, or what replaced that (agents
\* start work upon it).  Not so for the first restart a connection tells of and a key that
\* changed between the first snapshot and that restart (tooEarly); and after a reconnection a
\* key that is absent since the restart, or was when it was signalled, may still be there with
\* an old value.
RestartAfterItems ==
  \A k \in Keys \ src.early : \E i \in src.need[k]..Len(hist[k]) :
    hist[k][i] = skm[k].v \/ (reconnects > 1 /\ hist[k][i] = NoValue)

\* No notification gets lost: when the publisher has come to rest, its subscribers have what it
\* has.  What is deleted while there is no connection stays, and so does a counter that is
\* reset; and a counter that was read twice at first (`missed') may not be sent.
Converges ==
  <>[](\/ ~up
       \/ /\ synchronized
          /\ \A k \in Keys : skm[k].v = km[k].v \/ (reconnects > 1 /\ km[k].v = NoValue)
          /\ src.n = rc.n \/ missed \/ (reconnects > 1 /\ rc.n = 0))

\* src/docs/IPC.md: a subscriber "updates the replicated copy of the state in its own in-memory
\* version of the table, synchronizing it with the publisher's version"
CopySynchronized == <>[](up => \A k \in Keys : skm[k].v = km[k].v)

\* src/pkg/pillar/pubsub/restarted_test.go wants the items before the restart they precede
RestartNeverEarly ==
  \A k \in Keys : \E i \in src.need[k]..Len(hist[k]) : hist[k][i] = skm[k].v
=============================================================================
