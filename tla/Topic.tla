------------------------------- MODULE Topic -------------------------------
(***************************************************************************)
(* What the agents rely on when they talk through a topic of pubsub: a     *)
(* subscriber sees, for every key, values that were really published, in   *)
(* the order of their publication.  It need not see every one.  Across     *)
(* keys nothing is promised.                                               *)
(*                                                                         *)
(* A value that is replaced by its like counts as published once; NoValue  *)
(* stands for an absent key.                                               *)
(***************************************************************************)
EXTENDS Integers, Sequences

CONSTANTS Keys, Values, NoValue

VARIABLES
  hist,  \* all values a key had, the absence before the first one included
  view   \* the value the subscriber has, and its place in hist

Content == Values \cup {NoValue}

TopicInit ==
  /\ hist = [k \in Keys |-> <<NoValue>>]
  /\ view = [k \in Keys |-> [v |-> NoValue, i |-> 1]]

\* The publisher changes keys: one of them, or many when it restarts from its files
Change ==
  /\ \E changed \in SUBSET Keys, new \in [Keys -> Content] :
       hist' = [k \in Keys |-> IF k \in changed THEN Append(hist[k], new[k]) ELSE hist[k]]
  /\ UNCHANGED view

\* The subscriber's copy of a key catches up, not always to the last value
Deliver ==
  /\ \E k \in Keys : \E i \in (view[k].i + 1)..Len(hist[k]) :
       view' = [view EXCEPT ![k] = [v |-> hist[k][i], i |-> i]]
  /\ UNCHANGED hist

TopicNext == Change \/ Deliver

TopicSpec == TopicInit /\ [][TopicNext]_<<hist, view>>
=============================================================================
