---------------------------- MODULE MCDpcManager ----------------------------
(* The DPCs of the runs: two of the controller and a manual one in two     *)
(* versions.                                                               *)
EXTENDS DpcManager

CONSTANTS c1, c2, lr

MCCfgs == {c1, c2, lr}
MCInputs == {[key |-> "zedagent", prio |-> 2, cfg |-> c1],
             [key |-> "zedagent", prio |-> 4, cfg |-> c2],
             [key |-> "manual", prio |-> 1, cfg |-> c2],
             [key |-> "manual", prio |-> 3, cfg |-> c1]}
(* One more is an update of either of the first two: of the priority of    *)
(* one, of the content of the other.                                       *)
MCUpdates == MCInputs \cup {[key |-> "zedagent", prio |-> 4, cfg |-> c1]}
MCManual == {[key |-> "manual", prio |-> 3, cfg |-> c1]}

(* Stronger than TestGoesOn, and not so: whenever neither an LPS config    *)
(* nor radio silence is in effect, with a usable DPC, the manager waits in *)
(* a verification or has the timer of the periodic test running.           *)
TestNeverStops ==
  /\ m.pc = "idle" /\ m.hasGCP /\ ~m.lps /\ deleted = 0
  /\ ~m.rs.want /\ ~m.rs.imposed /\ ~m.rs.changing
  /\ (\E i \in DOMAIN m.list : IsDPCUsable(m.list[i]))
  => m.test \/ (m.inProgress /\ m.pend # "off")
=============================================================================
