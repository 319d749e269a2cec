----------------------------- MODULE Reachability -----------------------------
(***************************************************************************)
(* What reference counting promises (docs/ARCHITECTURE.md, "Pattern"):     *)
(* an object lives exactly as long as someone can reach it.                *)
(***************************************************************************)
CONSTANT Children

VARIABLES
  alive,      \* the children allocated
  reachers    \* who can reach each of them

ReachInit ==
  /\ alive = {}
  /\ reachers = [v \in Children |-> {}]

\* A new child is reached by somebody; nothing changes for the others.
Appear(v) ==
  /\ v \notin alive
  /\ alive' = alive \cup {v}
  /\ reachers'[v] # {}
  /\ \A w \in Children \ {v} : reachers'[w] = reachers[w]

\* Living children gain reachers; none of them appears or dies.
Gain ==
  /\ \A v \in Children : reachers[v] \subseteq reachers'[v]
  /\ \A v \in Children \ alive : reachers'[v] = {}
  /\ UNCHANGED alive

\* Children lose reachers; exactly those that lose the last one die.
Lose ==
  /\ \A v \in Children : reachers'[v] \subseteq reachers[v]
  /\ alive' = {v \in alive : reachers'[v] # {}}

ReachNext == (\E v \in Children : Appear(v)) \/ Gain \/ Lose

ReachSpec == ReachInit /\ [][ReachNext]_<<alive, reachers>>

=============================================================================
