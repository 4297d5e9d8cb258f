----------------------------- MODULE Checkpoint -----------------------------
(***************************************************************************)
(* What the L2 checkpoint service promises, without locks, certificates or *)
(* messages: validators vote for blocks and checkpoint blocks.  Neither is *)
(* ever taken back, and a block is checkpointed only when a quorum voted   *)
(* for it and for two descendants in a row.                                *)
(***************************************************************************)
CONSTANTS
  Nodes,    \* validators that vote in the course of a behaviour
  Peers,    \* validators that voted for every block before
  Blocks,
  Parent,   \* the parent of a block
  Quorums   \* sets of validators whose votes suffice

VARIABLES
  voted,   \* voted[n]: blocks n has voted for
  final    \* final[n]: blocks n regards as checkpointed

Voters(b) == Peers \cup {n \in Nodes : b \in voted[n]}

HasQuorum(b) == \E V \in Quorums : V \subseteq Voters(b)

Checkpointable(b) ==
  \E c, g \in Blocks :
    /\ Parent[c] = b /\ Parent[g] = c
    /\ \A x \in {b, c, g} : HasQuorum(x)

Init ==
  /\ voted = [n \in Nodes |-> {}]
  /\ final = [n \in Nodes |-> {}]

\* One node votes for some blocks and checkpoints some blocks.
Next ==
  \E n \in Nodes :
    /\ \A m \in Nodes \ {n} : voted'[m] = voted[m] /\ final'[m] = final[m]
    /\ voted[n] \subseteq voted'[n]
    /\ final[n] \subseteq final'[n]
    /\ \A b \in final'[n] \ final[n] : Checkpointable(b)'

Spec == Init /\ [][Next]_<<voted, final>>
=============================================================================
