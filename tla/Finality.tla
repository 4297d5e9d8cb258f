------------------------------ MODULE Finality ------------------------------
(***************************************************************************)
(* What the L3 finality service promises, without cells, devices, stake or *)
(* locks: L2 commits and finality are never taken back, and a node holds a *)
(* block as final only if it, or the node it heard this from, had the      *)
(* block committed by L2, or somebody claimed that it is final.            *)
(***************************************************************************)
CONSTANTS
  Nodes,
  Blocks,
  Claims     \* blocks that are claimed to be final and need not be

VARIABLES
  committed,  \* committed[n]: blocks n knows to be committed by L2
  final       \* final[n]: blocks n holds as final

Init ==
  /\ committed = [n \in Nodes |-> {}]
  /\ final = [n \in Nodes |-> {}]

\* One node learns of commits and finalizes blocks, itself or after another.
Next ==
  \E n \in Nodes :
    /\ \A m \in Nodes \ {n} : committed'[m] = committed[m] /\ final'[m] = final[m]
    /\ committed[n] \subseteq committed'[n]
    /\ final[n] \subseteq final'[n]
    /\ \A b \in final'[n] \ final[n] :
         b \in committed'[n] \cup Claims \/ \E m \in Nodes : b \in final[m]

Spec == Init /\ [][Next]_<<committed, final>>
=============================================================================
