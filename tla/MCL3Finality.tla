---------------------------- MODULE MCL3Finality ----------------------------
(***************************************************************************)
(* Instances of L3Finality.                                                *)
(***************************************************************************)
EXTENDS L3Finality, TLC

CONSTANTS n1, n2, r, a1, a2, b1, k1, d1, d2, v1, v2, v3, v4

\* A root with one child, and a chain of three.
PairParent == (r :> NoBlock) @@ (a1 :> r)
PairHeight == (r :> 1) @@ (a1 :> 2)
ChainParent == PairParent @@ (a2 :> a1)
ChainHeight == PairHeight @@ (a2 :> 3)

OneCell == n1 :> {k1}
NobodyHasCell == [n \in Nodes |-> {}]

\* QCs of a least quorum: three of four validators.
ThreeSign == {{v1, v2, v3}}
=============================================================================
