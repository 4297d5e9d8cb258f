------------------------------ MODULE MCChain ------------------------------
(***************************************************************************)
(* An instance of Chain: three blocks, one above the other, and one of the *)
(* node's own that competes with the third and has the same transaction.   *)
(***************************************************************************)
EXTENDS Chain, TLC

CONSTANTS a1, a2, a3, own3, x

MCParent == (a1 :> NoBlock) @@ (a2 :> a1) @@ (a3 :> a2) @@ (own3 :> a2)
MCHeight == (a1 :> 1) @@ (a2 :> 2) @@ (a3 :> 3) @@ (own3 :> 3)
MCTxsOf == (a1 :> {}) @@ (a2 :> {}) @@ (a3 :> {x}) @@ (own3 :> {x})
=============================================================================
