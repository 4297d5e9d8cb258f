------------------------------ MODULE MCTxFlow ------------------------------
(***************************************************************************)
(* An instance of TxFlow: three transactions of one device, the last too   *)
(* large for the pool, and two of another.                                 *)
(***************************************************************************)
EXTENDS TxFlow

CONSTANTS d1, d2, t1, t2, t3, u1, u2

MCSender == (t1 :> d1) @@ (t2 :> d1) @@ (t3 :> d1) @@ (u1 :> d2) @@ (u2 :> d2)
MCNumber == (t1 :> 1) @@ (t2 :> 2) @@ (t3 :> 3) @@ (u1 :> 1) @@ (u2 :> 2)
MCSize == (t1 :> 1) @@ (t2 :> 2) @@ (t3 :> 5) @@ (u1 :> 1) @@ (u2 :> 2)
=============================================================================
