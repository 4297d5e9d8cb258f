-------------------------- MODULE MCL1Notarization --------------------------
(***************************************************************************)
(* An instance of L1Notarization.                                          *)
(***************************************************************************)
EXTENDS L1Notarization, TLC

CONSTANTS self, p1, b1, b2

VotesForOne == {<<b1, p1>>}
=============================================================================
