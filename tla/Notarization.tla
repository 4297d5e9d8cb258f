---------------------------- MODULE Notarization ----------------------------
(***************************************************************************)
(* What the L1 notarization service promises, without threads and records: *)
(* a notarization is announced with a number of attesters that is at least *)
(* the required one and at most the number of those that attested.         *)
(***************************************************************************)
EXTENDS Naturals, FiniteSets

CONSTANTS
  Blocks,
  Attesters,
  MinAttesters

VARIABLES
  attested,   \* attested[b]: who attested b
  announced   \* pairs of a block and a number of attesters

Init ==
  /\ attested = [b \in Blocks |-> {}]
  /\ announced = {}

\* Nothing is taken back, and what is announced was attested by so many.
Next ==
  /\ \A b \in Blocks : attested[b] \subseteq attested'[b]
  /\ announced \subseteq announced'
  /\ \A p \in announced' \ announced :
       p[2] \in MinAttesters .. Cardinality(attested[p[1]])

Spec == Init /\ [][Next]_<<attested, announced>>
=============================================================================
