--------------------------- MODULE MCAionElection ---------------------------
(* The instance of AionElection that TLC checks. *)
EXTENDS AionElection, TLC

CONSTANTS pub1, pub2, own, other

\* With its first byte the output of pub2 is the larger one, and without it the
\* smaller.  The heavier weight makes the two ranks equal.
TwoOutputs ==
  [e \in Epochs |-> pub1 :> [s \in Seeds |-> <<0, 1, 0>>] @@
                    pub2 :> [s \in Seeds |-> <<1, 0, 3>>]]
TwoPids == pub1 :> 1 @@ pub2 :> 2

\* The least weight and that of alpha = 1/2 with the highest entropy.
TwoWeights == {WeightOf(One \div 2, <<h, h, h, h>>) : h \in {0, One}}

\* pub2 commits to either of two seeds and reveals either.
TwoSeeds ==
  {m \in Messages :
     /\ m.pub = pub2
     /\ \/ m.topic \in {"commit", "reveal"}
        \/ m.topic = "vrf" /\ m.seed \in {Own, Bad}}
=============================================================================
