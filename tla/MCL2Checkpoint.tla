--------------------------- MODULE MCL2Checkpoint ---------------------------
(***************************************************************************)
(* Instances of L2Checkpoint.  A block tree is a function from blocks to   *)
(* parents; heights and ancestors are computed from it.                    *)
(***************************************************************************)
EXTENDS L2Checkpoint, TLC

CONSTANTS n1, n2, n3, n4, r, a1, a2, a3, b1, b2, b3

\* Two blocks without a parent, one of them with a child.
RootsTree == (a1 :> NoBlock) @@ (b1 :> NoBlock)
PathsTree == RootsTree @@ (a2 :> a1)
\* A chain of three.
ShortTree == (r :> NoBlock) @@ (a1 :> r) @@ (a2 :> a1)
\* Two branches of three blocks: two producers each started a chain.
RivalTree ==
  (a1 :> NoBlock) @@ (a2 :> a1) @@ (a3 :> a2) @@ (b1 :> NoBlock) @@ (b2 :> b1) @@ (b3 :> b2)

TreeHeight(T) == LET h[b \in DOMAIN T] == IF T[b] = NoBlock THEN 1 ELSE h[T[b]] + 1 IN h

TreeAncestors(T) ==
  LET up[b \in DOMAIN T] == {b} \cup IF T[b] = NoBlock THEN {} ELSE up[T[b]] IN up

RootsHeight == TreeHeight(RootsTree)
RootsAncestors == TreeAncestors(RootsTree)
PathsHeight == TreeHeight(PathsTree)
PathsAncestors == TreeAncestors(PathsTree)
ShortHeight == TreeHeight(ShortTree)
ShortAncestors == TreeAncestors(ShortTree)
RivalHeight == TreeHeight(RivalTree)
RivalAncestors == TreeAncestors(RivalTree)

\* Nodes vote for every block before the first QC reaches them, and learn QCs
\* from QC messages.  What this allows Spec allows.
VotesComeFirst ==
  \A n \in Nodes :
    /\ votes'[n] # votes[n] => cast'[n] # cast[n]
    /\ built'[n] # built[n] => cast[n] = Blocks
    /\ committed'[n] # committed[n] => announced'[n] # announced[n]

VotesFirstSpec == Init /\ [][Next /\ VotesComeFirst]_vars

\* Peers differ in nothing but their names, and so do the modelled nodes.
ValidatorSymmetry == Permutations(Peers) \cup Permutations(Nodes)
=============================================================================
