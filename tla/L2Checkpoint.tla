---------------------------- MODULE L2Checkpoint ----------------------------
(***************************************************************************)
(* The HELIOS L2 checkpoint service (internal/helios/l2_checkpoint.go):    *)
(* every validator votes for the blocks it receives, collects the votes of *)
(* the others into quorum certificates (QCs), locks on certified blocks    *)
(* and commits a block once it heads a chain of three certified blocks.    *)
(*                                                                         *)
(* One action is one critical section of L2Service: the code releases its  *)
(* mutex between deciding to vote and publishing the vote, between the     *)
(* vote that completes a quorum, assembling the QC and storing it, and     *)
(* before what follows the storing.  What a handler has still to do after  *)
(* an unlock is kept in marked, building, built, retrying and checks, and  *)
(* other handlers run meanwhile.                                           *)
(*                                                                         *)
(* Blocks, and the votes of Peers, are in flight from the start: gossip    *)
(* delivers a message at any later moment, again, or never.                *)
(***************************************************************************)
EXTENDS Integers, FiniteSets

CONSTANTS
  Nodes,        \* validators whose L2Service state is modelled
  Peers,        \* further validators: no vote or QC has reached them yet, so
                \* nothing locks them and they vote for every block they see
  Blocks,       \* the blocks producers publish
  NoBlock,      \* the empty parent, and "no lock"
  Parent,       \* PrevHash of a block
  Height,       \* Height of a block
  Ancestors,    \* a block and the blocks it descends from
  Memberships,  \* validator counts the heartbeat membership may report
  VotesExpire,  \* whether a sweep may find votes older than VoteExpiry
  Subscribers,  \* goroutines of a node that vote, count and certify: the code
                \* has one for blocks, one for votes and one for QCs
  Claims        \* blocks for which a commit message may arrive although no
                \* validator committed them: onCommit verifies nothing

Validators == Nodes \cup Peers

\* Mutant: half of the validators.
HalfQuorumSize(n) == n \div 2

\* The quorum for n validators: ceil(2n/3), never below three.
HotstuffQuorumSize(n) ==
  IF n < 3 \/ (2 * n + 2) \div 3 < 3 THEN 3 ELSE (2 * n + 2) \div 3

QuorumSizes == {HotstuffQuorumSize(m) : m \in Memberships}

\* The sets of validators some node takes for a quorum.
Quorums == {V \in SUBSET Validators : \E q \in QuorumSizes : Cardinality(V) >= q}

ASSUME ValidatorAssumption ==
  /\ IsFiniteSet(Validators)
  /\ Nodes \cap Peers = {}
  /\ Memberships \subseteq Nat
  /\ VotesExpire \in BOOLEAN
  /\ Subscribers \in Nat
  /\ Claims \subseteq Blocks

\* Producers number a block one above its parent; Ancestors is the reflexive
\* and transitive closure of Parent.
ASSUME ChainAssumption ==
  /\ NoBlock \notin Blocks
  /\ Parent \in [Blocks -> Blocks \cup {NoBlock}]
  /\ Height \in [Blocks -> Nat]
  /\ Ancestors \in [Blocks -> SUBSET Blocks]
  /\ \A b \in Blocks :
       /\ Parent[b] # NoBlock => Height[b] = Height[Parent[b]] + 1
       /\ Ancestors[b] =
            {b} \cup (IF Parent[b] = NoBlock THEN {} ELSE Ancestors[Parent[b]])

VARIABLES
  known,      \* known[n]: blocks with an entry in the map "blocks"
  votes,      \* votes[n][b]: validators whose vote for b is held
  qcs,        \* qcs[n][b]: the signers of the stored QC of b, {} if none
  kids,       \* kids[n][b]: the map childQCs, certified children of b
  committed,  \* committed[n]: blocks held as committed
  sentVote,   \* sentVote[n]: blocks n remembers having voted for
  pending,    \* pending[n]: blocks waiting until voting for them is safe
  locked,     \* locked[n]: lockedBlk (lockedH is its height, or 0 after a QC
              \* without metadata: a block above the lock exceeds both)
  marked,     \* marked[n]: blocks with a call of publishVote to come
  building,   \* building[n]: blocks with a call of buildAndBroadcastQC to come
  built,      \* built[n]: QCs with a call of storeQC to come
  retrying,   \* retrying[n]: calls of retryPendingVotes are in progress
  checks,     \* checks[n]: blocks with a call of checkCommitFor to come
  quorum,     \* quorum[n]: params.QuorumSize
  cast,       \* cast[n]: blocks for which n has signed a vote
  announced   \* announced[n]: blocks n has committed by itself and announced

\* What storeQC and what follows it work on.
qcVars == <<qcs, kids, locked, retrying, checks>>
\* What happens between a decision to vote and a QC.
voteVars == <<votes, sentVote, pending, marked, building, built, cast>>
commitVars == <<committed, announced>>
vars == <<known, quorum, qcVars, voteVars, commitVars>>

\* A QC to be stored, and whether the entry of its block was there to take
\* parent and height from.
QCs == [block : Blocks, signers : SUBSET Validators, entry : BOOLEAN]

TypeOK ==
  /\ known \in [Nodes -> SUBSET Blocks]
  /\ votes \in [Nodes -> [Blocks -> SUBSET Validators]]
  /\ qcs \in [Nodes -> [Blocks -> SUBSET Validators]]
  /\ kids \in [Nodes -> [Blocks -> SUBSET Blocks]]
  /\ committed \in [Nodes -> SUBSET Blocks]
  /\ sentVote \in [Nodes -> SUBSET Blocks]
  /\ pending \in [Nodes -> SUBSET Blocks]
  /\ locked \in [Nodes -> Blocks \cup {NoBlock}]
  /\ marked \in [Nodes -> SUBSET Blocks]
  /\ building \in [Nodes -> SUBSET Blocks]
  /\ built \in [Nodes -> SUBSET QCs]
  /\ retrying \in [Nodes -> BOOLEAN]
  /\ checks \in [Nodes -> SUBSET Blocks]
  /\ quorum \in [Nodes -> QuorumSizes]
  /\ cast \in [Nodes -> SUBSET Blocks]
  /\ announced \in [Nodes -> SUBSET Blocks]

Init ==
  /\ known = [n \in Nodes |-> {}]
  /\ votes = [n \in Nodes |-> [b \in Blocks |-> {}]]
  /\ qcs = [n \in Nodes |-> [b \in Blocks |-> {}]]
  /\ kids = [n \in Nodes |-> [b \in Blocks |-> {}]]
  /\ committed = [n \in Nodes |-> {}]
  /\ sentVote = [n \in Nodes |-> {}]
  /\ pending = [n \in Nodes |-> {}]
  /\ locked = [n \in Nodes |-> NoBlock]
  /\ marked = [n \in Nodes |-> {}]
  /\ building = [n \in Nodes |-> {}]
  /\ built = [n \in Nodes |-> {}]
  /\ retrying = [n \in Nodes |-> FALSE]
  /\ checks = [n \in Nodes |-> {}]
  /\ quorum \in [Nodes -> QuorumSizes]
  /\ cast = [n \in Nodes |-> {}]
  /\ announced = [n \in Nodes |-> {}]

-----------------------------------------------------------------------------
(* What is in flight. *)

\* Validators whose signed vote for b exists.
Voters(b) == Peers \cup {n \in Nodes : b \in cast[n]}

\* Signer sets from which some validator can have assembled a QC of b.
CertificatesOf(b) == {V \in Quorums : V \subseteq Voters(b)}

\* Three consecutive blocks, b first.
ThreeChain(b, c, g) == c \in Blocks /\ g \in Blocks /\ Parent[c] = b /\ Parent[g] = c

\* b and two descendants in a row have the votes of a quorum.
Committable(b) ==
  \E c, g \in Blocks :
    ThreeChain(b, c, g) /\ \A x \in {b, c, g} : CertificatesOf(x) # {}

\* A goroutine of n has no vote or QC in hand between two critical sections.
HasIdle(n) ==
  Cardinality(marked[n]) + Cardinality(building[n]) + Cardinality(built[n]) < Subscribers

-----------------------------------------------------------------------------
(* The safe-vote rule. *)

\* The walk from b towards the root meets the locked block before it meets a
\* block without an entry.
ExtendsLocked(n, b) ==
  \/ b = NoBlock
  \/ locked[n] = NoBlock
  \/ /\ NoBlock \notin {b, locked[n]}
     /\ locked[n] \in Ancestors[b]
     /\ Ancestors[b] \ Ancestors[locked[n]] \subseteq known[n]

\* Mutant: the height of the parent is compared, its branch is not.
SafeToVoteOnAnyBranch(n, b) ==
  \/ Parent[b] \in {NoBlock, locked[n]}
  \/ locked[n] = NoBlock
  \/ /\ NoBlock \notin {Parent[b], locked[n]}
     /\ Parent[b] \in known[n] \/ qcs[n][Parent[b]] # {}
     /\ Height[Parent[b]] >= Height[locked[n]]

SafeToVote(n, b) ==
  \/ Parent[b] \in {NoBlock, locked[n]}
  \/ locked[n] = NoBlock
  \/ /\ NoBlock \notin {Parent[b], locked[n]}
     /\ ExtendsLocked(n, Parent[b])
     /\ Parent[b] \in known[n] \/ qcs[n][Parent[b]] # {}
     /\ Height[Parent[b]] >= Height[locked[n]]

\* A higher block whose walk meets the lock, or any block while there is none.
MovesLock(n, b) ==
  locked[n] = NoBlock \/ (Height[b] > Height[locked[n]] /\ ExtendsLocked(n, b))

\* Mutants: the lock goes to any higher block; to the parent of the block.
LockOnHighest(n, b) ==
  IF locked[n] = NoBlock \/ Height[b] > Height[locked[n]] THEN b ELSE locked[n]

LockOnParent(n, b) == IF MovesLock(n, b) THEN Parent[b] ELSE locked[n]

\* The block n is locked on once it has stored a QC of b.
LockAfterQC(n, b) == IF MovesLock(n, b) THEN b ELSE locked[n]

-----------------------------------------------------------------------------
(* From a vote to a QC. *)

\* The vote of v for b is recorded, and the block with it if the vote is new;
\* a new vote that makes a quorum has a QC built.
ConsumeVote(n, v, b) ==
  LET V == votes[n][b] \cup {v} IN
  /\ votes' = [votes EXCEPT ![n][b] = V]
  /\ IF v \in votes[n][b]
       THEN UNCHANGED <<known, building>>
       ELSE /\ known' = [known EXCEPT ![n] = @ \cup {b}]
            /\ building' = IF qcs[n][b] = {} /\ Cardinality(V) >= quorum[n]
                             THEN [building EXCEPT ![n] = @ \cup {b}]
                             ELSE building

\* Mutant: the votes are not counted again.
BuildQCUncounted(n, b) ==
  /\ b \in building[n]
  /\ building' = [building EXCEPT ![n] = @ \ {b}]
  /\ built' = IF qcs[n][b] = {} /\ votes[n][b] # {}
                THEN [built EXCEPT ![n] = @ \cup {[block |-> b, signers |-> votes[n][b],
                                                  entry |-> b \in known[n]]}]
                ELSE built
  /\ UNCHANGED <<known, quorum, qcVars, votes, sentVote, pending, marked, cast, commitVars>>

\* A QC is assembled from the votes and the entry held now: votes may have
\* expired, the quorum may have changed and a sweep may have taken the entry
\* since the vote was counted.
BuildQC(n, b) ==
  /\ b \in building[n]
  /\ building' = [building EXCEPT ![n] = @ \ {b}]
  /\ built' = IF qcs[n][b] = {} /\ Cardinality(votes[n][b]) >= quorum[n]
                THEN [built EXCEPT ![n] = @ \cup {[block |-> b, signers |-> votes[n][b],
                                                  entry |-> b \in known[n]]}]
                ELSE built
  /\ UNCHANGED <<known, quorum, qcVars, votes, sentVote, pending, marked, cast, commitVars>>

\* The parent a QC names: none if the entry of its block was missing.
ParentIn(q) == IF q.entry THEN Parent[q.block] ELSE NoBlock

\* Mutant: the grandparent of a newly certified block is not looked at.
BlockAndParent(n, q) == {q.block, ParentIn(q)} \ {NoBlock}

\* The blocks checkCommitFor is called with once q is stored.
CommitCandidates(n, q) ==
  LET p == ParentIn(q) IN
  ({q.block, p} \cup IF p \in known[n] THEN {Parent[p]} ELSE {}) \ {NoBlock}

\* storeQC: the first QC of its block is kept and moves the lock; n will retry
\* its pending votes and look for blocks to commit.
StoreQC(n, q) ==
  LET b == q.block IN
  /\ q \in built[n]
  /\ built' = [built EXCEPT ![n] = @ \ {q}]
  /\ IF qcs[n][b] # {}
       THEN UNCHANGED qcVars
       ELSE /\ qcs' = [qcs EXCEPT ![n][b] = q.signers]
            /\ kids' = [kids EXCEPT ![n] =
                          [x \in Blocks |-> IF x = ParentIn(q) THEN @[x] \cup {b} ELSE @[x]]]
            /\ locked' = [locked EXCEPT ![n] = LockAfterQC(n, b)]
            /\ retrying' = [retrying EXCEPT ![n] = TRUE]
            /\ checks' = [checks EXCEPT ![n] = @ \cup CommitCandidates(n, q)]
  /\ UNCHANGED <<known, quorum, votes, sentVote, pending, marked, building, cast, commitVars>>

\* The votes held for b become a vote more: n has decided for b (markVoteIfSafe
\* or a turn of retryPendingVotes), signs the vote and counts it.
PublishVote(n, b) ==
  /\ b \in marked[n]
  /\ marked' = [marked EXCEPT ![n] = @ \ {b}]
  /\ cast' = [cast EXCEPT ![n] = @ \cup {b}]
  /\ ConsumeVote(n, n, b)
  /\ UNCHANGED <<quorum, qcVars, sentVote, pending, built, commitVars>>

-----------------------------------------------------------------------------
(* The handlers. *)

\* The block is recorded: all that the chain's block hook does, and the first
\* that onBlock does.
UpdateBlockInfo(n, b) ==
  /\ known' = [known EXCEPT ![n] = @ \cup {b}]
  /\ UNCHANGED <<quorum, qcVars, voteVars, commitVars>>

\* Then onBlock decides about a block that was recorded (a sweep may have
\* come in between): it will vote for it if that is safe now, otherwise it
\* keeps it pending.  A block that was voted for is left alone.
MarkVoteIfSafe(n, b) ==
  /\ HasIdle(n)
  /\ b \in known[n] \cup committed[n]
  /\ b \notin sentVote[n]
  /\ \/ /\ SafeToVote(n, b)
        /\ pending' = [pending EXCEPT ![n] = @ \ {b}]
        /\ sentVote' = [sentVote EXCEPT ![n] = @ \cup {b}]
        /\ marked' = [marked EXCEPT ![n] = @ \cup {b}]
     \/ /\ ~SafeToVote(n, b)
        /\ pending' = [pending EXCEPT ![n] = @ \cup {b}]
        /\ UNCHANGED <<sentVote, marked>>
  /\ UNCHANGED <<known, quorum, qcVars, votes, building, built, cast, commitVars>>

\* A vote arrives.
OnVote(n, v, b) ==
  /\ HasIdle(n)
  /\ v \in Voters(b)
  /\ ConsumeVote(n, v, b)
  /\ UNCHANGED <<quorum, qcVars, sentVote, pending, marked, built, cast, commitVars>>

\* A QC built elsewhere arrives and has as many signers as n's own quorum; its
\* block is recorded, and n will store it (storeQC would drop a second QC).
OnQC(n, b, V) ==
  /\ HasIdle(n)
  /\ V \in CertificatesOf(b)
  /\ Cardinality(V) >= quorum[n]
  /\ known' = [known EXCEPT ![n] = @ \cup {b}]
  /\ built' = IF qcs[n][b] = {}
                THEN [built EXCEPT ![n] = @ \cup {[block |-> b, signers |-> V, entry |-> TRUE]}]
                ELSE built
  /\ UNCHANGED <<quorum, qcVars, votes, sentVote, pending, marked, building, cast, commitVars>>

\* Under the QCs q and the certified children k, b starts a chain of three.
HeadsThreeChain(q, k, b) ==
  /\ q[b] # {}
  /\ \E c \in k[b] : q[c] # {} /\ \E g \in k[c] : q[g] # {}

\* checkCommitFor: b is committed and announced if it now heads a three-chain.
CheckCommitFor(n, b) ==
  /\ b \in checks[n]
  /\ checks' = [checks EXCEPT ![n] = @ \ {b}]
  /\ IF b \notin committed[n] /\ HeadsThreeChain(qcs[n], kids[n], b) /\ b \in known[n]
       THEN /\ committed' = [committed EXCEPT ![n] = @ \cup {b}]
            /\ announced' = [announced EXCEPT ![n] = @ \cup {b}]
       ELSE UNCHANGED commitVars
  /\ UNCHANGED <<known, quorum, qcs, kids, locked, retrying, voteVars>>

\* A commit message arrives: from a node, from a peer that committed b, or one
\* that nothing stands behind.  It is taken at its word.
OnCommit(n, b) ==
  /\ \/ b \in Claims
     \/ \E m \in Nodes : b \in announced[m]
     \/ Peers # {} /\ Committable(b)
  /\ b \notin committed[n]
  /\ committed' = [committed EXCEPT ![n] = @ \cup {b}]
  /\ UNCHANGED <<known, quorum, qcVars, voteVars, announced>>

\* Mutant: the retry gives up without looking at the pending blocks.
RetryNothing(n) ==
  /\ retrying[n]
  /\ retrying' = [retrying EXCEPT ![n] = FALSE]
  /\ UNCHANGED <<known, quorum, qcs, kids, locked, checks, voteVars, commitVars>>

\* One turn of retryPendingVotes: decide to vote for a pending block that has
\* become safe, dropping some stale entries on the way to it; or find none,
\* drop the stale entries and stop (another goroutine may still be in a loop
\* of its own).
RetryPendingVotes(n) ==
  LET live == {b \in pending[n] : b \notin sentVote[n] /\ b \in known[n]}
      safe == {b \in live : SafeToVote(n, b)}
  IN /\ retrying[n]
     /\ HasIdle(n)
     /\ \/ \E b \in safe, stale \in SUBSET (pending[n] \ live) :
             /\ pending' = [pending EXCEPT ![n] = @ \ (stale \cup {b})]
             /\ sentVote' = [sentVote EXCEPT ![n] = @ \cup {b}]
             /\ marked' = [marked EXCEPT ![n] = @ \cup {b}]
             /\ UNCHANGED retrying
        \/ /\ safe = {}
           /\ pending' = [pending EXCEPT ![n] = live]
           /\ \E more \in BOOLEAN : retrying' = [retrying EXCEPT ![n] = more]
           /\ UNCHANGED <<sentVote, marked>>
     /\ UNCHANGED <<known, quorum, qcs, kids, locked, checks, votes, building, built,
                    cast, commitVars>>

\* Mutant: the sweep also forgets which blocks are committed.
PruneCommitted(n) ==
  /\ committed' = [committed EXCEPT ![n] = {}]
  /\ announced' = [announced EXCEPT ![n] = {}]
  /\ UNCHANGED <<known, quorum, qcVars, voteVars>>

\* One sweep of the cleanup loop: expired votes go (at most one per sweep;
\* several sweeps remove any set of them), and so does what is kept about
\* committed blocks, except their QCs.
PruneExpired(n) ==
  /\ \/ UNCHANGED votes
     \/ /\ VotesExpire
        /\ \E b \in Blocks : \E v \in votes[n][b] :
             votes' = [votes EXCEPT ![n][b] = @ \ {v}]
  /\ sentVote' = [sentVote EXCEPT ![n] = @ \ committed[n]]
  /\ known' = [known EXCEPT ![n] = @ \ committed[n]]
  /\ pending' = [pending EXCEPT ![n] = @ \ committed[n]]
  /\ kids' = [kids EXCEPT ![n] =
                [b \in Blocks |-> IF b \in committed[n] THEN {}
                                  ELSE {c \in kids[n][b] : qcs[n][c] # {}}]]
  /\ UNCHANGED <<quorum, qcs, locked, retrying, checks, marked, building, built, cast,
                 commitVars>>

\* The membership refresher sets the quorum for m validators.
UpdateQuorumSize(n, m) ==
  /\ quorum' = [quorum EXCEPT ![n] = HotstuffQuorumSize(m)]
  /\ UNCHANGED <<known, qcVars, voteVars, commitVars>>

Next ==
  \E n \in Nodes :
    \/ \E b \in Blocks : UpdateBlockInfo(n, b) \/ MarkVoteIfSafe(n, b) \/ OnCommit(n, b)
    \/ \E b \in Blocks : PublishVote(n, b) \/ BuildQC(n, b) \/ CheckCommitFor(n, b)
    \/ \E b \in Blocks, v \in Validators : OnVote(n, v, b)
    \/ \E b \in Blocks : \E V \in CertificatesOf(b) : OnQC(n, b, V)
    \/ \E q \in built[n] : StoreQC(n, q)
    \/ RetryPendingVotes(n)
    \/ PruneExpired(n)
    \/ \E m \in Memberships : UpdateQuorumSize(n, m)

Spec == Init /\ [][Next]_vars

\* Gossip delivers every block and every vote once (a block that is pending
\* was delivered and need not come again), and goroutines run on after they
\* released the mutex.  QCs, commit messages and sweeps may fail to come.
Fairness ==
  \A n \in Nodes :
    /\ WF_vars(\E b \in Blocks : PublishVote(n, b))
    /\ WF_vars(\E b \in Blocks : BuildQC(n, b))
    /\ WF_vars(\E q \in built[n] : StoreQC(n, q))
    /\ WF_vars(RetryPendingVotes(n))
    /\ WF_vars(\E b \in Blocks : CheckCommitFor(n, b))
    /\ WF_vars(\E b \in Blocks, v \in Validators : OnVote(n, v, b))
    /\ \A b \in Blocks :
         /\ WF_vars(UpdateBlockInfo(n, b))
         /\ WF_vars(b \notin pending[n] /\ MarkVoteIfSafe(n, b))

FairSpec == Spec /\ Fairness

-----------------------------------------------------------------------------
(* Safety. *)

\* A QC a node holds is signed by a quorum of validators that really voted
\* for the block, whichever of them it came from (consumeVote, verifyQC).
QCsAreBacked ==
  \A n \in Nodes, b \in Blocks :
    qcs[n][b] # {} => qcs[n][b] \in CertificatesOf(b)

\* Every block a node commits by itself heads three consecutive blocks that each
\* have the votes of a quorum, whatever commit messages it took at their word.
CommitsAreJustified == \A n \in Nodes : \A b \in announced[n] : Committable(b)

\* The commit rule misses nothing: once a node holds the QCs of three
\* consecutive blocks, in whatever order they came and whatever a sweep took
\* while they were assembled, and no check of the first is to come, it holds
\* the first as committed, unless one of the others was committed before (its
\* entry or its certified children may then be gone, and with them the way to
\* see the three-chain).
CommitRuleComplete ==
  \A n \in Nodes : \A b, c, g \in Blocks :
    ThreeChain(b, c, g) /\ (\A x \in {b, c, g} : qcs[n][x] # {}) /\ b \notin checks[n]
      => {b, c, g} \cap committed[n] # {}

\* Any two QCs held anywhere have a signer in common.
QCsOverlap ==
  \A n, m \in Nodes : \A b, c \in Blocks :
    qcs[n][b] # {} /\ qcs[m][c] # {} => qcs[n][b] \cap qcs[m][c] # {}

\* Agreement: of two blocks that nodes committed one descends from the other.
Agreement ==
  \A n, m \in Nodes : \A b \in announced[n], c \in announced[m] :
    b \in Ancestors[c] \/ c \in Ancestors[b]

\* The lock is on a block whose QC the node holds.
LockIsCertified ==
  \A n \in Nodes : locked[n] # NoBlock => qcs[n][locked[n]] # {}

\* A lock never goes back and never changes branch: it moves from a block to
\* one of its proper descendants.
LockOnlyAdvances ==
  [][\A n \in Nodes : locked'[n] # locked[n] /\ locked[n] # NoBlock
       => /\ locked[n] \in Ancestors[locked'[n]]
          /\ Height[locked'[n]] > Height[locked[n]]]_vars

\* A locked node decides to vote only for a block that descends from its lock
\* (or for a block without a parent, which the code always deems safe), however
\* much of the path to the lock was swept.  The vote is signed later, when the
\* lock may have moved.
DecisionsRespectLock ==
  [][\A n \in Nodes : \A b \in marked'[n] \ marked[n] :
       \/ Parent[b] = NoBlock
       \/ locked[n] = NoBlock
       \/ locked[n] \in Ancestors[Parent[b]]]_vars

(* What the invariants above rest on. *)

\* A held vote was cast.
VotesAreCast == \A n \in Nodes, b \in Blocks : votes[n][b] \subseteq Voters(b)

\* childQCs lists children only, and every certified child of a block unless
\* that block or the child was committed.
KidsAreChildren ==
  \A n \in Nodes, b \in Blocks : \A c \in kids[n][b] : Parent[c] = b

KidsAreComplete ==
  \A n \in Nodes, c \in Blocks :
    qcs[n][c] # {} /\ Parent[c] # NoBlock
      => {c, Parent[c]} \cap committed[n] # {} \/ c \in kids[n][Parent[c]]

\* A QC in the making has real votes; the entry of its block goes, and is
\* missed, only once the block is committed.
BuiltAreBacked ==
  \A n \in Nodes :
    /\ building[n] \subseteq known[n] \cup committed[n]
    /\ \A q \in built[n] :
         /\ q.signers \in CertificatesOf(q.block)
         /\ q.block \in known[n] \cup committed[n]
         /\ q.entry \/ q.block \in committed[n]

\* A certified block keeps its entry until it is committed.
CertifiedAreKnown ==
  \A n \in Nodes, b \in Blocks : qcs[n][b] # {} => b \in known[n] \cup committed[n]

\* What a node holds hangs together in every interleaving of handlers, retries
\* and sweeps, also between the critical sections of one handler: QCs rest on
\* votes that were cast, certified blocks and their children stay known until
\* they are committed, a node's own commits rest on three-chains, three-chains
\* are committed and the lock is certified.  Each part needs the others to be
\* kept (consumeVote, buildAndBroadcastQC, storeQC, checkCommitFor,
\* pruneExpired); together they are inductive.
IInv ==
  /\ TypeOK
  /\ VotesAreCast
  /\ QCsAreBacked
  /\ BuiltAreBacked
  /\ KidsAreChildren
  /\ KidsAreComplete
  /\ CertifiedAreKnown
  /\ CommitsAreJustified
  /\ CommitRuleComplete
  /\ LockIsCertified

-----------------------------------------------------------------------------
(* Refinement. *)

\* The service implements the abstract checkpoint: votes and a node's own
\* commits are never taken back, and every such commit rests on three quorums
\* of votes, although messages that nothing stands behind make nodes forget
\* entries and certified children.
Abstract == INSTANCE Checkpoint WITH voted <- cast, final <- announced
ImplementsCheckpoint == Abstract!Spec

-----------------------------------------------------------------------------
(* Liveness. *)

\* Of three blocks in a row one is committed in the end (and if that is not the
\* first, the commit rule may no longer see the three-chain).
ChainsCommit ==
  \A n \in Nodes : \A b, c, g \in Blocks :
    ThreeChain(b, c, g) => <>({b, c, g} \cap committed[n] # {})

\* Nodes vote for a block only after its parent.
ParentsFirst == \A n \in Nodes : \A b \in cast[n] : Parent[b] \in cast[n] \cup {NoBlock}

\* When blocks reach the nodes in the order of the chain, chains do commit.
OrderedChainsCommit == []ParentsFirst => ChainsCommit

\* A pending block does not wait for ever although it arrives only once: the
\* node votes for it, or is locked on it or on a block it does not descend from.
PendingResolves ==
  \A n \in Nodes, b \in Blocks :
    b \in pending[n] ~>
      \/ b \in cast[n]
      \/ locked[n] = b
      \/ locked[n] # NoBlock /\ locked[n] \notin Ancestors[b]

=============================================================================
