------------------------- MODULE L2CheckpointProofs -------------------------
(***************************************************************************)
(* Proofs about L2Checkpoint for every set of nodes, tree of blocks,       *)
(* membership, number of goroutines and set of claimed commits.            *)
(***************************************************************************)
EXTENDS L2Checkpoint, FiniteSetTheorems, TLAPS

-----------------------------------------------------------------------------
(* Types. *)

\* Every set of signers offered as a QC consists of validators.
LEMMA CertificatesAreValidators ==
  ASSUME NEW b, NEW V \in CertificatesOf(b)
  PROVE  V \subseteq Validators
BY DEF CertificatesOf, Quorums

\* A set kept per node stays one when the set of one node is replaced.
LEMMA NodeSetType ==
  ASSUME NEW T, NEW f \in [Nodes -> SUBSET T], NEW g, NEW n \in Nodes,
         g = f \/ \E X \in SUBSET T : g = [f EXCEPT ![n] = X]
  PROVE  g \in [Nodes -> SUBSET T]
<1>1. CASE g = f
  BY <1>1
<1>2. CASE \E X \in SUBSET T : g = [f EXCEPT ![n] = X]
  BY <1>2
<1> QED
  BY <1>1, <1>2

\* A new QC in the making has the type of one.
LEMMA BuiltType ==
  ASSUME TypeOK, NEW n \in Nodes, NEW q \in QCs,
         built' = built \/ built' = [built EXCEPT ![n] = @ \cup {q}]
  PROVE  built' \in [Nodes -> SUBSET QCs]
<1>1. built[n] \cup {q} \in SUBSET QCs /\ built \in [Nodes -> SUBSET QCs]
  BY DEF TypeOK
<1> QED
  BY <1>1, NodeSetType

\* Storing a QC keeps the types of the variables it may change.
LEMMA StoreQCType ==
  ASSUME TypeOK, NEW n \in Nodes, NEW q \in built[n], StoreQC(n, q)
  PROVE  TypeOK'
<1> DEFINE b == q.block
<1>1. q \in QCs /\ b \in Blocks /\ q.signers \in SUBSET Validators
  BY DEF TypeOK, QCs
<1>2. built' \in [Nodes -> SUBSET QCs]
  BY DEF StoreQC, TypeOK
<1>3. UNCHANGED <<known, quorum, votes, sentVote, pending, marked, building, cast, commitVars>>
  BY DEF StoreQC
<1>4. CASE qcs[n][b] # {}
  BY <1>2, <1>3, <1>4 DEF StoreQC, TypeOK, qcVars, commitVars
<1>5. CASE qcs[n][b] = {}
  <2> DEFINE k == [x \in Blocks |-> IF x = ParentIn(q) THEN kids[n][x] \cup {b} ELSE kids[n][x]]
  <2>1. k \in [Blocks -> SUBSET Blocks]
    BY <1>1 DEF TypeOK
  <2>2. /\ qcs' = [qcs EXCEPT ![n][b] = q.signers]
        /\ kids' = [kids EXCEPT ![n] = k]
        /\ locked' = [locked EXCEPT ![n] = LockAfterQC(n, b)]
        /\ retrying' = [retrying EXCEPT ![n] = TRUE]
        /\ checks' = [checks EXCEPT ![n] = @ \cup CommitCandidates(n, q)]
    BY <1>5 DEF StoreQC
  <2>3. LockAfterQC(n, b) \in Blocks \cup {NoBlock}
    BY <1>1 DEF LockAfterQC, TypeOK
  <2>4. CommitCandidates(n, q) \in SUBSET Blocks
    <3>1. ParentIn(q) \in Blocks \cup {NoBlock}
      BY <1>1, ChainAssumption DEF ParentIn
    <3>2. \A x \in known[n] : Parent[x] \in Blocks \cup {NoBlock}
      BY ChainAssumption DEF TypeOK
    <3> QED
      BY <1>1, <3>1, <3>2 DEF CommitCandidates
  <2> HIDE DEF k
  <2>5. kids' \in [Nodes -> [Blocks -> SUBSET Blocks]]
    BY <2>1, <2>2 DEF TypeOK
  <2>6. qcs' \in [Nodes -> [Blocks -> SUBSET Validators]]
    BY <1>1, <2>2 DEF TypeOK
  <2>7. /\ locked' \in [Nodes -> Blocks \cup {NoBlock}]
        /\ retrying' \in [Nodes -> BOOLEAN]
        /\ checks' \in [Nodes -> SUBSET Blocks]
    BY <2>2, <2>3, <2>4 DEF TypeOK
  <2> QED
    BY <1>2, <1>3, <2>5, <2>6, <2>7 DEF TypeOK, commitVars
<1> QED
  BY <1>4, <1>5

\* The same for recording a vote.
LEMMA ConsumeVoteType ==
  ASSUME TypeOK, NEW n \in Nodes, NEW v \in Validators, NEW b \in Blocks,
         ConsumeVote(n, v, b)
  PROVE  /\ votes' \in [Nodes -> [Blocks -> SUBSET Validators]]
         /\ known' \in [Nodes -> SUBSET Blocks]
         /\ building' \in [Nodes -> SUBSET Blocks]
<1>1. votes' \in [Nodes -> [Blocks -> SUBSET Validators]]
  BY DEF ConsumeVote, TypeOK
<1>2. /\ known[n] \cup {b} \in SUBSET Blocks /\ building[n] \cup {b} \in SUBSET Blocks
      /\ known \in [Nodes -> SUBSET Blocks] /\ building \in [Nodes -> SUBSET Blocks]
  BY DEF TypeOK
<1>3. known' = known \/ known' = [known EXCEPT ![n] = known[n] \cup {b}]
  BY DEF ConsumeVote
<1>4. building' = building \/ building' = [building EXCEPT ![n] = building[n] \cup {b}]
  BY DEF ConsumeVote
<1>5. known' \in [Nodes -> SUBSET Blocks]
  BY <1>2, <1>3, NodeSetType
<1>6. building' \in [Nodes -> SUBSET Blocks]
  BY <1>2, <1>4, NodeSetType
<1> QED
  BY <1>1, <1>5, <1>6

\* Every variable keeps its type.
THEOREM TypeCorrect == Spec => []TypeOK
<1>1. Init => TypeOK
  BY DEF Init, TypeOK
<1>2. TypeOK /\ [Next]_vars => TypeOK'
  <2> SUFFICES ASSUME TypeOK, [Next]_vars
               PROVE  TypeOK'
    OBVIOUS
  <2>1. ASSUME NEW n \in Nodes, NEW b \in Blocks, UpdateBlockInfo(n, b)
        PROVE  TypeOK'
    BY <2>1 DEF UpdateBlockInfo, TypeOK, qcVars, voteVars, commitVars
  <2>2. ASSUME NEW n \in Nodes, NEW b \in Blocks, MarkVoteIfSafe(n, b)
        PROVE  TypeOK'
    <3>1. UNCHANGED <<known, quorum, qcVars, votes, building, built, cast, commitVars>>
      BY <2>2 DEF MarkVoteIfSafe
    <3>2. \/ /\ pending' = [pending EXCEPT ![n] = @ \ {b}]
             /\ sentVote' = [sentVote EXCEPT ![n] = @ \cup {b}]
             /\ marked' = [marked EXCEPT ![n] = @ \cup {b}]
          \/ /\ pending' = [pending EXCEPT ![n] = @ \cup {b}]
             /\ UNCHANGED <<sentVote, marked>>
      BY <2>2 DEF MarkVoteIfSafe
    <3>3. CASE /\ pending' = [pending EXCEPT ![n] = @ \ {b}]
               /\ sentVote' = [sentVote EXCEPT ![n] = @ \cup {b}]
               /\ marked' = [marked EXCEPT ![n] = @ \cup {b}]
      BY <3>1, <3>3 DEF TypeOK, qcVars, commitVars
    <3>4. CASE /\ pending' = [pending EXCEPT ![n] = @ \cup {b}]
               /\ UNCHANGED <<sentVote, marked>>
      BY <3>1, <3>4 DEF TypeOK, qcVars, commitVars
    <3> QED
      BY <3>2, <3>3, <3>4
  <2>3. ASSUME NEW n \in Nodes, NEW b \in Blocks, OnCommit(n, b)
        PROVE  TypeOK'
    BY <2>3 DEF OnCommit, TypeOK, qcVars, voteVars
  <2>4. ASSUME NEW n \in Nodes, NEW b \in Blocks, PublishVote(n, b)
        PROVE  TypeOK'
    <3>1. n \in Validators
      BY DEF Validators
    <3>2. /\ votes' \in [Nodes -> [Blocks -> SUBSET Validators]]
          /\ known' \in [Nodes -> SUBSET Blocks]
          /\ building' \in [Nodes -> SUBSET Blocks]
      BY <2>4, <3>1, ConsumeVoteType DEF PublishVote
    <3> QED
      BY <2>4, <3>2 DEF PublishVote, TypeOK, qcVars, commitVars
  <2>5. ASSUME NEW n \in Nodes, NEW b \in Blocks, BuildQC(n, b)
        PROVE  TypeOK'
    <3> DEFINE q == [block |-> b, signers |-> votes[n][b], entry |-> b \in known[n]]
    <3>1. q \in QCs
      BY DEF QCs, TypeOK
    <3>2. built' = built \/ built' = [built EXCEPT ![n] = @ \cup {q}]
      BY <2>5 DEF BuildQC
    <3> HIDE DEF q
    <3>3. built' \in [Nodes -> SUBSET QCs]
      BY <3>1, <3>2, BuiltType
    <3> QED
      BY <2>5, <3>3 DEF BuildQC, TypeOK, qcVars, commitVars
  <2>6. ASSUME NEW n \in Nodes, NEW b \in Blocks, CheckCommitFor(n, b)
        PROVE  TypeOK'
    <3>1. /\ checks' = [checks EXCEPT ![n] = @ \ {b}]
          /\ UNCHANGED <<known, quorum, qcs, kids, locked, retrying, voteVars>>
      BY <2>6 DEF CheckCommitFor
    <3>2. checks' \in [Nodes -> SUBSET Blocks]
      BY <3>1 DEF TypeOK
    <3>3. \/ UNCHANGED commitVars
          \/ /\ committed' = [committed EXCEPT ![n] = @ \cup {b}]
             /\ announced' = [announced EXCEPT ![n] = @ \cup {b}]
      BY <2>6 DEF CheckCommitFor
    <3>4. /\ committed' = committed \/ committed' = [committed EXCEPT ![n] = committed[n] \cup {b}]
          /\ announced' = announced \/ announced' = [announced EXCEPT ![n] = announced[n] \cup {b}]
      BY <3>3 DEF commitVars
    <3>5. /\ committed[n] \cup {b} \in SUBSET Blocks /\ announced[n] \cup {b} \in SUBSET Blocks
          /\ committed \in [Nodes -> SUBSET Blocks] /\ announced \in [Nodes -> SUBSET Blocks]
      BY DEF TypeOK
    <3>6. committed' \in [Nodes -> SUBSET Blocks]
      BY <3>4, <3>5, NodeSetType
    <3>7. announced' \in [Nodes -> SUBSET Blocks]
      BY <3>4, <3>5, NodeSetType
    <3> QED
      BY <3>1, <3>2, <3>6, <3>7 DEF TypeOK, voteVars
  <2>7. ASSUME NEW n \in Nodes, NEW b \in Blocks, NEW v \in Validators, OnVote(n, v, b)
        PROVE  TypeOK'
    <3>1. /\ votes' \in [Nodes -> [Blocks -> SUBSET Validators]]
          /\ known' \in [Nodes -> SUBSET Blocks]
          /\ building' \in [Nodes -> SUBSET Blocks]
      BY <2>7, ConsumeVoteType DEF OnVote
    <3> QED
      BY <2>7, <3>1 DEF OnVote, TypeOK, qcVars, commitVars
  <2>8. ASSUME NEW n \in Nodes, NEW b \in Blocks, NEW V \in CertificatesOf(b), OnQC(n, b, V)
        PROVE  TypeOK'
    <3> DEFINE q == [block |-> b, signers |-> V, entry |-> TRUE]
    <3>1. q \in QCs
      BY CertificatesAreValidators DEF QCs
    <3>2. built' = built \/ built' = [built EXCEPT ![n] = @ \cup {q}]
      BY <2>8 DEF OnQC
    <3> HIDE DEF q
    <3>3. built' \in [Nodes -> SUBSET QCs]
      BY <3>1, <3>2, BuiltType
    <3> QED
      BY <2>8, <3>3 DEF OnQC, TypeOK, qcVars, commitVars
  <2>9. ASSUME NEW n \in Nodes, NEW q \in built[n], StoreQC(n, q)
        PROVE  TypeOK'
    BY <2>9, StoreQCType
  <2>10. ASSUME NEW n \in Nodes, RetryPendingVotes(n)
         PROVE  TypeOK'
    <3>1. UNCHANGED <<known, quorum, qcs, kids, locked, checks, votes, building, built,
                      cast, commitVars>>
      BY <2>10 DEF RetryPendingVotes
    <3>2. /\ pending' \in [Nodes -> SUBSET Blocks]
          /\ sentVote' \in [Nodes -> SUBSET Blocks]
          /\ marked' \in [Nodes -> SUBSET Blocks]
          /\ retrying' \in [Nodes -> BOOLEAN]
      <4>1. ASSUME NEW b \in pending[n], NEW stale \in SUBSET pending[n],
                   pending' = [pending EXCEPT ![n] = @ \ (stale \cup {b})],
                   sentVote' = [sentVote EXCEPT ![n] = @ \cup {b}],
                   marked' = [marked EXCEPT ![n] = @ \cup {b}]
            PROVE  /\ pending' \in [Nodes -> SUBSET Blocks]
                   /\ sentVote' \in [Nodes -> SUBSET Blocks]
                   /\ marked' \in [Nodes -> SUBSET Blocks]
        BY <4>1 DEF TypeOK
      <4>2. ASSUME NEW live \in SUBSET pending[n], pending' = [pending EXCEPT ![n] = live]
            PROVE  pending' \in [Nodes -> SUBSET Blocks]
        BY <4>2 DEF TypeOK
      <4>3. retrying' \in [Nodes -> BOOLEAN]
        BY <2>10 DEF RetryPendingVotes, TypeOK
      <4>4. \/ \E b \in pending[n], stale \in SUBSET pending[n] :
                  /\ pending' = [pending EXCEPT ![n] = @ \ (stale \cup {b})]
                  /\ sentVote' = [sentVote EXCEPT ![n] = @ \cup {b}]
                  /\ marked' = [marked EXCEPT ![n] = @ \cup {b}]
            \/ /\ \E live \in SUBSET pending[n] : pending' = [pending EXCEPT ![n] = live]
               /\ UNCHANGED <<sentVote, marked>>
        BY <2>10 DEF RetryPendingVotes
      <4> QED
        BY <4>1, <4>2, <4>3, <4>4 DEF TypeOK
    <3> QED
      BY <3>1, <3>2 DEF TypeOK, commitVars
  <2>11. ASSUME NEW n \in Nodes, PruneExpired(n)
         PROVE  TypeOK'
    <3>1. votes' \in [Nodes -> [Blocks -> SUBSET Validators]]
      <4>1. CASE UNCHANGED votes
        BY <4>1 DEF TypeOK
      <4>2. ASSUME NEW b \in Blocks, NEW v \in votes[n][b],
                   votes' = [votes EXCEPT ![n][b] = @ \ {v}]
            PROVE  votes' \in [Nodes -> [Blocks -> SUBSET Validators]]
        BY <4>2 DEF TypeOK
      <4> QED
        BY <2>11, <4>1, <4>2 DEF PruneExpired
    <3>2. kids' \in [Nodes -> [Blocks -> SUBSET Blocks]]
      <4> DEFINE k == [b \in Blocks |-> IF b \in committed[n] THEN {}
                                        ELSE {c \in kids[n][b] : qcs[n][c] # {}}]
      <4>1. k \in [Blocks -> SUBSET Blocks]
        BY DEF TypeOK
      <4>2. kids' = [kids EXCEPT ![n] = k]
        BY <2>11 DEF PruneExpired
      <4> HIDE DEF k
      <4> QED
        BY <4>1, <4>2 DEF TypeOK
    <3> QED
      BY <2>11, <3>1, <3>2 DEF PruneExpired, TypeOK, commitVars
  <2>12. ASSUME NEW n \in Nodes, NEW m \in Memberships, UpdateQuorumSize(n, m)
         PROVE  TypeOK'
    BY <2>12 DEF UpdateQuorumSize, TypeOK, QuorumSizes, qcVars, voteVars, commitVars
  <2>13. CASE UNCHANGED vars
    BY <2>13 DEF TypeOK, vars, qcVars, voteVars, commitVars
  <2> QED
    BY <2>1, <2>2, <2>3, <2>4, <2>5, <2>6, <2>7, <2>8, <2>9, <2>10, <2>11, <2>12, <2>13
    DEF Next
<1> QED
  BY <1>1, <1>2, PTL DEF Spec

-----------------------------------------------------------------------------
(* The shapes of a step. *)

\* No published vote is taken back.
CastGrows == \A m \in Nodes : cast[m] \subseteq cast'[m]

\* No entry of the map "blocks" goes.
KnownGrows == \A m \in Nodes : known[m] \subseteq known'[m]

\* More votes leave every certificate and every justified commit in place.
LEMMA CertificatesStay ==
  ASSUME CastGrows
  PROVE  \A b \in Blocks :
           /\ Voters(b) \subseteq Voters(b)'
           /\ CertificatesOf(b) \subseteq CertificatesOf(b)'
           /\ Committable(b) => Committable(b)'
<1>1. \A b : Voters(b) \subseteq Voters(b)'
  BY DEF CastGrows, Voters
<1>2. \A b : CertificatesOf(b) \subseteq CertificatesOf(b)'
  BY <1>1 DEF CertificatesOf
<1>3. \A b : Committable(b) => Committable(b)'
  <2> SUFFICES ASSUME NEW b, Committable(b)
               PROVE  Committable(b)'
    OBVIOUS
  <2>1. PICK c \in Blocks, g \in Blocks :
          ThreeChain(b, c, g) /\ \A x \in {b, c, g} : CertificatesOf(x) # {}
    BY DEF Committable
  <2>2. \A x \in {b, c, g} : CertificatesOf(x)' # {}
    BY <1>2, <2>1
  <2> QED
    BY <2>1, <2>2 DEF Committable, ThreeChain
<1> QED
  BY <1>1, <1>2, <1>3

\* Node n stores q, the first QC of its block, read pointwise.
Stores(n, q) ==
  /\ q \in built[n] /\ qcs[n][q.block] = {}
  /\ \A m \in Nodes, x \in Blocks :
       qcs'[m][x] = IF m = n /\ x = q.block THEN q.signers ELSE qcs[m][x]
  /\ \A m \in Nodes, x \in Blocks :
       kids'[m][x] = IF m = n /\ x = ParentIn(q) THEN kids[m][x] \cup {q.block} ELSE kids[m][x]
  /\ \A m \in Nodes : locked'[m] = IF m = n THEN LockAfterQC(n, q.block) ELSE locked[m]
  /\ \A m \in Nodes :
       checks'[m] = IF m = n THEN checks[m] \cup CommitCandidates(n, q) ELSE checks[m]
  /\ UNCHANGED <<known, votes, building, marked, cast, commitVars>>
  /\ \A m \in Nodes : built'[m] \subseteq built[m]

\* Nothing certified, locked or committed changes: votes may be cast and
\* counted, and what is counted and built is backed.
Progresses(n) ==
  /\ UNCHANGED <<qcs, kids, locked, checks, commitVars>>
  /\ CastGrows
  /\ \A m \in Nodes \ {n} : cast'[m] = cast[m]
  /\ KnownGrows
  /\ VotesAreCast'
  /\ BuiltAreBacked'

\* storeQC drops a second QC of a block or stores the first.
LEMMA StoreQCShape ==
  ASSUME TypeOK, VotesAreCast, BuiltAreBacked, NEW n \in Nodes, NEW q \in built[n], StoreQC(n, q)
  PROVE  Stores(n, q) \/ Progresses(n)
<1> DEFINE b == q.block
<1>1. b \in Blocks
  BY DEF TypeOK, QCs
<1>2. /\ UNCHANGED <<known, votes, building, marked, cast, commitVars>>
      /\ built' = [built EXCEPT ![n] = @ \ {q}]
  BY DEF StoreQC
<1>3. \A m \in Nodes : built'[m] \subseteq built[m]
  BY <1>2 DEF TypeOK
<1>4. CASE qcs[n][b] # {}
  <2>1. UNCHANGED <<qcs, kids, locked, checks, known, cast>> /\ CastGrows /\ KnownGrows
    BY <1>2, <1>4 DEF StoreQC, qcVars, CastGrows, KnownGrows
  <2>2. \A x : Voters(x)' = Voters(x) /\ CertificatesOf(x)' = CertificatesOf(x)
    BY <1>2 DEF Voters, CertificatesOf
  <2>3. VotesAreCast' /\ BuiltAreBacked'
    BY <1>2, <1>3, <2>2 DEF VotesAreCast, BuiltAreBacked, commitVars
  <2> QED
    BY <1>2, <2>1, <2>3 DEF Progresses
<1>5. CASE qcs[n][b] = {}
  <2> DEFINE k == [x \in Blocks |-> IF x = ParentIn(q) THEN kids[n][x] \cup {b} ELSE kids[n][x]]
  <2>1. /\ qcs' = [qcs EXCEPT ![n][b] = q.signers]
        /\ kids' = [kids EXCEPT ![n] = k]
        /\ locked' = [locked EXCEPT ![n] = LockAfterQC(n, b)]
        /\ checks' = [checks EXCEPT ![n] = @ \cup CommitCandidates(n, q)]
    BY <1>5 DEF StoreQC
  <2>2. \A x \in Blocks :
          k[x] = IF x = ParentIn(q) THEN kids[n][x] \cup {b} ELSE kids[n][x]
    OBVIOUS
  <2> HIDE DEF k
  <2>3. kids'[n] = k /\ \A m \in Nodes \ {n} : kids'[m] = kids[m]
    BY <2>1 DEF TypeOK
  <2>4. \A m \in Nodes, x \in Blocks :
          qcs'[m][x] = IF m = n /\ x = b THEN q.signers ELSE qcs[m][x]
    BY <1>1, <2>1 DEF TypeOK
  <2>5. \A m \in Nodes :
          /\ locked'[m] = IF m = n THEN LockAfterQC(n, b) ELSE locked[m]
          /\ checks'[m] = IF m = n THEN checks[m] \cup CommitCandidates(n, q) ELSE checks[m]
    BY <2>1 DEF TypeOK
  <2> QED
    BY <1>2, <1>3, <1>5, <2>2, <2>3, <2>4, <2>5 DEF Stores
<1> QED
  BY <1>4, <1>5

\* A vote that is counted was cast, and a QC is built for known blocks only.
LEMMA ConsumeVoteShape ==
  ASSUME TypeOK, VotesAreCast, BuiltAreBacked, CastGrows,
         NEW n \in Nodes, NEW b \in Blocks, NEW v \in Validators,
         \A m \in Nodes \ {n} : cast'[m] = cast[m],
         ConsumeVote(n, v, b), v \in Voters(b)',
         UNCHANGED <<qcVars, built, commitVars>>
  PROVE  Progresses(n)
<1>1. \A m \in Nodes, x \in Blocks :
         votes'[m][x] \subseteq votes[m][x] \cup (IF m = n /\ x = b THEN {v} ELSE {})
  BY DEF ConsumeVote, TypeOK
<1>2. \A x \in Blocks : /\ Voters(x) \subseteq Voters(x)'
                        /\ CertificatesOf(x) \subseteq CertificatesOf(x)'
  BY CertificatesStay
<1>3. VotesAreCast'
  BY <1>1, <1>2 DEF VotesAreCast
<1>4. ASSUME v \in votes[n][b]
      PROVE  KnownGrows /\ \A m \in Nodes : building'[m] \subseteq building[m] \cup known'[m]
  <2>1. known' = known /\ building' = building
    BY <1>4 DEF ConsumeVote
  <2> QED
    BY <2>1 DEF KnownGrows
<1>5. ASSUME v \notin votes[n][b]
      PROVE  KnownGrows /\ \A m \in Nodes : building'[m] \subseteq building[m] \cup known'[m]
  <2>1. known' = [known EXCEPT ![n] = @ \cup {b}]
    BY <1>5 DEF ConsumeVote
  <2>2. KnownGrows /\ b \in known'[n]
    BY <2>1 DEF KnownGrows, TypeOK
  <2>3. building' = building \/ building' = [building EXCEPT ![n] = @ \cup {b}]
    BY <1>5 DEF ConsumeVote
  <2>4. \A m \in Nodes : building'[m] \subseteq building[m] \cup (IF m = n THEN {b} ELSE {})
    BY <2>3 DEF TypeOK
  <2> QED
    BY <2>2, <2>4 DEF KnownGrows
<1>6. /\ KnownGrows
      /\ \A m \in Nodes : building'[m] \subseteq building[m] \cup known'[m]
  BY <1>4, <1>5
<1>7. BuiltAreBacked'
  <2>1. \A m \in Nodes : \A q \in built[m] : q.block \in Blocks
    BY DEF TypeOK, QCs
  <2>2. UNCHANGED <<built, committed>>
    BY DEF commitVars
  <2> QED
    BY <1>2, <1>6, <2>1, <2>2 DEF BuiltAreBacked, KnownGrows
<1> QED
  BY <1>3, <1>6, <1>7 DEF Progresses, qcVars

\* The QC that BuildQC or a QC message adds is backed.
LEMMA BuildShape ==
  ASSUME TypeOK, VotesAreCast, BuiltAreBacked, NEW n \in Nodes, NEW b \in Blocks,
         UNCHANGED <<qcVars, votes, cast, commitVars>>, KnownGrows,
         NEW V \in CertificatesOf(b), b \in known'[n] \cup committed[n],
         NEW e, e = (b \in known'[n]),
         built' = built \/ built' = [built EXCEPT ![n] = @ \cup
                                       {[block |-> b, signers |-> V, entry |-> e]}],
         \A m \in Nodes : building'[m] \subseteq building[m]
  PROVE  Progresses(n)
<1>1. \A x : Voters(x)' = Voters(x) /\ CertificatesOf(x)' = CertificatesOf(x)
  BY DEF Voters, CertificatesOf
<1>2. VotesAreCast'
  BY <1>1 DEF VotesAreCast
<1>3. \A m \in Nodes : \A q \in built'[m] :
        q \in built[m] \/ (m = n /\ q = [block |-> b, signers |-> V, entry |-> e])
  BY DEF TypeOK
<1>4. BuiltAreBacked'
  <2>1. UNCHANGED committed
    BY DEF commitVars
  <2>2. ASSUME NEW m \in Nodes, NEW q \in (built[m])'
        PROVE  /\ q.signers \in CertificatesOf(q.block)
               /\ q.block \in known'[m] \cup committed[m]
               /\ q.entry \/ q.block \in committed[m]
    <3>1. CASE q \in built[m]
      BY <3>1 DEF BuiltAreBacked, KnownGrows
    <3>2. CASE m = n /\ q = [block |-> b, signers |-> V, entry |-> e]
      BY <3>2
    <3> QED
      BY <1>3, <2>2, <3>1, <3>2
  <2> QED
    BY <1>1, <2>1, <2>2 DEF BuiltAreBacked, KnownGrows
<1> QED
  BY <1>2, <1>4 DEF Progresses, qcVars, CastGrows

\* Every step is of one of four shapes.
LEMMA StepShape ==
  ASSUME TypeOK, VotesAreCast, BuiltAreBacked, Next
  PROVE  \E n \in Nodes :
           \/ PruneExpired(n)
           \/ \E b \in Blocks : OnCommit(n, b) \/ CheckCommitFor(n, b)
           \/ \E q \in built[n] : Stores(n, q)
           \/ Progresses(n)
<1>1. ASSUME NEW n \in Nodes, KnownGrows,
             UNCHANGED <<qcs, kids, locked, checks, votes, building, built, cast, commitVars>>
      PROVE  Progresses(n)
  <2>1. \A x : Voters(x)' = Voters(x) /\ CertificatesOf(x)' = CertificatesOf(x)
    BY <1>1 DEF Voters, CertificatesOf
  <2>2. VotesAreCast' /\ BuiltAreBacked'
    BY <1>1, <2>1 DEF VotesAreCast, BuiltAreBacked, KnownGrows, commitVars
  <2> QED
    BY <1>1, <2>2 DEF Progresses, CastGrows
<1>2. ASSUME NEW n \in Nodes, NEW b \in Blocks, UpdateBlockInfo(n, b)
      PROVE  Progresses(n)
  <2>1. KnownGrows
    BY <1>2 DEF UpdateBlockInfo, KnownGrows, TypeOK
  <2> QED
    BY <1>1, <1>2, <2>1 DEF UpdateBlockInfo, qcVars, voteVars
<1>3. ASSUME NEW n \in Nodes, NEW b \in Blocks, MarkVoteIfSafe(n, b)
      PROVE  Progresses(n)
  BY <1>1, <1>3 DEF MarkVoteIfSafe, qcVars, KnownGrows
<1>4. ASSUME NEW n \in Nodes, NEW b \in Blocks, PublishVote(n, b)
      PROVE  Progresses(n)
  <2>1. /\ cast' = [cast EXCEPT ![n] = @ \cup {b}]
        /\ ConsumeVote(n, n, b)
        /\ UNCHANGED <<qcVars, built, commitVars>>
    BY <1>4 DEF PublishVote
  <2>2. /\ CastGrows /\ b \in cast'[n]
        /\ \A m \in Nodes \ {n} : cast'[m] = cast[m]
    BY <2>1 DEF CastGrows, TypeOK
  <2>3. n \in Voters(b)' /\ n \in Validators
    BY <2>2 DEF Voters, Validators
  <2> QED
    BY <2>1, <2>2, <2>3, ConsumeVoteShape
<1>5. ASSUME NEW n \in Nodes, NEW b \in Blocks, NEW v \in Validators, OnVote(n, v, b)
      PROVE  Progresses(n)
  <2>1. /\ v \in Voters(b)
        /\ ConsumeVote(n, v, b)
        /\ UNCHANGED <<qcVars, built, cast, commitVars>>
    BY <1>5 DEF OnVote
  <2>2. CastGrows /\ v \in Voters(b)' /\ \A m \in Nodes \ {n} : cast'[m] = cast[m]
    BY <2>1 DEF CastGrows, Voters
  <2> QED
    BY <2>1, <2>2, ConsumeVoteShape
<1>6. ASSUME NEW n \in Nodes, NEW b \in Blocks, BuildQC(n, b)
      PROVE  Progresses(n)
  <2> DEFINE V == votes[n][b]
             e == b \in known[n]
  <2>1. /\ UNCHANGED <<known, qcVars, votes, cast, commitVars>>
        /\ building' = [building EXCEPT ![n] = @ \ {b}]
        /\ b \in building[n]
    BY <1>6 DEF BuildQC
  <2>2. KnownGrows /\ known'[n] = known[n] /\ \A m \in Nodes : building'[m] \subseteq building[m]
    BY <2>1 DEF KnownGrows, TypeOK
  <2>3. CASE Cardinality(V) >= quorum[n]
    <3>1. V \in CertificatesOf(b)
      <4>1. V \subseteq Voters(b) /\ V \subseteq Validators /\ quorum[n] \in QuorumSizes
        BY DEF VotesAreCast, TypeOK
      <4> QED
        BY <2>3, <4>1 DEF CertificatesOf, Quorums
    <3>2. b \in known'[n] \cup committed[n]
      BY <2>1, <2>2 DEF BuiltAreBacked
    <3>3. built' = built \/ built' = [built EXCEPT ![n] = @ \cup
                                        {[block |-> b, signers |-> V, entry |-> e]}]
      BY <1>6 DEF BuildQC
    <3>4. e = (b \in known'[n])
      BY <2>2
    <3> HIDE DEF V, e
    <3> QED
      BY <2>1, <2>2, <3>1, <3>2, <3>3, <3>4, BuildShape
  <2>4. CASE ~(Cardinality(V) >= quorum[n])
    <3>1. built' = built
      BY <1>6, <2>4 DEF BuildQC
    <3>2. \A x : Voters(x)' = Voters(x) /\ CertificatesOf(x)' = CertificatesOf(x)
      BY <2>1 DEF Voters, CertificatesOf
    <3>3. VotesAreCast' /\ BuiltAreBacked'
      BY <2>1, <2>2, <3>1, <3>2 DEF VotesAreCast, BuiltAreBacked, commitVars
    <3> QED
      BY <2>1, <2>2, <3>3 DEF Progresses, CastGrows, qcVars
  <2> QED
    BY <2>3, <2>4
<1>7. ASSUME NEW n \in Nodes, NEW b \in Blocks, NEW V \in CertificatesOf(b), OnQC(n, b, V)
      PROVE  Progresses(n)
  <2> DEFINE e == TRUE
  <2>1. /\ known' = [known EXCEPT ![n] = @ \cup {b}]
        /\ UNCHANGED <<qcVars, votes, building, cast, commitVars>>
        /\ built' = built \/ built' = [built EXCEPT ![n] = @ \cup
                                         {[block |-> b, signers |-> V, entry |-> e]}]
    BY <1>7 DEF OnQC
  <2>2. KnownGrows /\ b \in known'[n]
    BY <2>1 DEF KnownGrows, TypeOK
  <2>3. e = (b \in known'[n])
    BY <2>2
  <2> HIDE DEF e
  <2> QED
    BY <2>1, <2>2, <2>3, BuildShape
<1>8. ASSUME NEW n \in Nodes, RetryPendingVotes(n)
      PROVE  Progresses(n)
  BY <1>1, <1>8 DEF RetryPendingVotes, KnownGrows
<1>9. ASSUME NEW n \in Nodes, NEW m \in Memberships, UpdateQuorumSize(n, m)
      PROVE  Progresses(n)
  BY <1>1, <1>9 DEF UpdateQuorumSize, KnownGrows, qcVars, voteVars
<1>10. ASSUME NEW n \in Nodes, NEW q \in built[n], StoreQC(n, q)
       PROVE  Stores(n, q) \/ Progresses(n)
  BY <1>10, StoreQCShape
<1> QED
  BY <1>2, <1>3, <1>4, <1>5, <1>6, <1>7, <1>8, <1>9, <1>10 DEF Next

-----------------------------------------------------------------------------
(* The inductive invariant. *)

\* A quorum is at least three, whatever the membership reports.
LEMMA QuorumAtLeastThree == \A q \in QuorumSizes : q \in Nat /\ q >= 3
<1>1. \A m \in Nat : HotstuffQuorumSize(m) \in Nat /\ HotstuffQuorumSize(m) >= 3
  BY DEF HotstuffQuorumSize
<1> QED
  BY <1>1, ValidatorAssumption DEF QuorumSizes

\* So no QC is without signers.
LEMMA CertificatesAreNonempty ==
  ASSUME NEW b, NEW V \in CertificatesOf(b)
  PROVE  V # {}
BY QuorumAtLeastThree, FS_EmptySet DEF CertificatesOf, Quorums

\* A step that neither stores a QC nor commits nor sweeps keeps the invariant.
LEMMA ProgressKeepsIInv ==
  ASSUME IInv, TypeOK', NEW n \in Nodes, Progresses(n)
  PROVE  IInv'
<1>1. /\ VotesAreCast' /\ BuiltAreBacked'
      /\ UNCHANGED <<qcs, kids, locked, checks, committed, announced>>
      /\ \A m \in Nodes : known[m] \subseteq known'[m]
  BY DEF Progresses, KnownGrows, commitVars
<1>2. \A b \in Blocks : CertificatesOf(b) \subseteq CertificatesOf(b)'
                        /\ (Committable(b) => Committable(b)')
  BY CertificatesStay DEF Progresses
<1>3. QCsAreBacked'
  BY <1>1, <1>2 DEF IInv, QCsAreBacked
<1>4. KidsAreChildren' /\ KidsAreComplete' /\ LockIsCertified' /\ CommitRuleComplete'
  BY <1>1 DEF IInv, KidsAreChildren, KidsAreComplete, LockIsCertified, CommitRuleComplete,
              ThreeChain
<1>5. CertifiedAreKnown'
  BY <1>1 DEF IInv, CertifiedAreKnown
<1>6. CommitsAreJustified'
  BY <1>1, <1>2 DEF IInv, CommitsAreJustified, TypeOK
<1> QED
  BY <1>1, <1>3, <1>4, <1>5, <1>6 DEF IInv

\* So does a step that stores a QC: if the entry of its block was missing when
\* it was built, and with it the parent, the block is committed by now.
LEMMA StoringKeepsIInv ==
  ASSUME IInv, TypeOK', NEW n \in Nodes, NEW q \in built[n], Stores(n, q)
  PROVE  IInv'
<1> DEFINE b == q.block
           V == q.signers
<1>0. TypeOK /\ b \in Blocks
  BY DEF IInv, TypeOK, QCs
<1>1. /\ \A m \in Nodes, x \in Blocks :
           qcs'[m][x] = IF m = n /\ x = b THEN V ELSE qcs[m][x]
      /\ \A m \in Nodes, x \in Blocks :
           kids'[m][x] = IF m = n /\ x = ParentIn(q) THEN kids[m][x] \cup {b} ELSE kids[m][x]
      /\ \A m \in Nodes : locked'[m] = IF m = n THEN LockAfterQC(n, b) ELSE locked[m]
      /\ \A m \in Nodes :
           checks'[m] = IF m = n THEN checks[m] \cup CommitCandidates(n, q) ELSE checks[m]
      /\ UNCHANGED <<known, votes, building, cast, committed, announced>>
      /\ \A m \in Nodes : built'[m] \subseteq built[m]
  BY DEF Stores, commitVars
<1>2. /\ V \in CertificatesOf(b)
      /\ b \in known[n] \cup committed[n]
      /\ b \in committed[n] \/ ParentIn(q) = Parent[b]
  BY DEF IInv, BuiltAreBacked, ParentIn
<1>3. V # {}
  BY <1>2, CertificatesAreNonempty
<1>4. ParentIn(q) \in {Parent[b], NoBlock}
  BY DEF ParentIn
<1>5. \A x : /\ Voters(x)' = Voters(x)
             /\ CertificatesOf(x)' = CertificatesOf(x)
             /\ Committable(x)' <=> Committable(x)
  BY <1>1 DEF Voters, CertificatesOf, Committable, ThreeChain
<1> HIDE DEF b, V
<1>6. VotesAreCast' /\ BuiltAreBacked' /\ CommitsAreJustified'
  BY <1>1, <1>5 DEF IInv, VotesAreCast, BuiltAreBacked, CommitsAreJustified
<1>7. QCsAreBacked'
  BY <1>1, <1>2, <1>5 DEF IInv, QCsAreBacked
<1>8. KidsAreChildren'
  <2> SUFFICES ASSUME NEW m \in Nodes, NEW x \in Blocks, NEW c \in kids'[m][x]
               PROVE  Parent[c] = x
    BY DEF KidsAreChildren
  <2>1. kids'[m][x] = IF m = n /\ x = ParentIn(q) THEN kids[m][x] \cup {b} ELSE kids[m][x]
    BY <1>1
  <2>2. c \in kids[m][x] => Parent[c] = x
    BY DEF IInv, KidsAreChildren
  <2>3. x # NoBlock
    BY ChainAssumption
  <2> QED
    BY <1>4, <2>1, <2>2, <2>3
<1>9. KidsAreComplete'
  <2> SUFFICES ASSUME NEW m \in Nodes, NEW c \in Blocks, qcs'[m][c] # {}, Parent[c] # NoBlock,
                      {c, Parent[c]} \cap committed[m] = {}
               PROVE  c \in kids'[m][Parent[c]]
    BY <1>1 DEF KidsAreComplete
  <2>1. Parent[c] \in Blocks
    BY ChainAssumption
  <2>2. CASE m = n /\ c = b
    BY <1>1, <1>2, <2>1, <2>2
  <2>3. CASE ~(m = n /\ c = b)
    <3>1. qcs[m][c] # {}
      BY <1>1, <2>3
    <3>2. c \in kids[m][Parent[c]]
      BY <3>1 DEF IInv, KidsAreComplete
    <3>3. kids[m][Parent[c]] \subseteq kids'[m][Parent[c]]
      BY <1>1, <2>1
    <3> QED
      BY <3>2, <3>3
  <2> QED
    BY <2>2, <2>3
<1>10. CertifiedAreKnown'
  BY <1>1, <1>2 DEF IInv, CertifiedAreKnown
<1>11. CommitRuleComplete'
  <2> SUFFICES ASSUME NEW m \in Nodes, NEW x \in Blocks, NEW c \in Blocks, NEW g \in Blocks,
                      Parent[c] = x, Parent[g] = c, x \notin checks'[m],
                      qcs'[m][x] # {}, qcs'[m][c] # {}, qcs'[m][g] # {},
                      {x, c, g} \cap committed[m] = {}
               PROVE  FALSE
    BY <1>1 DEF CommitRuleComplete, ThreeChain
  <2>1. CASE m # n \/ b \notin {x, c, g}
    <3>1. qcs[m][x] # {} /\ qcs[m][c] # {} /\ qcs[m][g] # {}
      BY <1>1, <2>1
    <3>2. x \notin checks[m]
      BY <1>1
    <3> QED
      BY <3>1, <3>2 DEF IInv, CommitRuleComplete, ThreeChain
  <2>2. CASE m = n /\ b \in {x, c, g}
    <3>1. ParentIn(q) = Parent[b] /\ x # NoBlock /\ c # NoBlock
      BY <1>2, <2>2, ChainAssumption
    <3>2. c \in known[n]
      BY <1>1, <1>10, <2>2 DEF CertifiedAreKnown
    <3>3. x \in CommitCandidates(n, q)
      BY <2>2, <3>1, <3>2 DEF CommitCandidates, b
    <3> QED
      BY <1>1, <2>2, <3>3
  <2> QED
    BY <2>1, <2>2
<1>12. LockIsCertified'
  <2> SUFFICES ASSUME NEW m \in Nodes, locked'[m] # NoBlock
               PROVE  qcs'[m][locked'[m]] # {}
    BY DEF LockIsCertified
  <2>1. locked'[m] = locked[m] \/ (m = n /\ locked'[m] = b)
    BY <1>1 DEF LockAfterQC
  <2>2. CASE locked'[m] = locked[m]
    <3>1. locked[m] \in Blocks /\ qcs[m][locked[m]] # {}
      BY <1>0, <2>2 DEF IInv, LockIsCertified, TypeOK
    <3> QED
      BY <1>1, <1>3, <2>2, <3>1
  <2>3. CASE m = n /\ locked'[m] = b
    BY <1>0, <1>1, <1>3, <2>3
  <2> QED
    BY <2>1, <2>2, <2>3
<1> QED
  BY <1>6, <1>7, <1>8, <1>9, <1>10, <1>11, <1>12 DEF IInv

\* The sweep keeps the invariant: it drops votes, and what it drops about
\* certified blocks concerns committed ones.
LEMMA PruneKeepsIInv ==
  ASSUME IInv, TypeOK', NEW n \in Nodes, PruneExpired(n)
  PROVE  IInv'
<1>1. /\ TypeOK
      /\ UNCHANGED <<qcs, committed, locked, checks, building, built, cast, announced>>
      /\ known' = [known EXCEPT ![n] = @ \ committed[n]]
  BY DEF IInv, PruneExpired, commitVars
<1>2. \A m \in Nodes : known[m] \subseteq known'[m] \cup committed'[m]
  BY <1>1 DEF TypeOK
<1>3. \A m \in Nodes, b \in Blocks :
        /\ kids'[m][b] \subseteq kids[m][b]
        /\ b \notin committed[m] => \A c \in kids[m][b] : qcs[m][c] # {} => c \in kids'[m][b]
  <2> DEFINE k == [b \in Blocks |-> IF b \in committed[n] THEN {}
                                    ELSE {c \in kids[n][b] : qcs[n][c] # {}}]
  <2>1. kids' = [kids EXCEPT ![n] = k]
    BY DEF PruneExpired
  <2>2. \A b \in Blocks :
          /\ k[b] \subseteq kids[n][b]
          /\ b \notin committed[n] => \A c \in kids[n][b] : qcs[n][c] # {} => c \in k[b]
    OBVIOUS
  <2> HIDE DEF k
  <2>3. kids'[n] = k /\ \A m \in Nodes \ {n} : kids'[m] = kids[m]
    BY <1>1, <2>1 DEF TypeOK
  <2> QED
    BY <2>2, <2>3
<1>4. \A x : Voters(x)' = Voters(x) /\ CertificatesOf(x)' = CertificatesOf(x)
  BY <1>1 DEF Voters, CertificatesOf
<1>5. VotesAreCast'
  <2>1. \A m \in Nodes, b \in Blocks : votes'[m][b] \subseteq votes[m][b]
    <3>1. CASE UNCHANGED votes
      BY <3>1
    <3>2. ASSUME NEW b \in Blocks, NEW v \in votes[n][b],
                 votes' = [votes EXCEPT ![n][b] = @ \ {v}]
          PROVE  \A m \in Nodes, x \in Blocks : votes'[m][x] \subseteq votes[m][x]
      BY <1>1, <3>2 DEF TypeOK
    <3> QED
      BY <3>1, <3>2 DEF PruneExpired
  <2> QED
    BY <1>4, <2>1 DEF IInv, VotesAreCast
<1>6. QCsAreBacked' /\ BuiltAreBacked'
  BY <1>1, <1>2, <1>4 DEF IInv, QCsAreBacked, BuiltAreBacked
<1>7. KidsAreChildren'
  BY <1>3 DEF IInv, KidsAreChildren
<1>8. KidsAreComplete'
  <2> SUFFICES ASSUME NEW m \in Nodes, NEW c \in Blocks, qcs[m][c] # {},
                      Parent[c] # NoBlock, {c, Parent[c]} \cap committed[m] = {}
               PROVE  c \in kids'[m][Parent[c]]
    BY <1>1 DEF KidsAreComplete
  <2>1. Parent[c] \in Blocks
    BY ChainAssumption
  <2>2. c \in kids[m][Parent[c]]
    BY DEF IInv, KidsAreComplete
  <2> QED
    BY <1>3, <2>1, <2>2
<1>9. CertifiedAreKnown'
  BY <1>1, <1>2 DEF IInv, CertifiedAreKnown
<1>10. CommitsAreJustified'
  <2>1. \A x : Committable(x)' <=> Committable(x)
    BY <1>4 DEF Committable, ThreeChain
  <2> QED
    BY <1>1, <2>1 DEF IInv, CommitsAreJustified
<1>11. CommitRuleComplete' /\ LockIsCertified'
  BY <1>1 DEF IInv, CommitRuleComplete, ThreeChain, LockIsCertified
<1> QED
  BY <1>5, <1>6, <1>7, <1>8, <1>9, <1>10, <1>11 DEF IInv

\* A commit message, whoever sent it, only adds to what the node holds as
\* committed.
LEMMA OnCommitKeepsIInv ==
  ASSUME IInv, TypeOK', NEW n \in Nodes, NEW b \in Blocks, OnCommit(n, b)
  PROVE  IInv'
<1>1. /\ TypeOK
      /\ committed' = [committed EXCEPT ![n] = @ \cup {b}]
      /\ UNCHANGED <<known, votes, qcs, kids, locked, checks, building, built, cast, announced>>
  BY DEF IInv, OnCommit, qcVars, voteVars
<1>2. \A m \in Nodes : committed[m] \subseteq committed'[m]
  BY <1>1 DEF TypeOK
<1>3. \A x : /\ Voters(x)' = Voters(x)
             /\ CertificatesOf(x)' = CertificatesOf(x)
             /\ Committable(x)' <=> Committable(x)
  BY <1>1 DEF Voters, CertificatesOf, Committable, ThreeChain
<1>4. VotesAreCast' /\ QCsAreBacked' /\ KidsAreChildren' /\ LockIsCertified'
  BY <1>1, <1>3 DEF IInv, VotesAreCast, QCsAreBacked, KidsAreChildren, LockIsCertified
<1>5. KidsAreComplete' /\ CertifiedAreKnown' /\ BuiltAreBacked'
  BY <1>1, <1>2, <1>3 DEF IInv, KidsAreComplete, CertifiedAreKnown, BuiltAreBacked
<1>6. CommitRuleComplete'
  BY <1>1, <1>2 DEF IInv, CommitRuleComplete, ThreeChain
<1>7. CommitsAreJustified'
  BY <1>1, <1>3 DEF IInv, CommitsAreJustified
<1> QED
  BY <1>4, <1>5, <1>6, <1>7 DEF IInv

\* Checking a block commits it when the QCs held justify that, and whatever
\* the check rejects the commit rule may pass over.
LEMMA CheckKeepsIInv ==
  ASSUME IInv, TypeOK', NEW n \in Nodes, NEW b \in Blocks, CheckCommitFor(n, b)
  PROVE  IInv'
<1>1. /\ TypeOK
      /\ UNCHANGED <<known, votes, qcs, kids, locked, building, built, cast>>
      /\ \A m \in Nodes : checks[m] \subseteq checks'[m] \cup (IF m = n THEN {b} ELSE {})
  BY DEF IInv, TypeOK, CheckCommitFor, voteVars
<1>2. \/ /\ committed' = committed /\ announced' = announced
         /\ b \in committed[n] \/ ~HeadsThreeChain(qcs[n], kids[n], b) \/ b \notin known[n]
      \/ /\ committed' = [committed EXCEPT ![n] = @ \cup {b}]
         /\ announced' = [announced EXCEPT ![n] = @ \cup {b}]
         /\ HeadsThreeChain(qcs[n], kids[n], b)
  BY DEF CheckCommitFor, commitVars
<1>3. /\ \A m \in Nodes : committed[m] \subseteq committed'[m]
      /\ \A m \in Nodes : announced'[m] \subseteq announced[m] \cup {b}
  <2>1. CASE committed' = committed /\ announced' = announced
    BY <2>1
  <2>2. CASE /\ committed' = [committed EXCEPT ![n] = @ \cup {b}]
             /\ announced' = [announced EXCEPT ![n] = @ \cup {b}]
    <3>1. committed \in [Nodes -> SUBSET Blocks] /\ announced \in [Nodes -> SUBSET Blocks]
      BY <1>1 DEF TypeOK
    <3> QED
      BY <2>2, <3>1
  <2> QED
    BY <1>2, <2>1, <2>2
<1>4. \A x : /\ Voters(x)' = Voters(x)
             /\ CertificatesOf(x)' = CertificatesOf(x)
             /\ Committable(x)' <=> Committable(x)
  BY <1>1 DEF Voters, CertificatesOf, Committable, ThreeChain
<1>5. VotesAreCast' /\ QCsAreBacked' /\ KidsAreChildren' /\ LockIsCertified'
  BY <1>1, <1>4 DEF IInv, VotesAreCast, QCsAreBacked, KidsAreChildren, LockIsCertified
<1>6. KidsAreComplete' /\ CertifiedAreKnown' /\ BuiltAreBacked'
  BY <1>1, <1>3, <1>4 DEF IInv, KidsAreComplete, CertifiedAreKnown, BuiltAreBacked
<1>7. HeadsThreeChain(qcs[n], kids[n], b) => Committable(b)
  <2> SUFFICES ASSUME HeadsThreeChain(qcs[n], kids[n], b)
               PROVE  Committable(b)
    OBVIOUS
  <2>1. PICK c \in kids[n][b] :
          qcs[n][b] # {} /\ qcs[n][c] # {} /\ \E g \in kids[n][c] : qcs[n][g] # {}
    BY DEF HeadsThreeChain
  <2>2. c \in Blocks
    BY <1>1 DEF TypeOK
  <2>3. PICK g \in kids[n][c] : qcs[n][g] # {}
    BY <2>1
  <2>4. g \in Blocks
    BY <1>1, <2>2 DEF TypeOK
  <2>5. Parent[c] = b /\ Parent[g] = c
    BY <2>2 DEF IInv, KidsAreChildren
  <2>6. \A y \in {b, c, g} : CertificatesOf(y) # {}
    BY <2>1, <2>2, <2>3, <2>4 DEF IInv, QCsAreBacked
  <2> QED
    BY <2>2, <2>4, <2>5, <2>6 DEF Committable, ThreeChain
<1>8. CommitsAreJustified'
  <2>1. CASE HeadsThreeChain(qcs[n], kids[n], b)
    BY <1>3, <1>4, <1>7, <2>1 DEF IInv, CommitsAreJustified
  <2>2. CASE ~HeadsThreeChain(qcs[n], kids[n], b)
    BY <1>2, <1>4, <2>2 DEF IInv, CommitsAreJustified
  <2> QED
    BY <2>1, <2>2
<1>9. CommitRuleComplete'
  <2> SUFFICES ASSUME NEW m \in Nodes, NEW x \in Blocks, NEW c \in Blocks, NEW g \in Blocks,
                      Parent[c] = x, Parent[g] = c, x \notin checks'[m],
                      qcs[m][x] # {}, qcs[m][c] # {}, qcs[m][g] # {},
                      {x, c, g} \cap committed[m] = {}
               PROVE  x \in committed'[m]
    BY <1>1, <1>3 DEF CommitRuleComplete, ThreeChain
  <2>1. CASE x \notin checks[m]
    BY <2>1 DEF IInv, CommitRuleComplete, ThreeChain
  <2>2. CASE m = n /\ x = b
    <3>1. b # NoBlock /\ c # NoBlock
      BY ChainAssumption
    <3>2. c \in kids[n][b] /\ g \in kids[n][c]
      BY <2>2, <3>1 DEF IInv, KidsAreComplete
    <3>3. HeadsThreeChain(qcs[n], kids[n], b) /\ b \in known[n]
      BY <2>2, <3>2 DEF HeadsThreeChain, IInv, CertifiedAreKnown
    <3> QED
      BY <1>1, <1>2, <2>2, <3>3 DEF TypeOK
  <2> QED
    BY <1>1, <2>1, <2>2
<1> QED
  BY <1>5, <1>6, <1>8, <1>9 DEF IInv

\* The invariant holds at the start.
LEMMA InitIInv == Init => IInv
<1> SUFFICES ASSUME Init
             PROVE  IInv
  OBVIOUS
<1>1. TypeOK
  BY DEF Init, TypeOK
<1>2. CommitRuleComplete
  BY DEF Init, CommitRuleComplete
<1> QED
  BY <1>1, <1>2 DEF Init, IInv, VotesAreCast, QCsAreBacked, BuiltAreBacked, KidsAreChildren,
              KidsAreComplete, CertifiedAreKnown, CommitsAreJustified, LockIsCertified

\* Every step keeps it.
LEMMA NextIInv ==
  ASSUME IInv, TypeOK', [Next]_vars
  PROVE  IInv'
<1>1. CASE UNCHANGED vars
  <2>2. UNCHANGED <<qcs, kids, locked, checks, commitVars, cast, known, votes, building, built>>
    BY <1>1 DEF vars, qcVars, voteVars
  <2>3. \A x : /\ Voters(x)' = Voters(x)
               /\ CertificatesOf(x)' = CertificatesOf(x)
               /\ Committable(x)' <=> Committable(x)
    BY <2>2 DEF Voters, CertificatesOf, Committable, ThreeChain
  <2>4. VotesAreCast' /\ BuiltAreBacked' /\ QCsAreBacked' /\ CommitsAreJustified'
    BY <2>2, <2>3 DEF IInv, VotesAreCast, BuiltAreBacked, QCsAreBacked, CommitsAreJustified,
                      commitVars
  <2>5. /\ KidsAreChildren' /\ KidsAreComplete' /\ CertifiedAreKnown'
        /\ CommitRuleComplete' /\ LockIsCertified'
    BY <2>2 DEF IInv, KidsAreChildren, KidsAreComplete, CertifiedAreKnown,
                CommitRuleComplete, LockIsCertified, ThreeChain, commitVars
  <2> QED
    BY <2>4, <2>5 DEF IInv
<1>2. CASE Next
  <2>1. TypeOK /\ VotesAreCast /\ BuiltAreBacked
    BY DEF IInv
  <2>2. PICK n \in Nodes :
          \/ PruneExpired(n)
          \/ \E b \in Blocks : OnCommit(n, b) \/ CheckCommitFor(n, b)
          \/ \E q \in built[n] : Stores(n, q)
          \/ Progresses(n)
    BY <1>2, <2>1, StepShape
  <2> QED
    BY <2>2, PruneKeepsIInv, OnCommitKeepsIInv, CheckKeepsIInv, StoringKeepsIInv,
       ProgressKeepsIInv
<1> QED
  BY <1>1, <1>2

\* The inductive invariant holds throughout, whatever other goroutines, sweeps
\* and unfounded commit messages do between the critical sections of a handler.
THEOREM InvariantHolds == Spec => []IInv
<1>1. Init => IInv
  BY InitIInv
<1>2. IInv /\ TypeOK' /\ [Next]_vars => IInv'
  BY NextIInv
<1>3. Spec => []TypeOK
  BY TypeCorrect
<1> QED
  BY <1>1, <1>2, <1>3, PTL DEF Spec

-----------------------------------------------------------------------------
(* Safety. *)

\* Every QC a node stores is signed by a quorum that published its votes.
THEOREM QCsBacked == Spec => []QCsAreBacked
<1>1. IInv => QCsAreBacked
  BY DEF IInv
<1> QED
  BY <1>1, InvariantHolds, PTL

\* Whatever a node commits by itself heads a chain of three blocks that each
\* have a quorum of votes, although commit messages are not verified.
THEOREM CommitsJustified == Spec => []CommitsAreJustified
<1>1. IInv => CommitsAreJustified
  BY DEF IInv
<1> QED
  BY <1>1, InvariantHolds, PTL

\* No order in which QCs arrive, and no sweep before, between or while they are
\* assembled, hides a three-chain from the commit rule of which no block was
\* committed.
THEOREM CommitsComplete == Spec => []CommitRuleComplete
<1>1. IInv => CommitRuleComplete
  BY DEF IInv
<1> QED
  BY <1>1, InvariantHolds, PTL

\* A node is locked on certified blocks only.
THEOREM LockCertified == Spec => []LockIsCertified
<1>1. IInv => LockIsCertified
  BY DEF IInv
<1> QED
  BY <1>1, InvariantHolds, PTL

\* A block is among its own ancestors.
LEMMA AncestorsReflexive == \A b \in Blocks : b \in Ancestors[b]
BY ChainAssumption

\* A lock only moves up its own branch.
THEOREM LockAdvances == Spec => LockOnlyAdvances
<1> DEFINE Advance ==
      \A n \in Nodes : locked'[n] # locked[n] /\ locked[n] # NoBlock
        => /\ locked[n] \in Ancestors[locked'[n]]
           /\ Height[locked'[n]] > Height[locked[n]]
<1>1. IInv /\ [Next]_vars => [Advance]_vars
  <2> SUFFICES ASSUME IInv, Next
               PROVE  Advance
    OBVIOUS
  <2>1. TypeOK /\ VotesAreCast /\ BuiltAreBacked
    BY DEF IInv
  <2>2. PICK n \in Nodes :
          \/ PruneExpired(n)
          \/ \E b \in Blocks : OnCommit(n, b) \/ CheckCommitFor(n, b)
          \/ \E q \in built[n] : Stores(n, q)
          \/ Progresses(n)
    BY <2>1, StepShape
  <2>3. CASE UNCHANGED locked
    BY <2>3
  <2>4. ASSUME NEW q \in built[n], Stores(n, q)
        PROVE  Advance
    <3> DEFINE b == q.block
    <3>1. \A m \in Nodes : locked'[m] = IF m = n THEN LockAfterQC(n, b) ELSE locked[m]
      BY <2>4 DEF Stores
    <3>2. LockAfterQC(n, b) # locked[n] /\ locked[n] # NoBlock
            => /\ LockAfterQC(n, b) = b
               /\ Height[b] > Height[locked[n]]
               /\ locked[n] \in Ancestors[b]
      <4>1. b \in Blocks /\ b # NoBlock
        BY <2>1, ChainAssumption DEF TypeOK, QCs
      <4> QED
        BY <4>1 DEF LockAfterQC, MovesLock, ExtendsLocked
    <3> QED
      BY <3>1, <3>2
  <2> QED
    BY <2>2, <2>3, <2>4 DEF PruneExpired, OnCommit, qcVars, CheckCommitFor, Progresses
<1>2. Spec => [][Advance]_vars
  BY <1>1, InvariantHolds, PTL DEF Spec
<1> QED
  BY <1>2 DEF LockOnlyAdvances

\* A locked node decides to vote within the branch of its lock only.
THEOREM DecisionsKeepToLock == Spec => DecisionsRespectLock
<1> DEFINE Respect ==
      \A n \in Nodes : \A b \in marked'[n] \ marked[n] :
        \/ Parent[b] = NoBlock
        \/ locked[n] = NoBlock
        \/ locked[n] \in Ancestors[Parent[b]]
<1>1. TypeOK /\ TypeOK' /\ [Next]_vars => [Respect]_vars
  <2> SUFFICES ASSUME TypeOK, TypeOK', Next
               PROVE  Respect
    OBVIOUS
  <2>1. ASSUME NEW n \in Nodes, NEW b \in Blocks, SafeToVote(n, b)
        PROVE  \/ Parent[b] = NoBlock
               \/ locked[n] = NoBlock
               \/ locked[n] \in Ancestors[Parent[b]]
    BY <2>1, AncestorsReflexive, ChainAssumption DEF SafeToVote, ExtendsLocked
  <2>2. CASE \A m \in Nodes : marked'[m] \subseteq marked[m]
    BY <2>2
  <2>3. ASSUME NEW n \in Nodes, NEW b \in Blocks, SafeToVote(n, b),
               marked' = [marked EXCEPT ![n] = @ \cup {b}]
        PROVE  Respect
    <3>1. \A m \in Nodes : marked'[m] \ marked[m] \subseteq IF m = n THEN {b} ELSE {}
      BY <2>3 DEF TypeOK
    <3> QED
      BY <2>1, <2>3, <3>1
  <2>4. ASSUME NEW n \in Nodes, RetryPendingVotes(n)
        PROVE  Respect
    <3>1. \/ UNCHANGED marked
          \/ \E b \in pending[n] : /\ SafeToVote(n, b)
                                   /\ marked' = [marked EXCEPT ![n] = @ \cup {b}]
      BY <2>4 DEF RetryPendingVotes
    <3>2. pending[n] \subseteq Blocks
      BY DEF TypeOK
    <3> QED
      BY <2>2, <2>3, <3>1, <3>2
  <2>5. ASSUME NEW n \in Nodes, NEW b \in Blocks, MarkVoteIfSafe(n, b)
        PROVE  Respect
    BY <2>2, <2>3, <2>5 DEF MarkVoteIfSafe
  <2>6. ASSUME NEW n \in Nodes, NEW b \in Blocks, PublishVote(n, b)
        PROVE  \A m \in Nodes : marked'[m] \subseteq marked[m]
    BY <2>6 DEF PublishVote, TypeOK
  <2>7. PICK n \in Nodes :
          \/ UNCHANGED marked
          \/ RetryPendingVotes(n)
          \/ \E b \in Blocks : MarkVoteIfSafe(n, b) \/ PublishVote(n, b)
    BY DEF Next, UpdateBlockInfo, OnCommit, BuildQC, CheckCommitFor, OnVote, OnQC, StoreQC,
           PruneExpired, UpdateQuorumSize, voteVars
  <2> QED
    BY <2>2, <2>4, <2>5, <2>6, <2>7
<1>2. Spec => [][Respect]_vars
  BY <1>1, TypeCorrect, PTL DEF Spec
<1> QED
  BY <1>2 DEF DecisionsRespectLock

-----------------------------------------------------------------------------
(* Quorums of nodes with different memberships. *)

\* The validators that voted for both b and c.
VotersOfBoth(b, c) == Voters(b) \cap Voters(c)

\* Sets of p and of q validators share p + q less the number of validators.
LEMMA Overlap ==
  ASSUME NEW V \in SUBSET Validators, NEW W \in SUBSET Validators,
         NEW p \in Nat, NEW q \in Nat, Cardinality(V) >= p, Cardinality(W) >= q
  PROVE  /\ IsFiniteSet(V \cap W) /\ Cardinality(V \cap W) \in Nat
         /\ Cardinality(Validators) \in Nat
         /\ Cardinality(V \cap W) >= p + q - Cardinality(Validators)
<1>1. IsFiniteSet(Validators) /\ V \cup W \subseteq Validators /\ V \cap W \subseteq Validators
  BY ValidatorAssumption
<1>2. /\ IsFiniteSet(V) /\ IsFiniteSet(W) /\ IsFiniteSet(V \cap W)
      /\ Cardinality(V \cup W) <= Cardinality(Validators)
      /\ Cardinality(Validators) \in Nat
  BY <1>1, FS_Subset, FS_CardinalityType
<1>3. Cardinality(V \cup W) = Cardinality(V) + Cardinality(W) - Cardinality(V \cap W)
  BY <1>2, FS_Union
<1>4. Cardinality(V) \in Nat /\ Cardinality(W) \in Nat /\ Cardinality(V \cap W) \in Nat
  BY <1>2, FS_CardinalityType
<1> QED
  BY <1>2, <1>3, <1>4

\* What membership reports may be for quorums to meet: a quorum is never below
\* three, so up to five validators may be undercounted at will; more may not be
\* undercounted by a quarter.
MembershipSuffices ==
  Cardinality(Validators) <= 5 \/ \A m \in Memberships : 4 * m > 3 * Cardinality(Validators)

LEMMA QuorumsExceedMembership ==
  ASSUME MembershipSuffices, NEW i \in Memberships, NEW j \in Memberships
  PROVE  HotstuffQuorumSize(i) + HotstuffQuorumSize(j) > Cardinality(Validators)
<1> DEFINE N == Cardinality(Validators)
<1>1. i \in Nat /\ j \in Nat /\ N \in Nat
  BY ValidatorAssumption, FS_CardinalityType
<1>2. /\ HotstuffQuorumSize(i) \in Nat /\ HotstuffQuorumSize(i) >= 3
      /\ 3 * HotstuffQuorumSize(i) >= 2 * i
  BY <1>1 DEF HotstuffQuorumSize
<1>3. /\ HotstuffQuorumSize(j) \in Nat /\ HotstuffQuorumSize(j) >= 3
      /\ 3 * HotstuffQuorumSize(j) >= 2 * j
  BY <1>1 DEF HotstuffQuorumSize
<1>4. N <= 5 \/ (4 * i > 3 * N /\ 4 * j > 3 * N)
  BY DEF MembershipSuffices
<1> HIDE DEF N
<1>5. HotstuffQuorumSize(i) + HotstuffQuorumSize(j) > N
  BY <1>1, <1>2, <1>3, <1>4
<1> QED  BY <1>5 DEF N

\* As long as no membership report misses a quarter of the validators (or there
\* are five of them at most), any two QCs have a signer in common, although the
\* nodes that built them counted different memberships.
THEOREM QCsIntersect ==
  ASSUME MembershipSuffices
  PROVE  Spec => []QCsOverlap
<1>1. QCsAreBacked => QCsOverlap
  <2> SUFFICES ASSUME QCsAreBacked,
                      NEW n \in Nodes, NEW m \in Nodes, NEW b \in Blocks, NEW c \in Blocks,
                      qcs[n][b] # {}, qcs[m][c] # {}
               PROVE  qcs[n][b] \cap qcs[m][c] # {}
    BY DEF QCsOverlap
  <2> DEFINE V == qcs[n][b]
             W == qcs[m][c]
  <2>1. V \in CertificatesOf(b) /\ W \in CertificatesOf(c)
    BY DEF QCsAreBacked
  <2> HIDE DEF V, W
  <2>2. V \in SUBSET Validators /\ W \in SUBSET Validators
    BY <2>1 DEF CertificatesOf, Quorums
  <2>3. PICK i \in Memberships, j \in Memberships :
          Cardinality(V) >= HotstuffQuorumSize(i) /\ Cardinality(W) >= HotstuffQuorumSize(j)
    BY <2>1 DEF CertificatesOf, Quorums, QuorumSizes
  <2>4. HotstuffQuorumSize(i) \in Nat /\ HotstuffQuorumSize(j) \in Nat
    BY QuorumAtLeastThree DEF QuorumSizes
  <2>5. Cardinality(V \cap W) > 0
    <3>1. HotstuffQuorumSize(i) + HotstuffQuorumSize(j) > Cardinality(Validators)
      BY QuorumsExceedMembership
    <3>2. /\ Cardinality(V \cap W) \in Nat /\ Cardinality(Validators) \in Nat
          /\ Cardinality(V \cap W) >=
               HotstuffQuorumSize(i) + HotstuffQuorumSize(j) - Cardinality(Validators)
      BY <2>2, <2>3, <2>4, Overlap
    <3> QED
      BY <2>4, <3>1, <3>2
  <2>6. V \cap W # {}
    <3>1. Cardinality({}) = 0
      BY FS_EmptySet
    <3>2. SUFFICES ASSUME V \cap W = {}
                   PROVE  FALSE
      OBVIOUS
    <3> QED
      BY <2>5, <3>1, <3>2
  <2> QED
    BY <2>6 DEF V, W
<1> QED
  BY <1>1, QCsBacked, PTL

\* Any two blocks that nodes committed by themselves share the voters that the
\* quorums they were counted with have too many.
CommitsShareVoters ==
  \A n, m \in Nodes : \A b \in announced[n], c \in announced[m] :
    \E p, q \in QuorumSizes :
      Cardinality(VotersOfBoth(b, c)) >= p + q - Cardinality(Validators)

\* Whatever the memberships report: a disagreement takes p + q less the number of
\* validators that vote on two branches, p and q being the quorums in force where
\* the votes were counted.  With sound reports that is a third of the validators;
\* with undercounted ones it may be nobody (checkCommitFor, UpdateQuorumSize).
THEOREM DisagreementTakesDoubleVotes == Spec => []CommitsShareVoters
<1>1. CommitsAreJustified => CommitsShareVoters
  <2> SUFFICES ASSUME CommitsAreJustified,
                      NEW n \in Nodes, NEW m \in Nodes,
                      NEW b \in announced[n], NEW c \in announced[m]
               PROVE  \E p, q \in QuorumSizes :
                        Cardinality(VotersOfBoth(b, c)) >= p + q - Cardinality(Validators)
    BY DEF CommitsShareVoters
  <2>1. CertificatesOf(b) # {} /\ CertificatesOf(c) # {}
    BY DEF CommitsAreJustified, Committable
  <2>2. PICK V \in Quorums, W \in Quorums : V \subseteq Voters(b) /\ W \subseteq Voters(c)
    BY <2>1 DEF CertificatesOf
  <2>3. PICK p \in QuorumSizes, q \in QuorumSizes :
          Cardinality(V) >= p /\ Cardinality(W) >= q
    BY DEF Quorums
  <2>4. p \in Nat /\ q \in Nat
    BY QuorumAtLeastThree
  <2>5. /\ Cardinality(V \cap W) \in Nat /\ Cardinality(Validators) \in Nat
        /\ Cardinality(V \cap W) >= p + q - Cardinality(Validators)
    BY <2>3, <2>4, Overlap DEF Quorums
  <2>6. /\ Cardinality(V \cap W) <= Cardinality(VotersOfBoth(b, c))
        /\ Cardinality(VotersOfBoth(b, c)) \in Nat
    <3>1. /\ IsFiniteSet(Validators) /\ VotersOfBoth(b, c) \subseteq Validators
          /\ V \cap W \subseteq VotersOfBoth(b, c)
      BY <2>2, ValidatorAssumption DEF VotersOfBoth, Voters, Validators
    <3>2. IsFiniteSet(VotersOfBoth(b, c))
      BY <3>1, FS_Subset
    <3> QED
      BY <3>1, <3>2, FS_Subset, FS_CardinalityType
  <2>7. Cardinality(VotersOfBoth(b, c)) >= p + q - Cardinality(Validators)
    BY <2>4, <2>5, <2>6
  <2> QED
    BY <2>7
<1> QED
  BY <1>1, CommitsJustified, PTL

-----------------------------------------------------------------------------
(* Refinement. *)

\* What the model calls committable the abstract specification can checkpoint.
LEMMA SameQuorums ==
  ASSUME NEW b, Committable(b)'
  PROVE  Abstract!Checkpointable(b)'
<1>1. \A x : CertificatesOf(x)' # {} => Abstract!HasQuorum(x)'
  BY DEF CertificatesOf, Voters, Abstract!HasQuorum, Abstract!Voters
<1> QED
  BY <1>1 DEF Committable, ThreeChain, Abstract!Checkpointable

\* Every behaviour of the service is one of the abstract checkpoint.
THEOREM Refinement == Spec => ImplementsCheckpoint
<1>1. Init => Abstract!Init
  BY DEF Init, Abstract!Init
<1>2. IInv /\ IInv' /\ [Next]_vars => [Abstract!Next]_<<cast, announced>>
  <2>1. CASE UNCHANGED vars
    BY <2>1 DEF vars, voteVars, commitVars
  <2>2. ASSUME IInv, IInv', Next
        PROVE  Abstract!Next
    <3>1. TypeOK /\ VotesAreCast /\ BuiltAreBacked
      BY <2>2 DEF IInv
    <3>2. PICK n \in Nodes :
            \/ PruneExpired(n)
            \/ \E b \in Blocks : OnCommit(n, b) \/ CheckCommitFor(n, b)
            \/ \E q \in built[n] : Stores(n, q)
            \/ Progresses(n)
      BY <2>2, <3>1, StepShape
    <3>3. /\ \A m \in Nodes \ {n} : cast'[m] = cast[m] /\ announced'[m] = announced[m]
          /\ cast[n] \subseteq cast'[n]
          /\ announced[n] \subseteq announced'[n]
      <4>1. CASE UNCHANGED <<cast, announced>>
        BY <4>1
      <4>2. ASSUME NEW b \in Blocks, CheckCommitFor(n, b)
            PROVE  /\ \A m \in Nodes \ {n} : cast'[m] = cast[m] /\ announced'[m] = announced[m]
                   /\ cast[n] \subseteq cast'[n]
                   /\ announced[n] \subseteq announced'[n]
        <5>1. cast' = cast
          BY <4>2 DEF CheckCommitFor, voteVars
        <5>2. \/ announced' = announced
              \/ announced' = [announced EXCEPT ![n] = @ \cup {b}]
          BY <4>2 DEF CheckCommitFor, commitVars
        <5> QED
          BY <3>1, <5>1, <5>2 DEF TypeOK
      <4>3. CASE Progresses(n)
        BY <4>3 DEF Progresses, CastGrows, commitVars
      <4> QED
        BY <3>2, <4>1, <4>2, <4>3 DEF PruneExpired, OnCommit, Stores, voteVars, commitVars
    <3>4. \A b \in announced'[n] \ announced[n] : Abstract!Checkpointable(b)'
      <4>1. \A b \in announced'[n] : Committable(b)'
        BY <2>2 DEF IInv, CommitsAreJustified
      <4> QED
        BY <4>1, SameQuorums
    <3> QED
      BY <3>3, <3>4 DEF Abstract!Next
  <2> QED
    BY <2>1, <2>2
<1> QED
  BY <1>1, <1>2, InvariantHolds, PTL DEF Spec, ImplementsCheckpoint, Abstract!Spec
=============================================================================
