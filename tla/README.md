# A verification model of the consensus node

The repository is a Go node for a permissioned chain fed by IoT devices.  Blocks
are produced by elected leaders (AION) from a mempool of signed device
transactions, gossiped over libp2p, and confirmed by three HELIOS layers: L1
notarizes a block once somebody attested it, L2 commits a block by validator
quorums, L3 adds the confirmation of cells and devices.  This directory holds
TLA+ modules for those parts, the TLC configurations that check them on small
instances, and TLAPS proofs of their main theorems.

State of the work: the three layers, the block store with its builder, the way of
a transaction through the mempool, the leader election and the device registry
with its cell are **modelled, checked and proved**, each by itself.  What is left
out is listed in sections 2 and 11.

| part | modules | sections |
|---|---|---|
| L2 checkpoint | `L2Checkpoint`, abstract `Checkpoint` | 3, 10 |
| L3 finality | `L3Finality`, abstract `Finality` | 4, 10 |
| L1 notarization | `L1Notarization`, abstract `Notarization` | 5, 10 |
| transactions: gossip, HTTP, mempool, packing | `Mempool`, `TxFlow`, abstract `Admission` | 6, 10 |
| block store, fetch, restart, builder | `Chain` | 7, 10 |
| AION | `Weight`, `AionElection`, abstract `Election` | 8, 10 |
| registry, cell, attester pass | `IotDevices` | 9, 10 |

For every part X, `MCX` is the instance for TLC, the `.cfg` files give its
constants values, and `XProofs` holds the theorems.  `Induction` has lemmas about
numbers and finite sets that the proofs share.  Operators whose comment
starts with "Mutant" are deliberately wrong variants of the definition that
follows them; no specification uses them, and each shows that a property would
notice the bug it stands for.

## 1. Inventory

One process (`cmd/node`) hosts everything; each gossip topic has its own
goroutine that calls a handler, and timers run on further goroutines.  Each
service guards its state with one mutex, which handlers release and take again
between their steps.  That, and gossip that may reorder, repeat or lose
messages, is where the hard behaviours are.

| component | state | operations | what makes it correct |
|---|---|---|---|
| **L2 checkpoint** `internal/helios/l2_checkpoint.go` | votes, QCs, block entries, `childQCs`, committed blocks, `sentVote`, `pending`, lock, quorum size | `UpdateBlockInfo`, `onBlock`, `onVote`, `onQC`, `onCommit`, `retryPendingVotes`, `checkCommitFor`, `pruneExpired`, `UpdateQuorumSize` | QCs are backed by real votes of a quorum; locks only advance and decisions to vote respect them; a node's commits rest on three quorums and none is missed; committed blocks agree; chains keep committing |
| **L3 finality** `internal/helios/l3_finality.go` | per block: cells, attestations, device votes, QC weight, L2 flag, status, envelope; cell registry, misbehaviour counts, attesters, device total, total stake | `onAttestation`, `RecordDeviceAttestation`, `RecordDescendantQC`, `RecordBlockMeta`, `onEnvelope`, `recheckPending`, registry and total updates | final only when L2-committed with cells, devices and two thirds of the stake; final is for ever; a ready block does become final; quarantine holds |
| **L1 notarization** `internal/helios/l1_notarization.go` | attesters seen per block, first-seen times, raw attestations, recent records and their index | `onBlock`, `OnBlockProposed`, `onAttest`, `recordObserved`, `updateAttesters`, `recordNotarized`, `pruneAttestsLocked` | notarized with enough distinct attesters; the index points at the record of its block |
| **Block store and sync** `internal/blockchain/block.go` | tip, known blocks, blocks waiting for a parent, transaction index; files | `acceptBlockLocked`, the subscriber, `fetchAndInjectParent`, the retry loop, `saveIndex`/`loadIndex` | accepted blocks connect to known ones, also after a restart; what is announced can be read, but for writes that failed; the tip is a highest known block; a waiting block is accepted once its parent is |
| **Block builder** (same file) | cursor (height, previous hash) | tick: resynchronise, ask AION, take a batch, sign, publish | a block extends what was the tip, and every subscriber with the same limits accepts its transactions |
| **Mempool** `internal/mempool`, replay window `internal/coseutil` | entries, FIFO order, byte count; last sequence number per device and key | `AddValidatedCOSE`, `PopBatch`, `RemoveTxIDs`, `sweepLocked`, `UpdateLastSeq` | the three structures agree; limits hold; a sequence number is admitted once, and what has left does not come back |
| **AION election** `internal/aion` | commits, reveals, VRFs, pending VRFs, entropies, schedule, leader per epoch | `onCommit`, `onReveal`, `onVRF`, `onEntropy`, `updateLeader`, `AllowProduceSlot`, the epoch publisher | a candidate counts only after a reveal; a commitment binds while it is kept; a VRF that came early is not lost; candidates rank by their scores; nodes that agree on the schedule agree on the producer |
| **Transaction gossip, membership** `internal/gossip` | retry queue, seen ids; last heartbeat per member | admission with key fetch and retry; `Touch`, `CountAndSweep` | a transaction whose key comes late is still judged by the pool |
| **IoT registry, cells** `internal/iot`, `internal/cell` | devices by id, limit; the one cell | `UpsertWithLimit`, `Remove`, `syncAttesterRegistry`, `TryForm` | the limit holds for non-attesters, on disk too; one cell; silent attesters leave, others are counted |
| **Merkle tree** `internal/merkle` | none | `ComputeRoot`, `ComputeProof`, verification | a proof verifies exactly the leaf it was made for (not modelled) |
| COSE envelopes, entropy, p2p, HTTP, simulators, logging | see `PROJECT.json` | | not to be modelled: byte formats, floating-point statistics, I/O |

How they interact: the block topic feeds the chain subscriber, L1 and L2
independently, so L2 may vote for a block the chain has not accepted; the
chain's accept hook (`main.go:354`) prunes the mempool and tells L2
(`UpdateBlockInfo`) and L3 (`RecordBlockMeta`); L2 tells L3 of descendant QCs
and commits; the membership refresher (`main.go:392`) sets the quorum of L2 and
the stake of L3 from the heartbeat count; the builder asks AION before it takes
a batch from the mempool and includes L1's attestations of the parent.

Nothing of L1, L2 or L3 is persisted; only the chain, the transaction index and
the device registry are.

The hazards of each component, with their lines, are listed in `PROJECT.json`.

## 2. Plan

| step | modules | what | state |
|---|---|---|---|
| 1 | `L2Checkpoint`, abstract `Checkpoint`, proofs | the L2 service | done |
| 2 | `L3Finality`, abstract `Finality`, proofs | finality conditions, check-lock-recheck of attestations, quarantine, envelopes; that finality implies an L2 commit somewhere | done |
| 3 | `L1Notarization`, abstract `Notarization`, proofs | counting and recording in separate critical sections; the bounded list and its index | done |
| 4 | `Mempool`, `TxFlow`, abstract `Admission`, proofs | admission, window, eviction, expiry, key fetch and retry, batches and packing | done |
| 4b | `Chain`, proofs | acceptance, cascade, fetch, failed and torn writes, restart, the builder's cursor | done |
| 5 | `Weight`, `AionElection`, abstract `Election`, proofs | out-of-order reveals and outputs, concurrent `updateLeader`, the slot predicate, the rank arithmetic | done |
| 6 | `IotDevices`, proofs | limit, persistence, cell, attestation requests and the attester pass | done |
| 2b | L2 with L3 | `AttachL3` after the start, notifications outside L2's lock | open |
| 7 | L2 with its critical sections apart | the windows between deciding, voting, counting, assembling and storing a QC | done |

Step 2b would show that a final block rests on three quorums of votes.  L3 is
shown right for every order and every choice of what L2 reports, and L2's
commits are justified by `IInv`; what the composition would add is the loss of
what L2 stored before `AttachL3` ran, which delays finality of those blocks and
endangers nothing the two models promise.

## 3. The L2 model

`L2Checkpoint.tla` models any number of validators.  `Nodes` are those whose
state is modelled; `Peers` are validators that nothing has locked yet and that
therefore voted for every block: their votes exist from the start.  A block is
a model value; `Parent`, `Height` and `Ancestors` are its chain.

| TLA+ | code |
|---|---|
| `known` | the keys of `blocks`; the metadata is a function of the block |
| `votes` | `votes[block]`, the peers in it |
| `qcs` | `qcs[block]`, as the set of signers |
| `kids` | `childQCs` |
| `committed`, `sentVote`, `pending`, `quorum` | the fields of those names |
| `locked` | `lockedBlk`; `lockedH` is its height |
| `marked` | decisions to vote whose `publishVote` is still to come |
| `building` | completed quorums whose `buildAndBroadcastQC` is still to come |
| `built` | QCs assembled or received whose `storeQC` is still to come, and whether the block's entry was there to take height and parent from |
| `retrying` | a call of `retryPendingVotes` is under way |
| `checks` | the calls of `checkCommitFor` that `storeQC` still has to make |
| `cast`, `announced` | votes and commit messages this node has put on the network (never lost from it; a node may fail to receive any of them) |

**Grain.**  One critical section is one action.  A vote goes through four of them:
`MarkVoteIfSafe` decides (the lock is tested here and nowhere else), `PublishVote`
signs it and counts it (`ConsumeVote`, also the whole of `OnVote`), `BuildQC` looks
at the votes and at the block's entry again, `StoreQC` stores the QC and moves the
lock.  Between any two of them every other handler may run: the lock may move after
the decision, votes may expire and the quorum change after the count, and a sweep
may remove the entry, in which case the QC is stored with height 0 and no parent
(`entry`, `ParentIn`).  After a QC is stored, each turn of `retryPendingVotes`
(`RetryPendingVotes`) and each call of `checkCommitFor` (`CheckCommitFor`) is an
action.  The calls may be taken in any order, which covers the recursion `storeQC ->
retryPendingVotes -> publishVote -> consumeVote -> storeQC`.

`Subscribers` bounds how many goroutines are between two of these sections.  The
code has three that vote, count or certify: one each for blocks, votes and QCs.
`marked`, `building` and `built` are sets: two goroutines at the same section with
the same block (and, for a QC, the same signers) are one, for whichever comes first
decides and the other adds nothing.

**What a missing entry does.**  A block's entry goes only when the block is
committed.  A QC that is built without it is therefore one of a committed block, and
what is lost is the link from its parent: if that parent is not committed, the
three-chain it heads is not seen.  `CommitRuleComplete` says so: of a three-chain
of QCs one block is committed, and it is the first unless another one was committed
earlier, by a commit message.  The code promises no more.

**Messages.**  A vote or a QC exists when the validators in it have voted
(`Voters`, `CertificatesOf`); its delivery is an action that may happen late,
repeatedly or never.  Signatures are not modelled: `verifyVote` and `verifyQC`
make sure that votes are genuine, distinct and as many as the receiver's
quorum, which is what `OnQC` demands.  A commit message is accepted without
any check.  It comes from a node, from a peer for which three quorums exist, or,
for the blocks of the constant `Claims`, from nowhere: then a node holds a block
as committed that nobody committed, and the next sweep drops what it knows of it.
`announced` are the blocks a node committed by itself; the safety properties of
commits, and the refinement, are about those.

**Expiry.**  A sweep removes at most one expired vote: several sweeps remove any
set.  `VotesExpire = FALSE` means that no vote is ever 15 seconds old when a
sweep runs.

**Simplifications.**  The walk of `extendsLockedLocked` stops after 1024 blocks;
the model's chains are shorter.  All messages of one block carry the same parent
and height, as published blocks do.  Unsuccessful signing and marshalling, which
make a vote vanish, are left out.  `lockedH` is 0 after a QC without metadata moved
the lock; a block above the locked one exceeds both.  Block entries created at
start are none: nothing is persisted.

### Runs

All instances are small because one modelled node is enough for the properties
of one service: what the others can send is bounded only by the votes that
exist.  `MCL2Checkpoint.tla` computes heights and ancestors from the parent
functions.

| run | instance | shows |
|---|---|---|
| `l2_quorum` (`L2Quorum.cfg`) | 1 node and 3 peers, 2 first blocks, counts 2, 4 and 5 (quorums 3 and 4), expiry, 2 goroutines | `QCsAreBacked`, `QCsOverlap`: votes expire and quorums change between the count and the QC; 3 of 4 and 3 of 4 always meet, although a node may have heard of two validators only |
| `l2_lock` (`L2Lock.cfg`) | 1 node, 2 peers, a branch of two and a rival, a claimed commit, 2 goroutines | `IInv` (the inductive invariant of the proofs, with the type invariant, `CommitsAreJustified` and `LockIsCertified` among its parts); `LockOnlyAdvances`, `DecisionsRespectLock` |
| `l2_chain` (`L2Chain.cfg`) | 1 node, 2 peers, a chain of three, 1 goroutine, fairness | `CommitRuleComplete`, `ImplementsCheckpoint`, `OrderedChainsCommit`, `PendingResolves` |
| `l2_agreement` (`L2Agreement.cfg`) | two chains of three | **violates** `Agreement` |

Why these bounds: a commit needs a chain of three, the lock rule a fork and a block
above it, and a race of two goroutines two of them; with fewer than three validators no
quorum exists.  A chain of three with two goroutines, or with claims, exceeds the
time of a run; what is not checked together (a claim and a three-chain, three
goroutines, a fourth block) is proved for all sizes.  Votes expire in `l2_quorum`
only; a sweep prunes entries in every run.  Symmetry is used
for safety runs only, over validators, whose names no definition mentions.
`l2_agreement` explores the part of `Spec` (`VotesFirstSpec`) in which the node
votes before QCs reach it; whatever it violates `Spec` violates.

**Fairness** (`l2_chain`): weak fairness of `UpdateBlockInfo`, `MarkVoteIfSafe` and
`OnVote` says that gossip delivers every block and vote to every node once (a block
that waits in `pending` was delivered and need not come again, so only the retry can
help it); of `PublishVote`, `BuildQC`, `StoreQC`, `RetryPendingVotes` and
`CheckCommitFor`, that a goroutine goes on after it has released the mutex.  Sweeps,
QCs and commit messages get none.  Votes do expire in the code and are never sent
again, so these properties are about networks whose delays stay below 15 seconds.

*Decision and vote.*  `DecisionsRespectLock` is about the moment of the decision.
When the vote is signed, the lock may have moved, also to another branch, and the vote
goes out nevertheless: nothing tests it again.  Of the votes themselves no more can
be said than that each was decided on while it was safe.

### What the violation says, and a stall

*Agreement.*  `main.go:369` promises "deterministic commits" and the
implementation notes "HotStuff-style locking".  HotStuff's safety needs that a
validator votes at most once per height and that the lock is taken before the
quorum of the conflicting chain forms.  `safeToVoteLocked` allows any vote while
nothing is locked, and `checkCommitFor` ignores the lock, so honest validators
that receive two chains before the first QC certify both, and both commit.

*Stall.*  The runbook says that three validators suffice for L2 to commit.  If
a node sees block two before block one, votes for it and gets its QC, its lock
is on block two, block one is no longer safe, and with a quorum of three block
one never gets a QC.  The chain above it is certified, but block one is not
committed: `ChainsCommit` does not hold without the premise of
`OrderedChainsCommit`, which is that nodes vote in chain order and which is the
only premise it needs.

## 4. The L3 model

`L3Finality.tla` models any number of nodes, which see each other only through
envelopes.

| TLA+ | code |
|---|---|
| `status`, `l2Committed`, `cells`, `deviceVotes` | the fields of a block's `blockCounters`; "none" is the absence of the entry |
| `qcs[n][c]`, `Weight` | the `qcs` of the parent of `c`, and `qcWeight`: one vote weighs one |
| `old` | blocks whose `firstSeen` is a challenge window or more ago |
| `cellStatus`, `misbehave` | the cell registry and `misbehave` |
| `attesters`, `devicesTotal`, `stake` | `attesters`, `devicesTotal`, `params.TotalStake` |
| `checking` | the attestation whose proofs `onAttestation` is verifying, unlocked |
| `envelopes` | the envelopes broadcast by the modelled nodes |

**Grain.**  Every handler is one critical section and one action, except
`onAttestation`, which releases the mutex to verify the sample proofs:
`OnAttestation` and `CountAttestation`.  One goroutine consumes attestations, so
at most one is being verified.  `MaybeFinalize` ends the handlers that end with
`maybeFinalizeLocked`, and sees the state they have made.  `recordFailure` is
one step: what it does between its two locks is seen by that goroutine only.

**What comes from outside.**  L2 reports a block once or several times, committed
or not, and the one QC it stores for each block; it does so outside its own
lock, hence in any order.  Nothing yet ties commits to QCs: that is step 2b, and
until then L3 is shown to be right for every L2.  Validator counts come from
`Memberships`, attester totals from `DeviceCounts`.  An envelope exists when a
node has broadcast it; it is delivered any number of times or never, also to its
sender.  `onEnvelope` verifies nothing: for the blocks of the constant `Claims`
an envelope may arrive at any time although nobody broadcast it, and makes the
block final.  `FinalIsSupported` says that this is all it does: every envelope a
node broadcasts itself is still supported, and a final block has an envelope or
is claimed.  Attestations of cells arrive in any order, genuine or badly signed.

**Simplifications.**  The verifier that the node installs accepts every proof, so
only a bad signature counts as a failure.  A cell is registered once, since
`TryForm` forms one cell per process.  Device ids are taken as equal when their
lower-case forms are.  The threshold is compared as
`weight * 10000000 >= stake * 6666667`, which agrees with the floating-point
comparison for counts of validators.  Sampling, challenges and responses change
no state.

### Runs

| run | instance | shows |
|---|---|---|
| `l3_nodes` (`L3Nodes.cfg`) | 2 nodes, a block and its child, 1 device, 4 or 5 validators, QCs of 3, an envelope of the first block that nobody broadcast | `FinalIsSupported` with envelopes, and stakes resized before and after the QC: 3 of 4 is enough and 3 of 5 is not |
| `l3_live` (`L3Live.cfg`) | 1 node, a chain of three, a cell, a device, quarantine at the first failure, fairness | `TypeOK`, `QuarantineIsHeeded`, `ImplementsFinality`, `CommittedBecomesFinal` |

Why these bounds: finality concerns a block and the QCs of its children, so a
pair of blocks has every case but the choice of `NextPending`, for which there
are three.  A second node is what envelopes need.  One cell meets all branches
of the cell rule (enough, none after the window, none before it) except the
half of several cells; the proofs have any number.  `l3_live` has no claims, so
that blocks become final on their own.

**Fairness** (`l3_live`): `recheckPending` runs every second and time passes
(`GraceElapses`).  Devices are weakly fair: an attester keeps asking
`/helios/l3/pending` and attests the block it is offered, the purpose of
`cmd/iotattester`, which is outside the node.  `CommittedBecomesFinal` assumes
of the environment that the block keeps enough weight and that the attester
total counts only devices that vote: the total never shrinks, so a device that
was counted once and is gone can stop finality for ever.  Cells, envelopes, QCs
and commits get no fairness.

### Two thirds exactly

The to-do list that the L3 code completes asks for "at least two-thirds of all
validator voting power".  The threshold is 0.6666667, a little more.  With 6, 9,
12... validators the least L2 quorum has exactly two thirds of them.  L2 builds
its QC as soon as it has that many votes, stores one QC for each block, and only
the QCs of direct children count, so a block with one child has two thirds and
is never ready.  `CommittedBecomesFinal` is not affected: its premise is the
code's own test.

## 5. The L1 model

`L1Notarization.tla` models one node; the others appear through the attestations
they publish.

| TLA+ | code |
|---|---|
| `work[t]` | where goroutine `t` is in its handler, with the block and count in its local variables |
| `seen`, `attests` | the maps of those names; the empty set is the absence of the entry |
| `young` | blocks whose entry in `first` is less than `retainFor` old |
| `recent`, `index` | `recent` and `recByHash`, positions from 1, 0 for a missing entry |
| `attested`, `queue` | who ever published an attestation of a block; what the attestation topic still holds |
| `announced` | the notarizations published |
| `panicked` | history: a process has died of an index past the end |

**Grain.**  Two goroutines run the service: one reads the block topic (`OnBlock`,
`OnBlockProposed`, `TrackOwn`), one the attestation topic (`OnAttest`).  Both end
up in `onAttest`, which takes the mutex four times; each critical section is an
action, and anything may come in between: `Track`, `UpdateAttesters`,
`RecordNotarized`, `StopTracking`, then `PublishNotarized`.  The node's own
attestation is counted by the block goroutine and once more when the topic
delivers it to its sender.

**Simplifications.**  Attestations are those that nodes have published: `onAttest`
does not check the signature, so a forged attester is outside this model.  The
raw attestations are kept as the set of their attesters.  The producer attests
its own block like every node (line 184), so `MinAttesters` counts it, other than
the comment of line 27 says.  Latencies and times of
records are left out, as are blocks without a hash.

`Panic` is the access `recent[idx]` with an index past the end.  The process
then ends; the model lets it start again with empty maps.

### Runs

| run | instance | shows |
|---|---|---|
| `l1` (`L1.cfg`) | 2 blocks, room for 1 record, the node and one other, who attests one of the blocks; both needed; fairness | `TypeOK`, `RecordsAreIndexed`, `RecordStaysNotarized`, `ImplementsNotarization`, `EnoughAttestersNotarize`; the panic occurs |

Why these bounds: a record is pushed out when there are more blocks than room
for them, and pushed out between two critical sections when the other goroutine
has a block of its own.  Two attesters that are both needed make the order of
their attestations matter, and the node's own comes twice.  `Votes` bounds what
the other attester attests: the second block serves to push the first one out.

**Fairness**: both goroutines go on with what they do, and a queued
attestation is eventually taken: the topic is a queue, so this is strong
fairness of each `OnAttest`, which is disabled while the goroutine is busy.  An
attestation is delivered once; nothing makes a node attest again.  After a panic
the attesters counted before it are lost, so `EnoughAttestersNotarize` holds of
processes that have not died of it.

### Two things the code does

*Index.*  `recordNotarized` reindexes and then cuts the list, the two other
functions do it the other way round.  If the block has meanwhile been pushed out
of the list, the one that is cut off next keeps an index past the end, and an
attestation of it panics.  With room for 32 records this needs 32 blocks recorded
between two critical sections of `onAttest`, as when a node catches up.
`RecordsAreIndexed` (which holds) says that the records that are in the list are
always found; the entries that are not in the list any more are what `Panic` is
about.

*Once.*  The comment says "Notarize once".  Deleting the attesters of a notarized
block makes the service forget that it was notarized; the next attestation
counts from one.  With the default of one attester, every attestation announces
the block again.

## 6. Transactions: `Mempool`, `TxFlow`

`Mempool.tla` is `Pool` with the replay window it consults; `TxFlow.tla` extends
it with the goroutines that bring transactions in and the builder and block hook
that take them out.  `Admission.tla` is what the two promise about sequence
numbers.

| TLA+ | code |
|---|---|
| `pool.entries`, `pool.order`, `pool.bytes` | `Pool.entries`, `order`, `curBytes` |
| `age` | `now - entry.added`, in ticks |
| `last` | `devSeq`, by device and key id (`coseutil/cose.go`) |
| `left` | history: transactions that were in the pool and are not any more |
| `keys` | the key registry |
| `job[g]` | the transaction the topic or retry goroutine is fetching a key for |
| `retries` | the channel `retryCh` |
| `Refuse`, `RefuseLarge`, `Enter` | the outcomes of `AddValidatedCOSE` |
| `Look`, `PopBatch`, `RemoveTxIDs` | `Len` and `Snapshot`, `PopBatch`, `RemoveTxIDs` |
| `Deliver`, `TakeRetry`, `FetchReturns` | `process` in `StartTxGossipToPool`, cut where it leaves for `FetchAndRegisterKey` |
| `PostTx`, `RegisterKey` | `POST /tx`, `POST /keys/register` |
| `Kept` | the walk over `order` that leaves out removed ids |
| `BuildBlock`, `Packed` | the builder's batch, and what fits into its block |
| `AcceptBlock` | the block hook's `RemoveTxIDs` |

**Grain.**  Every method of the pool holds its mutex throughout and is one action,
sweep and eviction included.  `process` is two: a fetch of up to 1.2 seconds lies
between its attempts, during which everything else runs.

**What the code does that may surprise.**  The window moves before the size is
checked, so a transaction that is too large uses up its number (`RefuseLarge`).
A transaction that is overtaken by a later one of its device is lost.  What the
builder pops and does not pack is in no block and not in the pool, and the window
keeps it from coming back (`BuildBlock`, `Packed`).  A transaction that reaches
the node in another's block before its gossip is admitted afterwards and may be
packed again: the pool does not know the chain.  Only the topic retries for the
first time; the retry goroutine stops after `maxRetry` attempts, and a full
channel drops.

**Simplifications.**  Signatures and payloads are valid.  The ids gossip uses
against duplicates are made of the content, so they never hide a transaction
that has not been seen.  Pool and window are in memory only, and a restart empties
both; the models have no restart, after which an old transaction is admitted anew.

| run | instance | shows |
|---|---|---|
| `pool` (`TxFlow.cfg`) | 3 transactions of one device, the last too large, 2 of another; a pool of 2 transactions and 3 bytes; expiry after 1 tick; a channel of 1, 2 attempts; blocks of 2 transactions and 2 bytes | `PoolSound`, `LeavesForGood`, `NextBlockIsAcceptable`, `AdmissionSpec`, `KeyedIsConsidered` |

Why these bounds: each limit can be hit alone and with another one (two small
transactions fit, a small and a large one fill the bytes, two large ones do not
fit; the channel is full with one transaction in it while each goroutine holds
one).  Three numbers of one device are the least with one overtaken, one used up
by its size and one in the pool.

**Fairness** (`KeyedIsConsidered`): the retry goroutine takes what is in the channel
(weak fairness of `Receive`), and a fetch returns, since it has a timeout
(`Finish(g)`).  Peers and gossip owe nothing.

## 7. The block store: `Chain`

| TLA+ | code |
|---|---|
| `known`, `tip`, `txIndex`, `waiting` | `Chain.known`, `TipHash`, `txIndex`, `waiting` |
| `stage`, `current`, `cascade`, `caller` | where the goroutine that holds the mutex is in `acceptBlockLocked`, and the children it has popped |
| `hook` | the subscriber between `AcceptBlock` and the end of `onAccept` |
| `fetching` | goroutines in `fetchAndInjectParent` |
| `cursor` | the builder's `prev` between its tick and its publication |
| `file`, `index`, `txFile` | the block files ("bad": there is one, but it cannot be read), `index.json`, `txindex.json` |
| `failures`, `crashes` | how many writes have failed and how often the process was restarted |
| `ReceiveConnected`, `ReceiveOrphan` | the subscriber of the block topic |
| `SaveBlock`, `SaveIndex`, `SaveTxIndex`, `HandleChild`, `Unlock` | `acceptBlockLocked` |
| `FetchParent`, `FetchFails`, `RetryFetches` | `fetchAndInjectParent` and the loop that repeats it |
| `ReadTip`, `Propose`, `SkipTick` | a tick of `StartBuilder` |
| `RunHook` | `onAccept`, for the block that came from the topic |
| `Restart` | the end of the process anywhere, `loadIndex`, `loadTxIndex` |

**Grain.**  The mutex is held during the three writes and the cascade, so nothing
else changes memory meanwhile; they are separate steps because the process may
die between or within them.  `os.WriteFile` truncates first, so a file being
written may be left without its contents.  Each write may also fail, and leave the
file as it was or empty; `acceptBlockLocked` drops the error and goes on.

**What the code does that may surprise.**  `index.json` is written with names
that `loadIndex` does not read: a restart keeps the known blocks and loses the
tip, so that the builder starts at height one again (line 592), beside the chain
it knows.  The tip moves to any higher block, whatever its branch.  The hook
is called for blocks of the topic only: the transactions of fetched and cascaded
blocks stay in the mempool, and L2 and L3 do not hear of them from the chain.
A crash between the index and the transaction index leaves a block whose
transactions cannot be found.  A write that fails is neither repeated nor
reported: the block is indexed, announced to the other layers and lost at the
next restart.  A block that is received again is written again, and a crash then
tears the file of an indexed block.  `LossIsBounded` is what remains: a block that
somebody may look for was written once, and each failed write and each restart
costs at most one of them its file.  The builder reads the tip, asks AION and
publishes later: a block accepted in between becomes its block's sibling.

**Simplifications.**  `waiting` is a set, while every failed round of the retry
loop appends a copy of what it fetched; the cascade handles children in any order,
the code goes depth first; blocks are valid.  RPC reads are left out.

| run | instance | shows |
|---|---|---|
| `chain` (`Chain.cfg`) | a chain of 3 and a block of the node's own that competes with the third and shares its transaction, 1 failed write, 1 crash | `NoHoles`, `NoneWaitsInVain`, `LossIsBounded`, `TipIsSound`, `QueueDrains` |

Why these bounds: a chain of three delivered from its end makes the fetch of a parent
queue that parent, and the cascade two deep; the rival gives a sibling, a tip that
does not move and a transaction in two blocks.  One failure and one
crash fall at every step; the proofs allow any number.

**Fairness** (`QueueDrains`): the holder of the mutex goes on; the loop asks every two
seconds and a peer that has the block answers again and again (`RetryFetches`,
`FetchParent`).  Both wait for a mutex that others take in between, so fairness is
strong.  It is an assumption about the peers too: a block that nobody serves waits
for ever.

## 8. The election: `Weight`, `AionElection`

| TLA+ | code |
|---|---|
| `slot`, `at` | `CurrentSlot` of this process; the last epoch each publisher published for |
| `cmt`, `rev`, `vrf`, `pendingVRF`, `schedule` | `commits`, `reveals`, `vrfs`, `pendingVRF`, `schedules` |
| `job[g]` | where the goroutine of a topic is, with its local variables |
| `Publish`, `Published`, `Sent` | the epoch publisher: commitment and output for this epoch and the next, seed of this one; what of it may arrive |
| `OnCommit`, `OnReveal` + `KeepReveal`, `OnVRF` + `StashVRF` or `KeepVRF`, `OnEntropy` | the handlers, cut at their critical sections |
| `Collect`, `StoreSchedule` | `updateLeader` |
| `AllowProduceSlot` | the predicate of that name |
| `Restart`, `GracePanics`, `MapFault` | the end of the process: by `sched[-1]`, or by the concurrent use of a map |
| `RankValue`, `WeightOf` | `weight.go` |

**Grain.**  One action for each critical section.  `updateLeader` looks whether there
are candidates and then iterates over the map with no lock; the list holds what
was there before the iteration and any part of what was added meanwhile.

**Publishers.**  One that follows the code has one seed for an epoch (`Own`), which it
derives from its key.  The handlers do not rely on that, and neither does the model:
the constant `Odd` holds messages of publishers that do not follow the code, which
commit to several seeds, reveal any of them, and show outputs over one of them or
outputs that do not verify (`Bad`).  All messages may arrive in any order, again, or
never.  Clocks start with their processes: a peer that restarts begins at epoch 0
and repeats what it sent before, which repeated delivery covers.  The checks of the handlers are as
in the code: a seed is taken if no commitment is here or if it fits the one that is;
an output is verified against the seed that is here, and one that comes before its
seed is stashed unverified, in place of one that waited.

**What the code does that may surprise.**
`onCommit` overwrites a commitment with a later one (line 485).  So a
commitment binds while it is kept, which is what `CommitmentBinds` says: with a new one
its publisher is free to reveal another seed, and nothing in the service notices.

The rank is not the score.  `RankValue` is to compute "y / Wt" (line 47), but the
scaling shifts the first byte out of its buffer.  The run `election_rank` shows two
candidates whose order this reverses (`RankedByScore`); `FirstByteIsLost` proves that
the byte never matters.  The repository's `TestRankValue_Order` demands otherwise.
`RankedByOutput` says what the order is: that of the outputs without their first byte,
divided by the weight, and by peer id where the quotients are equal.  That the
long division is exact is a part of it; that the first byte is missing is the finding.
The weight is the same for all candidates and matters all the same: dividing
by more than 1.0 may make neighbouring outputs equal, and then the larger one goes
first if its peer id is smaller.  `QuotientGrows` is what remains of the order of the
outputs: it is never reversed by the weight.

Commitments and outputs are published an epoch ahead "so the schedule can be ready
before it starts" (line 440), but the seed that an output is verified with is published
when its epoch begins by the publisher's clock.  A schedule is thus ready early only
for nodes whose clocks are behind the publisher's.  The comment of `AllowProduceSlot`
(line 168) speaks of at least two candidates; the code is content with one.  In the
first slots of an epoch without a schedule the last one's is consulted at an index
that is negative for exactly two candidates and the first group
(`GraceIndexRange`); the process then panics.  `updateLeader` may store an older
list over a newer one.  An output whose seed arrives between the lookup and the
stash waits for a second copy of either.  The
entropy of cells is received, stored and read nowhere else.  Slots are counted from
the start of each process, so slots of different nodes are not aligned, and nodes with
different candidates may both take a slot: `EverySlotHasProducer` is about nodes with
the same schedules.  `LeaderService` (`service.go`) is started nowhere, the
subscriber's idea of an epoch (64 slots) is not `EpochLength`, and `AcceptProducer`
accepts every producer.

**Simplifications.**  Malformed messages are dropped before any state is touched.
The VRF is `Output`, a constant: unique, as it must be.  An entry that changes more
than once while `updateLeader` iterates is seen as it was or as it has become.

| run | instance | shows |
|---|---|---|
| `election` (`Election.cfg`) | 2 publishers: one that follows the code and has a cell, one that commits to two seeds, reveals either and shows an output over one of them and one that does not verify; epochs 0 and 1 of one slot, the messages of epoch 0 arriving; bytes of base 4, outputs of 3; two weights; restarts | `RankedByOutput`, `CommitmentBinds`, `OutputsAreKept`, `ElectionSpec`, `CandidatesAreScheduled` |
| `election_rank` (`ElectionRank.cfg`) | the same | **violates** `RankedByScore` |

Why these bounds: two candidates are the least with an order and the only number
that makes the grace index negative; with two epochs the schedule of the first is
consulted in the second.  The messages of one epoch meet no others in the handlers,
so `Heard` has one epoch.  `Odd` has one of the two possible seeds under outputs;
the other one would only repeat its cases.  The two outputs are ordered by their first
byte one way and by the rest the other way; the heavier weight makes their ranks
equal, so that the peer ids decide.  The clock is bounded, hence `CHECK_DEADLOCK FALSE`.

**Fairness** (`CandidatesAreScheduled`): each of the three goroutines finishes what it
began.  Publishers, clocks and gossip owe nothing.

## 9. Devices: `IotDevices`

| TLA+ | code |
|---|---|
| `reg`, `file`, `writing` | `Registry.byID`, `devices.json`, and `saveLocked` under way |
| `behind` | history: the last write failed |
| `cell` | `Manager.cell` |
| `node` | `main`: the preflight loop, the start of the services |
| `attest[a]` | the `/iot/attest` request of `a` |
| `sync`, `reported` | the pass over the attesters, `lastDevices` |
| `l3` | `L3Service`: its cell, `attesters`, `devicesTotal` |
| `Register`, `HandleRemove` | HTTP and control-stream handlers |
| `Preflight`, `PreflightForm`, `StartServices`, `StatsTick` | `main`, `TryForm` |
| `Attest`, `AttestPut`, `AttestCount`, `AttestReport`, `AttestRecord` | `/iot/attest` with `RecordDeviceAttestation` |
| `Discover`, `SyncGet`, `SyncPut`, `SyncList`, `SyncRemove`, `SyncReport` | `discoverAttesters`, `syncAttesterRegistry`, the report of the total |
| `Crash` | the end of the process anywhere, and `load` |
| `SaveLocked`, `SaveFails` | `saveLocked`, and its failure |

**Grain.**  One action for each call of the registry, and one for the write at its
end; a handler or pass that calls several times is several actions.  The times that
a call enters were read before it waited for the mutex (`since`, `Late`).

**What the code does that may surprise.**  An attestation reads the entry and writes
it back later, so it brings back an attester removed meanwhile, and so does the
pass (`SyncPut`); the pass removes an attester that registered after it had made its
list.  Registering again resets the time first seen.  Attesters count as devices
for the threshold of the cell.  `UpdateDeviceTotal` only raises the total.
Preflight counts the devices and `TryForm` counts them again: in between one may
leave, and the node starts without a cell; the statistics ticker forms it later,
unless its interval is zero.  A `devices.json` that was torn reads as an empty
registry; an intact one lets the cell form at once after a restart.

A write that fails leaves the change in the registry and not in the file.
`Remove` ignores the error, so a removal that was answered with OK may be undone by
a restart; `UpsertWithLimit` returns it, and the caller is told of a failure
although the device is registered.  `FileInStep` (a part of `RegistrySound`) therefore
speaks of registries whose last write did not fail: in those a crash between calls
undoes nothing, whatever failed earlier, since every write stores the whole registry.

**Simplifications.**  One attestation request at a time for each attester; ids equal
when their lower-case forms are; whether L3 takes a vote depends on its blocks and
is left open; keys registered with devices are `TxFlow!RegisterKey`; the key of the
cell is data.

| run | instance | shows |
|---|---|---|
| `devices` (`Devices.cfg`) | 2 devices and 1 attester, room for 1 device and a threshold of 1, 2 instants and no patience with silence, any number of failed writes and crashes | `RegistrySound`, `RemovedWithReason`, `AttestersAreCounted`, `SilentAttestersLeave` |

Why these bounds: two devices compete for one place, and the attester registers,
falls silent, is removed and comes back during a pass; with a cell of one, which
device makes it depends on who came first.  Two instants are enough for a time that
is old when it is entered.  `Late` is the attester, whose times the pass compares;
`Leaving` is the attester too, so that one on the pass's list goes before the pass
looks it up (`SyncPut`); an ordinary device leaves its place in a crash only, its
removal on request being left to the proofs.  Two attesters exceed five million states;
`AttestersAreCounted` is checked for a total of one, the invariants are proved for
any number.  `RemovedWithReason` allows the pass to remove an attester whose entry
was written after the pass had listed the registry (`written`): that is the flaw of
the pass, and the property says that it has no other.

**Fairness**: a call that holds the mutex returns; the ticker runs the pass for ever,
and Go's mutex is handed over to whoever has waited for a millisecond, so a
pass that asks for it again and again gets it (strong fairness).


## 10. Proofs

### L2

`L2CheckpointProofs.tla`, checked by TLAPS for every set of validators, block
tree, membership, number of goroutines and set of claimed commits (assumptions
`ValidatorAssumption`, `ChainAssumption`; TLC evaluates both on each instance).

* `TypeCorrect`: by cases on the actions; `StoreQCType`, `ConsumeVoteType`,
  `BuiltType` carry the calls.
* `InvariantHolds`: the inductive invariant `IInv`.  `CommitRuleComplete` is
  not inductive alone.  That a three-chain is found when its last QC is stored
  needs to know that every certified block is listed among the children of its
  parent (`KidsAreComplete`: unless one of the two is committed), that the
  grandparent can be read off the entry of the parent (`CertifiedAreKnown`:
  certified blocks keep their entries until they are committed), and that lists hold
  children only (`KidsAreChildren`, which also gives `CommitsAreJustified`).  What a
  goroutine has in hand between two critical sections is `BuiltAreBacked`: a QC in
  the making has real votes, and lacks the entry of its block only if the block
  is committed.  `QCsAreBacked` rests on it, and it on `VotesAreCast`.
  `StepShape` first reduces the many actions to a few kinds of step: quiet ones,
  the storing of a QC, sweeps, commits learnt and commit checks; each has a lemma.
* `QCsBacked`, `CommitsJustified`, `CommitsComplete`, `LockCertified` follow.
* `LockAdvances`, `DecisionsKeepToLock`: action properties, from the shape of a step.
* `QCsIntersect`: with at most five validators, or every membership count above three
  quarters of them (`MembershipSuffices`).  A quorum is never below three, so up to
  five validators may be undercounted at will.  For more the assumption is needed:
  `CountAndSweep` counts the heartbeats a node received, and a node that hears three
  of seven takes three for a quorum.  Nothing in the code ensures it.
* `DisagreementTakesDoubleVotes` assumes nothing about memberships: two blocks that
  nodes committed by themselves, whatever the branches, share the votes of `p + q - N`
  validators, where `p` and `q` are two quorums in force and `N` the number of
  validators.  With sound counts that is a third of them, so that one validator that
  votes twice is not enough for what the run `l2_agreement` shows; with undercounted
  ones it may be nobody.
* `Refinement`: `L2Checkpoint` implements `Checkpoint` with `voted <- cast`,
  `final <- announced`: votes and a node's own commits are never taken back, and such
  a commit needs three quorums of votes.

### L3

`L3FinalityProofs.tla`, for every set of nodes, cells, devices and validators, every
set of claimed envelopes and every block tree in which a block has finitely many children (assumptions
`ParameterAssumption`, `BlockAssumption`, evaluated by TLC too).

* `TypeCorrect`, `QuarantineHeeded` rest on the part `CellInv` of the invariant.
  That `misbehave` stays in bounds needs that a cell at the limit is
  quarantined (`FailedAreQuarantined`); that a late verification does not count
  such a cell needs that the cell being verified is below the limit
  (`CheckedAreTrusted`), which holds because the goroutine that verifies is the
  only one that records failures.
* `FinalSupported`: `StepProgresses` reduces every action to `Progresses`:
  commits, QCs, final blocks and envelopes grow at one node, and a block becomes
  final when it is ready or has an envelope.  `ReadyIsSupported` turns the
  decimal threshold into two thirds, `SupportStays` shows that weights only grow
  (`WeightGrows`, over the finite set of votes), and `EnvelopesAreFinal` is
  what a received envelope rests on.
* `Refinement`: `L3Finality` implements `Finality`.  A final block stays final
  although attestations set the status back to pending in passing (line 571).

### L1

`L1NotarizationProofs.tla`, for every set of blocks and attesters, every threshold
and every length of the list (assumption `ParameterAssumption`).

* `TypeCorrect`, `RecordsIndexed`, `NotarizedForGood`, `Refinement` rest on one
  inductive invariant, `IInv`: the records are where the index says
  (`RecordsAreIndexed`), counted attesters have attested (`CountedHaveAttested`),
  and the count a goroutine holds is backed and, past the test, large enough
  (`JobsAreBacked`).  The last is what lets an announcement be right although the
  attesters were forgotten in between.
* The list: `NewInFront` shows that putting a record of a block without an
  index in front leaves one record for each block, `IndexOfFinds` that the index of such a
  list is right at every place, `TruncateKeepsFront` that cutting keeps it so,
  also when the index was built before the cut.

### Transactions

`TxFlowProofs.tla`, for every set of transactions, senders and limits
(`MempoolAssumption`, `FlowAssumption`, `JobAssumption`).

* `FlowSteps` reduces every action to `PoolStep`: the pool only loses
  transactions, or takes one in whose number is news, or uses a number up.
* `WindowInvariant`: every transaction that is in the pool or has left it has a
  number not above its sender's window (`WindowCovers`).  What has left is
  disjoint from what is in (`GoneForGood`) because entering needs a number above
  the window.
* `NumbersIncrease`: the refinement of `Admission`.

* `FlowInvariant`: the inductive invariant behind `PoolSound`.  It says of the pool
  that the FIFO lists every entry once and nothing else (`Fifo`), that the counter
  is the sum of the sizes, that the limits hold (`WithinCaps`), that ages and FIFO have
  the same order (`OldestFirst`), and that every transaction in the pool has its key
  (`EntriesKnown`); one lemma per method of `Pool` (`AddFits`, `PopFits`,
  `RemoveFits`, `TickFits`, `LookFits`).  What was strengthened against `PoolSound`: the
  map equals the set of the FIFO's elements, with no duplicates, where the code
  tolerates ids in `order` that are not in `entries`; and keys are never
  unregistered.
* Sums: `Bytes` folds over a set.  `BytesAreUnits` counts instead: the sum of the
  sizes is the number of pairs of a transaction and a byte of it, so that the
  theorems on cardinality give `BytesSplit`, `BytesAdd` and `BytesOfNone`.
* The walk over the FIFO: `KeptIsFilter` says that what `Kept` returns is a
  subsequence (`Embeds`) with exactly the elements asked for.
* `RoomInRange`: evicting from the head always ends with room for the new
  transaction, so the error "mempool_full" is unreachable.
* `PoolIsSound`, `BlocksAreAcceptable` follow; the second from `BatchFacts` and
  `PackedFacts`: the builder's cut by count and bytes passes the subscriber's.

### The block store

`ChainProofs.tla`, for every set and tree of blocks, also one with gaps in its
heights, and any number of failed writes and crashes (`BlockAssumption`).
`InvariantHolds` has, beside `NoHoles` and the tip:

* `IndexBehind`: the index never lists what is not known, so that what a restart
  reads has no holes if memory has none;
* `FilesFollow`, `TxsFollow`, `HookFollows`: the writing of known blocks was tried,
  but for the one at `stage = "block"`, and with them that of whatever the two
  indices and the hook speak of;
* `LossCounted`: at most one file is bad for each failure and each restart;
* `OnlyCurrentAwaited`: a queued block that could connect is a child of the block
  being accepted, which will pop it.  `NoneWaitsInVain` speaks of a free mutex
  only and is not inductive.

`StoreHasNoHoles`, `CascadeIsComplete`, `LossBounded` and `TipSound` follow.

### The election

`AionElectionProofs.tla`, for every finite set of publishers, all outputs, weights
and lengths of epochs (`ParameterAssumption`, `WeightAssumption`).

* `InvariantHolds`: an output being verified has a seed, candidates have one,
  and a list being built holds candidates (`JobsFit`, `CachesFit`).
* `Implementation`: `AionElection` implements `Election`; handlers that only take a
  message stutter.
* `OutputsStay`, `CommitmentsHold`: by one case for each critical section
  (`StepKeepsOutputs`, `StepKeepsBound`), for every set of odd messages.
* `GraceIndexRange`: arithmetic on Go's remainder.

* `RankIsQuotient`: the long division is exact, for every base, length and weight but
  0.  `DivisionByByte` unfolds the loop and shows that cutting a quotient digit to a
  byte loses nothing (`DivisionStep`); the loop invariant, in the proof of
  `RankIsQuotient`, is that the bytes read so far are the quotient so far times the
  weight plus the remainder (`DivisionGoesOn`).  `ScaledValue` accounts for the shift
  that drops the first byte.  `WeightRange`: the weight is at least 1.0, which
  justifies the assumption that it is not 0.
* `SmallerComparesValues`: comparing bytes from the left compares the numbers.
* `ScheduleIsRanked`: hence the order of the list is a strict order of the
  candidates (`BeforeOrders`), and `PlacesOfOrder` of `Induction` gives each a place
  of its own, with every place up to the length taken.
* `FirstByteIsLost`: outputs that differ in their first byte only have one rank,
  whatever their length and the weight, so the violation of `RankedByScore` does not
  depend on its instance.
* `EverySlotHasProducer`: hence the index that `AllowProduceSlot` computes finds exactly
  one candidate (`ScheduledIsListed`), given that it is in range (`GraceIndexRange`,
  `EpochInRange`): with the same schedules somebody is granted the slot and nobody
  else is.

### Recursion and induction in the proofs

`Kept`, `Value` and `RankValue` are recursive functions, and TLAPS cannot use the
library's induction theorems, whose parameter is an operator.  `Induction` has
what is needed as statements about sets: `NaturalsOf` (a set of naturals with 0
and successors has all) from `LeastNatural`, which comes from the well-foundedness of
strict inclusion between finite sets; and `RecursionExists`: a function with a given
first value and given steps exists.  A recursive definition is the `CHOOSE` of such a
function, so it satisfies its equations, and `NaturalsOf` does the induction.

### Devices

`IotDevicesProofs.tla`, for all finite sets of devices and attesters, every limit,
threshold and retention and any number of failed writes and crashes
(`IotAssumption`).

* `RegistryIsSound`: `CountWritten`, `CountRemoved` say what an entry does to the
  number of ordinary devices; `UpsertKeeps`, `RemoveKeeps` carry each caller.
  That the cell has `Threshold` devices needs that the limit is the threshold, as
  `main.go` derives it.
* `RemovalsAreJustified`: in the pass, whoever is to be removed and registered is
  silent or was written since the pass listed the registry (`UnlistedAreRemovable`):
  whoever was recent at the beginning is on the list.
* `CellIsKept`: a process never replaces its cell, whoever calls `TryForm`.
  `DevicesAreKept`: an ordinary device leaves on request or in a crash only.

### Only model-checked

The liveness properties (TLAPS does not handle fairness): `OrderedChainsCommit`,
`PendingResolves`, `CommittedBecomesFinal`, `EnoughAttestersNotarize`,
`KeyedIsConsidered`, `QueueDrains`, `CandidatesAreScheduled`, `AttestersAreCounted`,
`SilentAttestersLeave`; and the violations of `Agreement` and `RankedByScore`.  Every invariant, action
property and refinement that a passing run checks is a theorem.
A refinement theorem is about the abstract specification, which is a safety
property in every case.

## 11. Not modelled

* *L2 with L3*: see section 2.
* *Restarts of L1, L2, L3 and the mempool*: they persist nothing, so a restart is the
  initial state again.  What their properties say of a node holds for the life of a
  process: a restarted node has forgotten its lock, its votes and its window.
* *Merkle tree*: a pure recursive function over hashes, with no state and no
  interleaving; bounded inputs are what its unit tests have.
* *Membership by heartbeats*: only the counts matter to the services; they are the
  constant `Memberships`, of which every change at any time is explored.
* *COSE, signatures, hashing, floating-point entropy, sockets, HTTP parsing, the node
  directory, simulators, logging*: byte formats and I/O, or tables that no decision
  reads.

