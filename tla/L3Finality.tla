----------------------------- MODULE L3Finality -----------------------------
(***************************************************************************)
(* The HELIOS L3 finality service (internal/helios/l3_finality.go): a      *)
(* block becomes final at a node once L2 has committed it, cells and       *)
(* devices have attested it, and the QCs of its children carry two thirds  *)
(* of the stake; the node then broadcasts an envelope, and whoever         *)
(* receives it holds the block as final too.                               *)
(*                                                                         *)
(* One action is one critical section of L3Service.  Only onAttestation    *)
(* has two: it looks at the block, unlocks to verify the sample proofs,    *)
(* and locks again to count the cell.                                      *)
(***************************************************************************)
EXTENDS Integers, FiniteSets

CONSTANTS
  Nodes,            \* nodes that run the service
  Blocks,
  NoBlock,          \* the empty parent
  Parent,           \* PrevHash of a block
  Height,           \* Height of a block
  Cells,            \* the cells of all nodes
  OwnCells,         \* the cells a node registers: those it formed itself
  Devices,          \* L3 attesters, by their lower-case ids
  DeviceCounts,     \* attester totals the device registry may report
  Memberships,      \* validator counts, the values of TotalStake
  Validators,
  Certificates,     \* the signer sets of the QCs that L2 stores
  MinCells,         \* params.MinCells
  MaxMisbehavior,   \* params.MaxMisbehavior
  Claims            \* blocks for which an envelope may arrive that no node
                    \* broadcast: onEnvelope verifies nothing

ASSUME ParameterAssumption ==
  /\ OwnCells \in [Nodes -> SUBSET Cells]
  /\ \A S \in {Cells, Devices, Validators} : IsFiniteSet(S)
  /\ DeviceCounts \subseteq Nat
  /\ Memberships \subseteq Nat \ {0}
  /\ Certificates \subseteq (SUBSET Validators) \ {{}}
  /\ MinCells \in Nat \ {0}
  /\ MaxMisbehavior \in Nat \ {0}

ASSUME BlockAssumption ==
  /\ NoBlock \notin Blocks
  /\ Parent \in [Blocks -> Blocks \cup {NoBlock}]
  /\ Height \in [Blocks -> Nat]
  /\ \A b \in Blocks : IsFiniteSet({c \in Blocks : Parent[c] = b})
  /\ Claims \subseteq Blocks

VARIABLES
  status,        \* status[n][b]: "none" (no entry), "pending" or "final"
  l2Committed,   \* l2Committed[n]: blocks L2 has reported as committed
  cells,         \* cells[n][b]: cells whose attestation of b is counted
  deviceVotes,   \* deviceVotes[n][b]: devices whose vote for b is counted
  qcs,           \* qcs[n][c]: the signers of the QC recorded for b's child c
  old,           \* old[n]: blocks first seen a challenge window ago
  cellStatus,    \* cellStatus[n][k]: the status of k in the cell registry
  misbehave,     \* misbehave[n][k]: failed attestations of k
  checking,      \* checking[n]: the attestation being verified, at most one
  attesters,     \* attesters[n]: devices that have voted at n
  devicesTotal,  \* devicesTotal[n]: the greatest attester total so far
  stake,         \* stake[n]: params.TotalStake
  envelopes      \* blocks for which an envelope was broadcast

blockVars == <<status, l2Committed, cells, deviceVotes, qcs, old>>
vars == <<blockVars, cellStatus, misbehave, checking, attesters, devicesTotal,
          stake, envelopes>>

TypeOK ==
  /\ status \in [Nodes -> [Blocks -> {"none", "pending", "final"}]]
  /\ l2Committed \in [Nodes -> SUBSET Blocks]
  /\ cells \in [Nodes -> [Blocks -> SUBSET Cells]]
  /\ deviceVotes \in [Nodes -> [Blocks -> SUBSET Devices]]
  /\ qcs \in [Nodes -> [Blocks -> Certificates \cup {{}}]]
  /\ old \in [Nodes -> SUBSET Blocks]
  /\ cellStatus \in [Nodes -> [Cells -> {"unknown", "active", "quarantined"}]]
  /\ misbehave \in [Nodes -> [Cells -> 0 .. MaxMisbehavior]]
  /\ checking \in [Nodes -> SUBSET (Cells \X Blocks)]
  /\ attesters \in [Nodes -> SUBSET Devices]
  /\ devicesTotal \in [Nodes -> Nat]
  /\ stake \in [Nodes -> Memberships]
  /\ envelopes \in SUBSET Blocks

Init ==
  /\ status = [n \in Nodes |-> [b \in Blocks |-> "none"]]
  /\ l2Committed = [n \in Nodes |-> {}]
  /\ cells = [n \in Nodes |-> [b \in Blocks |-> {}]]
  /\ deviceVotes = [n \in Nodes |-> [b \in Blocks |-> {}]]
  /\ qcs = [n \in Nodes |-> [b \in Blocks |-> {}]]
  /\ old = [n \in Nodes |-> {}]
  /\ cellStatus = [n \in Nodes |-> [k \in Cells |-> "unknown"]]
  /\ misbehave = [n \in Nodes |-> [k \in Cells |-> 0]]
  /\ checking = [n \in Nodes |-> {}]
  /\ attesters = [n \in Nodes |-> {}]
  /\ devicesTotal = [n \in Nodes |-> 0]
  /\ stake \in [Nodes -> Memberships]
  /\ envelopes = {}

-----------------------------------------------------------------------------
(* When a block is ready. *)

Tracked(n) == {b \in Blocks : status[n][b] # "none"}
Final(n) == {b \in Blocks : status[n][b] = "final"}
Children(b) == {c \in Blocks : Parent[c] = b}

Active(n) == {k \in Cells : cellStatus[n][k] = "active"}

\* MinCells cells are wanted, or all active ones; when the challenge window is
\* over, half of them will do, and so will none.
CellsSuffice(n, b) ==
  LET active == Cardinality(Active(n))
      required == IF MinCells > active THEN active ELSE MinCells
      have == Cardinality(cells[n][b])
  IN \/ have >= required
     \/ b \in old[n] /\ (have = 0 \/ have >= (required + 1) \div 2)

\* Two thirds, rounded up.
requiredDevices(total) == (2 * total + 2) \div 3

attesterTotal(known, total) ==
  IF Cardinality(known) > total THEN Cardinality(known) ELSE total

HasDeviceQuorum(n, b) ==
  Cardinality(deviceVotes[n][b])
    >= requiredDevices(attesterTotal(attesters[n], devicesTotal[n]))

\* A block's weight is the number of votes in the QCs of its children, of all
\* children together.
Weight(n, b) == Cardinality(UNION {{c} \X qcs[n][c] : c \in Children(b)})

\* defaultL3StakeThreshold is the decimal fraction 0.6666667.
HasTwoThirdsWeightOnDescendants(n, b) ==
  Weight(n, b) * 10000000 >= stake[n] * 6666667

\* Mutant: the L2 commit is not asked for.
ReadyUncommitted(n, b) ==
  /\ CellsSuffice(n, b)
  /\ HasDeviceQuorum(n, b)
  /\ HasTwoThirdsWeightOnDescendants(n, b)

Ready(n, b) ==
  /\ b \in l2Committed[n]
  /\ CellsSuffice(n, b)
  /\ HasDeviceQuorum(n, b)
  /\ HasTwoThirdsWeightOnDescendants(n, b)

\* With the other changes of the step made, the blocks of S get an entry, and
\* those of them that are now ready become final and are announced.
MaybeFinalize(n, S) ==
  LET finalized == {b \in S \ Final(n) : Ready(n, b)'} IN
  /\ status' = [status EXCEPT ![n] =
       [b \in Blocks |-> IF b \in finalized THEN "final"
                         ELSE IF b \in S \ Tracked(n) THEN "pending" ELSE @[b]]]
  /\ envelopes' = envelopes \cup finalized

\* An entry is created for b if there is none.
EnsureBlock(n, b) ==
  /\ status' = [status EXCEPT ![n][b] = IF b \in Final(n) THEN @ ELSE "pending"]
  /\ UNCHANGED envelopes

-----------------------------------------------------------------------------
(* What L2, the block hook and the membership refresher report. *)

\* A block was accepted, or (l2) committed.  Readiness is left to the recheck.
RecordBlockMeta(n, b, l2) ==
  /\ EnsureBlock(n, b)
  /\ l2Committed' = [l2Committed EXCEPT ![n] = IF l2 THEN @ \cup {b} ELSE @]
  /\ UNCHANGED <<cells, deviceVotes, qcs, old, cellStatus, misbehave, checking,
                 attesters, devicesTotal, stake>>

\* L2 stored its one QC of c, signed by V: it counts for the parent of c.
RecordDescendantQC(n, c, V) ==
  /\ Parent[c] # NoBlock
  /\ qcs[n][c] = {}
  /\ qcs' = [qcs EXCEPT ![n][c] = V]
  /\ UNCHANGED <<l2Committed, cells, deviceVotes, old, cellStatus, misbehave,
                 checking, attesters, devicesTotal, stake>>
  /\ MaybeFinalize(n, {Parent[c]})

UpdateTotalStake(n, m) ==
  /\ stake' = [stake EXCEPT ![n] = m]
  /\ UNCHANGED <<blockVars, cellStatus, misbehave, checking, attesters,
                 devicesTotal, envelopes>>

-----------------------------------------------------------------------------
(* Devices. *)

\* A total only ever raises the one held.
UpdateDeviceTotal(n, total) ==
  /\ devicesTotal' = [devicesTotal EXCEPT ![n] = IF total > @ THEN total ELSE @]
  /\ UNCHANGED <<blockVars, cellStatus, misbehave, checking, attesters, stake,
                 envelopes>>

\* Device d attests b for the first time; the totals grow with new attesters.
RecordDeviceAttestation(n, b, d) ==
  /\ UNCHANGED <<l2Committed, cells, qcs, old, cellStatus, misbehave, checking,
                 stake>>
  /\ \/ /\ b \notin Final(n)
        /\ d \notin deviceVotes[n][b]
        /\ deviceVotes' = [deviceVotes EXCEPT ![n][b] = @ \cup {d}]
        /\ attesters' = [attesters EXCEPT ![n] = @ \cup {d}]
        /\ devicesTotal' = [devicesTotal EXCEPT ![n] = attesterTotal(attesters'[n], @)]
        /\ MaybeFinalize(n, {b})
     \/ /\ b \in Final(n) \/ d \in deviceVotes[n][b]
        /\ EnsureBlock(n, b)
        /\ UNCHANGED <<deviceVotes, attesters, devicesTotal>>

-----------------------------------------------------------------------------
(* Cells. *)

\* The node registers a cell that it formed.  It does so once: a cell stays
\* formed as long as the node runs.
RegisterCell(n, k) ==
  /\ k \in OwnCells[n]
  /\ cellStatus[n][k] = "unknown"
  /\ cellStatus' = [cellStatus EXCEPT ![n][k] = "active"]
  /\ UNCHANGED <<blockVars, misbehave, checking, attesters, devicesTotal, stake,
                 envelopes>>

\* Mutant: one more failure is tolerated.
RecordFailureLate(n, k) ==
  /\ misbehave' = [misbehave EXCEPT ![n][k] = @ + 1]
  /\ cellStatus' = [cellStatus EXCEPT ![n][k] =
       IF misbehave[n][k] + 1 > MaxMisbehavior THEN "quarantined" ELSE @]

\* Cell k failed once more; too many failures put it in quarantine.
RecordFailure(n, k) ==
  /\ misbehave' = [misbehave EXCEPT ![n][k] = @ + 1]
  /\ cellStatus' = [cellStatus EXCEPT ![n][k] =
       IF misbehave[n][k] + 1 >= MaxMisbehavior THEN "quarantined" ELSE @]

\* Mutant: an attestation is taken from any registered cell, in quarantine or not.
OnAttestationOfAny(n, k, b) ==
  /\ checking[n] = {}
  /\ cellStatus[n][k] # "unknown"
  /\ UNCHANGED <<l2Committed, cells, deviceVotes, qcs, old, attesters,
                 devicesTotal, stake>>
  /\ \/ /\ k \in Active(n)
        /\ RecordFailure(n, k)
        /\ UNCHANGED <<status, checking, envelopes>>
     \/ /\ EnsureBlock(n, b)
        /\ checking' = [checking EXCEPT ![n] =
             IF b \in Final(n) \/ k \in cells[n][b] THEN {} ELSE {<<k, b>>}]
        /\ UNCHANGED <<cellStatus, misbehave>>

\* An attestation of b by cell k arrives while none is being verified.  It is
\* badly signed, or b is final or k counted already, or it goes on.
OnAttestation(n, k, b) ==
  /\ checking[n] = {}
  /\ k \in Active(n)
  /\ UNCHANGED <<l2Committed, cells, deviceVotes, qcs, old, attesters,
                 devicesTotal, stake>>
  /\ \/ /\ RecordFailure(n, k)
        /\ UNCHANGED <<status, checking, envelopes>>
     \/ /\ EnsureBlock(n, b)
        /\ checking' = [checking EXCEPT ![n] =
             IF b \in Final(n) \/ k \in cells[n][b] THEN {} ELSE {<<k, b>>}]
        /\ UNCHANGED <<cellStatus, misbehave>>

\* Mutant: the block is not looked at again after the verification.
CountUnchecked(n, k, b) ==
  /\ checking[n] = {<<k, b>>}
  /\ checking' = [checking EXCEPT ![n] = {}]
  /\ cells' = [cells EXCEPT ![n][b] = @ \cup {k}]
  /\ status' = [status EXCEPT ![n][b] = "pending"]
  /\ UNCHANGED <<l2Committed, deviceVotes, qcs, old, cellStatus, misbehave,
                 attesters, devicesTotal, stake, envelopes>>

\* The attestation is verified (the verifier the node uses accepts every proof)
\* and counted, unless the block has become final meanwhile.
CountAttestation(n, k, b) ==
  /\ checking[n] = {<<k, b>>}
  /\ checking' = [checking EXCEPT ![n] = {}]
  /\ UNCHANGED <<l2Committed, deviceVotes, qcs, old, cellStatus, misbehave,
                 attesters, devicesTotal, stake>>
  /\ \/ /\ b \in Final(n)
        /\ UNCHANGED <<cells, status, envelopes>>
     \/ /\ b \notin Final(n)
        /\ cells' = [cells EXCEPT ![n][b] = @ \cup {k}]
        /\ MaybeFinalize(n, {b})

-----------------------------------------------------------------------------
(* Envelopes, and the passing of time. *)

\* An envelope arrives: of some node, its own ones included, or one that nothing
\* stands behind.  It is taken at its word.
OnEnvelope(n, b) ==
  /\ b \in envelopes \cup Claims
  /\ status' = [status EXCEPT ![n][b] = "final"]
  /\ UNCHANGED <<l2Committed, cells, deviceVotes, qcs, old, cellStatus, misbehave,
                 checking, attesters, devicesTotal, stake, envelopes>>

\* A challenge window has passed since b got its entry.
GraceElapses(n, b) ==
  /\ b \in Tracked(n) \ (old[n] \cup Final(n))
  /\ old' = [old EXCEPT ![n] = @ \cup {b}]
  /\ UNCHANGED <<status, l2Committed, cells, deviceVotes, qcs, cellStatus,
                 misbehave, checking, attesters, devicesTotal, stake, envelopes>>

\* Every second all pending blocks are looked at again.
RecheckPending(n) ==
  /\ UNCHANGED <<l2Committed, cells, deviceVotes, qcs, old, cellStatus, misbehave,
                 checking, attesters, devicesTotal, stake>>
  /\ MaybeFinalize(n, Tracked(n))

\* Mutant: the blocks whose device quorum is complete are considered as well.
AwaitsFinality(n, b) == b \in l2Committed[n] \ Final(n)

\* NextPending considers committed blocks that lack device votes ...
AwaitsDevices(n, b) == b \in l2Committed[n] \ Final(n) /\ ~HasDeviceQuorum(n, b)

\* ... and offers a highest one.
NextPending(n, b) ==
  /\ AwaitsDevices(n, b)
  /\ \A c \in Blocks : AwaitsDevices(n, c) => Height[c] <= Height[b]

Next ==
  \E n \in Nodes :
    \/ \E b \in Blocks, l2 \in BOOLEAN : RecordBlockMeta(n, b, l2)
    \/ \E c \in Blocks, V \in Certificates : RecordDescendantQC(n, c, V)
    \/ \E m \in Memberships : UpdateTotalStake(n, m)
    \/ \E total \in DeviceCounts : UpdateDeviceTotal(n, total)
    \/ \E b \in Blocks, d \in Devices : RecordDeviceAttestation(n, b, d)
    \/ \E k \in Cells : RegisterCell(n, k)
    \/ \E k \in Cells, b \in Blocks : OnAttestation(n, k, b)
    \/ \E k \in Cells, b \in Blocks : CountAttestation(n, k, b)
    \/ \E b \in Blocks : OnEnvelope(n, b)
    \/ \E b \in Blocks : GraceElapses(n, b)
    \/ RecheckPending(n)

Spec == Init /\ [][Next]_vars

\* Attesters keep asking a node for a pending block and attest what it offers;
\* time passes, and the recheck loop runs.
Fairness ==
  \A n \in Nodes :
    /\ \A d \in Devices :
         WF_vars(\E b \in Blocks : NextPending(n, b) /\ RecordDeviceAttestation(n, b, d))
    /\ \A b \in Blocks : WF_vars(GraceElapses(n, b))
    /\ WF_vars(RecheckPending(n))

FairSpec == Spec /\ Fairness

-----------------------------------------------------------------------------
(* Safety. *)

\* What a node finalizes and announces has been reported as committed by L2 to
\* some node, and that node held QCs of the block's children with two thirds of
\* the stake of some membership, although quorums and stake are resized all the
\* time and envelopes are taken at their word; what is final anywhere was
\* announced or claimed (maybeFinalizeLocked, onEnvelope).
Supported(b) ==
  \E m \in Nodes :
    /\ b \in l2Committed[m]
    /\ \E s \in Memberships : 3 * Weight(m, b) >= 2 * s

FinalIsSupported ==
  /\ \A b \in envelopes : Supported(b)
  /\ \A n \in Nodes : Final(n) \subseteq envelopes \cup Claims

\* A cell that failed MaxMisbehavior times is never counted again.
QuarantineIsHeeded ==
  [][\A n \in Nodes, k \in Cells, b \in Blocks :
       k \in cells'[n][b] \ cells[n][b] => misbehave[n][k] < MaxMisbehavior]_vars

(* What the properties above rest on. *)

\* A node that announces a block holds it as final.
EnvelopesAreFinal == \A b \in envelopes : \E n \in Nodes : b \in Final(n)

FailedAreQuarantined ==
  \A n \in Nodes, k \in Cells :
    misbehave[n][k] = MaxMisbehavior => cellStatus[n][k] = "quarantined"

CheckedAreTrusted ==
  \A n \in Nodes : \A p \in checking[n] : misbehave[n][p[1]] < MaxMisbehavior

\* The inductive invariant.
IInv ==
  /\ TypeOK
  /\ FinalIsSupported
  /\ EnvelopesAreFinal
  /\ FailedAreQuarantined
  /\ CheckedAreTrusted

(* Refinement. *)

\* The service implements the abstract finality: a final block stays final, and
\* it was committed by L2 at the node, or final elsewhere or claimed before.
Abstract == INSTANCE Finality WITH committed <- l2Committed,
                                   final <- [n \in Nodes |-> Final(n)]
ImplementsFinality == Abstract!Spec

-----------------------------------------------------------------------------
(* Liveness. *)

Deserving(n, b) ==
  /\ b \in l2Committed[n]
  /\ HasTwoThirdsWeightOnDescendants(n, b)
  /\ devicesTotal[n] <= Cardinality(Devices)

\* A committed block whose children keep enough weight becomes final, whichever
\* of the conditions came last and however many blocks await their devices, as
\* long as the node's attester total counts no device that does not vote.
CommittedBecomesFinal ==
  \A n \in Nodes, b \in Blocks :
    <>[]Deserving(n, b) => <>(status[n][b] = "final")
=============================================================================
