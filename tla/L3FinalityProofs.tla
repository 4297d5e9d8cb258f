-------------------------- MODULE L3FinalityProofs --------------------------
(***************************************************************************)
(* Proofs about L3Finality for every set of nodes, blocks, cells, devices  *)
(* and validators.                                                         *)
(***************************************************************************)
EXTENDS L3Finality, FiniteSetTheorems, TLAPS

-----------------------------------------------------------------------------
(* What a step does to the blocks of one node. *)

\* Everything about blocks at the nodes other than n stays.
OthersKeep(n) ==
  \A m \in Nodes \ {n} :
    /\ l2Committed'[m] = l2Committed[m]
    /\ qcs'[m] = qcs[m]
    /\ status'[m] = status[m]

\* Commits, QCs, final blocks and envelopes only grow, a block becomes final
\* when it is ready and announced now or was announced or claimed before, and is
\* announced when it is ready and final.
Progresses(n) ==
  /\ OthersKeep(n)
  /\ l2Committed[n] \subseteq l2Committed'[n]
  /\ \A c \in Blocks : qcs[n][c] \subseteq qcs'[n][c]
  /\ Final(n) \subseteq Final(n)'
  /\ envelopes \subseteq envelopes'
  /\ \A b \in Final(n)' \ Final(n) : b \in envelopes' \cup Claims
  /\ \A b \in Final(n)' \ Final(n) : b \in envelopes \cup Claims \/ Ready(n, b)'
  /\ \A b \in envelopes' \ envelopes : b \in Final(n)' /\ Ready(n, b)'

\* Trying to finalize the blocks of S finalizes only ready ones of them.
LEMMA MaybeFinalizeStep ==
  ASSUME TypeOK, NEW n \in Nodes, NEW S \in SUBSET Blocks, MaybeFinalize(n, S)
  PROVE  /\ status' \in [Nodes -> [Blocks -> {"none", "pending", "final"}]]
         /\ envelopes' \in SUBSET Blocks
         /\ \A m \in Nodes \ {n} : status'[m] = status[m]
         /\ Final(n) \subseteq Final(n)'
         /\ envelopes \subseteq envelopes'
         /\ \A b \in Final(n)' \ Final(n) : b \in envelopes' /\ Ready(n, b)'
         /\ \A b \in envelopes' \ envelopes : b \in Final(n)' /\ Ready(n, b)'
<1> DEFINE F == {b \in S \ Final(n) : Ready(n, b)'}
           st == [b \in Blocks |-> IF b \in F THEN "final"
                                   ELSE IF b \in S \ Tracked(n) THEN "pending"
                                   ELSE status[n][b]]
<1>1. status' = [status EXCEPT ![n] = st] /\ envelopes' = envelopes \cup F
  BY DEF MaybeFinalize
<1>2. F \subseteq Blocks /\ \A b \in F : Ready(n, b)'
  OBVIOUS
<1> HIDE DEF F
<1>3. st \in [Blocks -> {"none", "pending", "final"}]
  BY DEF TypeOK
<1>4. status'[n] = st /\ \A m \in Nodes \ {n} : status'[m] = status[m]
  BY <1>1 DEF TypeOK
<1>5. Final(n)' = Final(n) \cup F
  <2>1. \A b \in Blocks : status'[n][b] = st[b]
    BY <1>4
  <2>2. \A b \in Blocks : st[b] = "final" <=> b \in F \/ status[n][b] = "final"
    BY DEF Tracked
  <2> QED
    BY <1>2, <2>1, <2>2 DEF Final
<1>6. status' \in [Nodes -> [Blocks -> {"none", "pending", "final"}]]
  <2> HIDE DEF st
  <2> QED
    BY <1>1, <1>3 DEF TypeOK
<1> QED
  BY <1>1, <1>2, <1>4, <1>5, <1>6 DEF TypeOK

\* Creating an entry finalizes nothing.
LEMMA EnsureBlockStep ==
  ASSUME TypeOK, NEW n \in Nodes, NEW b \in Blocks, EnsureBlock(n, b)
  PROVE  /\ status' \in [Nodes -> [Blocks -> {"none", "pending", "final"}]]
         /\ \A m \in Nodes \ {n} : status'[m] = status[m]
         /\ Final(n)' = Final(n)
BY DEF EnsureBlock, TypeOK, Final

-----------------------------------------------------------------------------
(* Types, and the cells in quarantine. *)

\* What keeps failing cells out: the part of the invariant about cells.
CellInv == TypeOK /\ FailedAreQuarantined /\ CheckedAreTrusted

LEMMA CellInvInit == Init => CellInv
BY ParameterAssumption
   DEF Init, CellInv, TypeOK, FailedAreQuarantined, CheckedAreTrusted

\* One more failure of an active cell stays within the limit, and reaching the
\* limit puts the cell in quarantine.
LEMMA RecordFailureStep ==
  ASSUME TypeOK, FailedAreQuarantined, NEW n \in Nodes, NEW k \in Active(n),
         RecordFailure(n, k)
  PROVE  /\ misbehave' \in [Nodes -> [Cells -> 0 .. MaxMisbehavior]]
         /\ cellStatus' \in [Nodes -> [Cells -> {"unknown", "active", "quarantined"}]]
         /\ FailedAreQuarantined'
         /\ \A m \in Nodes \ {n} : misbehave'[m] = misbehave[m]
<1>1. k \in Cells /\ MaxMisbehavior \in Nat /\ misbehave[n][k] \in 0 .. MaxMisbehavior
  BY ParameterAssumption DEF Active, TypeOK
<1>2. misbehave[n][k] + 1 \in 0 .. MaxMisbehavior
  BY <1>1 DEF Active, FailedAreQuarantined
<1>3. misbehave' \in [Nodes -> [Cells -> 0 .. MaxMisbehavior]]
  BY <1>1, <1>2 DEF RecordFailure, TypeOK
<1>4. cellStatus' \in [Nodes -> [Cells -> {"unknown", "active", "quarantined"}]]
  BY DEF RecordFailure, TypeOK
<1>5. FailedAreQuarantined'
  <2> SUFFICES ASSUME NEW m \in Nodes, NEW j \in Cells, misbehave'[m][j] = MaxMisbehavior
               PROVE  cellStatus'[m][j] = "quarantined"
    BY DEF FailedAreQuarantined
  <2>1. CASE m = n /\ j = k
    BY <1>1, <2>1 DEF RecordFailure, TypeOK
  <2>2. CASE ~(m = n /\ j = k)
    BY <2>2 DEF RecordFailure, TypeOK, FailedAreQuarantined
  <2> QED
    BY <2>1, <2>2
<1> QED
  BY <1>3, <1>4, <1>5 DEF RecordFailure, TypeOK

\* No action breaks the types or lets a failing cell pass.
LEMMA CellInvStep == CellInv /\ [Next]_vars => CellInv'
<1> SUFFICES ASSUME TypeOK, FailedAreQuarantined, CheckedAreTrusted, [Next]_vars
             PROVE  TypeOK' /\ FailedAreQuarantined' /\ CheckedAreTrusted'
  BY DEF CellInv
<1>1. CASE UNCHANGED vars
  BY <1>1 DEF vars, blockVars, TypeOK, FailedAreQuarantined, CheckedAreTrusted
<1>2. ASSUME NEW n \in Nodes, NEW b \in Blocks, NEW l2 \in BOOLEAN, RecordBlockMeta(n, b, l2)
      PROVE  TypeOK' /\ FailedAreQuarantined' /\ CheckedAreTrusted'
  <2>1. EnsureBlock(n, b)
    BY <1>2 DEF RecordBlockMeta
  <2>2. /\ status' \in [Nodes -> [Blocks -> {"none", "pending", "final"}]]
        /\ envelopes' = envelopes
    BY <2>1, EnsureBlockStep DEF EnsureBlock
  <2> QED
    BY <1>2, <2>2 DEF RecordBlockMeta, TypeOK, FailedAreQuarantined, CheckedAreTrusted
<1>3. ASSUME NEW n \in Nodes, NEW c \in Blocks, NEW V \in Certificates,
             RecordDescendantQC(n, c, V)
      PROVE  TypeOK' /\ FailedAreQuarantined' /\ CheckedAreTrusted'
  <2>1. MaybeFinalize(n, {Parent[c]}) /\ Parent[c] \in Blocks
    BY <1>3, BlockAssumption DEF RecordDescendantQC
  <2>2. /\ status' \in [Nodes -> [Blocks -> {"none", "pending", "final"}]]
        /\ envelopes' \in SUBSET Blocks
    BY <2>1, MaybeFinalizeStep
  <2> QED
    BY <1>3, <2>2 DEF RecordDescendantQC, TypeOK, FailedAreQuarantined, CheckedAreTrusted
<1>4. ASSUME NEW n \in Nodes, NEW m \in Memberships, UpdateTotalStake(n, m)
      PROVE  TypeOK' /\ FailedAreQuarantined' /\ CheckedAreTrusted'
  BY <1>4 DEF UpdateTotalStake, blockVars, TypeOK, FailedAreQuarantined, CheckedAreTrusted
<1>5. ASSUME NEW n \in Nodes, NEW total \in DeviceCounts, UpdateDeviceTotal(n, total)
      PROVE  TypeOK' /\ FailedAreQuarantined' /\ CheckedAreTrusted'
  BY <1>5, ParameterAssumption
     DEF UpdateDeviceTotal, blockVars, TypeOK, FailedAreQuarantined, CheckedAreTrusted
<1>6. ASSUME NEW n \in Nodes, NEW b \in Blocks, NEW d \in Devices,
             RecordDeviceAttestation(n, b, d)
      PROVE  TypeOK' /\ FailedAreQuarantined' /\ CheckedAreTrusted'
  <2>1. /\ status' \in [Nodes -> [Blocks -> {"none", "pending", "final"}]]
        /\ envelopes' \in SUBSET Blocks
    <3>1. EnsureBlock(n, b) \/ MaybeFinalize(n, {b})
      BY <1>6 DEF RecordDeviceAttestation
    <3>2. CASE EnsureBlock(n, b)
      BY <3>2, EnsureBlockStep DEF EnsureBlock, TypeOK
    <3>3. CASE MaybeFinalize(n, {b})
      BY <3>3, MaybeFinalizeStep
    <3> QED
      BY <3>1, <3>2, <3>3
  <2>2. /\ deviceVotes' \in [Nodes -> [Blocks -> SUBSET Devices]]
        /\ attesters' \in [Nodes -> SUBSET Devices]
    <3>1. CASE UNCHANGED <<deviceVotes, attesters>>
      BY <3>1 DEF TypeOK
    <3>2. CASE /\ deviceVotes' = [deviceVotes EXCEPT ![n][b] = @ \cup {d}]
               /\ attesters' = [attesters EXCEPT ![n] = @ \cup {d}]
      BY <3>2 DEF TypeOK
    <3> QED
      BY <1>6, <3>1, <3>2 DEF RecordDeviceAttestation
  <2>3. devicesTotal' \in [Nodes -> Nat]
    <3>1. CASE UNCHANGED devicesTotal
      BY <3>1 DEF TypeOK
    <3>2. CASE devicesTotal' = [devicesTotal EXCEPT ![n] =
                                  attesterTotal(attesters'[n], devicesTotal[n])]
      <4>1. IsFiniteSet(attesters'[n])
        BY <2>2, ParameterAssumption, FS_Subset
      <4>2. attesterTotal(attesters'[n], devicesTotal[n]) \in Nat
        BY <4>1, FS_CardinalityType DEF attesterTotal, TypeOK
      <4> QED
        BY <3>2, <4>2 DEF TypeOK
    <3> QED
      BY <1>6, <3>1, <3>2 DEF RecordDeviceAttestation
  <2>4. UNCHANGED <<l2Committed, cells, qcs, old, cellStatus, misbehave, checking, stake>>
    BY <1>6 DEF RecordDeviceAttestation
  <2>5. TypeOK'
    BY <2>1, <2>2, <2>3, <2>4 DEF TypeOK
  <2> QED
    BY <2>4, <2>5 DEF FailedAreQuarantined, CheckedAreTrusted
<1>7. ASSUME NEW n \in Nodes, NEW k \in Cells, RegisterCell(n, k)
      PROVE  TypeOK' /\ FailedAreQuarantined' /\ CheckedAreTrusted'
  <2>1. TypeOK' /\ CheckedAreTrusted'
    BY <1>7 DEF RegisterCell, blockVars, TypeOK, CheckedAreTrusted
  <2>2. FailedAreQuarantined'
    BY <1>7 DEF RegisterCell, TypeOK, FailedAreQuarantined
  <2> QED
    BY <2>1, <2>2
<1>8. ASSUME NEW n \in Nodes, NEW k \in Cells, NEW b \in Blocks, OnAttestation(n, k, b)
      PROVE  TypeOK' /\ FailedAreQuarantined' /\ CheckedAreTrusted'
  <2>1. CASE RecordFailure(n, k) /\ UNCHANGED <<status, checking, envelopes>>
    <3>1. /\ misbehave' \in [Nodes -> [Cells -> 0 .. MaxMisbehavior]]
          /\ cellStatus' \in [Nodes -> [Cells -> {"unknown", "active", "quarantined"}]]
          /\ FailedAreQuarantined'
          /\ \A m \in Nodes \ {n} : misbehave'[m] = misbehave[m]
      BY <1>8, <2>1, RecordFailureStep DEF OnAttestation
    <3>2. TypeOK'
      BY <1>8, <2>1, <3>1 DEF OnAttestation, TypeOK
    <3>3. CheckedAreTrusted'
      BY <1>8, <2>1, <3>1 DEF OnAttestation, CheckedAreTrusted
    <3> QED
      BY <3>1, <3>2, <3>3
  <2>2. CASE /\ EnsureBlock(n, b)
             /\ checking' = [checking EXCEPT ![n] =
                  IF b \in Final(n) \/ k \in cells[n][b] THEN {} ELSE {<<k, b>>}]
             /\ UNCHANGED <<cellStatus, misbehave>>
    <3>1. /\ status' \in [Nodes -> [Blocks -> {"none", "pending", "final"}]]
          /\ envelopes' = envelopes
      BY <2>2, EnsureBlockStep DEF EnsureBlock
    <3>2. TypeOK'
      <4>1. checking' \in [Nodes -> SUBSET (Cells \X Blocks)]
        <5>1. (IF b \in Final(n) \/ k \in cells[n][b] THEN {} ELSE {<<k, b>>})
                \in SUBSET (Cells \X Blocks)
          OBVIOUS
        <5> QED
          BY <2>2, <5>1 DEF TypeOK
      <4> QED
        BY <1>8, <2>2, <3>1, <4>1 DEF OnAttestation, TypeOK
    <3>3. FailedAreQuarantined'
      BY <2>2 DEF FailedAreQuarantined
    <3>4. misbehave[n][k] < MaxMisbehavior
      <4>1. misbehave[n][k] # MaxMisbehavior
        BY <1>8 DEF OnAttestation, Active, FailedAreQuarantined
      <4>2. misbehave[n][k] \in 0 .. MaxMisbehavior
        BY DEF TypeOK
      <4> QED
        BY <4>1, <4>2, ParameterAssumption
    <3>5. CheckedAreTrusted'
      <4> SUFFICES ASSUME NEW m \in Nodes, NEW p \in checking'[m]
                   PROVE  misbehave[m][p[1]] < MaxMisbehavior
        BY <2>2 DEF CheckedAreTrusted
      <4>1. CASE m = n
        <5>1. checking'[n] \subseteq {<<k, b>>}
          <6>1. checking'[n] =
                  IF b \in Final(n) \/ k \in cells[n][b] THEN {} ELSE {<<k, b>>}
            BY <2>2 DEF TypeOK
          <6> QED
            BY <6>1
        <5>2. p[1] = k
          BY <4>1, <5>1
        <5>3. misbehave[m][p[1]] = misbehave[n][k]
          BY <4>1, <5>2
        <5> QED
          BY <3>4, <5>3
      <4>2. CASE m # n
        BY <2>2, <4>2 DEF TypeOK, CheckedAreTrusted
      <4> QED
        BY <4>1, <4>2
    <3> QED
      BY <3>2, <3>3, <3>5
  <2> QED
    BY <1>8, <2>1, <2>2 DEF OnAttestation
<1>9. ASSUME NEW n \in Nodes, NEW k \in Cells, NEW b \in Blocks, CountAttestation(n, k, b)
      PROVE  TypeOK' /\ FailedAreQuarantined' /\ CheckedAreTrusted'
  <2>1. /\ status' \in [Nodes -> [Blocks -> {"none", "pending", "final"}]]
        /\ envelopes' \in SUBSET Blocks
    <3>1. UNCHANGED <<status, envelopes>> \/ MaybeFinalize(n, {b})
      BY <1>9 DEF CountAttestation
    <3> QED
      BY <3>1, MaybeFinalizeStep DEF TypeOK
  <2>2. cells' \in [Nodes -> [Blocks -> SUBSET Cells]]
    <3>1. CASE cells' = cells
      BY <3>1 DEF TypeOK
    <3>2. CASE cells' = [cells EXCEPT ![n][b] = @ \cup {k}]
      BY <3>2 DEF TypeOK
    <3> QED
      BY <1>9, <3>1, <3>2 DEF CountAttestation
  <2>3. checking' \in [Nodes -> SUBSET (Cells \X Blocks)]
    BY <1>9 DEF CountAttestation, TypeOK
  <2>4. TypeOK'
    BY <1>9, <2>1, <2>2, <2>3 DEF CountAttestation, TypeOK
  <2>5. FailedAreQuarantined'
    BY <1>9 DEF CountAttestation, FailedAreQuarantined
  <2>6. CheckedAreTrusted'
    BY <1>9 DEF CountAttestation, TypeOK, CheckedAreTrusted
  <2> QED
    BY <2>4, <2>5, <2>6
<1>10. ASSUME NEW n \in Nodes, NEW b \in Blocks, OnEnvelope(n, b) \/ GraceElapses(n, b)
       PROVE  TypeOK' /\ FailedAreQuarantined' /\ CheckedAreTrusted'
  <2>1. CASE OnEnvelope(n, b)
    <3>1. status' \in [Nodes -> [Blocks -> {"none", "pending", "final"}]]
      BY <2>1 DEF OnEnvelope, TypeOK
    <3> QED
      BY <2>1, <3>1 DEF OnEnvelope, TypeOK, FailedAreQuarantined, CheckedAreTrusted
  <2>2. CASE GraceElapses(n, b)
    BY <2>2 DEF GraceElapses, TypeOK, FailedAreQuarantined, CheckedAreTrusted
  <2> QED
    BY <1>10, <2>1, <2>2
<1>11. ASSUME NEW n \in Nodes, RecheckPending(n)
       PROVE  TypeOK' /\ FailedAreQuarantined' /\ CheckedAreTrusted'
  <2>1. MaybeFinalize(n, Tracked(n)) /\ Tracked(n) \subseteq Blocks
    BY <1>11 DEF RecheckPending, Tracked
  <2>2. /\ status' \in [Nodes -> [Blocks -> {"none", "pending", "final"}]]
        /\ envelopes' \in SUBSET Blocks
    BY <2>1, MaybeFinalizeStep
  <2> QED
    BY <1>11, <2>2 DEF RecheckPending, TypeOK, FailedAreQuarantined, CheckedAreTrusted
<1> QED
  BY <1>1, <1>2, <1>3, <1>4, <1>5, <1>6, <1>7, <1>8, <1>9, <1>10, <1>11 DEF Next

LEMMA CellInvHolds == Spec => []CellInv
<1> QED
  BY CellInvInit, CellInvStep, PTL DEF Spec

\* The state keeps its types; in particular no cell fails more often than
\* MaxMisbehavior, since nothing lifts its quarantine.
THEOREM TypeCorrect == Spec => []TypeOK
<1>1. CellInv => TypeOK
  BY DEF CellInv
<1> QED
  BY <1>1, CellInvHolds, PTL

\* A cell that failed too often is never counted again, for every number of
\* failures allowed: an attestation passes only while its cell is trusted, and
\* no failure is recorded while an attestation is being verified.
THEOREM QuarantineHeeded == Spec => QuarantineIsHeeded
<1>1. CellInv /\ [Next]_vars =>
        [\A n \in Nodes, k \in Cells, b \in Blocks :
           k \in cells'[n][b] \ cells[n][b] => misbehave[n][k] < MaxMisbehavior]_vars
  <2> SUFFICES ASSUME TypeOK, CheckedAreTrusted, Next,
                      NEW n \in Nodes, NEW k \in Cells, NEW b \in Blocks,
                      k \in cells'[n][b] \ cells[n][b]
               PROVE  misbehave[n][k] < MaxMisbehavior
    BY DEF CellInv
  <2>1. PICK m \in Nodes, j \in Cells, c \in Blocks : CountAttestation(m, j, c)
    <3>1. cells' # cells
      OBVIOUS
    <3> QED
      BY <3>1 DEF Next, RecordBlockMeta, RecordDescendantQC, UpdateTotalStake, blockVars,
                  UpdateDeviceTotal, RecordDeviceAttestation, RegisterCell, OnAttestation,
                  OnEnvelope, GraceElapses, RecheckPending
  <2>2. cells' = [cells EXCEPT ![m][c] = @ \cup {j}]
    BY <2>1 DEF CountAttestation
  <2>3. n = m /\ k = j
    BY <2>2 DEF TypeOK
  <2>4. <<j, c>> \in checking[m]
    BY <2>1 DEF CountAttestation
  <2>5. misbehave[m][<<j, c>>[1]] < MaxMisbehavior
    BY <2>4 DEF CheckedAreTrusted
  <2> QED
    BY <2>3, <2>5
<1> QED
  BY <1>1, CellInvHolds, PTL DEF Spec, QuarantineIsHeeded

-----------------------------------------------------------------------------
(* Every action progresses at one node. *)

LEMMA StepProgresses ==
  ASSUME TypeOK, Next
  PROVE  \E n \in Nodes : Progresses(n)
<1>1. ASSUME NEW n \in Nodes, NEW b \in Blocks, NEW l2 \in BOOLEAN, RecordBlockMeta(n, b, l2)
      PROVE  Progresses(n)
  <2>1. /\ \A m \in Nodes \ {n} : status'[m] = status[m]
        /\ Final(n)' = Final(n)
        /\ envelopes' = envelopes
    BY <1>1, EnsureBlockStep DEF RecordBlockMeta, EnsureBlock
  <2> QED
    BY <1>1, <2>1 DEF RecordBlockMeta, Progresses, OthersKeep, TypeOK
<1>2. ASSUME NEW n \in Nodes, NEW c \in Blocks, NEW V \in Certificates,
             RecordDescendantQC(n, c, V)
      PROVE  Progresses(n)
  <2>1. MaybeFinalize(n, {Parent[c]}) /\ Parent[c] \in Blocks
    BY <1>2, BlockAssumption DEF RecordDescendantQC
  <2>2. /\ \A m \in Nodes \ {n} : status'[m] = status[m]
        /\ Final(n) \subseteq Final(n)'
        /\ envelopes \subseteq envelopes'
        /\ \A b \in Final(n)' \ Final(n) : b \in envelopes' /\ Ready(n, b)'
        /\ \A b \in envelopes' \ envelopes : b \in Final(n)' /\ Ready(n, b)'
    BY <2>1, MaybeFinalizeStep
  <2>3. /\ \A m \in Nodes \ {n} : qcs'[m] = qcs[m]
        /\ \A x \in Blocks : qcs[n][x] \subseteq qcs'[n][x]
    BY <1>2 DEF RecordDescendantQC, TypeOK
  <2> QED
    BY <1>2, <2>2, <2>3 DEF RecordDescendantQC, Progresses, OthersKeep
<1>3. ASSUME NEW n \in Nodes,
             UNCHANGED <<status, l2Committed, qcs, envelopes>>
      PROVE  Progresses(n)
  BY <1>3 DEF Progresses, OthersKeep, Final
<1>4. ASSUME NEW n \in Nodes, NEW S \in SUBSET Blocks, MaybeFinalize(n, S),
             UNCHANGED <<l2Committed, qcs>>
      PROVE  Progresses(n)
  <2>1. /\ \A m \in Nodes \ {n} : status'[m] = status[m]
        /\ Final(n) \subseteq Final(n)'
        /\ envelopes \subseteq envelopes'
        /\ \A b \in Final(n)' \ Final(n) : b \in envelopes' /\ Ready(n, b)'
        /\ \A b \in envelopes' \ envelopes : b \in Final(n)' /\ Ready(n, b)'
    BY <1>4, MaybeFinalizeStep
  <2> QED
    BY <1>4, <2>1 DEF Progresses, OthersKeep
<1>5. ASSUME NEW n \in Nodes, NEW b \in Blocks, EnsureBlock(n, b),
             UNCHANGED <<l2Committed, qcs>>
      PROVE  Progresses(n)
  <2>1. /\ \A m \in Nodes \ {n} : status'[m] = status[m]
        /\ Final(n)' = Final(n)
        /\ envelopes' = envelopes
    BY <1>5, EnsureBlockStep DEF EnsureBlock
  <2> QED
    BY <1>5, <2>1 DEF Progresses, OthersKeep
<1>6. ASSUME NEW n \in Nodes, NEW b \in Blocks, OnEnvelope(n, b)
      PROVE  Progresses(n)
  <2>1. /\ \A m \in Nodes \ {n} : status'[m] = status[m]
        /\ Final(n)' = Final(n) \cup {b}
    BY <1>6 DEF OnEnvelope, Final, TypeOK
  <2> QED
    BY <1>6, <2>1 DEF OnEnvelope, Progresses, OthersKeep
<1>7. ASSUME NEW n \in Nodes, NEW b \in Blocks, NEW d \in Devices,
             RecordDeviceAttestation(n, b, d)
      PROVE  Progresses(n)
  BY <1>4, <1>5, <1>7 DEF RecordDeviceAttestation
<1>8. ASSUME NEW n \in Nodes, NEW k \in Cells, NEW b \in Blocks,
             OnAttestation(n, k, b) \/ CountAttestation(n, k, b)
      PROVE  Progresses(n)
  BY <1>3, <1>4, <1>5, <1>8 DEF OnAttestation, CountAttestation
<1>9. ASSUME NEW n \in Nodes, RecheckPending(n)
      PROVE  Progresses(n)
  <2>1. Tracked(n) \in SUBSET Blocks
    BY DEF Tracked
  <2> QED
    BY <1>4, <1>9, <2>1 DEF RecheckPending
<1>10. ASSUME NEW n \in Nodes,
              \/ \E m \in Memberships : UpdateTotalStake(n, m)
              \/ \E total \in DeviceCounts : UpdateDeviceTotal(n, total)
              \/ \E k \in Cells : RegisterCell(n, k)
              \/ \E b \in Blocks : GraceElapses(n, b)
       PROVE  Progresses(n)
  BY <1>3, <1>10
     DEF UpdateTotalStake, UpdateDeviceTotal, RegisterCell, GraceElapses, blockVars
<1> QED
  BY <1>1, <1>2, <1>6, <1>7, <1>8, <1>9, <1>10 DEF Next

-----------------------------------------------------------------------------
(* Final blocks are supported. *)

\* A weight is a number, and larger QCs of the same children weigh as much.
LEMMA WeightGrows ==
  ASSUME NEW b \in Blocks,
         NEW p \in [Blocks -> Certificates \cup {{}}],
         NEW q \in [Blocks -> Certificates \cup {{}}],
         \A c \in Blocks : p[c] \subseteq q[c]
  PROVE  /\ Cardinality(UNION {{c} \X p[c] : c \in Children(b)}) \in Nat
         /\ Cardinality(UNION {{c} \X q[c] : c \in Children(b)}) \in Nat
         /\ Cardinality(UNION {{c} \X p[c] : c \in Children(b)})
              <= Cardinality(UNION {{c} \X q[c] : c \in Children(b)})
<1> DEFINE P == UNION {{c} \X p[c] : c \in Children(b)}
           Q == UNION {{c} \X q[c] : c \in Children(b)}
<1>1. Children(b) \subseteq Blocks
  BY DEF Children
<1>2. P \subseteq Q
  <2> SUFFICES ASSUME NEW c \in Children(b), NEW x \in {c} \X p[c]
               PROVE  x \in {c} \X q[c]
    OBVIOUS
  <2> QED
    BY <1>1
<1>3. Q \subseteq Children(b) \X Validators
  <2> SUFFICES ASSUME NEW c \in Children(b), NEW x \in {c} \X q[c]
               PROVE  x \in Children(b) \X Validators
    OBVIOUS
  <2>1. q[c] \subseteq Validators
    BY <1>1, ParameterAssumption
  <2> QED
    BY <2>1
<1>4. IsFiniteSet(Children(b) \X Validators)
  BY BlockAssumption, ParameterAssumption, FS_Product DEF Children
<1> HIDE DEF P, Q
<1>5. IsFiniteSet(Q) /\ IsFiniteSet(P) /\ Cardinality(P) <= Cardinality(Q)
  BY <1>2, <1>3, <1>4, FS_Subset
<1> QED
  BY <1>5, FS_CardinalityType DEF P, Q

\* A block that is ready after a step is supported then.
LEMMA ReadyIsSupported ==
  ASSUME TypeOK', NEW n \in Nodes, NEW b \in Blocks, Ready(n, b)'
  PROVE  Supported(b)'
<1> DEFINE W == Weight(n, b)'
           s == stake'[n]
<1>1. W \in Nat
  <2>1. qcs'[n] \in [Blocks -> Certificates \cup {{}}]
    BY DEF TypeOK
  <2>2. Cardinality(UNION {{c} \X qcs'[n][c] : c \in Children(b)}) \in Nat
    BY <2>1, WeightGrows
  <2> QED
    BY <2>2 DEF Weight
<1>2. s \in Memberships /\ s \in Nat
  BY ParameterAssumption DEF TypeOK
<1>3. W * 10000000 >= s * 6666667
  BY DEF Ready, HasTwoThirdsWeightOnDescendants
<1> HIDE DEF W, s
<1>4. 3 * W >= 2 * s
  BY <1>1, <1>2, <1>3
<1> QED
  BY <1>2, <1>4 DEF Ready, Supported, W, s

\* Support is never lost.
LEMMA SupportStays ==
  ASSUME TypeOK, TypeOK', NEW n \in Nodes, Progresses(n), NEW b \in Blocks, Supported(b)
  PROVE  Supported(b)'
<1>1. PICK m \in Nodes, s \in Memberships :
        b \in l2Committed[m] /\ 3 * Weight(m, b) >= 2 * s
  BY DEF Supported
<1>2. b \in l2Committed'[m] /\ \A c \in Blocks : qcs[m][c] \subseteq qcs'[m][c]
  BY <1>1 DEF Progresses, OthersKeep
<1>3. Weight(m, b) \in Nat /\ Weight(m, b)' \in Nat /\ Weight(m, b) <= Weight(m, b)'
  <2>1. /\ qcs[m] \in [Blocks -> Certificates \cup {{}}]
        /\ qcs'[m] \in [Blocks -> Certificates \cup {{}}]
    BY DEF TypeOK
  <2> QED
    BY <1>2, <2>1, WeightGrows DEF Weight
<1>4. s \in Nat
  BY ParameterAssumption
<1>5. 3 * Weight(m, b)' >= 2 * s
  <2> DEFINE V == Weight(m, b)
             W == Weight(m, b)'
  <2> HIDE DEF V, W
  <2>1. V \in Nat /\ W \in Nat /\ V <= W /\ 3 * V >= 2 * s
    BY <1>1, <1>3 DEF V, W
  <2>2. 3 * W >= 2 * s
    BY <1>4, <2>1
  <2> QED
    BY <2>2 DEF W
<1> QED
  BY <1>2, <1>5 DEF Supported

LEMMA IInvInit == Init => IInv
<1>1. ASSUME Init PROVE FinalIsSupported /\ EnvelopesAreFinal
  BY <1>1 DEF Init, FinalIsSupported, EnvelopesAreFinal, Final
<1> QED
  BY <1>1, CellInvInit DEF CellInv, IInv

LEMMA IInvStep == IInv /\ [Next]_vars => IInv'
<1> SUFFICES ASSUME IInv, [Next]_vars
             PROVE  IInv'
  OBVIOUS
<1>1. TypeOK' /\ FailedAreQuarantined' /\ CheckedAreTrusted'
  BY CellInvStep DEF IInv, CellInv
<1>2. CASE UNCHANGED vars
  <2>1. FinalIsSupported'
    BY <1>2 DEF vars, blockVars, IInv, FinalIsSupported, Final, Supported, Weight
  <2>2. EnvelopesAreFinal'
    BY <1>2 DEF vars, blockVars, IInv, EnvelopesAreFinal, Final
  <2> QED
    BY <1>1, <2>1, <2>2 DEF IInv
<1>3. CASE Next
  <2>1. PICK n \in Nodes : Progresses(n)
    BY <1>3, StepProgresses DEF IInv
  <2>2. \A m \in Nodes : Final(m)' \subseteq envelopes' \cup Claims
    <3>1. \A m \in Nodes : Final(m) \subseteq envelopes' \cup Claims
      BY <2>1 DEF IInv, FinalIsSupported, Progresses
    <3>2. \A m \in Nodes \ {n} : Final(m)' = Final(m)
      BY <2>1 DEF Progresses, OthersKeep, Final
    <3> QED
      BY <2>1, <3>1, <3>2 DEF Progresses
  <2>3. FinalIsSupported'
    <3> SUFFICES ASSUME NEW b \in envelopes'
                 PROVE  Supported(b)'
      BY <2>2 DEF FinalIsSupported
    <3>1. b \in Blocks
      BY <1>1 DEF TypeOK
    <3>2. CASE b \notin envelopes
      <4>1. Ready(n, b)'
        BY <2>1, <3>2 DEF Progresses
      <4> QED
        BY <1>1, <3>1, <4>1, ReadyIsSupported
    <3>3. CASE b \in envelopes
      <4>1. Supported(b)
        BY <3>3 DEF IInv, FinalIsSupported
      <4> QED
        BY <1>1, <2>1, <3>1, <4>1, SupportStays DEF IInv
    <3> QED
      BY <3>2, <3>3
  <2>4. EnvelopesAreFinal'
    <3>1. \A m \in Nodes : Final(m) \subseteq Final(m)'
      BY <2>1 DEF Progresses, OthersKeep, Final
    <3> QED
      BY <2>1, <3>1 DEF Progresses, IInv, EnvelopesAreFinal
  <2> QED
    BY <1>1, <2>3, <2>4 DEF IInv
<1> QED
  BY <1>2, <1>3

LEMMA InvariantHolds == Spec => []IInv
<1> QED
  BY IInvInit, IInvStep, PTL DEF Spec

\* Whatever nodes announce as final was committed by L2 at a node that held QCs
\* of the block's children with two thirds of the stake of some membership, and
\* nothing else is final anywhere but what unfounded envelopes claimed.
THEOREM FinalSupported == Spec => []FinalIsSupported
<1>1. IInv => FinalIsSupported
  BY DEF IInv
<1> QED
  BY <1>1, InvariantHolds, PTL

-----------------------------------------------------------------------------
(* Refinement. *)

\* Every behaviour of the service is one of the abstract finality.
THEOREM Refinement == Spec => ImplementsFinality
<1> DEFINE final == [n \in Nodes |-> Final(n)]
<1>1. Init => Abstract!Init
  BY DEF Init, Abstract!Init, Final
<1>2. IInv /\ [Next]_vars => [Abstract!Next]_<<l2Committed, final>>
  <2>1. CASE UNCHANGED vars
    BY <2>1 DEF vars, blockVars, Final
  <2>2. ASSUME IInv, Next
        PROVE  Abstract!Next
    <3>1. PICK n \in Nodes : Progresses(n)
      BY <2>2, StepProgresses DEF IInv
    <3>2. \A m \in Nodes \ {n} : l2Committed'[m] = l2Committed[m] /\ Final(m)' = Final(m)
      BY <3>1 DEF Progresses, OthersKeep, Final
    <3>3. \A b \in Final(n)' \ Final(n) :
            b \in l2Committed'[n] \cup Claims \/ \E m \in Nodes : b \in Final(m)
      BY <2>2, <3>1 DEF Progresses, Ready, IInv, EnvelopesAreFinal
    <3>4. l2Committed[n] \subseteq l2Committed'[n] /\ Final(n) \subseteq Final(n)'
      BY <3>1 DEF Progresses
    <3> QED
      BY <3>2, <3>3, <3>4 DEF Abstract!Next
  <2> QED
    BY <2>1, <2>2
<1> QED
  BY <1>1, <1>2, InvariantHolds, PTL DEF Spec, ImplementsFinality, Abstract!Spec
=============================================================================
