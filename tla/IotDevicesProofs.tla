-------------------------- MODULE IotDevicesProofs --------------------------
(***************************************************************************)
(* Theorems about IotDevices, for every set of devices and attesters, any  *)
(* limit, threshold and retention.                                         *)
(***************************************************************************)
EXTENDS IotDevices, FiniteSetTheorems, TLAPS

-----------------------------------------------------------------------------
(* The parts of the invariant.  CapacityHeld, FileInStep and OneCell are     *)
(* inductive together with TypeOK; the pass over the attesters needs to know *)
(* what became of those it did not list.                                     *)

\* An attester that is gone, silent, or was written since the pass began.
Removable(a) == reg[a] # NoDevice => Stale(a) \/ a \in sync.written

UnlistedAreRemovable ==
  sync.at # "idle" => \A a \in Attesters \ sync.ids : Removable(a)

TodoFollows ==
  /\ sync.at = "removing" => sync.todo \cap sync.ids = {}
  /\ sync.lacking # {} => sync.at = "adding"

IInv ==
  /\ TypeOK
  /\ CapacityHeld
  /\ FileInStep
  /\ OneCell
  /\ UnlistedAreRemovable
  /\ TodoFollows

\* The types of the requests, of the pass and of what L3 holds.
Requests ==
  [Attesters -> [at : {"idle", "put", "entered", "renewed", "count", "report", "record"},
                 first : Times \cup {-1}, since : Times, count : Nat]]
Passes == [at : {"idle", "adding", "removing"}, ids : SUBSET Attesters,
           todo : SUBSET Attesters, lacking : SUBSET Attesters, since : Times,
           written : SUBSET Attesters]
L3s == [cell : SUBSET Ids, attesters : SUBSET Attesters, total : Nat]

USE DEF Requests, Passes, L3s

-----------------------------------------------------------------------------
(* Counting ordinary devices. *)

LEMMA Finite == IsFiniteSet(Ids) /\ \A S \in SUBSET Ids : Cardinality(S) \in Nat
<1>1. IsFiniteSet(Ids)
  BY IotAssumption, FS_Union DEF Ids
<1> QED
  BY <1>1, FS_Subset, FS_CardinalityType

LEMMA CountNat ==
  ASSUME NEW r
  PROVE  nonAttesterCount(r) \in Nat
<1>1. {d \in Devices : r[d] # NoDevice} \in SUBSET Ids
  BY DEF Ids
<1> QED
  BY <1>1, Finite DEF nonAttesterCount

\* An empty registry counts nothing.
LEMMA CountNone == nonAttesterCount(Empty) = 0
<1>1. {d \in Devices : Empty[d] # NoDevice} = {}
  BY DEF Ids, Empty
<1> QED
  BY <1>1, FS_EmptySet DEF nonAttesterCount

\* Removing an entry raises no count.
LEMMA CountRemoved ==
  ASSUME NEW r \in [Ids -> Device \cup {NoDevice}], NEW d \in Ids
  PROVE  nonAttesterCount([r EXCEPT ![d] = NoDevice]) <= nonAttesterCount(r)
<1> DEFINE S == {e \in Devices : r[e] # NoDevice}
           T == {e \in Devices : [r EXCEPT ![d] = NoDevice][e] # NoDevice}
<1>1. T \in SUBSET S
  BY DEF Ids
<1>2. IsFiniteSet(S)
  BY IotAssumption, FS_Subset
<1> QED
  BY <1>1, <1>2, FS_Subset DEF nonAttesterCount

\* An entry that is there, or an attester's, changes no count; another adds one.
LEMMA CountWritten ==
  ASSUME NEW r \in [Ids -> Device \cup {NoDevice}], NEW d \in Ids, NEW dev \in Device
  PROVE  /\ nonAttesterCount([r EXCEPT ![d] = dev]) <= nonAttesterCount(r) + 1
         /\ r[d] # NoDevice \/ d \in Attesters
              => nonAttesterCount([r EXCEPT ![d] = dev]) = nonAttesterCount(r)
<1> DEFINE S == {e \in Devices : r[e] # NoDevice}
           T == {e \in Devices : [r EXCEPT ![d] = dev][e] # NoDevice}
<1>1. dev # NoDevice
  BY DEF Device, NoDevice, Times
<1>2. IsFiniteSet(S) /\ Cardinality(S) \in Nat
  BY IotAssumption, FS_Subset, FS_CardinalityType
<1>3. /\ nonAttesterCount(r) = Cardinality(S)
      /\ nonAttesterCount([r EXCEPT ![d] = dev]) = Cardinality(T)
  BY Zenon DEF nonAttesterCount
<1> HIDE DEF S, T
<1>4. CASE d \in Devices
  <2>1. T = S \cup {d}
    BY <1>1, <1>4 DEF Ids, S, T
  <2>2. r[d] # NoDevice \/ d \in Attesters => d \in S
    BY <1>4, IotAssumption DEF S
  <2>3. Cardinality(T) = IF d \in S THEN Cardinality(S) ELSE Cardinality(S) + 1
    BY <1>2, <2>1, FS_AddElement
  <2> QED
    BY <1>2, <1>3, <2>2, <2>3
<1>5. CASE d \notin Devices
  <2>1. T = S
    BY <1>5 DEF Ids, S, T
  <2> QED
    BY <1>2, <1>3, <2>1
<1> QED
  BY <1>4, <1>5

-----------------------------------------------------------------------------
(* The two ways in which a call changes the registry. *)

RegistryOK ==
  /\ reg \in [Ids -> Device \cup {NoDevice}]
  /\ file \in [Ids -> Device \cup {NoDevice}]
  /\ writing \in BOOLEAN /\ behind \in BOOLEAN
  /\ CapacityHeld
  /\ FileInStep

LEMMA UpsertKeeps ==
  ASSUME RegistryOK, Unlocked, NEW d \in Ids, NEW dev \in Device,
         NEW max, max = MaxDevices \/ d \in Attesters,
         UpsertWithLimit(d, dev, max)
  PROVE  /\ RegistryOK'
         /\ \A e \in Ids \ {d} : reg'[e] = reg[e]
         /\ \A e \in Devices : reg[e] # NoDevice => reg'[e] # NoDevice
<1> USE DEF RegistryOK, UpsertWithLimit, Change, Unlocked
<1>1. reg' \in [Ids -> Device \cup {NoDevice}] /\ file' = file /\ behind' = behind
  OBVIOUS
<1>2. FileInStep'
  BY <1>1 DEF FileInStep
<1>3. CapacityHeld'
  <2> SUFFICES ASSUME MaxDevices > 0
               PROVE  nonAttesterCount(reg') <= MaxDevices
    BY <1>1 DEF CapacityHeld
  <2>1. /\ nonAttesterCount(reg) \in Nat
        /\ nonAttesterCount(reg') \in Nat
        /\ nonAttesterCount(reg) <= MaxDevices
    BY CountNat DEF CapacityHeld
  <2>2. \/ reg[d] # NoDevice \/ d \in Attesters
        \/ nonAttesterCount(reg) < MaxDevices
    BY IotAssumption DEF HasRoom
  <2>3. reg' = [reg EXCEPT ![d] = dev]
    OBVIOUS
  <2>4. /\ nonAttesterCount([reg EXCEPT ![d] = dev]) <= nonAttesterCount(reg) + 1
        /\ reg[d] # NoDevice \/ d \in Attesters
             => nonAttesterCount([reg EXCEPT ![d] = dev]) = nonAttesterCount(reg)
    BY CountWritten
  <2>5. nonAttesterCount(reg') = nonAttesterCount([reg EXCEPT ![d] = dev])
    BY <2>3
  <2> QED
    BY <2>1, <2>2, <2>4, <2>5, IotAssumption
<1>4. \A e \in Ids \ {d} : reg'[e] = reg[e]
  BY <1>1
<1>5. \A e \in Devices : reg[e] # NoDevice => reg'[e] # NoDevice
  BY <1>1 DEF Ids, Device, NoDevice, Times
<1> QED
  BY <1>1, <1>2, <1>3, <1>4, <1>5

LEMMA RemoveKeeps ==
  ASSUME RegistryOK, Unlocked, NEW d \in Ids, Remove(d)
  PROVE  /\ RegistryOK'
         /\ reg'[d] = NoDevice /\ \A e \in Ids \ {d} : reg'[e] = reg[e]
<1> USE DEF RegistryOK, Remove, Change, Unlocked
<1>1. reg' \in [Ids -> Device \cup {NoDevice}] /\ file' = file /\ behind' = behind
  OBVIOUS
<1>2. FileInStep'
  BY <1>1 DEF FileInStep
<1>3. CapacityHeld'
  <2>1. nonAttesterCount(reg') <= nonAttesterCount(reg)
    BY CountRemoved
  <2>2. nonAttesterCount(reg) \in Nat /\ nonAttesterCount(reg') \in Nat
    BY CountNat
  <2> QED
    BY <1>1, <2>1, <2>2, IotAssumption DEF CapacityHeld
<1> QED
  BY <1>1, <1>2, <1>3

-----------------------------------------------------------------------------
(* The cell. *)

CellOK ==
  /\ cell \in SUBSET Ids
  /\ cell # {} => Cardinality(cell) = Threshold

LEMMA TryFormKeeps ==
  ASSUME CellOK, TryForm
  PROVE  CellOK' /\ (cell # {} => cell' = cell)
<1>1. CASE cell' = cell
  BY <1>1 DEF CellOK
<1>2. CASE cell = {} /\ Cardinality(Registered) >= Threshold
  <2>1. Registered \in SUBSET Ids
    BY DEF Registered
  <2>2. Cardinality(Registered) \in Nat
    BY <2>1, Finite
  <2>3. CellSize(Cardinality(Registered)) = Threshold
    BY <1>2, <2>2, IotAssumption DEF CellSize
  <2>4. PICK C \in SUBSET Registered :
          Cardinality(C) = CellSize(Cardinality(Registered)) /\ cell' = C
    BY <1>2 DEF TryForm
  <2> QED
    BY <1>2, <2>1, <2>3, <2>4 DEF CellOK
<1> QED
  BY <1>1, <1>2 DEF TryForm

-----------------------------------------------------------------------------
(* The invariant, action by action. *)

LEMMA Types ==
  TypeOK <=> /\ reg \in [Ids -> Device \cup {NoDevice}]
             /\ file \in [Ids -> Device \cup {NoDevice}]
             /\ writing \in BOOLEAN /\ behind \in BOOLEAN
             /\ cell \in SUBSET Ids
             /\ node \in {"waiting", "counted", "starting", "running"}
             /\ attest \in Requests
             /\ sync \in Passes
             /\ reported \in Nat \cup {-1}
             /\ l3 \in L3s
             /\ now \in Times
  BY DEF TypeOK, Requests, Passes, L3s

\* The call that returns leaves the requests what they were, but for its own.
LEMMA ReturnKeeps ==
  ASSUME TypeOK, NEW next \in {"idle", "count"}, Return(next)
  PROVE  attest' \in Requests
<1>1. attest \in Requests
  BY Types
<1>2. ASSUME NEW a \in Attesters, NEW stage \in {"idle", "count", "record"}
      PROVE  [NoRequest EXCEPT !.at = stage]
               \in [at : {"idle", "put", "entered", "renewed", "count", "report", "record"},
                    first : Times \cup {-1}, since : Times, count : Nat]
  BY IotAssumption DEF NoRequest, Times
<1> QED
  BY <1>1, <1>2 DEF Return, Requests

LEMMA InitIInv == Init => IInv
<1> SUFFICES ASSUME Init PROVE IInv
  OBVIOUS
<1>1. TypeOK
  <2>1. now \in Times /\ reported \in Nat \cup {-1}
    BY IotAssumption DEF Init, Times
  <2>2. sync \in Passes
    BY IotAssumption DEF Init, NoPass, Times
  <2>3. l3 \in L3s
    BY DEF Init
  <2>4. attest \in Requests
    BY IotAssumption DEF Init, NoRequest, Times
  <2> QED
    BY <2>1, <2>2, <2>3, <2>4 DEF Init, TypeOK, Empty
<1>2. CapacityHeld
  BY CountNone, IotAssumption DEF Init, CapacityHeld
<1>3. FileInStep /\ OneCell /\ UnlistedAreRemovable /\ TodoFollows
  BY DEF Init, FileInStep, OneCell, UnlistedAreRemovable, TodoFollows, NoPass
<1> QED
  BY <1>1, <1>2, <1>3 DEF IInv

\* What the pass did not list stays removable when what is written is noted.
LEMMA RemovableKept ==
  ASSUME TypeOK, UnlistedAreRemovable, now' = now, sync.at # "idle",
         sync'.ids = sync.ids, sync.written \subseteq sync'.written,
         \A a \in Attesters : reg'[a] \in {reg[a], NoDevice} \/ a \in sync'.written
  PROVE  UnlistedAreRemovable'
<1> SUFFICES ASSUME NEW a \in Attesters \ sync.ids
             PROVE  Removable(a)'
  BY DEF UnlistedAreRemovable
<1>1. Removable(a)
  BY DEF UnlistedAreRemovable
<1>2. CASE reg'[a] = reg[a]
  BY <1>1, <1>2 DEF Removable, Stale
<1>3. CASE reg'[a] = NoDevice \/ a \in sync'.written
  BY <1>3 DEF Removable
<1> QED
  BY <1>2, <1>3

\* A request or the control stream changes the registry.
LEMMA ChangeKeepsPass ==
  ASSUME TypeOK, UnlistedAreRemovable, TodoFollows, now' = now, NEW d \in Ids,
         \A e \in Ids \ {d} : reg'[e] = reg[e],
         \/ sync' = sync /\ reg'[d] = NoDevice
         \/ sync' = Noted(d)
  PROVE  /\ UnlistedAreRemovable' /\ TodoFollows'
         /\ sync' \in Passes
<1>1. CASE sync' = sync /\ sync.at = "idle"
  BY <1>1 DEF UnlistedAreRemovable, TodoFollows, TypeOK
<1>2. CASE sync' = sync /\ reg'[d] = NoDevice /\ sync.at # "idle"
  <2>1. UnlistedAreRemovable'
    BY <1>2, RemovableKept DEF Ids
  <2> QED
    BY <1>2, <2>1 DEF TodoFollows, TypeOK
<1>3. CASE sync' = Noted(d) /\ sync.at # "idle"
  <2>1. sync' = [sync EXCEPT !.written = sync.written \cup ({d} \cap Attesters)]
    BY <1>3 DEF Noted
  <2>2. /\ sync'.ids = sync.ids /\ sync'.at = sync.at /\ sync'.todo = sync.todo
        /\ sync'.lacking = sync.lacking
        /\ sync'.written = sync.written \cup ({d} \cap Attesters)
    BY <2>1 DEF TypeOK
  <2>3. UnlistedAreRemovable'
    BY <1>3, <2>2, RemovableKept DEF Ids
  <2> QED
    BY <2>1, <2>2, <2>3 DEF TodoFollows, TypeOK
<1> QED
  BY <1>1, <1>2, <1>3 DEF Noted

\* What a call enters at a time up to now is a device.
LEMMA StampedDevice ==
  ASSUME TypeOK, NEW since \in Times, NEW t \in since .. now
  PROVE  /\ t \in Times
         /\ [first |-> t, last |-> t] \in Device
         /\ \A f \in Times \cup {-1} : Renewed(f, t) \in Device
<1>1. t \in Times
  BY IotAssumption DEF TypeOK, Times
<1>2. ASSUME NEW f \in Times \cup {-1} PROVE Renewed(f, t) \in Device
  BY <1>1, <1>2 DEF Renewed, Device
<1> QED
  BY <1>1, <1>2 DEF Device

LEMMA RequestsKeep ==
  ASSUME IInv, NEW a \in Attesters, Attest(a) \/ AttestStep(a)
  PROVE  IInv'
<1> USE DEF IInv
<1>1. CASE Attest(a)
  <2>1. reg[a].first \in Times \cup {-1}
    <3>1. reg[a] \in Device \cup {NoDevice}
      BY DEF TypeOK, Ids
    <3> QED
      BY <3>1 DEF Device, NoDevice
  <2>2. attest' \in Requests
    BY <1>1, <2>1 DEF TypeOK, Attest, Proceed
  <2>3. TypeOK'
    BY <1>1, <2>2 DEF TypeOK, Attest, registryVars
  <2> QED
    BY <1>1, <2>3
    DEF Attest, registryVars, CapacityHeld, FileInStep, OneCell,
        UnlistedAreRemovable, Removable, Stale, TodoFollows
<1>2. CASE AttestPut(a)
  <2>1. PICK t \in attest[a].since .. now : UpsertWithLimit(a, Renewed(attest[a].first, t), 0)
    BY <1>2 DEF AttestPut
  <2> DEFINE dev == Renewed(attest[a].first, t)
  <2>2. dev \in Device
    <3>1. attest[a].since \in Times /\ attest[a].first \in Times \cup {-1}
      BY DEF TypeOK
    <3> QED
      BY <3>1, StampedDevice
  <2>3. RegistryOK' /\ \A e \in Ids \ {a} : reg'[e] = reg[e]
    <3>1. RegistryOK /\ Unlocked /\ a \in Ids /\ UpsertWithLimit(a, dev, 0)
      BY <1>2, <2>1 DEF AttestPut, RegistryOK, TypeOK, Ids
    <3> HIDE DEF dev
    <3> QED
      BY <2>2, <3>1, UpsertKeeps
  <2>4. /\ UnlistedAreRemovable' /\ TodoFollows'
        /\ sync' \in Passes
    BY <1>2, <2>3, ChangeKeepsPass DEF AttestPut, Ids
  <2>5. attest' \in Requests
    BY <1>2, IotAssumption DEF AttestPut, TypeOK, Proceed, NoRequest, Times
  <2>6. TypeOK'
    BY <1>2, <2>3, <2>4, <2>5 DEF AttestPut, TypeOK, RegistryOK
  <2> QED
    BY <1>2, <2>3, <2>4, <2>6 DEF AttestPut, OneCell, RegistryOK
<1>3. CASE AttestCount(a)
  <2>1. PICK k \in Nat : k = CountAttesters
    BY Finite DEF CountAttesters, Registered
  <2>2. attest' \in Requests
    <3>1. attest' = [attest EXCEPT ![a] = [NoRequest EXCEPT !.at = "report", !.count = k]]
      BY <1>3, <2>1 DEF AttestCount, Proceed
    <3>2. [NoRequest EXCEPT !.at = "report", !.count = k]
            \in [at : {"idle", "put", "entered", "renewed", "count", "report", "record"},
                 first : Times \cup {-1}, since : Times, count : Nat]
      <4>1. NoRequest
              \in [at : {"idle", "put", "entered", "renewed", "count", "report", "record"},
                   first : Times \cup {-1}, since : Times, count : Nat]
        BY IotAssumption DEF NoRequest, Times
      <4> QED
        BY <2>1, <4>1
    <3> QED
      BY <3>1, <3>2 DEF TypeOK
  <2>3. TypeOK'
    BY <1>3, <2>2 DEF TypeOK, AttestCount, registryVars
  <2> QED
    BY <1>3, <2>3
    DEF AttestCount, registryVars, CapacityHeld, FileInStep, OneCell,
        UnlistedAreRemovable, Removable, Stale, TodoFollows
<1>4. CASE AttestReport(a)
  <2>0. attest' \in Requests
    BY <1>4, IotAssumption DEF TypeOK, AttestReport, Proceed, NoRequest, Times
  <2>1. TypeOK' /\ l3'.cell = l3.cell
    BY <1>4, <2>0 DEF TypeOK, AttestReport, UpdateDeviceTotal, registryVars
  <2> QED
    BY <1>4, <2>1
    DEF AttestReport, registryVars, CapacityHeld, FileInStep, OneCell,
        UnlistedAreRemovable, Removable, Stale, TodoFollows
<1>5. CASE AttestRecord(a)
  <2>1. Cardinality(l3.attesters \cup {a}) \in Nat
    <3>1. l3.attesters \cup {a} \in SUBSET Ids
      BY DEF TypeOK, Ids
    <3> QED
      BY <3>1, Finite
  <2>2. l3' \in L3s
          /\ l3'.cell = l3.cell
    <3>1. l3 \in L3s
      BY DEF TypeOK
    <3>2. CASE UNCHANGED l3
      BY <3>1, <3>2
    <3>3. CASE RecordVote(a)
      <4> DEFINE voted == l3.attesters \cup {a}
      <4>1. voted \in SUBSET Attesters /\ Cardinality(voted) \in Nat
        BY <2>1, <3>1
      <4>2. l3' = [l3 EXCEPT !.attesters = voted,
                             !.total = IF Cardinality(voted) > l3.total
                                         THEN Cardinality(voted) ELSE l3.total]
        BY <3>3 DEF RecordVote
      <4> HIDE DEF voted
      <4> QED
        BY <3>1, <4>1, <4>2
    <3> QED
      BY <1>5, <3>2, <3>3 DEF AttestRecord
  <2>3. attest' \in Requests
    BY <1>5, IotAssumption DEF TypeOK, AttestRecord, Proceed, NoRequest, Times
  <2>4. TypeOK'
    BY <1>5, <2>2, <2>3 DEF TypeOK, AttestRecord, registryVars
  <2> QED
    BY <1>5, <2>2, <2>4
    DEF AttestRecord, registryVars, CapacityHeld, FileInStep, OneCell,
        UnlistedAreRemovable, Removable, Stale, TodoFollows
<1> QED
  BY <1>1, <1>2, <1>3, <1>4, <1>5 DEF AttestStep

LEMMA PassKeeps ==
  ASSUME IInv, Pass
  PROVE  IInv'
<1> USE DEF IInv
<1>1. CASE Discover
  <2>1. TypeOK'
    <3>1. Recent \in SUBSET Attesters
      BY DEF Recent
    <3>2. sync' \in Passes
      <4>1. NoPass \in Passes
        BY IotAssumption DEF NoPass, Times
      <4> QED
        BY <1>1, <3>1, <4>1 DEF Discover
    <3> QED
      BY <1>1, <3>2 DEF TypeOK, Discover, registryVars
  <2>2. UnlistedAreRemovable'
    <3>1. \A a \in Attesters \ Recent : reg[a] # NoDevice => Stale(a)
      BY DEF Recent
    <3>2. reg' = reg /\ now' = now /\ sync'.ids = Recent
      BY <1>1 DEF Discover, registryVars, NoPass
    <3> QED
      BY <3>1, <3>2 DEF UnlistedAreRemovable, Removable, Stale
  <2> QED
    BY <1>1, <2>1, <2>2
    DEF Discover, registryVars, CapacityHeld, FileInStep, OneCell, TodoFollows
<1>2. ASSUME NEW a \in Attesters, SyncGet(a)
      PROVE  IInv'
  <2>1. TypeOK'
    BY <1>2 DEF TypeOK, SyncGet, registryVars
  <2> QED
    BY <1>2, <2>1
    DEF SyncGet, registryVars, CapacityHeld, FileInStep, OneCell, TypeOK,
        UnlistedAreRemovable, Removable, Stale, TodoFollows
<1>3. ASSUME NEW a \in Attesters, SyncPut(a)
      PROVE  IInv'
  <2>1. PICK t \in sync.since .. now : UpsertWithLimit(a, [first |-> t, last |-> t], 0)
    BY <1>3 DEF SyncPut
  <2>2. RegistryOK' /\ \A e \in Ids \ {a} : reg'[e] = reg[e]
    <3>1. RegistryOK /\ Unlocked /\ a \in Ids
      BY <1>3 DEF SyncPut, RegistryOK, TypeOK, Ids
    <3>2. [first |-> t, last |-> t] \in Device
      BY StampedDevice DEF TypeOK
    <3> QED
      BY <2>1, <3>1, <3>2, UpsertKeeps
  <2>3. /\ sync.at = "adding" /\ sync'.at = "adding"
        /\ sync'.ids = sync.ids /\ sync'.lacking = {}
        /\ sync'.written = sync.written \cup {a}
        /\ sync' \in Passes
    <3>1. sync \in Passes /\ 0 \in Times /\ sync.at = "adding"
      BY <1>3, IotAssumption DEF SyncPut, TodoFollows, TypeOK, Times
    <3>2. sync' = [sync EXCEPT !.lacking = {}, !.since = 0, !.written = sync.written \cup {a}]
      BY <1>3 DEF SyncPut
    <3> QED
      BY <3>1, <3>2
  <2>4. TypeOK'
    BY <1>3, <2>2, <2>3, Types DEF SyncPut, TypeOK, RegistryOK, Passes
  <2>5. UnlistedAreRemovable'
    BY <1>3, <2>2, <2>3, RemovableKept DEF SyncPut, Ids
  <2> QED
    BY <1>3, <2>2, <2>3, <2>4, <2>5 DEF SyncPut, OneCell, RegistryOK, TodoFollows
<1>4. CASE SyncList
  <2>1. TypeOK'
    BY <1>4 DEF TypeOK, SyncList, Unlisted, registryVars
  <2> QED
    BY <1>4, <2>1
    DEF SyncList, Unlisted, registryVars, CapacityHeld, FileInStep, OneCell, TypeOK,
        UnlistedAreRemovable, Removable, Stale, TodoFollows
<1>5. ASSUME NEW d \in Ids, SyncRemove(d)
      PROVE  IInv'
  <2>1. RegistryOK' /\ reg'[d] = NoDevice /\ \A e \in Ids \ {d} : reg'[e] = reg[e]
    BY <1>5, RemoveKeeps DEF SyncRemove, RegistryOK, TypeOK
  <2>2. /\ sync.at = "removing" /\ sync'.at = "removing"
        /\ sync'.ids = sync.ids /\ sync'.todo = sync.todo \ {d}
        /\ sync'.lacking = sync.lacking /\ sync'.written = sync.written
        /\ sync' \in Passes
    BY <1>5, Types DEF SyncRemove, Passes
  <2>3. TypeOK'
    BY <1>5, <2>1, <2>2, Types DEF SyncRemove, TypeOK, RegistryOK, Passes
  <2>4. UnlistedAreRemovable'
    BY <1>5, <2>1, <2>2, RemovableKept DEF SyncRemove, Ids
  <2> QED
    BY <1>5, <2>1, <2>2, <2>3, <2>4 DEF SyncRemove, OneCell, RegistryOK, TodoFollows
<1>6. CASE SyncReport
  <2>1. Cardinality(sync.ids) \in Nat
    BY Finite DEF TypeOK, Ids
  <2>2. l3' \in L3s
          /\ l3'.cell = l3.cell
    BY <1>6, <2>1 DEF TypeOK, SyncReport, Report, UpdateDeviceTotal
  <2>3. sync' \in Passes
    BY <1>6, IotAssumption DEF SyncReport, NoPass, Times
  <2>4. TypeOK'
    BY <1>6, <2>1, <2>2, <2>3 DEF TypeOK, SyncReport, Report, registryVars
  <2> QED
    BY <1>6, <2>2, <2>4
    DEF SyncReport, registryVars, CapacityHeld, FileInStep, OneCell, NoPass,
        UnlistedAreRemovable, TodoFollows
<1> QED
  BY <1>1, <1>2, <1>3, <1>4, <1>5, <1>6 DEF Pass

LEMMA MainKeeps ==
  ASSUME IInv, Preflight \/ PreflightForm \/ StartServices \/ StatsTick
  PROVE  IInv'
<1> USE DEF IInv
<1> USE DEF registryVars
<1>1. CASE Preflight
  <2>1. TypeOK'
    BY <1>1 DEF TypeOK, Preflight
  <2> QED
    BY <1>1, <2>1
    DEF Preflight, CapacityHeld, FileInStep, OneCell,
        UnlistedAreRemovable, Removable, Stale, TodoFollows
<1>2. CASE PreflightForm
  <2>1. CellOK' /\ (cell # {} => cell' = cell)
    BY <1>2, TryFormKeeps DEF PreflightForm, CellOK, TypeOK, OneCell
  <2>2. TypeOK' /\ OneCell'
    BY <1>2, <2>1 DEF TypeOK, PreflightForm, CellOK, OneCell
  <2> QED
    BY <1>2, <2>2
    DEF PreflightForm, CapacityHeld, FileInStep,
        UnlistedAreRemovable, Removable, Stale, TodoFollows
<1>3. CASE StartServices
  <2>1. TypeOK' /\ OneCell'
    BY <1>3 DEF TypeOK, StartServices, OneCell
  <2> QED
    BY <1>3, <2>1
    DEF StartServices, CapacityHeld, FileInStep,
        UnlistedAreRemovable, Removable, Stale, TodoFollows
<1>4. CASE StatsTick
  <2>1. CellOK' /\ (cell # {} => cell' = cell)
    BY <1>4, TryFormKeeps DEF StatsTick, CellOK, TypeOK, OneCell
  <2>2. TypeOK' /\ OneCell'
    BY <1>4, <2>1 DEF TypeOK, StatsTick, CellOK, OneCell
  <2> QED
    BY <1>4, <2>2
    DEF StatsTick, CapacityHeld, FileInStep,
        UnlistedAreRemovable, Removable, Stale, TodoFollows
<1> QED
  BY <1>1, <1>2, <1>3, <1>4

LEMMA HandlersKeep ==
  ASSUME IInv, SaveLocked \/ SaveFails \/ \E d \in Ids : Register(d) \/ HandleRemove(d)
  PROVE  IInv'
<1> USE DEF IInv
<1>1. CASE SaveLocked
  <2>1. attest' \in Requests
    BY <1>1, ReturnKeeps DEF SaveLocked
  <2>2. TypeOK'
    BY <1>1, <2>1 DEF TypeOK, SaveLocked, Return, Requests
  <2> QED
    BY <1>1, <2>2
    DEF SaveLocked, Return, CapacityHeld, FileInStep, OneCell,
        UnlistedAreRemovable, Removable, Stale, TodoFollows
<1>2. CASE SaveFails
  <2>1. attest' \in Requests
    BY <1>2, ReturnKeeps DEF SaveFails
  <2>2. file' = file \/ file' = Empty
    BY <1>2 DEF SaveFails
  <2>3. file' \in [Ids -> Device \cup {NoDevice}]
    BY <2>2 DEF TypeOK, Empty
  <2>4. TypeOK'
    BY <1>2, <2>1, <2>3 DEF TypeOK, SaveFails, Return, Requests
  <2>5. CapacityHeld'
    BY <1>2, <2>2, CountNone, IotAssumption DEF SaveFails, CapacityHeld
  <2> QED
    BY <1>2, <2>4, <2>5
    DEF SaveFails, FileInStep, OneCell, UnlistedAreRemovable, Removable, Stale, TodoFollows
<1>3. ASSUME NEW d \in Ids, Register(d)
      PROVE  IInv'
  <2>1. PICK t \in 0 .. now : UpsertWithLimit(d, [first |-> t, last |-> t], MaxDevices)
    BY <1>3 DEF Register, TypeOK, Times
  <2>2. RegistryOK' /\ \A e \in Ids \ {d} : reg'[e] = reg[e]
    <3>1. RegistryOK /\ Unlocked
      BY <1>3 DEF Register, RegistryOK, TypeOK
    <3>2. [first |-> t, last |-> t] \in Device
      BY StampedDevice, IotAssumption DEF Times
    <3> QED
      BY <2>1, <3>1, <3>2, UpsertKeeps
  <2>3. UnlistedAreRemovable' /\ TodoFollows' /\ sync' \in Passes
    BY <1>3, <2>2, ChangeKeepsPass DEF Register
  <2>4. TypeOK'
    BY <1>3, <2>2, <2>3, Types DEF Register, TypeOK, RegistryOK, Passes
  <2> QED
    BY <1>3, <2>2, <2>3, <2>4 DEF Register, OneCell, RegistryOK
<1>4. ASSUME NEW d \in Ids, HandleRemove(d)
      PROVE  IInv'
  <2>1. RegistryOK' /\ reg'[d] = NoDevice /\ \A e \in Ids \ {d} : reg'[e] = reg[e]
    BY <1>4, RemoveKeeps DEF HandleRemove, RegistryOK, TypeOK
  <2>2. TypeOK'
    BY <1>4, <2>1 DEF HandleRemove, TypeOK, RegistryOK
  <2>3. UnlistedAreRemovable' /\ TodoFollows'
    BY <1>4, <2>1, ChangeKeepsPass DEF HandleRemove
  <2> QED
    BY <1>4, <2>1, <2>2, <2>3 DEF HandleRemove, OneCell, RegistryOK
<1> QED
  BY <1>1, <1>2, <1>3, <1>4

LEMMA TickKeeps ==
  ASSUME IInv, Tick
  PROVE  IInv'
<1> USE DEF IInv
<1>1. TypeOK'
  BY IotAssumption DEF TypeOK, Tick, Times, registryVars
<1>2. UnlistedAreRemovable'
  <2> SUFFICES ASSUME sync.at # "idle"
               PROVE  \A a \in Attesters \ sync.ids : Removable(a)'
    BY DEF Tick, UnlistedAreRemovable
  <2>1. \A a \in Attesters \ sync.ids : Removable(a)
    BY DEF UnlistedAreRemovable
  <2>2. now \in Int /\ Retention \in Int
    BY IotAssumption DEF TypeOK, Times
  <2>3. \A a \in Attesters : reg[a] # NoDevice => reg[a].last \in Int
    BY DEF TypeOK, Ids, Device, Times
  <2> QED
    BY <2>1, <2>2, <2>3 DEF Tick, registryVars, Removable, Stale
<1> QED
  BY <1>1, <1>2 DEF Tick, registryVars, CapacityHeld, FileInStep, OneCell, TodoFollows

LEMMA CrashKeeps ==
  ASSUME IInv, Crash
  PROVE  IInv'
<1> USE DEF IInv
<1>1. (file' = file \/ file' = Empty) /\ reg' = file'
  BY DEF Crash
<1>2. file' \in [Ids -> Device \cup {NoDevice}]
  BY <1>1 DEF TypeOK, Empty
<1>3. CapacityHeld'
  <2>1. MaxDevices > 0 => nonAttesterCount(file') <= MaxDevices
    BY <1>1, CountNone, IotAssumption DEF CapacityHeld
  <2> QED
    BY <1>1, <2>1 DEF CapacityHeld
<1>4. sync' = NoPass /\ sync' \in Passes
  BY IotAssumption DEF Crash, Started, NoPass, Times, Passes
<1>5. attest' \in Requests
  BY IotAssumption DEF Crash, Started, NoRequest, Requests, Times
<1>6. l3' \in L3s /\ OneCell'
  BY DEF Crash, Started, OneCell, L3s
<1>7. TypeOK'
  BY <1>1, <1>2, <1>4, <1>5, <1>6, Types
  DEF TypeOK, Crash, Started, Requests, Passes, L3s
<1>8. FileInStep'
  BY <1>1 DEF FileInStep
<1>9. UnlistedAreRemovable' /\ TodoFollows'
  BY <1>4 DEF UnlistedAreRemovable, TodoFollows, NoPass
<1> QED
  BY <1>3, <1>6, <1>7, <1>8, <1>9

LEMMA NextIInv == IInv /\ [Next]_vars => IInv'
<1> SUFFICES ASSUME IInv, [Next]_vars PROVE IInv'
  OBVIOUS
<1>1. CASE UNCHANGED vars
  BY <1>1
  DEF vars, registryVars, IInv, TypeOK, CapacityHeld, FileInStep, OneCell,
      UnlistedAreRemovable, Removable, Stale, TodoFollows
<1>2. CASE SaveLocked \/ SaveFails \/ \E d \in Ids : Register(d) \/ HandleRemove(d)
  BY <1>2, HandlersKeep
<1>3. CASE Preflight \/ PreflightForm \/ StartServices \/ StatsTick
  BY <1>3, MainKeeps
<1>4. CASE \E a \in Attesters : Attest(a) \/ AttestStep(a)
  BY <1>4, RequestsKeep
<1>5. CASE Pass
  BY <1>5, PassKeeps
<1>6. CASE Tick \/ Crash
  BY <1>6, TickKeeps, CrashKeeps
<1> QED
  BY <1>1, <1>2, <1>3, <1>4, <1>5, <1>6 DEF Next

-----------------------------------------------------------------------------
(* The theorems. *)

\* What a handler, a request, main and the pass rely on is true in every state
\* of every execution.
THEOREM InvariantHolds == Spec => []IInv
<1>1. Init => IInv
  BY InitIInv
<1>2. IInv /\ [Next]_vars => IInv'
  BY NextIInv
<1> QED
  BY <1>1, <1>2, PTL DEF Spec

\* The limit of ordinary devices holds in memory and in devices.json, the file is
\* the registry but for the call that is writing it, and L3 knows no cell but the
\* manager's, for every limit and every set of ids.
THEOREM RegistryIsSound == Spec => []RegistrySound
<1>1. IInv => RegistrySound
  BY DEF IInv, RegistrySound
<1> QED
  BY <1>1, InvariantHolds, PTL

\* A cell that is formed is kept until the process dies.
THEOREM CellIsKept == Spec => CellStays
<1> DEFINE Kept == cell # {} => cell' = cell \/ Crash
<1>1. IInv /\ [Next]_vars => [Kept]_vars
  <2> SUFFICES ASSUME IInv, Next, cell # {}, ~Crash
               PROVE  cell' = cell
    OBVIOUS
  <2>1. CASE TryForm
    BY <2>1, TryFormKeeps DEF IInv, TypeOK, OneCell, CellOK
  <2>2. CASE ~TryForm
    BY <2>2
    DEF Next, SaveLocked, SaveFails, Register, HandleRemove, Preflight, PreflightForm,
        StartServices, StatsTick, Attest, AttestStep, AttestPut, AttestCount,
        AttestReport, AttestRecord, Pass, Discover, SyncGet, SyncPut, SyncList,
        SyncRemove, SyncReport, Tick
  <2> QED
    BY <2>1, <2>2
<1> QED
  BY <1>1, InvariantHolds, PTL DEF Spec, CellStays

\* No ordinary device is lost to the pass over the attesters or to a request of
\* somebody else.
THEOREM DevicesAreKept == Spec => DevicesStay
<1> DEFINE Lost(d) == reg[d] # NoDevice /\ reg'[d] = NoDevice
           Kept == \A d \in Devices : Lost(d) => HandleRemove(d) \/ Crash
<1>1. IInv /\ [Next]_vars => [Kept]_vars
  <2> SUFFICES ASSUME IInv, Next, NEW d \in Devices, Lost(d), ~Crash
               PROVE  HandleRemove(d)
    OBVIOUS
  <2>1. d \in Ids /\ d \notin Attesters /\ RegistryOK /\ reg' # reg
    BY IotAssumption DEF IInv, TypeOK, RegistryOK, Ids
  <2>2. ASSUME NEW e \in Ids, Register(e) PROVE FALSE
    <3>1. PICK t \in 0 .. now : UpsertWithLimit(e, [first |-> t, last |-> t], MaxDevices)
      BY <2>2 DEF Register, IInv, TypeOK, Times
    <3>2. [first |-> t, last |-> t] \in Device
      BY StampedDevice, IotAssumption DEF IInv, Times
    <3>3. reg'[d] # NoDevice
      BY <2>1, <2>2, <3>1, <3>2, UpsertKeeps DEF Register
    <3> QED
      BY <3>3
  <2>3. ASSUME NEW e \in Ids, HandleRemove(e) PROVE HandleRemove(d)
    <3>1. e = d
      BY <2>1, <2>3, RemoveKeeps DEF HandleRemove
    <3> QED
      BY <2>3, <3>1
  <2>4. ASSUME NEW a \in Attesters, AttestPut(a) PROVE FALSE
    <3>1. PICK t \in attest[a].since .. now :
            UpsertWithLimit(a, Renewed(attest[a].first, t), 0)
      BY <2>4 DEF AttestPut
    <3> DEFINE dev == Renewed(attest[a].first, t)
    <3>2. dev \in Device
      <4>1. attest[a].since \in Times /\ attest[a].first \in Times \cup {-1}
        BY DEF IInv, TypeOK
      <4> QED
        BY <4>1, StampedDevice DEF IInv
    <3>3. Unlocked /\ a \in Ids /\ UpsertWithLimit(a, dev, 0)
      BY <2>4, <3>1 DEF AttestPut, Ids
    <3> HIDE DEF dev
    <3> QED
      BY <2>1, <3>2, <3>3, UpsertKeeps
  <2>5. ASSUME NEW a \in Attesters, SyncPut(a) PROVE FALSE
    <3>1. PICK t \in sync.since .. now : UpsertWithLimit(a, [first |-> t, last |-> t], 0)
      BY <2>5 DEF SyncPut
    <3>2. [first |-> t, last |-> t] \in Device
      BY StampedDevice DEF IInv, TypeOK
    <3>3. reg'[d] # NoDevice
      BY <2>1, <2>5, <3>1, <3>2, UpsertKeeps DEF SyncPut, Ids
    <3> QED
      BY <3>3
  <2>6. ASSUME NEW e \in Ids, SyncRemove(e) PROVE FALSE
    <3>1. e = d
      BY <2>1, <2>6, RemoveKeeps DEF SyncRemove
    <3>2. e \in Attesters
      BY <2>6 DEF SyncRemove, IInv, TypeOK
    <3> QED
      BY <2>1, <3>1, <3>2
  <2> QED
    BY <2>1, <2>2, <2>3, <2>4, <2>5, <2>6
    DEF Next, SaveLocked, SaveFails, Preflight, PreflightForm, StartServices, StatsTick,
        Attest, AttestStep, AttestCount, AttestReport, AttestRecord, Pass, Discover,
        SyncGet, SyncList, SyncReport, Tick, registryVars
<1> QED
  BY <1>1, InvariantHolds, PTL DEF Spec, DevicesStay

\* Whatever happens between the listing and the removal, the pass removes no
\* attester that was there, not silent, and is listed.
THEOREM RemovalsAreJustified == Spec => RemovedWithReason
<1> DEFINE Why(a) == SyncRemove(a) /\ reg[a] # NoDevice => Stale(a) \/ a \in sync.written
           Justified == \A a \in Attesters : Why(a)
<1>1. IInv /\ [Next]_vars => [Justified]_vars
  <2> SUFFICES ASSUME IInv, NEW a \in Attesters, SyncRemove(a), reg[a] # NoDevice
               PROVE  Stale(a) \/ a \in sync.written
    OBVIOUS
  <2>1. sync.at = "removing" /\ a \in Attesters \ sync.ids
    BY DEF SyncRemove, IInv, TodoFollows
  <2> QED
    BY <2>1 DEF IInv, UnlistedAreRemovable, Removable
<1> QED
  BY <1>1, InvariantHolds, PTL DEF Spec, RemovedWithReason
=============================================================================
