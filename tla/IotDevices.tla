----------------------------- MODULE IotDevices -----------------------------
(***************************************************************************)
(* The devices of a node: the registry that HTTP and control-stream        *)
(* handlers fill (internal/iot/registry.go, internal/httpapi/ingress.go,   *)
(* internal/p2p/iot.go), the cell formed from it (internal/cell/cell.go),  *)
(* the pass that drops silent attesters and the attester total it reports  *)
(* to L3 (cmd/node/main.go, internal/helios/l3_finality.go).               *)
(*                                                                         *)
(* A call of the registry holds its mutex; a call that changes it writes   *)
(* devices.json before it lets go, which is a step of its own here for the *)
(* sake of crashes, and fails without taking the change back.  A handler   *)
(* that calls the registry twice is two steps; the times it enters were    *)
(* read before it waited for the mutex.                                    *)
(***************************************************************************)
EXTENDS Integers, FiniteSets

CONSTANTS
  Devices,     \* ids of ordinary devices
  Attesters,   \* ids with the prefix of L3 attesters
  MaxDevices,  \* Registry.max, 0 for no limit
  Threshold,   \* Manager.threshold
  Retention,   \* attesterRetention in ticks of the model's clock
  Leaving,     \* bound: ids the control stream is asked to remove
  Late,        \* bound: ids whose registration waits for the mutex a tick or more
  MaxTime      \* bound: ticks of the clock

\* main.go derives the cell's threshold from the limit, when there is one.
ASSUME IotAssumption ==
  /\ IsFiniteSet(Devices) /\ IsFiniteSet(Attesters)
  /\ Devices \cap Attesters = {}
  /\ MaxDevices \in Nat
  /\ Threshold \in Nat \ {0}
  /\ MaxDevices > 0 => Threshold = MaxDevices
  /\ Retention \in Nat
  /\ Leaving \cup Late \subseteq Devices \cup Attesters
  /\ MaxTime \in Nat

VARIABLES
  reg,      \* Registry.byID: the devices registered, with their times
  file,     \* devices.json
  writing,  \* the call that holds the mutex has yet to write the file
  behind,   \* history: the last write of the file failed
  cell,     \* the devices of Manager.cell, {} while there is none
  node,     \* how far main has come
  attest,   \* attest[a]: the /iot/attest request of a under way
  sync,     \* the pass over the attesters; written is history, for a property
  reported, \* lastDevices: the total the last pass reported, -1 before it
  l3,       \* L3Service: its cell, its attesters and devicesTotal
  now       \* the clock

registryVars == <<reg, file, writing, behind>>
vars == <<registryVars, cell, node, attest, sync, reported, l3, now>>

Ids == Devices \cup Attesters
Times == 0 .. MaxTime
Device == [first : Times, last : Times]
NoDevice == [first |-> -1, last |-> -1]
Registered == {d \in Ids : reg[d] # NoDevice}
nonAttesterCount(r) == Cardinality({d \in Devices : r[d] # NoDevice})

Empty == [d \in Ids |-> NoDevice]
NoRequest == [at |-> "idle", first |-> -1, since |-> 0, count |-> 0]
NoPass == [at |-> "idle", ids |-> {}, todo |-> {}, lacking |-> {}, since |-> 0,
           written |-> {}]

\* A process that has just been started.
Started ==
  /\ writing' = FALSE /\ behind' = FALSE
  /\ cell' = {}
  /\ node' = "waiting"
  /\ attest' = [a \in Attesters |-> NoRequest]
  /\ sync' = NoPass /\ reported' = -1
  /\ l3' = [cell |-> {}, attesters |-> {}, total |-> 0]

Init ==
  /\ reg = Empty /\ file = Empty
  /\ writing = FALSE /\ behind = FALSE
  /\ cell = {}
  /\ node = "waiting"
  /\ attest = [a \in Attesters |-> NoRequest]
  /\ sync = NoPass /\ reported = -1
  /\ l3 = [cell |-> {}, attesters |-> {}, total |-> 0]
  /\ now = 0

-----------------------------------------------------------------------------
(* The registry.  Every call waits for the mutex.                            *)

Unlocked == ~writing

\* The registry's map becomes r, and saveLocked is about to write it.
Change(r) ==
  /\ reg' = r
  /\ writing' = TRUE
  /\ UNCHANGED <<file, behind>>

\* Mutant: one more is let in.
HasRoomPlusOne(d, max) ==
  \/ reg[d] # NoDevice
  \/ max = 0
  \/ d \in Attesters
  \/ nonAttesterCount(reg) <= max

\* UpsertWithLimit accepts a device that is known, or has a free place.
HasRoom(d, max) ==
  \/ reg[d] # NoDevice
  \/ max = 0
  \/ d \in Attesters
  \/ nonAttesterCount(reg) < max

UpsertWithLimit(d, dev, max) ==
  /\ HasRoom(d, max)
  /\ Change([reg EXCEPT ![d] = dev])

Remove(d) == Change([reg EXCEPT ![d] = NoDevice])

\* The call returns.  If it was a request's, one that found its attester goes on
\* with the vote whatever came of the write; the other depends on it.
Return(next) ==
  /\ writing' = FALSE
  /\ attest' = [a \in Attesters |->
       CASE attest[a].at = "entered" -> [NoRequest EXCEPT !.at = next]
         [] attest[a].at = "renewed" -> [NoRequest EXCEPT !.at = "record"]
         [] OTHER -> attest[a]]

SaveLocked ==
  /\ writing
  /\ file' = reg /\ behind' = FALSE
  /\ Return("count")
  /\ UNCHANGED <<reg, cell, node, sync, reported, l3, now>>

\* The write fails: the file is as it was, or was cut.  The change stays in the
\* registry, whether the caller hears of the error (UpsertWithLimit) or not
\* (Remove); the request is refused.
SaveFails ==
  /\ writing
  /\ file' \in {file, Empty} /\ behind' = TRUE
  /\ Return("idle")
  /\ UNCHANGED <<reg, cell, node, sync, reported, l3, now>>

\* The pass under way, when the entry of d is written meanwhile.
Noted(d) ==
  IF sync.at = "idle" THEN sync ELSE [sync EXCEPT !.written = @ \cup ({d} \cap Attesters)]

\* A registration, by HTTP or by the control stream: both times are new, also
\* those of a device that is known.
Register(d) ==
  /\ Unlocked
  /\ \E t \in (IF d \in Late THEN 0 .. now ELSE {now}) :
       UpsertWithLimit(d, [first |-> t, last |-> t], MaxDevices)
  /\ sync' = Noted(d)
  /\ UNCHANGED <<cell, node, attest, reported, l3, now>>

\* The control stream's "remove".
HandleRemove(d) ==
  /\ Unlocked
  /\ d \in Leaving
  /\ Remove(d)
  /\ UNCHANGED <<cell, node, attest, sync, reported, l3, now>>

-----------------------------------------------------------------------------
(* main waits until enough devices are registered, forms the cell, and       *)
(* starts the services; a ticker tries to form the cell later.               *)

\* How many of k devices TryForm takes.
CellSize(k) ==
  IF MaxDevices > 0 /\ k < MaxDevices THEN k
  ELSE IF MaxDevices > 0 /\ MaxDevices < Threshold THEN MaxDevices
  ELSE Threshold

\* C are the ones of the registry seen first.
SeenFirst(C) ==
  \A c \in C, d \in Registered \ C : reg[c].first <= reg[d].first

TryForm ==
  IF cell = {} /\ Cardinality(Registered) >= Threshold
    THEN \E C \in SUBSET Registered :
           /\ Cardinality(C) = CellSize(Cardinality(Registered))
           /\ SeenFirst(C)
           /\ cell' = C
    ELSE cell' = cell

\* One round of the preflight loop lists the devices ...
Preflight ==
  /\ Unlocked
  /\ node = "waiting"
  /\ Cardinality(Registered) >= Threshold
  /\ node' = "counted"
  /\ UNCHANGED <<registryVars, cell, attest, sync, reported, l3, now>>

\* ... then calls TryForm, which lists them again.  Another round follows when
\* too few nodes are seen.
PreflightForm ==
  /\ Unlocked
  /\ node = "counted"
  /\ TryForm
  /\ node' \in {"waiting", "starting"}
  /\ UNCHANGED <<registryVars, attest, sync, reported, l3, now>>

\* L3 starts and is told of the cell, if there is one.
StartServices ==
  /\ node = "starting"
  /\ node' = "running"
  /\ l3' = [l3 EXCEPT !.cell = cell]
  /\ UNCHANGED <<registryVars, cell, attest, sync, reported, now>>

\* The statistics ticker tries again; L3 is told when a cell comes of it.
StatsTick ==
  /\ Unlocked
  /\ node = "running"
  /\ TryForm
  /\ l3' = [l3 EXCEPT !.cell = IF cell' # cell THEN cell' ELSE @]
  /\ UNCHANGED <<registryVars, node, attest, sync, reported, now>>

-----------------------------------------------------------------------------
(* /iot/attest: an attester votes for a block.  Its entry is read first and  *)
(* written back, or made, in a later call.                                   *)

UpdateDeviceTotal(total) ==
  l3' = [l3 EXCEPT !.total = IF total > @ THEN total ELSE @]

At(a, step) == attest[a].at = step
Proceed(a, job) == attest' = [attest EXCEPT ![a] = job]

Attest(a) ==
  /\ Unlocked
  /\ node = "running"
  /\ At(a, "idle")
  /\ Proceed(a, [at |-> "put", first |-> reg[a].first, since |-> now, count |-> 0])
  /\ UNCHANGED <<registryVars, cell, node, sync, reported, l3, now>>

\* An entry that was found goes back as it was read, with a new LastSeen; an
\* attester that is unknown gets an entry.
Renewed(first, t) == [first |-> IF first = -1 THEN t ELSE first, last |-> t]

\* LastSeen is stamped between the two calls.
AttestPut(a) ==
  /\ Unlocked
  /\ At(a, "put")
  /\ \E t \in attest[a].since .. now : UpsertWithLimit(a, Renewed(attest[a].first, t), 0)
  /\ Proceed(a, [NoRequest EXCEPT
                   !.at = IF attest[a].first = -1 THEN "entered" ELSE "renewed"])
  /\ sync' = Noted(a)
  /\ UNCHANGED <<cell, node, reported, l3, now>>

CountAttesters == Cardinality(Registered \cap Attesters)

\* Only who was unknown is counted.
AttestCount(a) ==
  /\ Unlocked
  /\ At(a, "count")
  /\ Proceed(a, [NoRequest EXCEPT !.at = "report", !.count = CountAttesters])
  /\ UNCHANGED <<registryVars, cell, node, sync, reported, l3, now>>

AttestReport(a) ==
  /\ At(a, "report")
  /\ UpdateDeviceTotal(attest[a].count)
  /\ Proceed(a, [NoRequest EXCEPT !.at = "record"])
  /\ UNCHANGED <<registryVars, cell, node, sync, reported, now>>

\* RecordDeviceAttestation takes the vote, unless the block is final or has it;
\* the attesters that have voted raise the total.
RecordVote(a) ==
  LET voted == l3.attesters \cup {a}
  IN l3' = [l3 EXCEPT !.attesters = voted,
                      !.total = IF Cardinality(voted) > @ THEN Cardinality(voted)
                                                          ELSE @]

AttestRecord(a) ==
  /\ At(a, "record")
  /\ RecordVote(a) \/ UNCHANGED l3
  /\ Proceed(a, NoRequest)
  /\ UNCHANGED <<registryVars, cell, node, sync, reported, now>>

-----------------------------------------------------------------------------
(* The pass over the attesters, at the start of the services and on every    *)
(* tick: discoverAttesters, syncAttesterRegistry, UpdateDeviceTotal.         *)

Stale(a) == reg[a] # NoDevice /\ now - reg[a].last > Retention
\* Mutant: an attester counts as silent one tick too early.
RecentStrictly ==
  {a \in Attesters : reg[a] # NoDevice /\ now - reg[a].last < Retention}

\* Mutant: nobody is ever silent.
RecentOrNot == {a \in Attesters : reg[a] # NoDevice}

Recent == {a \in Attesters : reg[a] # NoDevice /\ ~Stale(a)}

\* discoverAttesters: the ones seen within the retention.
Discover ==
  /\ Unlocked
  /\ node = "running"
  /\ sync.at = "idle"
  /\ sync' = [NoPass EXCEPT !.at = "adding", !.ids = Recent, !.todo = Recent]
  /\ UNCHANGED <<registryVars, cell, node, attest, reported, l3, now>>

\* syncAttesterRegistry looks each of them up, and registers again the one that
\* has gone since ...
SyncGet(a) ==
  /\ Unlocked
  /\ sync.at = "adding"
  /\ sync.lacking = {}
  /\ a \in sync.todo
  /\ sync' = IF reg[a] # NoDevice THEN [sync EXCEPT !.todo = @ \ {a}]
             ELSE [sync EXCEPT !.todo = @ \ {a}, !.lacking = {a}, !.since = now]
  /\ UNCHANGED <<registryVars, cell, node, attest, reported, l3, now>>

SyncPut(a) ==
  /\ Unlocked
  /\ a \in sync.lacking
  /\ \E t \in sync.since .. now : UpsertWithLimit(a, [first |-> t, last |-> t], 0)
  /\ sync' = [sync EXCEPT !.lacking = {}, !.since = 0, !.written = @ \cup {a}]
  /\ UNCHANGED <<cell, node, attest, reported, l3, now>>

\* ... then lists the registry, and removes the attesters it did not find before.
Unlisted == (Registered \cap Attesters) \ sync.ids

SyncList ==
  /\ Unlocked
  /\ sync.at = "adding"
  /\ sync.todo = {} /\ sync.lacking = {}
  /\ sync' = [sync EXCEPT !.at = "removing", !.todo = Unlisted]
  /\ UNCHANGED <<registryVars, cell, node, attest, reported, l3, now>>

SyncRemove(a) ==
  /\ Unlocked
  /\ sync.at = "removing"
  /\ a \in sync.todo
  /\ Remove(a)
  /\ sync' = [sync EXCEPT !.todo = @ \ {a}]
  /\ UNCHANGED <<cell, node, attest, reported, l3, now>>

\* Mutant: L3 is told the total of the pass before.
ReportPrevious(total) ==
  /\ reported' = total
  /\ IF total = reported THEN UNCHANGED l3 ELSE UpdateDeviceTotal(reported)

\* The total goes to L3 when it is not the one last reported.
Report(total) ==
  /\ reported' = total
  /\ IF total = reported THEN UNCHANGED l3 ELSE UpdateDeviceTotal(total)

SyncReport ==
  /\ sync.at = "removing"
  /\ sync.todo = {}
  /\ Report(Cardinality(sync.ids))
  /\ sync' = NoPass
  /\ UNCHANGED <<registryVars, cell, node, attest, now>>

-----------------------------------------------------------------------------
Tick ==
  /\ now < MaxTime
  /\ now' = now + 1
  /\ UNCHANGED <<registryVars, cell, node, attest, sync, reported, l3>>

\* The process dies and starts again from devices.json.  A file that was being
\* written may be left incomplete, and then reads as empty.
Crash ==
  /\ \/ file' = file
     \/ writing /\ file' = Empty
  /\ reg' = file'
  /\ UNCHANGED now
  /\ Started

AttestStep(a) == AttestPut(a) \/ AttestCount(a) \/ AttestReport(a) \/ AttestRecord(a)
Pass ==
  \/ Discover
  \/ \E a \in Attesters : SyncGet(a) \/ SyncPut(a)
  \/ SyncList
  \/ \E d \in Ids : SyncRemove(d)
  \/ SyncReport

Next ==
  \/ SaveLocked \/ SaveFails
  \/ \E d \in Ids : Register(d) \/ HandleRemove(d)
  \/ Preflight \/ PreflightForm \/ StartServices \/ StatsTick
  \/ \E a \in Attesters : Attest(a) \/ AttestStep(a)
  \/ Pass
  \/ Tick
  \/ Crash

\* The ticker starts a pass for ever, and Go's mutex is handed to whoever has
\* waited long enough (strong fairness of the pass, which takes it again and
\* again).  Requests, main and the clock owe nothing.
Fairness ==
  /\ WF_registryVars(SaveLocked \/ SaveFails)
  /\ SF_<<sync, reported>>(Pass)

Spec == Init /\ [][Next]_vars /\ Fairness

-----------------------------------------------------------------------------
TypeOK ==
  /\ reg \in [Ids -> Device \cup {NoDevice}]
  /\ file \in [Ids -> Device \cup {NoDevice}]
  /\ writing \in BOOLEAN /\ behind \in BOOLEAN
  /\ cell \in SUBSET Ids
  /\ node \in {"waiting", "counted", "starting", "running"}
  /\ attest \in [Attesters ->
       [at : {"idle", "put", "entered", "renewed", "count", "report", "record"},
        first : Times \cup {-1}, since : Times, count : Nat]]
  /\ sync \in [at : {"idle", "adding", "removing"}, ids : SUBSET Attesters,
               todo : SUBSET Attesters, lacking : SUBSET Attesters, since : Times,
               written : SUBSET Attesters]
  /\ reported \in Nat \cup {-1}
  /\ l3 \in [cell : SUBSET Ids, attesters : SUBSET Attesters, total : Nat]
  /\ now \in Times

\* Neither the registry nor the file it is loaded from after a crash ever holds
\* more ordinary devices than the limit, whatever is registered, removed and
\* registered again by handlers, requests and the pass (UpsertWithLimit checks
\* and enters under one mutex).
CapacityHeld ==
  MaxDevices > 0 => /\ nonAttesterCount(reg) <= MaxDevices
                    /\ nonAttesterCount(file) <= MaxDevices

\* Unless the last write failed, devices.json is behind the registry by the one
\* call that is writing it, and by nothing once that call has returned: a crash
\* between calls then undoes neither a registration that was answered nor a
\* removal, whatever failed before (saveLocked, load).  After a failed write it may
\* undo both, although Remove does not say so, until another call is saved; one
\* in the middle of a write may lose everything.
FileInStep ==
  ~behind =>
    /\ ~writing => file = reg
    /\ \A d, e \in Ids : file[d] # reg[d] /\ file[e] # reg[e] => d = e

\* In the life of a process L3 hears of one cell at most, the one the manager
\* holds, which has exactly Threshold devices (TryForm, registerCell).
OneCell ==
  /\ l3.cell \in {{}, cell}
  /\ cell # {} => Cardinality(cell) = Threshold

\* The registry, its file and the cell made from it agree at every point of the
\* calls that handlers, requests, main and the pass interleave: the three
\* invariants above.
RegistrySound == TypeOK /\ CapacityHeld /\ FileInStep /\ OneCell

\* The cell of a process is not replaced while it lives, whoever calls TryForm.
CellStays == [][cell # {} => cell' = cell \/ Crash]_vars

\* An ordinary device leaves the registry only when it asks to, or by a crash:
\* never by the pass over the attesters or by a request of another device.
DevicesStay ==
  [][\A d \in Devices :
       reg[d] # NoDevice /\ reg'[d] = NoDevice
         => HandleRemove(d) \/ Crash]_vars

\* The pass removes an attester for a reason: it has been silent for the whole
\* retention, or its entry was written after the pass listed the registry.  (One
\* that registers while a pass is under way may be removed by it.)
RemovedWithReason ==
  [][\A a \in Attesters :
       SyncRemove(a) /\ reg[a] # NoDevice => Stale(a) \/ a \in sync.written]_vars

\* While k attesters are registered and not silent, L3's total comes to count k
\* of them (syncAttesterRegistry, UpdateDeviceTotal, with lastDevices between).
Counted(k) == l3.total >= k \/ Cardinality(Recent) < k \/ node # "running"
AttestersAreCounted ==
  \A k \in 1 .. Cardinality(Attesters) : ~Counted(k) ~> Counted(k)

\* An attester that stays silent leaves the registry (attesterRetention).
SilentHere(a) == node = "running" /\ Stale(a)
SilentAttestersLeave == \A a \in Attesters : SilentHere(a) ~> ~SilentHere(a)
=============================================================================
