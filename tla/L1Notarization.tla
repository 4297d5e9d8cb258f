--------------------------- MODULE L1Notarization ---------------------------
(***************************************************************************)
(* The HELIOS L1 notarization service (internal/helios/l1_notarization.go) *)
(* of one node.  The node attests every block it receives, counts the      *)
(* attestations of all nodes, and announces a block as notarized when      *)
(* MinAttesters have attested it.  A list of recent records, with an index *)
(* by block, shows the progress.                                           *)
(*                                                                         *)
(* Two goroutines run the service: one for the block topic, which attests  *)
(* and counts its own attestation directly, and one for the attestation    *)
(* topic.  Every action is one critical section of one of them.            *)
(***************************************************************************)
EXTENDS Integers, Sequences, FiniteSets

CONSTANTS
  Blocks,
  NoBlock,       \* what an idle goroutine works on
  Attesters,     \* nodes that attest blocks
  Self,          \* the node itself
  MinAttesters,  \* params.MinAttesters
  MaxRecent,     \* maxRecent
  Votes          \* bound: who else attests what, pairs of a block and an attester

ASSUME ParameterAssumption ==
  /\ NoBlock \notin Blocks
  /\ IsFiniteSet(Attesters)
  /\ Self \in Attesters
  /\ MinAttesters \in Nat \ {0}
  /\ MaxRecent \in Nat \ {0}
  /\ Votes \subseteq Blocks \X (Attesters \ {Self})

VARIABLES
  attested,   \* attested[b]: nodes that have published an attestation of b
  queue,      \* attestations published and not yet taken from the topic
  announced,  \* notarizations published: pairs of a block and a count
  work,       \* work[t]: what goroutine t is doing
  seen,       \* seen[b]: the attesters counted; {} stands for no entry
  attests,    \* attests[b]: attesters whose raw attestations are kept
  young,      \* blocks with a first-seen time less than retainFor ago
  recent,     \* the recent records, the newest first
  index,      \* recByHash: the position of a block's record, 0 for none
  panicked    \* history: the process has died of an index past the end

noted == <<recent, index, attests>>
vars == <<attested, queue, announced, work, seen, young, noted, panicked>>

\* "blocks" reads the block topic, "attests" the attestation topic.
Threads == {"blocks", "attests"}

Idle == [stage |-> "idle", block |-> NoBlock, count |-> 0]

Jobs ==
  [stage : {"attest", "track", "update", "notarize", "forget", "announce"},
   block : Blocks, count : 0 .. Cardinality(Attesters)]

Records ==
  [hash : Blocks, notarized : BOOLEAN, attesters : 0 .. Cardinality(Attesters)]

TypeOK ==
  /\ attested \in [Blocks -> SUBSET Attesters]
  /\ queue \in SUBSET (Blocks \X Attesters)
  /\ announced \in SUBSET (Blocks \X (1 .. Cardinality(Attesters)))
  /\ work \in [Threads -> Jobs \cup {Idle}]
  /\ seen \in [Blocks -> SUBSET Attesters]
  /\ attests \in [Blocks -> SUBSET Attesters]
  /\ young \in SUBSET Blocks
  /\ recent \in Seq(Records) /\ Len(recent) <= MaxRecent
  /\ index \in [Blocks -> 0 .. MaxRecent + 1]
  /\ panicked \in BOOLEAN

Init ==
  /\ attested = [b \in Blocks |-> {}]
  /\ queue = {}
  /\ announced = {}
  /\ work = [t \in Threads |-> Idle]
  /\ seen = [b \in Blocks |-> {}]
  /\ attests = [b \in Blocks |-> {}]
  /\ young = {}
  /\ recent = <<>>
  /\ index = [b \in Blocks |-> 0]
  /\ panicked = FALSE

-----------------------------------------------------------------------------
(* The recent records. *)

Places(records, b) == {i \in 1 .. Len(records) : records[i].hash = b}

IndexOf(records) ==
  [b \in Blocks |->
     IF Places(records, b) = {} THEN 0
     ELSE CHOOSE i \in Places(records, b) : \A j \in Places(records, b) : j <= i]

Truncate(records) ==
  IF Len(records) > MaxRecent THEN SubSeq(records, 1, MaxRecent) ELSE records

\* Attestations are dropped once their block is neither indexed nor young.
PruneAttests ==
  attests' = [b \in Blocks |-> IF index'[b] # 0 \/ b \in young THEN attests[b] ELSE {}]

\* Mutant: the list is not cut.
AddRecordUncut(b, count) ==
  LET record == [hash |-> b, notarized |-> FALSE, attesters |-> count] IN
  /\ recent' = <<record>> \o recent
  /\ index' = IndexOf(recent')
  /\ PruneAttests

\* Mutant: the index is rebuilt before the record is put in front.
AddRecordIndexedFirst(b, count) ==
  LET record == [hash |-> b, notarized |-> FALSE, attesters |-> count] IN
  /\ recent' = Truncate(<<record>> \o recent)
  /\ index' = IndexOf(recent)
  /\ PruneAttests

\* A record of b is put in front; the index is that of the truncated list.
AddRecord(b, count) ==
  LET record == [hash |-> b, notarized |-> FALSE, attesters |-> count] IN
  /\ recent' = Truncate(<<record>> \o recent)
  /\ index' = IndexOf(recent')
  /\ PruneAttests

\* The same for a notarized record, but the index is that of the whole list.
AddNotarized(b, count) ==
  LET record == [hash |-> b, notarized |-> TRUE, attesters |-> count] IN
  /\ recent' = Truncate(<<record>> \o recent)
  /\ index' = IndexOf(<<record>> \o recent)
  /\ PruneAttests

ChangeRecord(b, record) ==
  /\ recent' = [recent EXCEPT ![index[b]] = record]
  /\ UNCHANGED index
  /\ PruneAttests

-----------------------------------------------------------------------------
(* The goroutines. *)

GoOn(t, stage) == work' = [work EXCEPT ![t].stage = stage]
Finish(t) == work' = [work EXCEPT ![t] = Idle]

Publish(a, b) ==
  /\ attested' = [attested EXCEPT ![b] = @ \cup {a}]
  /\ queue' = queue \cup {<<b, a>>}

\* Another node attests a block, maybe again.
Attest(a, b) ==
  /\ <<b, a>> \in Votes
  /\ Publish(a, b)
  /\ UNCHANGED <<panicked, announced, work, seen, young, noted>>

\* A block arrives, maybe again, and is recorded.
OnBlock(b) ==
  /\ work["blocks"] = Idle
  /\ work' = [work EXCEPT !["blocks"] = [stage |-> "attest", block |-> b, count |-> 0]]
  /\ IF index[b] = 0 THEN AddRecord(b, 0) ELSE UNCHANGED noted
  /\ UNCHANGED <<panicked, attested, queue, announced, seen, young>>

\* The node attests the block, its own included, unless publishing fails.
OnBlockProposed ==
  /\ work["blocks"].stage = "attest"
  /\ \/ Publish(Self, work["blocks"].block) /\ GoOn("blocks", "track")
     \/ Finish("blocks") /\ UNCHANGED <<attested, queue>>
  /\ UNCHANGED <<panicked, announced, seen, young, noted>>

\* Mutant: attestations are counted with their repetitions.
TrackEach(t, b, a) ==
  /\ seen' = [seen EXCEPT ![b] = @ \cup {a}]
  /\ young' = IF seen[b] = {} THEN young \cup {b} ELSE young
  /\ attests' = [attests EXCEPT ![b] = @ \cup {a}]
  /\ work' = [work EXCEPT ![t] = [stage |-> "update", block |-> b,
                                  count |-> Cardinality(seen[b]) + 1]]
  /\ UNCHANGED <<panicked, attested, announced, recent, index>>

\* onAttest notes that a attests b; the first one starts the clock anew.
Track(t, b, a) ==
  /\ seen' = [seen EXCEPT ![b] = @ \cup {a}]
  /\ young' = IF seen[b] = {} THEN young \cup {b} ELSE young
  /\ attests' = [attests EXCEPT ![b] = @ \cup {a}]
  /\ work' = [work EXCEPT ![t] = [stage |-> "update", block |-> b,
                                  count |-> Cardinality(seen[b] \cup {a})]]
  /\ UNCHANGED <<panicked, attested, announced, recent, index>>

\* The own attestation is counted without the detour over the network ...
TrackOwn ==
  /\ work["blocks"].stage = "track"
  /\ Track("blocks", work["blocks"].block, Self)
  /\ UNCHANGED queue

\* ... and also comes back from it like those of the others.
OnAttest(b, a) ==
  /\ work["attests"] = Idle
  /\ <<b, a>> \in queue
  /\ queue' = queue \ {<<b, a>>}
  /\ Track("attests", b, a)

\* Mutant: one attester more than required is waited for.
AfterUpdateOneMore(t) ==
  IF work[t].count > MinAttesters THEN GoOn(t, "notarize") ELSE Finish(t)

AfterUpdate(t) ==
  IF work[t].count >= MinAttesters THEN GoOn(t, "notarize") ELSE Finish(t)

\* Mutant: the record is replaced by a new one.
UpdateAttestersAnew(t) ==
  /\ work[t].stage = "update"
  /\ LET b == work[t].block IN
     IF index[b] = 0 THEN AddRecord(b, work[t].count)
     ELSE /\ index[b] <= Len(recent)
          /\ ChangeRecord(b, [hash |-> b, notarized |-> FALSE,
                              attesters |-> work[t].count])
  /\ AfterUpdate(t)
  /\ UNCHANGED <<panicked, attested, queue, announced, seen, young>>

UpdateAttesters(t) ==
  /\ work[t].stage = "update"
  /\ LET b == work[t].block IN
     IF index[b] = 0 THEN AddRecord(b, work[t].count)
     ELSE /\ index[b] <= Len(recent)
          /\ ChangeRecord(b, [recent[index[b]] EXCEPT !.attesters = work[t].count])
  /\ AfterUpdate(t)
  /\ UNCHANGED <<panicked, attested, queue, announced, seen, young>>

RecordNotarized(t) ==
  /\ work[t].stage = "notarize"
  /\ LET b == work[t].block IN
     IF index[b] = 0 THEN AddNotarized(b, work[t].count)
     ELSE /\ index[b] <= Len(recent)
          /\ ChangeRecord(b, [recent[index[b]] EXCEPT !.notarized = TRUE,
                                                      !.attesters = work[t].count])
  /\ GoOn(t, "forget")
  /\ UNCHANGED <<panicked, attested, queue, announced, seen, young>>

StopTracking(t) ==
  /\ work[t].stage = "forget"
  /\ seen' = [seen EXCEPT ![work[t].block] = {}]
  /\ GoOn(t, "announce")
  /\ UNCHANGED <<panicked, attested, queue, announced, young, noted>>

PublishNotarized(t) ==
  /\ work[t].stage = "announce"
  /\ announced' = announced \cup {<<work[t].block, work[t].count>>}
  /\ Finish(t)
  /\ UNCHANGED <<panicked, attested, queue, seen, young, noted>>

\* The index points past the end of the list: the access panics, the process
\* ends and starts again with nothing.
Panic(t) ==
  /\ work[t].stage \in {"update", "notarize"}
  /\ index[work[t].block] > Len(recent)
  /\ work' = [u \in Threads |-> Idle]
  /\ seen' = [b \in Blocks |-> {}]
  /\ attests' = [b \in Blocks |-> {}]
  /\ young' = {}
  /\ recent' = <<>>
  /\ index' = [b \in Blocks |-> 0]
  /\ panicked' = TRUE
  /\ UNCHANGED <<attested, queue, announced>>

\* The attestations of b were first seen retainFor ago.
RetentionEnds(b) ==
  /\ b \in young
  /\ young' = young \ {b}
  /\ UNCHANGED <<panicked, attested, queue, announced, work, seen, noted>>

Next ==
  \/ \E b \in Blocks :
       \/ OnBlock(b)
       \/ RetentionEnds(b)
       \/ \E a \in Attesters : Attest(a, b) \/ OnAttest(b, a)
  \/ OnBlockProposed
  \/ TrackOwn
  \/ \E t \in Threads :
       UpdateAttesters(t) \/ RecordNotarized(t) \/ StopTracking(t)
         \/ PublishNotarized(t) \/ Panic(t)

Spec == Init /\ [][Next]_vars

\* The goroutines run, and the attestation topic is a queue that is read in
\* order, so that no attestation in it waits for ever.
Fairness ==
  /\ WF_vars(OnBlockProposed) /\ WF_vars(TrackOwn)
  /\ \A t \in Threads :
       WF_vars(UpdateAttesters(t) \/ RecordNotarized(t) \/ StopTracking(t)
                 \/ PublishNotarized(t) \/ Panic(t))
  /\ \A b \in Blocks, a \in Attesters : SF_vars(OnAttest(b, a))

FairSpec == Spec /\ Fairness

-----------------------------------------------------------------------------
(* Safety. *)

\* Every record of the list is found through the index, at its place, and hence
\* no block has two records, although the index is rebuilt by two goroutines
\* and before the list is cut (recordObserved, updateAttesters, recordNotarized).
RecordsAreIndexed ==
  \A i \in 1 .. Len(recent) : index[recent[i].hash] = i

ShownNotarized(b) == \E i \in 1 .. Len(recent) : recent[i].hash = b /\ recent[i].notarized
Shown(b) == \E i \in 1 .. Len(recent) : recent[i].hash = b

\* A block shown as notarized is shown so as long as it is shown, whatever
\* attestations come later or are still being handled by the other goroutine.
RecordStaysNotarized ==
  [][\A b \in Blocks : ShownNotarized(b) /\ Shown(b)' => ShownNotarized(b)']_vars

(* What the properties above rest on. *)

CountedHaveAttested ==
  /\ \A b \in Blocks : seen[b] \subseteq attested[b]
  /\ \A m \in queue : m[2] \in attested[m[1]]

\* A count that a goroutine holds is not too large, and large enough for what
\* it is about to do.
JobsAreBacked ==
  \A t \in Threads :
    /\ work[t].stage = "track" => Self \in attested[work[t].block]
    /\ work[t].stage \notin {"idle", "attest", "track"} =>
         work[t].count <= Cardinality(attested[work[t].block])
    /\ work[t].stage \in {"notarize", "forget", "announce"} => work[t].count >= MinAttesters

IInv == TypeOK /\ RecordsAreIndexed /\ CountedHaveAttested /\ JobsAreBacked

(* Refinement. *)

\* Every announcement counts at least MinAttesters distinct nodes that attested
\* the block, whatever the two goroutines did between counting and announcing.
Abstract == INSTANCE Notarization
ImplementsNotarization == Abstract!Spec

-----------------------------------------------------------------------------
(* Liveness. *)

EnoughAttested(b) == Cardinality(attested[b]) >= MinAttesters

Announced(b) == \E p \in announced : p[1] = b

\* A block that enough nodes attested is announced as notarized: forgetting the
\* attesters of notarized blocks never loses one that is needed.  Only a process
\* that dies of the index recordNotarized leaves behind loses some.
EnoughAttestersNotarize ==
  \A b \in Blocks : EnoughAttested(b) ~> Announced(b) \/ panicked
=============================================================================
