---------------------------- MODULE AionElection ----------------------------
(***************************************************************************)
(* The AION service of one node (internal/aion/gossip.go).  Every node     *)
(* publishes for each epoch a commitment to its seed, the seed and a VRF   *)
(* output over it; whoever reveals the seed and shows the output becomes a *)
(* candidate, and the candidates ordered by rank are the schedule of the   *)
(* epoch, by which AllowProduceSlot grants the slots.                      *)
(*                                                                         *)
(* Four goroutines read the four topics, and none of them keeps the mutex  *)
(* throughout: every action is one critical section of one of them, or the *)
(* part of updateLeader between two.  The publishers' clocks start when    *)
(* their processes do, so that each has epochs of its own.                 *)
(*                                                                         *)
(* A publisher that follows the code derives its one seed of an epoch from *)
(* its key.  The handlers reckon with others, which commit to one seed,    *)
(* reveal another, show outputs that do not verify, and change their mind. *)
(***************************************************************************)
EXTENDS Weight, FiniteSets

CONSTANTS
  Pubs,            \* the nodes that publish, by public key
  Self,            \* this node
  Seeds, Own,      \* seeds, and the one a publisher's key gives for an epoch
  NoSeed,          \* none
  Bad,             \* an output that does not verify
  Cells,           \* publishers with an active cell: they publish entropy
  Output,          \* Output[e][p][s]: the VRF output of p for epoch e over seed s
  Pid,             \* Pid[p]: the place of p's peer id in the order of peer ids
  Weights,         \* the weights that chains can give
  EpochLength,     \* params.EpochLength
  SlotsPerLeader,  \* slots in leaderPeriod
  MaxSlot,         \* bound: slots of a process
  MaxEpoch,        \* bound: epochs
  Heard,           \* bound: epochs whose messages arrive
  Odd              \* bound: all messages of the publishers that do not follow
                   \* the code

Epochs == 0 .. MaxEpoch

ASSUME ParameterAssumption ==
  /\ IsFiniteSet(Pubs) /\ Self \in Pubs /\ Cells \subseteq Pubs
  /\ Own \in Seeds /\ NoSeed \notin Seeds /\ Bad \notin Seeds /\ Bad # NoSeed
  /\ EpochLength \in Nat \ {0} /\ SlotsPerLeader \in Nat \ {0}
  /\ MaxSlot \in Nat /\ MaxEpoch \in Nat
  /\ MaxSlot < (MaxEpoch + 1) * EpochLength
  /\ Heard \subseteq Epochs
  /\ Weights # {} /\ Weights \subseteq Nat \ {0}
  /\ Output \in [Epochs -> [Pubs -> [Seeds -> [1 .. Width -> 0 .. Base - 1]]]]
  /\ Pid \in [Pubs -> Int]
  /\ \A p, q \in Pubs : Pid[p] = Pid[q] => p = q

VARIABLES
  slot,       \* CurrentSlot: slots since the process started
  at,         \* at[p]: the last epoch p has published for, -1 for none
  cmt,        \* cmt[k]: the seed committed to, for a pair k of epoch and publisher
  rev,        \* rev[k]: the seed revealed
  vrf,        \* vrf[k]: the seed under a verified output; k is a candidate
  pendingVRF, \* pendingVRF[k]: the output that waits for a seed
  schedule,   \* schedule[e]: the seeds of those it lists, and the weight used
  job         \* job[g]: what goroutine g is doing

caches == <<cmt, rev, vrf, pendingVRF, schedule>>
vars == <<slot, at, caches, job>>

Topics == {"commit", "reveal", "vrf", "entropy"}
MaybeSeed == Seeds \cup {NoSeed}
Outputs == Seeds \cup {Bad}
Keys == Epochs \X Pubs
NoSeeds == [k \in Keys |-> NoSeed]

\* A commitment to a seed, a seed, an output over a seed or a bad one, or the
\* entropy of a cell.
Messages ==
  {m \in [topic : Topics, epoch : Heard, pub : Pubs, seed : Outputs] :
     /\ m.seed = Bad => m.topic = "vrf"
     /\ m.topic = "entropy" => m.seed = Own}
KeyOf(m) == <<m.epoch, m.pub>>

Fickle == {m.pub : m \in Odd}

Goroutines == Topics \ {"commit"}
Idle == [stage |-> "idle"]
Jobs == [stage : {"keep", "stash", "verify"}, epoch : Epochs, pub : Pubs, seed : Outputs]
Updates == [stage : {"collect"}, epoch : Epochs]
Lists == [stage : {"list"}, epoch : Epochs, seen : [Pubs -> MaybeSeed]]
NoSchedule == [of |-> [p \in Pubs |-> NoSeed], wt |-> One]

\* The state of the service is of its type.
TypeOK ==
  /\ slot \in 0 .. MaxSlot
  /\ at \in [Pubs -> -1 .. MaxEpoch]
  /\ cmt \in [Keys -> MaybeSeed]
  /\ rev \in [Keys -> MaybeSeed]
  /\ vrf \in [Keys -> MaybeSeed]
  /\ pendingVRF \in [Keys -> Outputs \cup {NoSeed}]
  /\ schedule \in [Epochs -> [of : [Pubs -> MaybeSeed], wt : Weights \cup {One}]]
  /\ job \in [Goroutines -> Jobs \cup Updates \cup Lists \cup {Idle}]

Init ==
  /\ slot = 0
  /\ at = [p \in Pubs |-> -1]
  /\ cmt = NoSeeds /\ rev = NoSeeds /\ vrf = NoSeeds /\ pendingVRF = NoSeeds
  /\ schedule = [e \in Epochs |-> NoSchedule]
  /\ job = [g \in Goroutines |-> Idle]

-----------------------------------------------------------------------------
(* The clock and the publishers. *)

Epoch(s) == s \div EpochLength
EpochSlotOffset(s) == s % EpochLength

Tick ==
  /\ slot < MaxSlot
  /\ slot' = slot + 1
  /\ UNCHANGED <<at, caches, job>>

\* What p publishes when its epoch e begins: commitments and outputs for e and
\* e + 1, the seed of e, and the entropy of its cell in the epoch that ended.
Published(p, e) ==
  {m \in Messages :
     /\ m.pub = p /\ m.seed = Own
     /\ \/ m.topic \in {"commit", "vrf"} /\ m.epoch \in {e, e + 1}
        \/ m.topic = "reveal" /\ m.epoch = e
        \/ m.topic = "entropy" /\ m.epoch = e - 1 /\ p \in Cells}

\* This node publishes by its slots, the others by clocks of their own.  A process
\* that starts anew begins at epoch 0 and repeats what it sent before.
Publish(p, e) ==
  /\ p = Self => e = Epoch(slot)
  /\ e > at[p]
  /\ at' = [at EXCEPT ![p] = e]
  /\ UNCHANGED <<slot, caches, job>>

-----------------------------------------------------------------------------
(* The subscribers. *)

\* Gossip delivers what was published at any time, in any order, again or never.
Sent(m) ==
  \/ m \in Odd
  \/ \E e \in 0 .. at[m.pub] : m \in Published(m.pub, e)

Begin(g, stage, m) ==
  job' = [job EXCEPT ![g] = [stage |-> stage, epoch |-> m.epoch, pub |-> m.pub,
                             seed |-> m.seed]]
At(g, stage) == job[g].stage = stage
Key(g) == <<job[g].epoch, job[g].pub>>
GoOn(g) == job' = [job EXCEPT ![g] = [stage |-> "collect", epoch |-> @.epoch]]
Finish(g) == job' = [job EXCEPT ![g] = Idle]

\* A commitment replaces an earlier one, the same or another.
OnCommit(m) ==
  /\ m.topic = "commit" /\ Sent(m)
  /\ cmt' = [cmt EXCEPT ![KeyOf(m)] = m.seed]
  /\ UNCHANGED <<slot, at, rev, vrf, pendingVRF, schedule, job>>

\* Mutant: a seed is taken whatever was committed to.
VerifyRevealNever(m) == TRUE

\* The seed is the one committed to, if a commitment is here.
VerifyReveal(m) == cmt[KeyOf(m)] \in {NoSeed, m.seed}

OnReveal(m) ==
  /\ m.topic = "reveal" /\ At("reveal", "idle") /\ Sent(m)
  /\ IF VerifyReveal(m) THEN Begin("reveal", "keep", m) ELSE UNCHANGED job
  /\ UNCHANGED <<slot, at, caches>>

\* Mutant: the waiting output is dropped, not verified.
KeepRevealOnly ==
  /\ At("reveal", "keep")
  /\ rev' = [rev EXCEPT ![Key("reveal")] = job["reveal"].seed]
  /\ pendingVRF' = [pendingVRF EXCEPT ![Key("reveal")] = NoSeed]
  /\ Finish("reveal")
  /\ UNCHANGED <<slot, at, cmt, vrf, schedule>>

\* An output waits and belongs to the seed at hand.
Meets(k) == pendingVRF[k] = job["reveal"].seed

\* The seed is kept, in place of an earlier one, and an output that waited for
\* it is verified; one that is not of this seed goes on waiting.
KeepReveal ==
  /\ At("reveal", "keep")
  /\ rev' = [rev EXCEPT ![Key("reveal")] = job["reveal"].seed]
  /\ IF Meets(Key("reveal"))
     THEN /\ vrf' = [vrf EXCEPT ![Key("reveal")] = job["reveal"].seed]
          /\ pendingVRF' = [pendingVRF EXCEPT ![Key("reveal")] = NoSeed]
          /\ GoOn("reveal")
     ELSE UNCHANGED <<vrf, pendingVRF>> /\ Finish("reveal")
  /\ UNCHANGED <<slot, at, cmt, schedule>>

\* Mutant: an output is verified before its seed is known.
OnVRFAtOnce(m) ==
  /\ m.topic = "vrf" /\ At("vrf", "idle") /\ Sent(m)
  /\ IF m.seed # Bad THEN Begin("vrf", "verify", m) ELSE UNCHANGED job
  /\ UNCHANGED <<slot, at, caches>>

\* The seed is looked up.  Without one the output is to wait, be it genuine or
\* not; an output over another seed, or one that does not verify, is dropped.
OnVRF(m) ==
  /\ m.topic = "vrf" /\ At("vrf", "idle") /\ Sent(m)
  /\ CASE rev[KeyOf(m)] = NoSeed -> Begin("vrf", "stash", m)
       [] rev[KeyOf(m)] = m.seed -> Begin("vrf", "verify", m)
       [] OTHER -> UNCHANGED job
  /\ UNCHANGED <<slot, at, caches>>

\* The output waits, even if the seed has arrived since it was looked up, and
\* takes the place of one that waited before.
StashVRF ==
  /\ At("vrf", "stash")
  /\ pendingVRF' = [pendingVRF EXCEPT ![Key("vrf")] = job["vrf"].seed]
  /\ Finish("vrf")
  /\ UNCHANGED <<slot, at, cmt, rev, vrf, schedule>>

\* The output is verified against the seed that was looked up, and kept.
KeepVRF ==
  /\ At("vrf", "verify")
  /\ vrf' = [vrf EXCEPT ![Key("vrf")] = job["vrf"].seed]
  /\ GoOn("vrf")
  /\ UNCHANGED <<slot, at, cmt, rev, pendingVRF, schedule>>

\* The value is stored and read nowhere; it only causes a new schedule.
OnEntropy(m) ==
  /\ m.topic = "entropy" /\ At("entropy", "idle") /\ Sent(m)
  /\ job' = [job EXCEPT !["entropy"] = [stage |-> "collect", epoch |-> m.epoch]]
  /\ UNCHANGED <<slot, at, caches>>

-----------------------------------------------------------------------------
(* updateLeader, run by three of the goroutines. *)

\* The seeds of the candidates of an epoch.
Verified(e) == [p \in Pubs |-> vrf[<<e, p>>]]
CandidatesOf(e) == {p \in Pubs : vrf[<<e, p>>] # NoSeed}

\* Without the mutex from here on: the map is read while others write to it.
Collect(g) ==
  /\ At(g, "collect")
  /\ IF CandidatesOf(job[g].epoch) = {} THEN Finish(g)
     ELSE job' = [job EXCEPT ![g] = [stage |-> "list", epoch |-> @.epoch,
                                     seen |-> Verified(@.epoch)]]
  /\ UNCHANGED <<slot, at, caches>>

\* Mutant: the first schedule of an epoch is preserved.
StoreFirstSchedule(g) ==
  /\ At(g, "list")
  /\ IF schedule[job[g].epoch] # NoSchedule THEN UNCHANGED schedule
     ELSE \E wt \in Weights :
            schedule' = [schedule EXCEPT ![job[g].epoch] =
                           [of |-> Verified(job[g].epoch), wt |-> wt]]
  /\ Finish(g)
  /\ UNCHANGED <<slot, at, cmt, rev, vrf, pendingVRF>>

\* The iteration meets each entry of the map as it was or as it has become; of
\* the candidates that came meanwhile it may meet any.  A schedule stored in
\* between is replaced.
StoreSchedule(g) ==
  /\ At(g, "list")
  /\ \E new \in SUBSET Pubs, wt \in Weights :
       schedule' = [schedule EXCEPT ![job[g].epoch] =
         [of |-> [p \in Pubs |-> IF p \in new THEN Verified(job[g].epoch)[p]
                                             ELSE job[g].seen[p]],
          wt |-> wt]]
  /\ Finish(g)
  /\ UNCHANGED <<slot, at, cmt, rev, vrf, pendingVRF>>

\* The order of the list: by rank, and by peer id where ranks are equal.
Ranked(e, p) == Output[e][p][schedule[e].of[p]]

Before(e, p, q) ==
  LET a == RankValue(Ranked(e, p), schedule[e].wt)
      b == RankValue(Ranked(e, q), schedule[e].wt)
  IN Smaller(a, b) \/ (a = b /\ Pid[p] < Pid[q])

Listed(e) == {p \in Pubs : schedule[e].of[p] # NoSeed}

Place(e, p) == Cardinality({q \in Listed(e) : Before(e, q, p)})

\* sched[i], counted from 0: the candidate that has i others before it.
Scheduled(e, i) == CHOOSE p \in Listed(e) : Place(e, p) = i

-----------------------------------------------------------------------------
(* AllowProduceSlot. *)

GroupIndex(s) == EpochSlotOffset(s) \div SlotsPerLeader

\* Go's %, whose result has the sign of the dividend.
Rem(a, n) == IF a >= 0 THEN a % n ELSE - ((- a) % n)

\* The place in the last epoch's schedule that an epoch's first slots look at.
GraceIndex(group, len) == Rem(group + len - 3, len)

InGrace(s) ==
  /\ Listed(Epoch(s)) = {}
  /\ EpochSlotOffset(s) < 3 /\ Epoch(s) > 0
  /\ Listed(Epoch(s) - 1) # {}

\* What the builder of node p is told in slot s if p has this node's schedules.
AllowProduceSlot(p, s, connected) ==
  LET e == Epoch(s) IN
  IF Listed(e) # {}
  THEN p = Scheduled(e, GroupIndex(s) % Cardinality(Listed(e)))
  ELSE \/ /\ InGrace(s)
          /\ p = Scheduled(e - 1, GraceIndex(GroupIndex(s), Cardinality(Listed(e - 1))))
       \/ ~connected

\* The process ends and starts again: it keeps nothing and its slots start anew.
Restart ==
  /\ slot' = 0
  /\ cmt' = NoSeeds /\ rev' = NoSeeds /\ vrf' = NoSeeds /\ pendingVRF' = NoSeeds
  /\ schedule' = [e \in Epochs |-> NoSchedule]
  /\ job' = [g \in Goroutines |-> Idle]
  /\ UNCHANGED at

GraceMisses(s) ==
  /\ InGrace(s)
  /\ GraceIndex(GroupIndex(s), Cardinality(Listed(Epoch(s) - 1))) < 0

\* The index is negative: the builder's question ends the process.
GracePanics == GraceMisses(slot) /\ Restart

Writes(g) == At(g, "verify") \/ (At(g, "keep") /\ Meets(Key(g)))

\* The map is written while updateLeader iterates over it: the runtime may stop
\* the process.
MapFault ==
  /\ \E g, h \in Goroutines :
       /\ At(g, "list") /\ Writes(h)
       /\ job[g].epoch = job[h].epoch
  /\ Restart

-----------------------------------------------------------------------------
TakeCommit == \E m \in Messages : OnCommit(m)
TakeReveal == \E m \in Messages : OnReveal(m)
TakeVRF == \E m \in Messages : OnVRF(m)
TakeEntropy == \E m \in Messages : OnEntropy(m)
Update(g) == Collect(g) \/ StoreSchedule(g)

Next ==
  \/ Tick
  \/ \E p \in Pubs \ Fickle, e \in Epochs : Publish(p, e)
  \/ TakeCommit \/ TakeReveal \/ TakeVRF \/ TakeEntropy
  \/ KeepReveal \/ StashVRF \/ KeepVRF
  \/ \E g \in Goroutines : Update(g)
  \/ GracePanics \/ MapFault

Spec == Init /\ [][Next]_vars

\* A goroutine that has begun with a message goes on.
Fairness ==
  /\ WF_vars(KeepReveal) /\ WF_vars(StashVRF) /\ WF_vars(KeepVRF)
  /\ \A g \in Goroutines : WF_vars(Update(g))

FairSpec == Spec /\ Fairness

-----------------------------------------------------------------------------
(* Safety. *)

Ratio(e, p) == Quotient(Ranked(e, p), schedule[e].wt)

\* The whole output divided by the weight.
Score(e, p) == (Value(Ranked(e, p)) * One) \div schedule[e].wt

\* "Score = y / Wt" (weight.go:47), and the test of the order wants the output
\* that begins with the smaller byte first (weight_test.go:46).
RankedByScore ==
  \A e \in Epochs : \A p, q \in Listed(e) :
    Score(e, p) < Score(e, q) => Place(e, p) < Place(e, q)

\* The schedule is a list, each candidate has one place in it, and the places
\* are in the order of the outputs, without their first byte, divided by the
\* weight; of equal ones the smaller peer id goes first (updateLeader).  The long
\* division byte by byte (RankValue) is exact whatever the weight.
RankedByOutput ==
  \A e \in Epochs : \A p, q \in Listed(e) :
    /\ p # q => Place(e, p) # Place(e, q)
    /\ Ratio(e, p) < Ratio(e, q) => Place(e, p) < Place(e, q)
    /\ Ratio(e, p) = Ratio(e, q) /\ Pid[p] < Pid[q] => Place(e, p) < Place(e, q)

\* Of p's seeds for e only c is about: it is committed to, no other one was
\* revealed or is under a verified output, and no goroutine handles another.
Bound(e, p, c) ==
  /\ cmt[<<e, p>>] = c
  /\ rev[<<e, p>>] \in {NoSeed, c}
  /\ vrf[<<e, p>>] \in {NoSeed, c}
  /\ At("reveal", "keep") /\ Key("reveal") = <<e, p>> => job["reveal"].seed = c
  /\ At("vrf", "verify") /\ Key("vrf") = <<e, p>> => job["vrf"].seed = c

\* A commitment binds its publisher for as long as it is kept: another
\* seed is not kept and nothing over it becomes a candidate, whatever is revealed
\* again, whatever waits, and whichever of the goroutines that handle seeds and
\* outputs comes first (onReveal, onVRF).  onCommit lets a publisher replace it.
CommitmentBinds ==
  [][\A e \in Epochs, p \in Pubs, c \in Seeds :
       Bound(e, p, c) => Bound(e, p, c)' \/ cmt'[<<e, p>>] # c]_vars

\* The process has just started.
Forgotten ==
  cmt = NoSeeds /\ rev = NoSeeds /\ vrf = NoSeeds /\ pendingVRF = NoSeeds

InHand(e, p) ==
  \/ vrf[<<e, p>>] # NoSeed \/ pendingVRF[<<e, p>>] # NoSeed
  \/ job["vrf"].stage \in {"stash", "verify"} /\ Key("vrf") = <<e, p>>

\* An output that is not dropped when it is taken from the topic is lost only to
\* a later one of its publisher: some output of it is being handled, waits for a
\* seed, or was verified, in whatever order the goroutines of seeds and outputs
\* take their steps (onVRF, onReveal).
OutputsAreKept ==
  [][\A e \in Epochs, p \in Pubs :
       InHand(e, p) => (InHand(e, p)' \/ Forgotten')]_vars

\* The service implements the abstract Election: whoever is scheduled was a
\* candidate, and every candidate had revealed its seed.
Abstract == INSTANCE Election WITH
  revealed <- {k \in Keys : rev[k] # NoSeed},
  candidates <- {k \in Keys : vrf[k] # NoSeed},
  listed <- [e \in Epochs |-> Listed(e)]
ElectionSpec == Abstract!Spec

-----------------------------------------------------------------------------
(* Liveness. *)

\* An output and its seed have met, in whichever order they came, or the output
\* is verified and some goroutine is about to look at all that are.
HaveMet(e, p) ==
  \/ At("vrf", "verify") /\ Key("vrf") = <<e, p>>
  \/ /\ p \notin Fickle
     /\ At("reveal", "keep") /\ Key("reveal") = <<e, p>> /\ Meets(<<e, p>>)
  \/ /\ p \in CandidatesOf(e)
     /\ \E g \in Goroutines : At(g, "collect") /\ job[g].epoch = e

\* A publisher whose output meets its seed is scheduled, however many candidates
\* the epoch has already and whatever other goroutines store (updateLeader is to
\* "always update with latest complete schedule").  It may be replaced afterwards
\* by an older list; an output that is stashed just after its seed was kept
\* meets it only if one of them comes again; and a fickle publisher may replace
\* the output that waits.
CandidatesAreScheduled ==
  \A e \in Heard, p \in Pubs : HaveMet(e, p) ~> (p \in Listed(e) \/ Forgotten)
=============================================================================
