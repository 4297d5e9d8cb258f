------------------------- MODULE AionElectionProofs -------------------------
(***************************************************************************)
(* Theorems about AionElection for every set of publishers, every number   *)
(* of seeds, epochs and slots, and any number of restarts; and about the   *)
(* long division of Weight for every number of bytes and every weight.     *)
(***************************************************************************)
EXTENDS AionElection, Induction, TLAPS

\* Whom the list that a goroutine makes is sure to have.
Met(g) == {p \in Pubs : job[g].seen[p] # NoSeed}

\* Which steps each goroutine takes, and what it holds in them.
JobsFit ==
  /\ job["reveal"].stage \in {"idle", "keep", "collect", "list"}
  /\ job["vrf"].stage \in {"idle", "stash", "verify", "collect", "list"}
  /\ job["entropy"].stage \in {"idle", "collect", "list"}
  /\ At("reveal", "keep") => job["reveal"].seed \in Seeds
  /\ At("vrf", "verify") => job["vrf"].seed \in Seeds /\ rev[Key("vrf")] # NoSeed
  /\ \A g \in Goroutines : At(g, "list") =>
       Met(g) # {} /\ Met(g) \subseteq CandidatesOf(job[g].epoch)

CachesFit ==
  /\ \A k \in Keys : vrf[k] # NoSeed => rev[k] # NoSeed
  /\ \A e \in Epochs : Listed(e) \subseteq CandidatesOf(e)

IInv == TypeOK /\ JobsFit /\ CachesFit

Works == Jobs \cup Updates \cup Lists \cup {Idle}

LEMMA Names ==
  /\ {"reveal", "vrf", "entropy"} = Goroutines
  /\ NoSeed \notin Seeds /\ NoSeed \notin Outputs /\ Seeds \subseteq Outputs /\ Own \in Seeds
  /\ MaybeSeed = Seeds \cup {NoSeed} /\ Outputs = Seeds \cup {Bad} /\ Bad \notin Seeds
BY ParameterAssumption DEF Goroutines, Topics, MaybeSeed, Outputs

LEMMA InitIInv == Init => IInv
<1> SUFFICES ASSUME Init PROVE IInv
  OBVIOUS
<1>1. TypeOK
  BY ParameterAssumption, Names DEF Init, TypeOK, NoSeeds, NoSchedule
<1>2. JobsFit
  BY Names DEF Init, JobsFit, At, Idle
<1>3. CachesFit
  BY DEF Init, CachesFit, NoSeeds, NoSchedule, Listed
<1> QED  BY <1>1, <1>2, <1>3 DEF IInv

-----------------------------------------------------------------------------
(* One lemma per action: the invariant survives it. *)

\* Nothing of the goroutines and the caches changes.
LEMMA KeepsOutside ==
  ASSUME IInv, UNCHANGED <<caches, job>>, slot' \in 0 .. MaxSlot, at' \in [Pubs -> -1 .. MaxEpoch]
  PROVE  IInv'
<1>1. TypeOK'
  BY DEF IInv, TypeOK, caches
<1>2. JobsFit'
  BY DEF IInv, JobsFit, caches, At, Key, Met, CandidatesOf
<1>3. CachesFit'
  BY DEF IInv, CachesFit, caches, Listed, CandidatesOf
<1> QED  BY <1>1, <1>2, <1>3 DEF IInv

LEMMA KeepsTick == IInv /\ Tick => IInv'
BY ParameterAssumption, KeepsOutside DEF IInv, TypeOK, Tick

LEMMA KeepsPublish ==
  ASSUME IInv, NEW p \in Pubs, NEW e \in Epochs, Publish(p, e)
  PROVE  IInv'
<1>1. at' \in [Pubs -> -1 .. MaxEpoch]
  BY ParameterAssumption DEF IInv, TypeOK, Publish, Epochs
<1> QED  BY <1>1, KeepsOutside DEF IInv, TypeOK, Publish

LEMMA MessageFits ==
  ASSUME NEW m \in Messages
  PROVE  /\ KeyOf(m) \in Keys /\ KeyOf(m) = <<m.epoch, m.pub>>
         /\ m.epoch \in Epochs /\ m.pub \in Pubs /\ m.seed \in Outputs
         /\ m.topic # "vrf" => m.seed \in Seeds
BY ParameterAssumption DEF Messages, KeyOf, Keys, Outputs

LEMMA KeepsOnCommit ==
  ASSUME IInv, NEW m \in Messages, OnCommit(m)
  PROVE  IInv'
<1>1. KeyOf(m) \in Keys /\ m.seed \in MaybeSeed
  BY MessageFits, Names DEF OnCommit
<1>2. cmt' \in [Keys -> MaybeSeed]
  BY <1>1 DEF IInv, TypeOK, OnCommit
<1>3. TypeOK'
  BY <1>2 DEF IInv, TypeOK, OnCommit
<1>4. JobsFit'
  BY DEF IInv, JobsFit, OnCommit, At, Key, Met, CandidatesOf
<1>5. CachesFit'
  BY DEF IInv, CachesFit, OnCommit, Listed, CandidatesOf
<1> QED  BY <1>3, <1>4, <1>5 DEF IInv

\* What a goroutine begins with a message is a job, and the others are untouched.
LEMMA Begun ==
  ASSUME TypeOK, NEW m \in Messages
  PROVE  /\ Begin("reveal", "keep", m) =>
              /\ job' \in [Goroutines -> Works]
              /\ job'["reveal"].stage = "keep" /\ job'["reveal"].seed = m.seed
              /\ Key("reveal")' = KeyOf(m)
              /\ job'["vrf"] = job["vrf"] /\ job'["entropy"] = job["entropy"]
         /\ \A stage \in {"stash", "verify"} : Begin("vrf", stage, m) =>
              /\ job' \in [Goroutines -> Works]
              /\ job'["vrf"].stage = stage /\ job'["vrf"].seed = m.seed
              /\ Key("vrf")' = KeyOf(m)
              /\ job'["reveal"] = job["reveal"] /\ job'["entropy"] = job["entropy"]
<1>1. ASSUME NEW stage \in {"keep", "stash", "verify"}
      PROVE  [stage |-> stage, epoch |-> m.epoch, pub |-> m.pub, seed |-> m.seed] \in Works
  BY MessageFits DEF Works, Jobs
<1>2. job \in [Goroutines -> Works]
  BY DEF TypeOK, Works
<1> QED  BY <1>1, <1>2, Names DEF Begin, Key, KeyOf

\* A goroutine takes a job on, and the caches are as before.
LEMMA KeepsTaking ==
  ASSUME IInv, UNCHANGED <<slot, at, caches>>, job' \in [Goroutines -> Works], JobsFit'
  PROVE  IInv'
<1>1. TypeOK'
  BY DEF IInv, TypeOK, caches, Works
<1>2. CachesFit'
  BY DEF IInv, CachesFit, caches, Listed, CandidatesOf
<1> QED  BY <1>1, <1>2 DEF IInv

LEMMA KeepsOnReveal ==
  ASSUME IInv, NEW m \in Messages, OnReveal(m)
  PROVE  IInv'
<1>1. CASE UNCHANGED job
  BY <1>1, KeepsOutside DEF IInv, TypeOK, OnReveal
<1>2. CASE Begin("reveal", "keep", m)
  <2>1. /\ job' \in [Goroutines -> Works]
        /\ job'["reveal"].stage = "keep" /\ job'["reveal"].seed = m.seed
        /\ job'["vrf"] = job["vrf"] /\ job'["entropy"] = job["entropy"]
    BY <1>2, Begun DEF IInv
  <2>2. m.seed \in Seeds
    BY MessageFits DEF OnReveal
  <2>3. JobsFit'
    BY <2>1, <2>2, Names DEF IInv, JobsFit, OnReveal, caches, At, Key, Met, CandidatesOf
  <2> QED  BY <2>1, <2>3, KeepsTaking DEF OnReveal
<1> QED  BY <1>1, <1>2 DEF OnReveal

\* Without a seed the output is to wait; with its own it is verified.
LEMMA VRFCases ==
  ASSUME IInv, NEW m \in Messages, OnVRF(m)
  PROVE  \/ UNCHANGED job
         \/ Begin("vrf", "stash", m) /\ rev[KeyOf(m)] = NoSeed
         \/ Begin("vrf", "verify", m) /\ rev[KeyOf(m)] = m.seed /\ m.seed \in Seeds
<1>1. rev[KeyOf(m)] \in MaybeSeed /\ m.seed \in Outputs
  BY MessageFits DEF IInv, TypeOK
<1>2. CASE rev[KeyOf(m)] = NoSeed
  BY <1>1, <1>2, Names DEF OnVRF
<1>3. CASE rev[KeyOf(m)] = m.seed /\ rev[KeyOf(m)] # NoSeed
  BY <1>1, <1>3, Names DEF OnVRF
<1>4. CASE rev[KeyOf(m)] \notin {NoSeed, m.seed}
  BY <1>4 DEF OnVRF
<1> QED  BY <1>2, <1>3, <1>4

LEMMA KeepsOnVRF ==
  ASSUME IInv, NEW m \in Messages, OnVRF(m)
  PROVE  IInv'
<1>1. CASE UNCHANGED job
  BY <1>1, KeepsOutside DEF IInv, TypeOK, OnVRF
<1>2. CASE Begin("vrf", "stash", m)
  <2>1. /\ job' \in [Goroutines -> Works] /\ job'["vrf"].stage = "stash"
        /\ job'["reveal"] = job["reveal"] /\ job'["entropy"] = job["entropy"]
    BY <1>2, Begun DEF IInv
  <2>2. JobsFit'
    BY <2>1, Names DEF IInv, JobsFit, OnVRF, caches, At, Key, Met, CandidatesOf
  <2> QED  BY <2>1, <2>2, KeepsTaking DEF OnVRF
<1>3. CASE Begin("vrf", "verify", m) /\ rev[KeyOf(m)] = m.seed /\ m.seed \in Seeds
  <2>1. /\ job' \in [Goroutines -> Works] /\ job'["vrf"].stage = "verify"
        /\ job'["vrf"].seed = m.seed /\ Key("vrf")' = KeyOf(m)
        /\ job'["reveal"] = job["reveal"] /\ job'["entropy"] = job["entropy"]
    BY <1>3, Begun DEF IInv
  <2>2. rev' = rev /\ rev'[KeyOf(m)] # NoSeed
    BY <1>3, Names DEF OnVRF, caches
  <2>3. rev'[Key("vrf")'] # NoSeed
    BY <2>1, <2>2
  <2>4. JobsFit'
    BY <1>3, <2>1, <2>3, Names DEF IInv, JobsFit, OnVRF, caches, At, Key, Met, CandidatesOf
  <2> QED  BY <2>1, <2>4, KeepsTaking DEF OnVRF
<1> QED  BY <1>1, <1>2, <1>3, VRFCases

LEMMA KeepsOnEntropy ==
  ASSUME IInv, NEW m \in Messages, OnEntropy(m)
  PROVE  IInv'
<1>1. [stage |-> "collect", epoch |-> m.epoch] \in Works
  BY MessageFits DEF Works, Updates
<1>2. /\ job' \in [Goroutines -> Works]
      /\ job'["entropy"].stage = "collect"
      /\ job'["vrf"] = job["vrf"] /\ job'["reveal"] = job["reveal"]
  BY <1>1, Names DEF IInv, TypeOK, OnEntropy, Works
<1>3. JobsFit'
  BY <1>2, Names DEF IInv, JobsFit, OnEntropy, caches, At, Key, Met, CandidatesOf
<1> QED  BY <1>2, <1>3, KeepsTaking DEF OnEntropy

\* What a working goroutine holds is of its stage.
LEMMA JobsByStage ==
  ASSUME TypeOK, NEW g \in Goroutines
  PROVE  /\ job[g].stage \in {"keep", "stash", "verify"} =>
              job[g] \in Jobs /\ Key(g) \in Keys /\ job[g].epoch \in Epochs
              /\ job[g].pub \in Pubs /\ job[g].seed \in Outputs
         /\ job[g].stage = "collect" => job[g] \in Updates /\ job[g].epoch \in Epochs
         /\ job[g].stage = "list" =>
              job[g] \in Lists /\ job[g].epoch \in Epochs /\ job[g].seen \in [Pubs -> MaybeSeed]
<1>1. job[g] \in Jobs \cup Updates \cup Lists \cup {Idle}
  BY DEF TypeOK
<1> QED  BY <1>1 DEF Jobs, Updates, Lists, Idle, Key, Keys

\* A goroutine that has kept a seed or an output goes on to updateLeader.
LEMMA GoneOnIsUpdate ==
  ASSUME TypeOK, NEW g \in Goroutines, job[g].stage \in {"keep", "verify"}, GoOn(g)
  PROVE  /\ job' \in [Goroutines -> Works]
         /\ job'[g].stage = "collect" /\ job'[g].epoch = job[g].epoch
         /\ \A h \in Goroutines \ {g} : job'[h] = job[h]
<1>1. [stage |-> "collect", epoch |-> job[g].epoch] \in Works
  BY JobsByStage DEF Works, Updates
<1> QED  BY <1>1 DEF TypeOK, GoOn, Works

LEMMA FinishedIsIdle ==
  ASSUME TypeOK, NEW g \in Goroutines, Finish(g)
  PROVE  /\ job' \in [Goroutines -> Works]
         /\ job'[g] = Idle /\ job'[g].stage = "idle"
         /\ \A h \in Goroutines \ {g} : job'[h] = job[h]
BY DEF TypeOK, Finish, Works, Idle

\* What KeepReveal, StashVRF and KeepVRF do to the keys.
LEMMA RevealStep ==
  ASSUME IInv, KeepReveal
  PROVE  LET k == Key("reveal")
             s == job["reveal"].seed IN
         /\ k \in Keys /\ s \in Seeds
         /\ k = <<job["reveal"].epoch, job["reveal"].pub>>
         /\ job["reveal"].epoch \in Epochs /\ job["reveal"].pub \in Pubs
         /\ rev' = [rev EXCEPT ![k] = s]
         /\ \/ vrf' = vrf /\ pendingVRF' = pendingVRF
            \/ /\ vrf' = [vrf EXCEPT ![k] = s]
               /\ pendingVRF' = [pendingVRF EXCEPT ![k] = NoSeed]
         /\ job' \in [Goroutines -> Works]
         /\ job'["reveal"].stage \in {"idle", "collect"}
         /\ job'["vrf"] = job["vrf"] /\ job'["entropy"] = job["entropy"]
         /\ UNCHANGED <<slot, at, cmt, schedule>>
<1>1. "reveal" \in Goroutines /\ job["reveal"].stage = "keep"
  BY Names DEF KeepReveal, At
<1>2. /\ job' \in [Goroutines -> Works]
      /\ job'["reveal"].stage \in {"idle", "collect"}
      /\ \A h \in Goroutines \ {"reveal"} : job'[h] = job[h]
  <2>1. CASE GoOn("reveal")
    BY <1>1, <2>1, GoneOnIsUpdate DEF IInv
  <2>2. CASE Finish("reveal")
    BY <1>1, <2>2, FinishedIsIdle DEF IInv
  <2> QED  BY <2>1, <2>2 DEF KeepReveal
<1>3. /\ Key("reveal") \in Keys /\ job["reveal"].seed \in Seeds
      /\ job["reveal"].epoch \in Epochs /\ job["reveal"].pub \in Pubs
  BY <1>1, JobsByStage DEF IInv, JobsFit, At
<1> QED  BY <1>2, <1>3, Names DEF KeepReveal, Key

LEMMA StashStep ==
  ASSUME IInv, StashVRF
  PROVE  LET k == Key("vrf")
             s == job["vrf"].seed IN
         /\ k \in Keys /\ s \in Outputs
         /\ pendingVRF' = [pendingVRF EXCEPT ![k] = s]
         /\ job' \in [Goroutines -> Works]
         /\ job'["vrf"].stage = "idle"
         /\ job'["reveal"] = job["reveal"] /\ job'["entropy"] = job["entropy"]
         /\ UNCHANGED <<slot, at, cmt, rev, vrf, schedule>>
<1>1. "vrf" \in Goroutines /\ job["vrf"].stage = "stash"
  BY Names DEF StashVRF, At
<1>2. /\ job' \in [Goroutines -> Works]
      /\ job'["vrf"].stage = "idle"
      /\ \A h \in Goroutines \ {"vrf"} : job'[h] = job[h]
  BY <1>1, FinishedIsIdle DEF IInv, StashVRF
<1>3. Key("vrf") \in Keys /\ job["vrf"].seed \in Outputs
  BY <1>1, JobsByStage DEF IInv
<1> QED  BY <1>2, <1>3, Names DEF StashVRF

LEMMA VRFStep ==
  ASSUME IInv, KeepVRF
  PROVE  LET k == Key("vrf")
             s == job["vrf"].seed IN
         /\ k \in Keys /\ s \in Seeds /\ rev[k] # NoSeed
         /\ k = <<job["vrf"].epoch, job["vrf"].pub>>
         /\ job["vrf"].epoch \in Epochs /\ job["vrf"].pub \in Pubs
         /\ vrf' = [vrf EXCEPT ![k] = s]
         /\ job' \in [Goroutines -> Works]
         /\ job'["vrf"].stage = "collect"
         /\ job'["reveal"] = job["reveal"] /\ job'["entropy"] = job["entropy"]
         /\ UNCHANGED <<slot, at, cmt, rev, pendingVRF, schedule>>
<1>1. "vrf" \in Goroutines /\ job["vrf"].stage = "verify"
  BY Names DEF KeepVRF, At
<1>2. /\ job' \in [Goroutines -> Works]
      /\ job'["vrf"].stage = "collect"
      /\ \A h \in Goroutines \ {"vrf"} : job'[h] = job[h]
  BY <1>1, GoneOnIsUpdate DEF IInv, KeepVRF
<1>3. /\ Key("vrf") \in Keys /\ job["vrf"].seed \in Seeds /\ rev[Key("vrf")] # NoSeed
      /\ job["vrf"].epoch \in Epochs /\ job["vrf"].pub \in Pubs
  BY <1>1, JobsByStage DEF IInv, JobsFit, At
<1> QED  BY <1>2, <1>3, Names DEF KeepVRF, Key

\* While the process runs candidates stay candidates.
LEMMA CandidatesStay ==
  ASSUME IInv, NEW k \in Keys, NEW s \in Seeds, vrf' = [vrf EXCEPT ![k] = s]
  PROVE  /\ vrf' \in [Keys -> MaybeSeed]
         /\ \A e \in Epochs : CandidatesOf(e) \subseteq CandidatesOf(e)'
<1>1. vrf' \in [Keys -> MaybeSeed]
  BY Names DEF IInv, TypeOK
<1>2. \A l \in Keys : vrf[l] # NoSeed => vrf'[l] # NoSeed
  BY Names DEF IInv, TypeOK
<1>3. \A e \in Epochs, p \in Pubs : <<e, p>> \in Keys
  BY DEF Keys
<1> QED  BY <1>1, <1>2, <1>3 DEF CandidatesOf

LEMMA KeepsKeepReveal == IInv /\ KeepReveal => IInv'
<1> SUFFICES ASSUME IInv, KeepReveal PROVE IInv'
  OBVIOUS
<1> DEFINE k == Key("reveal")
           s == job["reveal"].seed
<1>1. /\ k \in Keys /\ s \in Seeds /\ s # NoSeed
      /\ rev' = [rev EXCEPT ![k] = s]
      /\ \/ vrf' = vrf /\ pendingVRF' = pendingVRF
         \/ /\ vrf' = [vrf EXCEPT ![k] = s]
            /\ pendingVRF' = [pendingVRF EXCEPT ![k] = NoSeed]
  BY RevealStep, Names
<1>2. /\ job' \in [Goroutines -> Works]
      /\ job'["reveal"].stage \in {"idle", "collect"}
      /\ job'["vrf"] = job["vrf"] /\ job'["entropy"] = job["entropy"]
      /\ UNCHANGED <<slot, at, cmt, schedule>>
  BY RevealStep
<1> HIDE DEF k, s
<1>3. vrf' \in [Keys -> MaybeSeed] /\ \A e \in Epochs : CandidatesOf(e) \subseteq CandidatesOf(e)'
  <2>1. CASE vrf' = vrf
    BY <2>1 DEF IInv, TypeOK, CandidatesOf
  <2>2. CASE vrf' = [vrf EXCEPT ![k] = s]
    BY <1>1, <2>2, CandidatesStay
  <2> QED  BY <1>1, <2>1, <2>2
<1>4. rev' \in [Keys -> MaybeSeed] /\ pendingVRF' \in [Keys -> Outputs \cup {NoSeed}]
  <2>1. rev' \in [Keys -> MaybeSeed]
    BY <1>1, Names DEF IInv, TypeOK
  <2>2. CASE pendingVRF' = pendingVRF
    BY <2>1, <2>2 DEF IInv, TypeOK
  <2>3. CASE pendingVRF' = [pendingVRF EXCEPT ![k] = NoSeed]
    BY <1>1, <2>1, <2>3 DEF IInv, TypeOK
  <2> QED  BY <1>1, <2>2, <2>3
<1>5. TypeOK'
  BY <1>2, <1>3, <1>4 DEF IInv, TypeOK, Works
<1>6. \A l \in Keys : rev[l] # NoSeed => rev'[l] # NoSeed
  BY <1>1 DEF IInv, TypeOK
<1>7. JobsFit'
  <2>1. At("vrf", "verify")' => job'["vrf"].seed \in Seeds /\ rev'[Key("vrf")'] # NoSeed
    <3> SUFFICES ASSUME At("vrf", "verify")'
                 PROVE  job'["vrf"].seed \in Seeds /\ rev'[Key("vrf")'] # NoSeed
      OBVIOUS
    <3>1. At("vrf", "verify") /\ Key("vrf")' = Key("vrf")
      BY <1>2 DEF At, Key
    <3>2. Key("vrf") \in Keys
      BY <3>1, Names, JobsByStage DEF IInv, At
    <3> QED  BY <1>2, <1>6, <3>1, <3>2 DEF IInv, JobsFit
  <2>2. \A g \in Goroutines : At(g, "list")' =>
          Met(g)' # {} /\ Met(g)' \subseteq CandidatesOf(job[g].epoch)'
    <3> SUFFICES ASSUME NEW g \in Goroutines, At(g, "list")'
                 PROVE  Met(g)' # {} /\ Met(g)' \subseteq CandidatesOf(job[g].epoch)'
      OBVIOUS
    <3>1. job'[g] = job[g] /\ At(g, "list")
      BY <1>2, Names DEF At
    <3>2. job[g].epoch \in Epochs
      BY <3>1, JobsByStage DEF IInv, At
    <3>3. Met(g)' = Met(g)
      BY <3>1 DEF Met
    <3>4. CandidatesOf(job[g].epoch)' = CandidatesOf(job[g].epoch)'
      OBVIOUS
    <3>5. Met(g) # {} /\ Met(g) \subseteq CandidatesOf(job[g].epoch)
      BY <3>1 DEF IInv, JobsFit
    <3>6. \A p \in CandidatesOf(job[g].epoch) : vrf'[<<job[g].epoch, p>>] # NoSeed /\ p \in Pubs
      BY <1>3, <3>2 DEF CandidatesOf
    <3> QED  BY <3>1, <3>3, <3>5, <3>6 DEF CandidatesOf
  <2> QED  BY <1>2, <2>1, <2>2, Names DEF IInv, JobsFit, At
<1>8. CachesFit'
  <2>1. \A l \in Keys : vrf'[l] # NoSeed => rev'[l] # NoSeed
    <3>1. \A l \in Keys : l # k => vrf'[l] = vrf[l] /\ rev'[l] = rev[l]
      BY <1>1 DEF IInv, TypeOK
    <3>2. rev'[k] # NoSeed
      BY <1>1 DEF IInv, TypeOK
    <3> QED  BY <3>1, <3>2 DEF IInv, CachesFit
  <2> QED  BY <1>2, <1>3, <2>1 DEF IInv, CachesFit, Listed
<1> QED  BY <1>5, <1>7, <1>8 DEF IInv

LEMMA KeepsStashVRF == IInv /\ StashVRF => IInv'
<1> SUFFICES ASSUME IInv, StashVRF PROVE IInv'
  OBVIOUS
<1>1. pendingVRF' \in [Keys -> Outputs \cup {NoSeed}]
  BY StashStep DEF IInv, TypeOK
<1>2. TypeOK'
  BY <1>1, StashStep DEF IInv, TypeOK, Works
<1>3. JobsFit'
  BY StashStep, Names DEF IInv, JobsFit, At, Key, Met, CandidatesOf
<1>4. CachesFit'
  BY StashStep DEF IInv, CachesFit, Listed, CandidatesOf
<1> QED  BY <1>2, <1>3, <1>4 DEF IInv

LEMMA KeepsKeepVRF == IInv /\ KeepVRF => IInv'
<1> SUFFICES ASSUME IInv, KeepVRF PROVE IInv'
  OBVIOUS
<1> DEFINE k == Key("vrf")
           s == job["vrf"].seed
<1>1. /\ k \in Keys /\ s \in Seeds /\ rev[k] # NoSeed
      /\ vrf' = [vrf EXCEPT ![k] = s]
      /\ job' \in [Goroutines -> Works]
      /\ job'["vrf"].stage = "collect"
      /\ job'["reveal"] = job["reveal"] /\ job'["entropy"] = job["entropy"]
      /\ UNCHANGED <<slot, at, cmt, rev, pendingVRF, schedule>>
  BY VRFStep
<1> HIDE DEF k, s
<1>2. vrf' \in [Keys -> MaybeSeed] /\ \A e \in Epochs : CandidatesOf(e) \subseteq CandidatesOf(e)'
  BY <1>1, CandidatesStay
<1>3. TypeOK'
  BY <1>1, <1>2 DEF IInv, TypeOK, Works
<1>4. JobsFit'
  <2>1. \A g \in Goroutines : At(g, "list")' =>
          Met(g)' # {} /\ Met(g)' \subseteq CandidatesOf(job[g].epoch)'
    <3> SUFFICES ASSUME NEW g \in Goroutines, At(g, "list")'
                 PROVE  Met(g)' # {} /\ Met(g)' \subseteq CandidatesOf(job[g].epoch)'
      OBVIOUS
    <3>1. job'[g] = job[g] /\ At(g, "list")
      BY <1>1, Names DEF At
    <3>2. job[g].epoch \in Epochs
      BY <3>1, JobsByStage DEF IInv, At
    <3>3. Met(g)' = Met(g) /\ Met(g) # {} /\ Met(g) \subseteq CandidatesOf(job[g].epoch)
      BY <3>1 DEF Met, IInv, JobsFit
    <3>4. \A p \in CandidatesOf(job[g].epoch) : vrf'[<<job[g].epoch, p>>] # NoSeed /\ p \in Pubs
      BY <1>2, <3>2 DEF CandidatesOf
    <3> QED  BY <3>1, <3>3, <3>4 DEF CandidatesOf
  <2> QED  BY <1>1, <2>1 DEF IInv, JobsFit, At
<1>5. CachesFit'
  <2>1. \A l \in Keys : vrf'[l] # NoSeed => rev'[l] # NoSeed
    BY <1>1 DEF IInv, TypeOK, CachesFit
  <2> QED  BY <1>1, <1>2, <2>1 DEF IInv, CachesFit, Listed
<1> QED  BY <1>3, <1>4, <1>5 DEF IInv

LEMMA KeepsCollect ==
  ASSUME IInv, NEW g \in Goroutines, Collect(g)
  PROVE  IInv'
<1> DEFINE e == job[g].epoch
           list == [stage |-> "list", epoch |-> e, seen |-> Verified(e)]
<1>1. e \in Epochs
  BY JobsByStage DEF IInv, Collect, At
<1>2. Verified(e) \in [Pubs -> MaybeSeed]
  BY <1>1 DEF Verified, IInv, TypeOK, Keys
<1>3. list \in Works
  BY <1>1, <1>2 DEF Works, Lists
<1>4. /\ job' \in [Goroutines -> Works]
      /\ \/ job'[g].stage = "idle"
         \/ job'[g] = list /\ CandidatesOf(e) # {}
      /\ \A h \in Goroutines \ {g} : job'[h] = job[h]
  <2>1. CASE Finish(g)
    BY <2>1, FinishedIsIdle DEF IInv
  <2>2. CASE CandidatesOf(e) # {} /\ job' = [job EXCEPT ![g] = list]
    <3> HIDE DEF list
    <3> QED  BY <1>3, <2>2 DEF IInv, TypeOK, Works
  <2> QED  BY <2>1, <2>2 DEF Collect
<1>5. \A h \in Goroutines : At(h, "list")' =>
        Met(h)' # {} /\ Met(h)' \subseteq CandidatesOf(job[h].epoch)'
  <2> SUFFICES ASSUME NEW h \in Goroutines, At(h, "list")'
               PROVE  Met(h)' # {} /\ Met(h)' \subseteq CandidatesOf(job[h].epoch)'
    OBVIOUS
  <2>1. CASE h # g
    BY <1>4, <2>1 DEF IInv, JobsFit, At, Met, CandidatesOf, Collect, caches
  <2>2. CASE h = g
    <3>1. job'[h] = list /\ CandidatesOf(e) # {}
      BY <1>4, <2>2 DEF At
    <3>2. job'[h].seen = Verified(e) /\ job'[h].epoch = e
      BY <3>1
    <3>3. Met(h)' = CandidatesOf(e)
      BY <3>2 DEF Met, Verified, CandidatesOf
    <3>4. CandidatesOf(job[h].epoch)' = CandidatesOf(e)
      BY <3>2 DEF CandidatesOf, Collect, caches
    <3> QED  BY <3>1, <3>3, <3>4
  <2> QED  BY <2>1, <2>2
<1>6. JobsFit'
  <2>1. job[g].stage = "collect"
    BY DEF Collect, At
  <2>2. \A h \in Goroutines : job'[h] = job[h] \/ job'[h].stage \in {"idle", "list"}
    BY <1>4
  <2> HIDE DEF e, list
  <2> QED  BY <1>5, <2>2, Names DEF IInv, JobsFit, Collect, caches, At, Key
<1> QED  BY <1>4, <1>6, KeepsTaking DEF Collect

\* What is stored: everyone met for certain, and candidates only.
LEMMA StoredSchedule ==
  ASSUME IInv, NEW g \in Goroutines, StoreSchedule(g)
  PROVE  \E of \in [Pubs -> MaybeSeed], wt \in Weights :
           LET S == {p \in Pubs : of[p] # NoSeed} IN
           /\ job[g].epoch \in Epochs
           /\ S # {} /\ S \subseteq CandidatesOf(job[g].epoch)
           /\ schedule' = [schedule EXCEPT ![job[g].epoch] = [of |-> of, wt |-> wt]]
<1> DEFINE e == job[g].epoch
<1>1. At(g, "list") /\ e \in Epochs /\ job[g].seen \in [Pubs -> MaybeSeed]
  BY JobsByStage DEF IInv, StoreSchedule, At
<1>2. Verified(e) \in [Pubs -> MaybeSeed]
  BY <1>1 DEF Verified, IInv, TypeOK, Keys
<1>3. PICK new \in SUBSET Pubs, wt \in Weights :
        schedule' = [schedule EXCEPT ![e] =
          [of |-> [p \in Pubs |-> IF p \in new THEN Verified(e)[p] ELSE job[g].seen[p]],
           wt |-> wt]]
  BY DEF StoreSchedule
<1> DEFINE of == [p \in Pubs |-> IF p \in new THEN Verified(e)[p] ELSE job[g].seen[p]]
<1>4. of \in [Pubs -> MaybeSeed]
  BY <1>1, <1>2
<1>5. \A p \in Pubs : Verified(e)[p] # NoSeed <=> p \in CandidatesOf(e)
  BY DEF Verified, CandidatesOf
<1>6. Met(g) # {} /\ Met(g) \subseteq CandidatesOf(e)
  BY <1>1 DEF IInv, JobsFit
<1>7. \A p \in Pubs : of[p] # NoSeed => p \in CandidatesOf(e)
  BY <1>5, <1>6 DEF Met
<1>8. \A p \in Met(g) : p \in Pubs /\ of[p] # NoSeed
  BY <1>5, <1>6 DEF Met
<1>9. schedule' = [schedule EXCEPT ![e] = [of |-> of, wt |-> wt]]
  BY <1>3
<1> HIDE DEF of, e
<1> QED  BY <1>1, <1>4, <1>6, <1>7, <1>8, <1>9 DEF e

LEMMA KeepsStoreSchedule ==
  ASSUME IInv, NEW g \in Goroutines, StoreSchedule(g)
  PROVE  IInv'
<1>1. /\ job' \in [Goroutines -> Works]
      /\ job'[g].stage = "idle"
      /\ \A h \in Goroutines \ {g} : job'[h] = job[h]
  BY FinishedIsIdle DEF IInv, StoreSchedule
<1>2. PICK of \in [Pubs -> MaybeSeed], wt \in Weights :
        /\ job[g].epoch \in Epochs
        /\ {p \in Pubs : of[p] # NoSeed} \subseteq CandidatesOf(job[g].epoch)
        /\ schedule' = [schedule EXCEPT ![job[g].epoch] = [of |-> of, wt |-> wt]]
  BY StoredSchedule
<1>3. schedule' \in [Epochs -> [of : [Pubs -> MaybeSeed], wt : Weights \cup {One}]]
  BY <1>2 DEF IInv, TypeOK
<1>4. TypeOK'
  BY <1>1, <1>3 DEF IInv, TypeOK, StoreSchedule, Works
<1>5. JobsFit'
  BY <1>1, Names DEF IInv, JobsFit, StoreSchedule, At, Key, Met, CandidatesOf
<1>6. \A e \in Epochs : Listed(e)' \subseteq CandidatesOf(e)
  <2> TAKE e \in Epochs
  <2>1. CASE e = job[g].epoch
    <3>1. schedule'[e].of = of
      BY <1>2, <2>1 DEF IInv, TypeOK
    <3> QED  BY <1>2, <2>1, <3>1 DEF Listed
  <2>2. CASE e # job[g].epoch
    <3>1. schedule'[e] = schedule[e]
      BY <1>2, <2>2 DEF IInv, TypeOK
    <3> QED  BY <3>1 DEF Listed, IInv, CachesFit
  <2> QED  BY <2>1, <2>2
<1>7. CachesFit'
  BY <1>6 DEF IInv, CachesFit, StoreSchedule, CandidatesOf
<1> QED  BY <1>4, <1>5, <1>7 DEF IInv

LEMMA KeepsRestart == IInv /\ Restart => IInv'
<1> SUFFICES ASSUME IInv, Restart PROVE IInv'
  OBVIOUS
<1>1. TypeOK'
  BY ParameterAssumption, Names DEF IInv, TypeOK, Restart, NoSeeds, NoSchedule
<1>2. JobsFit'
  BY Names DEF Restart, JobsFit, At, Idle
<1>3. CachesFit'
  BY DEF Restart, CachesFit, NoSeeds, NoSchedule, Listed
<1> QED  BY <1>1, <1>2, <1>3 DEF IInv

LEMMA KeepsIInv == IInv /\ [Next]_vars => IInv'
<1> SUFFICES ASSUME IInv, [Next]_vars PROVE IInv'
  OBVIOUS
<1>1. CASE \E p \in Pubs \ Fickle, e \in Epochs : Publish(p, e)
  BY <1>1, KeepsPublish
<1>2. CASE TakeCommit \/ TakeReveal \/ TakeVRF \/ TakeEntropy
  BY <1>2, KeepsOnCommit, KeepsOnReveal, KeepsOnVRF, KeepsOnEntropy
     DEF TakeCommit, TakeReveal, TakeVRF, TakeEntropy
<1>3. CASE \E g \in Goroutines : Update(g)
  BY <1>3, KeepsCollect, KeepsStoreSchedule DEF Update
<1>4. CASE GracePanics \/ MapFault
  BY <1>4, KeepsRestart DEF GracePanics, MapFault
<1>5. CASE UNCHANGED vars
  BY <1>5, KeepsOutside DEF vars, IInv, TypeOK
<1> QED
  BY <1>1, <1>2, <1>3, <1>4, <1>5, KeepsTick, KeepsKeepReveal, KeepsStashVRF, KeepsKeepVRF DEF Next

\* In every reachable state the service has its type, a goroutine holds what its
\* stage needs, candidates have revealed, and schedules list candidates.
THEOREM InvariantHolds == Spec => []IInv
BY InitIInv, KeepsIInv, PTL DEF Spec

\* The state of the service is always of its type (all handlers of gossip.go).
THEOREM TypeCorrect == Spec => []TypeOK
BY InvariantHolds, PTL DEF IInv

-----------------------------------------------------------------------------
(* Outputs are kept. *)

\* What updateLeader does outside the schedule.
LEMMA UpdateStep ==
  ASSUME IInv, NEW g \in Goroutines, Update(g)
  PROVE  /\ UNCHANGED <<slot, at, cmt, rev, vrf, pendingVRF>>
         /\ job[g].stage \in {"collect", "list"}
         /\ job'[g].stage \in {"idle", "list"}
         /\ \A h \in Goroutines \ {g} : job'[h] = job[h]
BY DEF IInv, TypeOK, Update, Collect, StoreSchedule, Finish, Idle, caches, At

\* What taking a message does outside the job.
LEMMA TakingStep ==
  ASSUME IInv
  PROVE  /\ TakeReveal => job'["vrf"] = job["vrf"] /\ job'["entropy"] = job["entropy"]
         /\ TakeEntropy => job'["vrf"] = job["vrf"] /\ job'["reveal"] = job["reveal"]
         /\ TakeVRF => job'["reveal"] = job["reveal"] /\ job["vrf"].stage = "idle"
         /\ TakeReveal \/ TakeVRF \/ TakeEntropy => UNCHANGED <<slot, at, caches>>
<1>1. job \in [Goroutines -> Works]
  BY DEF IInv, TypeOK, Works
<1>2. ASSUME NEW m \in Messages, OnVRF(m)
      PROVE  job'["reveal"] = job["reveal"] /\ job["vrf"].stage = "idle"
  BY <1>1, <1>2, Names, VRFCases DEF OnVRF, Begin, At
<1>3. ASSUME NEW m \in Messages, OnReveal(m)
      PROVE  job'["vrf"] = job["vrf"] /\ job'["entropy"] = job["entropy"]
  BY <1>1, <1>3, Names DEF OnReveal, Begin
<1>4. ASSUME NEW m \in Messages, OnEntropy(m)
      PROVE  job'["vrf"] = job["vrf"] /\ job'["reveal"] = job["reveal"]
  BY <1>1, <1>4, Names DEF OnEntropy
<1>5. TakeReveal \/ TakeVRF \/ TakeEntropy => UNCHANGED <<slot, at, caches>>
  BY DEF TakeReveal, TakeVRF, TakeEntropy, OnReveal, OnVRF, OnEntropy
<1> QED  BY <1>2, <1>3, <1>4, <1>5 DEF TakeReveal, TakeVRF, TakeEntropy

LEMMA StepKeepsOutputs ==
  ASSUME IInv, [Next]_vars, NEW e \in Epochs, NEW p \in Pubs, InHand(e, p)
  PROVE  InHand(e, p)' \/ Forgotten'
<1> DEFINE k == <<e, p>>
<1>1. k \in Keys /\ vrf \in [Keys -> MaybeSeed] /\ pendingVRF \in [Keys -> Outputs \cup {NoSeed}]
  BY DEF Keys, IInv, TypeOK
<1>2. CASE UNCHANGED <<vrf, pendingVRF>> /\ job'["vrf"] = job["vrf"]
  BY <1>2 DEF InHand, Key
<1>3. CASE Tick \/ TakeCommit \/ UNCHANGED vars
            \/ \E q \in Pubs \ Fickle, f \in Epochs : Publish(q, f)
  BY <1>2, <1>3 DEF Tick, TakeCommit, OnCommit, Publish, caches, vars
<1>4. CASE TakeReveal \/ TakeEntropy
  BY <1>2, <1>4, TakingStep DEF caches
<1>5. CASE TakeVRF
  <2>1. UNCHANGED <<vrf, pendingVRF>> /\ job["vrf"].stage = "idle"
    BY <1>5, TakingStep DEF caches
  <2> QED  BY <2>1 DEF InHand
<1>6. CASE KeepReveal
  <2> DEFINE l == Key("reveal")
             s == job["reveal"].seed
  <2>1. /\ l \in Keys /\ s \in Seeds /\ s # NoSeed /\ job'["vrf"] = job["vrf"]
        /\ \/ vrf' = vrf /\ pendingVRF' = pendingVRF
           \/ /\ vrf' = [vrf EXCEPT ![l] = s]
              /\ pendingVRF' = [pendingVRF EXCEPT ![l] = NoSeed]
    BY <1>6, RevealStep, Names
  <2> HIDE DEF k, l, s
  <2>2. CASE vrf' = vrf /\ pendingVRF' = pendingVRF
    BY <1>2, <2>1, <2>2
  <2>3. CASE /\ vrf' = [vrf EXCEPT ![l] = s]
             /\ pendingVRF' = [pendingVRF EXCEPT ![l] = NoSeed]
    <3>1. CASE k = l
      <4>1. vrf'[k] # NoSeed
        BY <1>1, <2>1, <2>3, <3>1
      <4> QED  BY <4>1 DEF InHand, k
    <3>2. CASE k # l
      <4>1. vrf'[k] = vrf[k] /\ pendingVRF'[k] = pendingVRF[k]
        BY <1>1, <2>3, <3>2
      <4> QED  BY <2>1, <4>1 DEF InHand, Key, k
    <3> QED  BY <3>1, <3>2
  <2> QED  BY <2>1, <2>2, <2>3
<1>7. CASE StashVRF
  <2>1. /\ Key("vrf") \in Keys /\ job["vrf"].seed # NoSeed /\ vrf' = vrf
        /\ pendingVRF' = [pendingVRF EXCEPT ![Key("vrf")] = job["vrf"].seed]
    BY <1>7, StashStep, Names
  <2>2. CASE k = Key("vrf")
    <3>1. pendingVRF'[k] # NoSeed
      BY <1>1, <2>1, <2>2
    <3> QED  BY <3>1 DEF InHand
  <2>3. CASE k # Key("vrf")
    <3>1. pendingVRF'[k] = pendingVRF[k] /\ vrf'[k] = vrf[k]
      BY <1>1, <2>1, <2>3
    <3> QED  BY <2>3, <3>1 DEF InHand
  <2> QED  BY <2>2, <2>3
<1>8. CASE KeepVRF
  <2>1. /\ Key("vrf") \in Keys /\ job["vrf"].seed # NoSeed /\ pendingVRF' = pendingVRF
        /\ vrf' = [vrf EXCEPT ![Key("vrf")] = job["vrf"].seed]
    BY <1>8, VRFStep, Names
  <2>2. CASE k = Key("vrf")
    <3>1. vrf'[k] # NoSeed
      BY <1>1, <2>1, <2>2
    <3> QED  BY <3>1 DEF InHand
  <2>3. CASE k # Key("vrf")
    <3>1. pendingVRF'[k] = pendingVRF[k] /\ vrf'[k] = vrf[k]
      BY <1>1, <2>1, <2>3
    <3> QED  BY <2>3, <3>1 DEF InHand
  <2> QED  BY <2>2, <2>3
<1>9. ASSUME NEW g \in Goroutines, Update(g) PROVE InHand(e, p)'
  <2>1. CASE g = "vrf"
    <3>1. UNCHANGED <<vrf, pendingVRF>> /\ job["vrf"].stage \in {"collect", "list"}
      BY <1>9, <2>1, UpdateStep
    <3> QED  BY <3>1 DEF InHand
  <2>2. CASE g # "vrf"
    <3>1. UNCHANGED <<vrf, pendingVRF>> /\ job'["vrf"] = job["vrf"]
      BY <1>9, <2>2, UpdateStep, Names
    <3> QED  BY <3>1 DEF InHand, Key
  <2> QED  BY <2>1, <2>2
<1>10. CASE GracePanics \/ MapFault
  BY <1>10 DEF GracePanics, MapFault, Restart, Forgotten
<1> QED  BY <1>3, <1>4, <1>5, <1>6, <1>7, <1>8, <1>9, <1>10 DEF Next

\* Some output of a publisher whose output was taken is being handled, waits or
\* is verified for as long as the process runs (onVRF, onReveal).
THEOREM OutputsStay == Spec => OutputsAreKept
<1>1. IInv /\ [Next]_vars =>
        [\A e \in Epochs, p \in Pubs : InHand(e, p) => (InHand(e, p)' \/ Forgotten')]_vars
  BY StepKeepsOutputs
<1> QED  BY <1>1, InvariantHolds, PTL DEF Spec, OutputsAreKept

-----------------------------------------------------------------------------
(* Commitments bind. *)

LEMMA StepKeepsBound ==
  ASSUME IInv, [Next]_vars, NEW e \in Epochs, NEW p \in Pubs, NEW c \in Seeds, Bound(e, p, c)
  PROVE  Bound(e, p, c)' \/ cmt'[<<e, p>>] # c
<1> DEFINE k == <<e, p>>
<1>1. /\ k \in Keys /\ c # NoSeed
      /\ cmt \in [Keys -> MaybeSeed] /\ rev \in [Keys -> MaybeSeed] /\ vrf \in [Keys -> MaybeSeed]
  BY Names DEF Keys, IInv, TypeOK
<1>2. CASE Tick \/ UNCHANGED vars \/ \E q \in Pubs \ Fickle, f \in Epochs : Publish(q, f)
  BY <1>2 DEF Tick, Publish, caches, vars, Bound, Key, At
<1>3. CASE TakeCommit
  <2>1. UNCHANGED <<rev, vrf, job>>
    BY <1>3 DEF TakeCommit, OnCommit
  <2> QED  BY <2>1 DEF Bound, Key, At
<1>4. CASE TakeReveal
  <2>1. PICK m \in Messages : OnReveal(m)
    BY <1>4 DEF TakeReveal
  <2>2. CASE UNCHANGED job
    BY <2>1, <2>2 DEF OnReveal, caches, Bound, Key, At
  <2>3. CASE VerifyReveal(m) /\ Begin("reveal", "keep", m)
    <3>1. /\ job'["reveal"].seed = m.seed /\ Key("reveal")' = KeyOf(m)
          /\ job'["vrf"] = job["vrf"]
      BY <2>1, <2>3, Begun DEF IInv
    <3>2. KeyOf(m) = k => m.seed = c
      BY <1>1, <2>3 DEF VerifyReveal, Bound
    <3> QED  BY <2>1, <3>1, <3>2 DEF OnReveal, caches, Bound, Key, At
  <2> QED  BY <2>1, <2>2, <2>3 DEF OnReveal
<1>5. CASE TakeVRF
  <2>1. PICK m \in Messages : OnVRF(m)
    BY <1>5 DEF TakeVRF
  <2>2. CASE UNCHANGED job
    BY <2>1, <2>2 DEF OnVRF, caches, Bound, Key, At
  <2>3. CASE Begin("vrf", "stash", m)
    <3>1. job'["vrf"].stage = "stash" /\ job'["reveal"] = job["reveal"]
      BY <2>1, <2>3, Begun DEF IInv
    <3> QED  BY <2>1, <3>1 DEF OnVRF, caches, Bound, Key, At
  <2>4. CASE Begin("vrf", "verify", m) /\ rev[KeyOf(m)] = m.seed /\ m.seed \in Seeds
    <3>1. /\ job'["vrf"].seed = m.seed /\ Key("vrf")' = KeyOf(m)
          /\ job'["reveal"] = job["reveal"]
      BY <2>1, <2>4, Begun DEF IInv
    <3>2. KeyOf(m) = k => m.seed = c
      BY <2>4, Names DEF Bound
    <3> QED  BY <2>1, <3>1, <3>2 DEF OnVRF, caches, Bound, Key, At
  <2> QED  BY <2>1, <2>2, <2>3, <2>4, VRFCases
<1>6. CASE TakeEntropy
  <2>1. UNCHANGED caches /\ job'["vrf"] = job["vrf"] /\ job'["reveal"] = job["reveal"]
    BY <1>6, TakingStep
  <2> QED  BY <2>1 DEF caches, Bound, Key, At
<1>7. CASE KeepReveal
  <2> DEFINE l == Key("reveal")
             s == job["reveal"].seed
  <2>1. /\ l \in Keys /\ job'["vrf"] = job["vrf"] /\ job'["reveal"].stage # "keep" /\ cmt' = cmt
        /\ rev' = [rev EXCEPT ![l] = s]
        /\ vrf' = vrf \/ vrf' = [vrf EXCEPT ![l] = s]
    BY <1>7, RevealStep
  <2>2. l = k => s = c
    BY <1>7 DEF KeepReveal, Bound
  <2> HIDE DEF k, l, s
  <2>3. rev'[k] \in {NoSeed, c}
    <3>1. rev'[k] = IF l = k THEN s ELSE rev[k]
      BY <1>1, <2>1
    <3> QED  BY <2>2, <3>1 DEF Bound, k
  <2>4. vrf'[k] \in {NoSeed, c}
    <3>1. vrf'[k] \in {vrf[k], IF l = k THEN s ELSE vrf[k]}
      <4>1. CASE vrf' = vrf
        BY <4>1
      <4>2. CASE vrf' = [vrf EXCEPT ![l] = s]
        BY <1>1, <2>1, <4>2
      <4> QED  BY <2>1, <4>1, <4>2
    <3> QED  BY <2>2, <3>1 DEF Bound, k
  <2> QED  BY <2>1, <2>3, <2>4 DEF Bound, Key, At, k
<1>8. CASE StashVRF
  <2>1. /\ UNCHANGED <<cmt, rev, vrf>>
        /\ job'["vrf"].stage = "idle" /\ job'["reveal"] = job["reveal"]
    BY <1>8, StashStep
  <2> QED  BY <2>1 DEF Bound, Key, At
<1>9. CASE KeepVRF
  <2> DEFINE l == Key("vrf")
             s == job["vrf"].seed
  <2>1. /\ l \in Keys /\ job'["reveal"] = job["reveal"] /\ job'["vrf"].stage # "verify"
        /\ UNCHANGED <<cmt, rev>> /\ vrf' = [vrf EXCEPT ![l] = s]
    BY <1>9, VRFStep
  <2>2. l = k => s = c
    BY <1>9 DEF KeepVRF, Bound
  <2> HIDE DEF k, l, s
  <2>3. vrf'[k] = IF l = k THEN s ELSE vrf[k]
    BY <1>1, <2>1
  <2>4. vrf'[k] \in {NoSeed, c}
    BY <2>2, <2>3 DEF Bound, k
  <2> QED  BY <2>1, <2>4 DEF Bound, Key, At, k
<1>10. ASSUME NEW g \in Goroutines, Update(g) PROVE Bound(e, p, c)'
  <2>1. UNCHANGED <<cmt, rev, vrf>>
    BY <1>10, UpdateStep
  <2>2. /\ job'["reveal"] = job["reveal"] \/ job'["reveal"].stage # "keep"
        /\ job'["vrf"] = job["vrf"] \/ job'["vrf"].stage # "verify"
    BY <1>10, UpdateStep, Names
  <2> QED  BY <2>1, <2>2 DEF Bound, Key, At
<1>11. CASE GracePanics \/ MapFault
  <2>1. cmt'[k] = NoSeed
    BY <1>1, <1>11 DEF GracePanics, MapFault, Restart, NoSeeds
  <2> QED  BY <1>1, <2>1
<1> QED
  BY <1>2, <1>3, <1>4, <1>5, <1>6, <1>7, <1>8, <1>9, <1>10, <1>11 DEF Next

\* For as long as a commitment is held and not replaced, only its seed is kept
\* and only an output over it makes its publisher a candidate (onCommit,
\* onReveal, onVRF).
THEOREM CommitmentsHold == Spec => CommitmentBinds
<1>1. IInv /\ [Next]_vars =>
        [\A e \in Epochs, p \in Pubs, c \in Seeds :
           Bound(e, p, c) => Bound(e, p, c)' \/ cmt'[<<e, p>>] # c]_vars
  BY StepKeepsBound
<1> QED  BY <1>1, InvariantHolds, PTL DEF Spec, CommitmentBinds

-----------------------------------------------------------------------------
(* The service implements the abstract Election. *)

Revealed == {k \in Keys : rev[k] # NoSeed}
Candidates == {k \in Keys : vrf[k] # NoSeed}
ListedNow == [e \in Epochs |-> Listed(e)]

LEMMA InitRefines == Init => Abstract!Init
BY DEF Init, Abstract!Init, Listed, NoSchedule, NoSeeds

\* A step that keeps what is revealed, verified and scheduled maps to a stutter.
LEMMA Stutters ==
  ASSUME UNCHANGED <<rev, vrf, schedule>>
  PROVE  UNCHANGED Abstract!vars
BY DEF Abstract!vars, Listed

LEMMA KeepRevealRefines == IInv /\ KeepReveal => Abstract!Next
<1> SUFFICES ASSUME IInv, KeepReveal PROVE Abstract!Next
  OBVIOUS
<1>0. PICK e \in Epochs, p \in Pubs : Key("reveal") = <<e, p>>
  BY RevealStep
<1> DEFINE k == Key("reveal")
           s == job["reveal"].seed
<1>1. /\ k = <<e, p>> /\ k \in Keys /\ s \in Seeds /\ s # NoSeed
      /\ rev' = [rev EXCEPT ![k] = s]
      /\ vrf' = vrf \/ vrf' = [vrf EXCEPT ![k] = s]
      /\ schedule' = schedule
  BY <1>0, RevealStep, Names
<1>2. rev \in [Keys -> MaybeSeed] /\ vrf \in [Keys -> MaybeSeed]
  BY DEF IInv, TypeOK
<1> HIDE DEF k, s
<1>3. Revealed' = Revealed \cup {k}
  BY <1>1, <1>2 DEF Revealed
<1>4. Candidates' \in {Candidates, Candidates \cup {k}}
  <2>1. CASE vrf' = vrf
    BY <2>1 DEF Candidates
  <2>2. CASE vrf' = [vrf EXCEPT ![k] = s]
    <3>1. Candidates' = Candidates \cup {k}
      BY <1>1, <1>2, <2>2 DEF Candidates
    <3> QED  BY <3>1
  <2> QED  BY <1>1, <2>1, <2>2
<1>5. ListedNow' = ListedNow
  BY <1>1 DEF ListedNow, Listed
<1>6. Abstract!Reveal(e, p)
  BY <1>1, <1>3, <1>4, <1>5 DEF Abstract!Reveal, Revealed, Candidates, ListedNow
<1> QED  BY <1>1, <1>6 DEF Abstract!Next

LEMMA KeepVRFRefines == IInv /\ KeepVRF => Abstract!Next
<1> SUFFICES ASSUME IInv, KeepVRF PROVE Abstract!Next
  OBVIOUS
<1>0. PICK e \in Epochs, p \in Pubs : Key("vrf") = <<e, p>>
  BY VRFStep
<1> DEFINE k == Key("vrf")
           s == job["vrf"].seed
<1>1. /\ k = <<e, p>> /\ k \in Keys /\ s \in Seeds /\ s # NoSeed
      /\ rev[k] # NoSeed
      /\ vrf' = [vrf EXCEPT ![k] = s]
      /\ rev' = rev /\ schedule' = schedule
  BY <1>0, VRFStep, Names
<1>2. vrf \in [Keys -> MaybeSeed]
  BY DEF IInv, TypeOK
<1> HIDE DEF k, s
<1>3. Candidates' = Candidates \cup {k} /\ k \in Revealed
  BY <1>1, <1>2 DEF Candidates, Revealed
<1>4. ListedNow' = ListedNow /\ Revealed' = Revealed
  BY <1>1 DEF ListedNow, Listed, Revealed
<1>5. Abstract!Admit(e, p)
  BY <1>1, <1>3, <1>4 DEF Abstract!Admit, Revealed, Candidates, ListedNow
<1> QED  BY <1>1, <1>5 DEF Abstract!Next

LEMMA StoreScheduleRefines ==
  ASSUME IInv, NEW g \in Goroutines, StoreSchedule(g)
  PROVE  Abstract!Next
<1> DEFINE e == job[g].epoch
<1>1. PICK of \in [Pubs -> MaybeSeed], wt \in Weights :
        LET S == {p \in Pubs : of[p] # NoSeed} IN
        /\ e \in Epochs
        /\ S # {} /\ S \subseteq CandidatesOf(e)
        /\ schedule' = [schedule EXCEPT ![e] = [of |-> of, wt |-> wt]]
  BY StoredSchedule
<1> DEFINE S == {p \in Pubs : of[p] # NoSeed}
<1>2. S \in (SUBSET Abstract!CandidatesOf(e)) \ {{}}
  BY <1>1 DEF CandidatesOf, Abstract!CandidatesOf, Keys
<1>3. ListedNow' = [ListedNow EXCEPT ![e] = S]
  <2>1. \A f \in Epochs : schedule'[f].of = IF f = e THEN of ELSE schedule[f].of
    BY <1>1 DEF IInv, TypeOK
  <2> QED  BY <1>1, <2>1 DEF ListedNow, Listed
<1>4. Revealed' = Revealed /\ Candidates' = Candidates
  BY DEF StoreSchedule, Revealed, Candidates
<1> HIDE DEF S, e
<1>5. Abstract!Schedule(e)
  BY <1>2, <1>3, <1>4 DEF Abstract!Schedule, ListedNow, Revealed, Candidates
<1> QED  BY <1>1, <1>5 DEF Abstract!Next

LEMMA RestartRefines == Restart => Abstract!Next
BY DEF Restart, Abstract!Next, Abstract!Forget, Listed, NoSchedule, NoSeeds

LEMMA StepRefines == IInv /\ [Next]_vars => [Abstract!Next]_(Abstract!vars)
<1> SUFFICES ASSUME IInv, [Next]_vars PROVE [Abstract!Next]_(Abstract!vars)
  OBVIOUS
<1>1. CASE TakeReveal \/ TakeVRF \/ TakeEntropy
  BY <1>1, TakingStep, Stutters DEF caches
<1>2. CASE Tick \/ TakeCommit \/ StashVRF \/ UNCHANGED vars
            \/ \E q \in Pubs \ Fickle, f \in Epochs : Publish(q, f)
  BY <1>2, Stutters DEF Tick, TakeCommit, OnCommit, StashVRF, Publish, vars, caches
<1>3. ASSUME NEW g \in Goroutines, Update(g) PROVE [Abstract!Next]_(Abstract!vars)
  <2>1. CASE Collect(g)
    BY <2>1, Stutters DEF Collect, caches
  <2>2. CASE StoreSchedule(g)
    BY <2>2, StoreScheduleRefines
  <2> QED  BY <1>3, <2>1, <2>2 DEF Update
<1> QED
  BY <1>1, <1>2, <1>3, KeepRevealRefines, KeepVRFRefines, RestartRefines
     DEF Next, GracePanics, MapFault

\* Whoever is scheduled was a candidate, and every candidate had revealed its
\* seed, whatever the goroutines do between reading and storing (gossip.go).
THEOREM Implementation == Spec => ElectionSpec
<1>1. Init => Abstract!Init
  BY InitRefines
<1>2. IInv /\ [Next]_vars => [Abstract!Next]_(Abstract!vars)
  BY StepRefines
<1> QED  BY <1>1, <1>2, InvariantHolds, PTL DEF Spec, ElectionSpec, Abstract!Spec

-----------------------------------------------------------------------------
(* The grace period. *)

\* What the builder's look at the last epoch's schedule meets: the index is in
\* the list unless the list has two candidates and the slot is of the first
\* group, and then it is -1 and the process ends (AllowProduceSlot, line 216).
THEOREM GraceIndexRange ==
  ASSUME NEW group \in Nat, NEW len \in Nat \ {0}
  PROVE  /\ GraceIndex(group, len) < len
         /\ GraceIndex(group, len) < 0 <=> len = 2 /\ group = 0
<1>1. CASE len = 1
  BY <1>1 DEF GraceIndex, Rem
<1>2. CASE len = 2
  BY <1>2 DEF GraceIndex, Rem
<1>3. CASE len >= 3
  <2>1. group + len - 3 \in Nat
    BY <1>3
  <2>2. (group + len - 3) % len \in 0 .. len - 1
    BY <2>1
  <2> QED  BY <1>3, <2>1, <2>2 DEF GraceIndex, Rem
<1> QED  BY <1>1, <1>2, <1>3

-----------------------------------------------------------------------------
(* The long division of weight.go computes the quotient of the numbers that *)
(* the bytes stand for, and comparing byte by byte compares the numbers.    *)

ByteValues == 0 .. Base - 1

LEMMA NextByte ==
  ASSUME NEW x \in Nat, NEW b \in ByteValues
  PROVE  x * Base + b \in Nat
<1>1. x * Base \in Nat
  BY WeightAssumption
<1> QED  BY <1>1, WeightAssumption DEF ByteValues

\* The value of a sequence of bytes, byte by byte.
LEMMA ValueByByte ==
  ASSUME NEW n \in Nat, NEW d \in [1 .. n -> ByteValues]
  PROVE  \E v \in [0 .. n -> Nat] :
           /\ v[0] = 0
           /\ \A i \in 1 .. n : v[i] = v[i - 1] * Base + d[i]
           /\ Value(d) = v[n]
<1> DEFINE More(i, x) == x * Base + d[i]
           Step(f) == [i \in 0 .. n |-> IF i = 0 THEN 0 ELSE More(i, f[i - 1])]
           F == [i \in 1 .. n |-> [x \in Nat |-> More(i, x)]]
           w == CHOOSE f : f = Step(f)
<1>0. \A i \in 1 .. n : \A x \in Nat : More(i, x) \in Nat
  BY NextByte
<1> HIDE DEF More
<1>1. PICK f \in [0 .. n -> Nat] : f[0] = 0 /\ \A i \in 1 .. n : f[i] = F[i][f[i - 1]]
  <2>1. F \in [1 .. n -> [Nat -> Nat]]
    BY <1>0
  <2> HIDE DEF F
  <2>2. \E f \in [0 .. n -> Nat] : Recurs(f, 0, F, n)
    BY <2>1, RecursionExists
  <2> QED  BY <2>2 DEF Recurs
<1>2. f = Step(f)
  <2>1. \A i \in 1 .. n : f[i] = More(i, f[i - 1])
    <3> TAKE i \in 1 .. n
    <3>1. i - 1 \in 0 .. n /\ f[i - 1] \in Nat
      OBVIOUS
    <3> QED  BY <1>1, <3>1
  <2>2. \A i \in 0 .. n : f[i] = IF i = 0 THEN 0 ELSE More(i, f[i - 1])
    BY <1>1, <2>1
  <2> HIDE DEF F
  <2> QED  BY <2>2
<1>3. w = Step(w)
  <2> HIDE DEF Step
  <2> QED  BY <1>2
<1> HIDE DEF F, w
<1>4. w[0] = 0 /\ \A i \in 1 .. n : w[i] = More(i, w[i - 1])
  BY <1>3
<1>5. \A i \in 0 .. n : w[i] \in Nat
  <2> DEFINE A == {i \in Nat : i <= n => w[i] \in Nat}
  <2>1. 0 \in A
    BY <1>4
  <2>2. ASSUME NEW i \in Nat, i \in A PROVE i + 1 \in A
    <3> SUFFICES ASSUME i + 1 <= n PROVE w[i + 1] \in Nat
      OBVIOUS
    <3>1. w[i] \in Nat /\ i + 1 \in 1 .. n /\ (i + 1) - 1 = i
      BY <2>2
    <3>2. w[i + 1] = More(i + 1, w[i])
      BY <1>4, <3>1
    <3> QED  BY <1>0, <3>1, <3>2
  <2>3. Nat \subseteq A
    <3> HIDE DEF A
    <3> QED  BY <2>1, <2>2, NaturalsOf
  <2> QED  BY <2>3
<1>6. w \in [0 .. n -> Nat]
  BY <1>3, <1>5
<1>7. Value(d) = w[n]
  <2>1. Len(d) = n
    OBVIOUS
  <2> QED  BY <2>1 DEF Value, w, More
<1> QED  BY <1>4, <1>6, <1>7 DEF More

LEMMA ProductGrows ==
  ASSUME NEW x \in Nat, NEW y \in Nat, NEW m \in Nat, x <= y
  PROVE  x * m <= y * m
OBVIOUS

LEMMA DivisionIs ==
  ASSUME NEW x \in Nat, NEW m \in Nat \ {0}
  PROVE  /\ x \div m \in Nat
         /\ x % m \in 0 .. m - 1
         /\ x = (x \div m) * m + (x % m)
OBVIOUS

LEMMA DivisionIsUnique ==
  ASSUME NEW x \in Nat, NEW m \in Nat \ {0}, NEW k \in Nat, NEW r \in 0 .. m - 1,
         x = k * m + r
  PROVE  x \div m = k
<1> DEFINE c == x \div m
           s == x % m
<1>1. c \in Nat /\ s \in 0 .. m - 1 /\ x = c * m + s
  BY DivisionIs
<1> HIDE DEF c, s
<1>2. ASSUME c + 1 <= k PROVE FALSE
  <2>1. (c + 1) * m <= k * m
    BY <1>1, <1>2, ProductGrows
  <2>2. (c + 1) * m = c * m + m
    BY <1>1
  <2>3. c * m \in Int /\ k * m \in Int
    BY <1>1
  <2> QED  BY <1>1, <2>1, <2>2, <2>3
<1>3. ASSUME k + 1 <= c PROVE FALSE
  <2>1. (k + 1) * m <= c * m
    BY <1>1, <1>3, ProductGrows
  <2>2. (k + 1) * m = k * m + m
    OBVIOUS
  <2>3. c * m \in Int /\ k * m \in Int
    BY <1>1
  <2> QED  BY <1>1, <2>1, <2>2, <2>3
<1>4. c = k
  BY <1>1, <1>2, <1>3
<1> QED  BY <1>4 DEF c

LEMMA NextByteKeepsOrder ==
  ASSUME NEW x \in Nat, NEW y \in Nat, x + 1 <= y, NEW b \in ByteValues, NEW c \in ByteValues
  PROVE  (x * Base + b) + 1 <= y * Base + c
<1>1. Base \in Nat /\ x + 1 \in Nat
  BY WeightAssumption
<1>2. (x + 1) * Base <= y * Base
  BY <1>1, ProductGrows
<1>3. (x + 1) * Base = x * Base + Base
  BY <1>1
<1>4. x * Base \in Int /\ y * Base \in Int /\ b \in 0 .. Base - 1 /\ c \in 0 .. Base - 1
  BY <1>1 DEF ByteValues
<1> QED  BY <1>1, <1>2, <1>3, <1>4

\* The first byte that differs decides which number is smaller.
LEMMA SmallerIsLess ==
  ASSUME NEW n \in Nat, NEW a \in [1 .. n -> ByteValues], NEW b \in [1 .. n -> ByteValues],
         Smaller(a, b)
  PROVE  Value(a) < Value(b)
<1>1. PICK va \in [0 .. n -> Nat] :
        /\ va[0] = 0
        /\ \A i \in 1 .. n : va[i] = va[i - 1] * Base + a[i]
        /\ Value(a) = va[n]
  BY ValueByByte
<1>2. PICK vb \in [0 .. n -> Nat] :
        /\ vb[0] = 0
        /\ \A i \in 1 .. n : vb[i] = vb[i - 1] * Base + b[i]
        /\ Value(b) = vb[n]
  BY ValueByByte
<1>3. PICK k \in 1 .. n : a[k] < b[k] /\ \A j \in 1 .. k - 1 : a[j] = b[j]
  BY DEF Smaller
<1>4. \A i \in 1 .. n : a[i] \in 0 .. Base - 1 /\ b[i] \in 0 .. Base - 1
  BY DEF ByteValues
<1> DEFINE A == {i \in Nat : i < k => va[i] = vb[i]}
           B == {i \in Nat : i >= k /\ i <= n => va[i] + 1 <= vb[i]}
<1>5. Nat \subseteq A
  <2>1. 0 \in A
    BY <1>1, <1>2
  <2>2. ASSUME NEW i \in Nat, i \in A PROVE i + 1 \in A
    <3> SUFFICES ASSUME i + 1 < k PROVE va[i + 1] = vb[i + 1]
      OBVIOUS
    <3>1. i + 1 \in 1 .. n /\ i + 1 \in 1 .. k - 1 /\ (i + 1) - 1 = i /\ va[i] = vb[i]
      BY <2>2
    <3>2. va[i + 1] = va[i] * Base + a[i + 1]
      BY <1>1, <3>1
    <3>3. vb[i + 1] = vb[i] * Base + b[i + 1]
      BY <1>2, <3>1
    <3>4. a[i + 1] = b[i + 1]
      BY <1>3, <3>1
    <3> QED  BY <3>1, <3>2, <3>3, <3>4
  <2> HIDE DEF A
  <2> QED  BY <2>1, <2>2, NaturalsOf
<1>6. va[k] + 1 <= vb[k]
  <2>1. k - 1 \in Nat /\ va[k - 1] = vb[k - 1]
    BY <1>5
  <2>2. va[k - 1] * Base \in Int
    BY <2>1, WeightAssumption
  <2>3. a[k] \in Int /\ b[k] \in Int /\ a[k] < b[k]
    BY <1>3, <1>4
  <2> QED  BY <1>1, <1>2, <2>1, <2>2, <2>3
<1>7. Nat \subseteq B
  <2>1. 0 \in B
    OBVIOUS
  <2>2. ASSUME NEW i \in Nat, i \in B PROVE i + 1 \in B
    <3> SUFFICES ASSUME i + 1 >= k, i + 1 <= n PROVE va[i + 1] + 1 <= vb[i + 1]
      OBVIOUS
    <3>1. CASE i + 1 = k
      BY <1>6, <3>1
    <3>2. CASE i >= k
      <4>1. i + 1 \in 1 .. n /\ (i + 1) - 1 = i /\ va[i] \in Nat /\ vb[i] \in Nat
        OBVIOUS
      <4>2. va[i + 1] = va[i] * Base + a[i + 1] /\ vb[i + 1] = vb[i] * Base + b[i + 1]
        BY <1>1, <1>2, <4>1
      <4>3. va[i] + 1 <= vb[i]
        BY <2>2, <3>2
      <4> HIDE DEF A, B
      <4> QED  BY <4>1, <4>2, <4>3, NextByteKeepsOrder
    <3> QED  BY <3>1, <3>2
  <2> HIDE DEF B
  <2> QED  BY <2>1, <2>2, NaturalsOf
<1>8. va[n] + 1 <= vb[n] /\ va[n] \in Nat /\ vb[n] \in Nat
  BY <1>7
<1> QED  BY <1>1, <1>2, <1>8

LEMMA SmallerIsTotal ==
  ASSUME NEW n \in Nat, NEW a \in [1 .. n -> ByteValues], NEW b \in [1 .. n -> ByteValues],
         a # b
  PROVE  Smaller(a, b) \/ Smaller(b, a)
<1> DEFINE D == {i \in 1 .. n : a[i] # b[i]}
<1>1. D \in SUBSET Nat /\ D # {}
  OBVIOUS
<1>2. PICK k \in D : \A i \in D : k <= i
  <2> HIDE DEF D
  <2> QED  BY <1>1, LeastNatural
<1>3. k \in 1 .. n /\ a[k] \in Int /\ b[k] \in Int /\ a[k] # b[k]
  BY WeightAssumption DEF ByteValues
<1>4. \A j \in 1 .. k - 1 : a[j] = b[j]
  BY <1>2, <1>3
<1>5. DOMAIN a = 1 .. n /\ DOMAIN b = 1 .. n
  OBVIOUS
<1> HIDE DEF D
<1>6. CASE a[k] < b[k]
  BY <1>3, <1>4, <1>5, <1>6 DEF Smaller
<1>7. CASE b[k] < a[k]
  BY <1>3, <1>4, <1>5, <1>7 DEF Smaller
<1> QED  BY <1>3, <1>6, <1>7

\* Comparing two ranks byte by byte compares the numbers.
LEMMA SmallerComparesValues ==
  ASSUME NEW n \in Nat, NEW a \in [1 .. n -> ByteValues], NEW b \in [1 .. n -> ByteValues]
  PROVE  /\ Value(a) \in Nat
         /\ Smaller(a, b) <=> Value(a) < Value(b)
         /\ a = b <=> Value(a) = Value(b)
<1>1. Value(a) \in Nat /\ Value(b) \in Nat
  BY ValueByByte
<1>2. Smaller(a, b) => Value(a) < Value(b)
  BY SmallerIsLess
<1>3. Smaller(b, a) => Value(b) < Value(a)
  BY SmallerIsLess
<1>4. a # b => Smaller(a, b) \/ Smaller(b, a)
  BY SmallerIsTotal
<1> QED  BY <1>1, <1>2, <1>3, <1>4

LEMMA ConcatElements ==
  ASSUME NEW V, NEW s \in Seq(V), NEW u \in Seq(V)
  PROVE  /\ s \o u \in Seq(V)
         /\ Len(s \o u) = Len(s) + Len(u)
         /\ \A i \in 1 .. Len(s) : (s \o u)[i] = s[i]
         /\ \A i \in 1 .. Len(u) : (s \o u)[Len(s) + i] = u[i]
OBVIOUS

\* The scaled output is the output without its first byte and two zeros.
LEMMA ScaledBytes ==
  ASSUME NEW y \in [1 .. Width -> ByteValues]
  PROVE  /\ Scaled(y) \in [1 .. Width + 1 -> ByteValues]
         /\ Tail(y) \in [1 .. Width - 1 -> ByteValues]
         /\ \A i \in 1 .. Width - 1 : Scaled(y)[i] = Tail(y)[i]
         /\ Scaled(y)[Width] = 0 /\ Scaled(y)[Width + 1] = 0
<1>1. Width \in Nat /\ Width >= 1 /\ 0 \in ByteValues
  BY WeightAssumption DEF ByteValues
<1>2. y \in Seq(ByteValues) /\ Len(y) = Width
  BY <1>1
<1> DEFINE s == SubSeq(y, 2, Width)
           t == Tail(y)
           z == <<0, 0>>
<1>3. s \in Seq(ByteValues) /\ Len(s) = Width - 1 /\ \A i \in 1 .. Width - 1 : s[i] = y[i + 1]
  BY <1>1, <1>2
<1>4. t \in Seq(ByteValues) /\ Len(t) = Width - 1 /\ \A i \in 1 .. Width - 1 : t[i] = y[i + 1]
  BY <1>1, <1>2
<1>5. z \in Seq(ByteValues) /\ Len(z) = 2 /\ z[1] = 0 /\ z[2] = 0
  BY <1>1
<1>6. Scaled(y) = s \o z
  BY DEF Scaled
<1> HIDE DEF s, t, z
<1>7. s \o z \in Seq(ByteValues) /\ Len(s \o z) = Width + 1
  <2>1. s \in Seq(ByteValues) /\ z \in Seq(ByteValues)
    BY <1>3, <1>5
  <2>2. s \o z \in Seq(ByteValues) /\ Len(s \o z) = Len(s) + Len(z)
    BY ONLY <2>1, ConcatElements
  <2> QED  BY <1>1, <1>3, <1>5, <2>2
<1>8. \A i \in 1 .. Width - 1 : (s \o z)[i] = s[i]
  BY <1>1, <1>3, <1>5
<1>9. (s \o z)[Width] = z[1] /\ (s \o z)[Width + 1] = z[2]
  <2>1. \A i \in 1 .. Len(z) : (s \o z)[Len(s) + i] = z[i]
    <3>1. s \in Seq(ByteValues) /\ z \in Seq(ByteValues)
      BY <1>3, <1>5
    <3> QED  BY ONLY <3>1, ConcatElements
  <2>2. 1 \in 1 .. Len(z) /\ 2 \in 1 .. Len(z)
    BY <1>5
  <2>3. Len(s) + 1 = Width /\ Len(s) + 2 = Width + 1
    BY <1>1, <1>3
  <2> QED  BY <2>1, <2>2, <2>3
<1>10. t \in [1 .. Width - 1 -> ByteValues]
  BY <1>4
<1>11. s \o z \in [1 .. Width + 1 -> ByteValues]
  <2> DEFINE u == s \o z
  <2>1. u \in Seq(ByteValues) /\ Len(u) = Width + 1
    BY <1>7
  <2> HIDE DEF u
  <2>2. u \in [1 .. Width + 1 -> ByteValues]
    BY <2>1
  <2> QED  BY <2>2 DEF u
<1> QED  BY <1>3, <1>4, <1>5, <1>6, <1>8, <1>9, <1>10, <1>11 DEF t

\* Two bytes more make the number qOne times as large.
LEMMA ScaledValue ==
  ASSUME NEW y \in [1 .. Width -> ByteValues]
  PROVE  Value(Scaled(y)) = Value(Tail(y)) * One
<1> DEFINE num == Scaled(y)
           t == Tail(y)
           n == Width - 1
<1>1. n \in Nat /\ Width = n + 1 /\ Width + 1 \in Nat
  BY WeightAssumption
<1>2. /\ num \in [1 .. Width + 1 -> ByteValues] /\ t \in [1 .. n -> ByteValues]
      /\ \A i \in 1 .. n : num[i] = t[i]
      /\ num[n + 1] = 0 /\ num[n + 2] = 0
  BY <1>1, ScaledBytes
<1> HIDE DEF num, t, n
<1>3. num \in [1 .. n + 2 -> ByteValues] /\ n + 2 \in Nat
  BY <1>1, <1>2
<1>4. PICK v \in [0 .. n + 2 -> Nat] :
        /\ v[0] = 0
        /\ \A i \in 1 .. n + 2 : v[i] = v[i - 1] * Base + num[i]
        /\ Value(num) = v[n + 2]
  BY <1>3, ValueByByte
<1>5. PICK w \in [0 .. n -> Nat] :
        /\ w[0] = 0
        /\ \A i \in 1 .. n : w[i] = w[i - 1] * Base + t[i]
        /\ Value(t) = w[n]
  BY <1>1, <1>2, ValueByByte
<1> DEFINE A == {i \in Nat : i <= n => v[i] = w[i]}
<1>6. Nat \subseteq A
  <2>1. 0 \in A
    BY <1>4, <1>5
  <2>2. ASSUME NEW i \in Nat, i \in A PROVE i + 1 \in A
    <3> SUFFICES ASSUME i + 1 <= n PROVE v[i + 1] = w[i + 1]
      OBVIOUS
    <3>1. i + 1 \in 1 .. n /\ i + 1 \in 1 .. n + 2 /\ (i + 1) - 1 = i /\ v[i] = w[i]
      BY <1>1, <2>2
    <3>2. v[i + 1] = v[i] * Base + num[i + 1]
      BY <1>4, <3>1
    <3>3. w[i + 1] = w[i] * Base + t[i + 1]
      BY <1>5, <3>1
    <3> QED  BY <1>2, <3>1, <3>2, <3>3
  <2> HIDE DEF A
  <2> QED  BY <2>1, <2>2, NaturalsOf
<1> DEFINE c == w[n]
<1>7. c \in Nat /\ v[n] = c
  BY <1>1, <1>6
<1>8. v[n + 1] = v[n] * Base + 0 /\ v[n + 2] = v[n + 1] * Base + 0
  <2>1. n + 1 \in 1 .. n + 2 /\ n + 2 \in 1 .. n + 2 /\ (n + 1) - 1 = n /\ (n + 2) - 1 = n + 1
    BY <1>1
  <2> QED  BY <1>2, <1>4, <2>1
<1> HIDE DEF c
<1>9. c * Base \in Nat /\ (c * Base) * Base \in Nat /\ (c * Base) * Base = c * (Base * Base)
  BY <1>7, WeightAssumption
<1>10. v[n + 2] = c * One
  BY <1>7, <1>8, <1>9 DEF One
<1> QED  BY <1>4, <1>5, <1>10 DEF num, t, c

\* One step of the division: the remainder and the next byte.
LEMMA DivisionStep ==
  ASSUME NEW wt \in Nat \ {0}, NEW r \in 0 .. wt - 1, NEW b \in ByteValues
  PROVE  /\ r * Base + b \in Nat
         /\ (r * Base + b) \div wt \in ByteValues
<1> DEFINE x == r * Base + b
           c == x \div wt
           s == x % wt
<1>1. x \in Nat
  BY NextByte
<1>2. c \in Nat /\ s \in 0 .. wt - 1 /\ x = c * wt + s
  BY <1>1, DivisionIs
<1>3. x <= wt * Base - 1
  <2>1. r + 1 <= wt /\ r + 1 \in Nat /\ Base \in Nat
    BY WeightAssumption
  <2>2. (r + 1) * Base <= wt * Base
    BY <2>1, ProductGrows
  <2>3. (r + 1) * Base = r * Base + Base
    BY <2>1
  <2>4. r * Base \in Int /\ wt * Base \in Int /\ b \in 0 .. Base - 1
    BY <2>1 DEF ByteValues
  <2> QED  BY <2>1, <2>2, <2>3, <2>4
<1> HIDE DEF x, c, s
<1>4. c < Base
  <2> SUFFICES ASSUME Base <= c PROVE FALSE
    BY <1>2, WeightAssumption
  <2>1. Base * wt <= c * wt /\ Base * wt = wt * Base /\ wt * Base \in Int /\ c * wt \in Int
    BY <1>2, ProductGrows, WeightAssumption
  <2> QED  BY <1>1, <1>2, <1>3, <2>1
<1>5. c \in ByteValues
  BY <1>2, <1>4, WeightAssumption DEF ByteValues
<1> QED  BY <1>1, <1>5 DEF c, x

\* The division goes on from a dividend, quotient and remainder to the next byte.
LEMMA DivisionGoesOn ==
  ASSUME NEW wt \in Nat \ {0}, NEW x \in Nat, NEW k \in Nat, NEW r \in 0 .. wt - 1,
         x = k * wt + r, NEW b \in ByteValues
  PROVE  LET c == r * Base + b
         IN x * Base + b = (k * Base + (c \div wt)) * wt + (c % wt)
<1> DEFINE c == r * Base + b
           d == c \div wt
           s == c % wt
<1>1. c \in Nat
  BY DivisionStep
<1>2. d \in Nat /\ s \in 0 .. wt - 1 /\ c = d * wt + s
  BY <1>1, DivisionIs
<1>3. Base \in Nat /\ b \in Int
  BY WeightAssumption DEF ByteValues
<1>4. c = r * Base + b
  OBVIOUS
<1> HIDE DEF c, d, s
<1>5. x * Base = (k * wt) * Base + r * Base
  BY <1>3
<1>6. (k * Base + d) * wt = (k * Base) * wt + d * wt
  BY <1>2, <1>3
<1>7. (k * wt) * Base = (k * Base) * wt
  BY <1>3
<1>8. (k * Base) * wt \in Int /\ d * wt \in Int /\ r * Base \in Int
  BY <1>2, <1>3
<1>9. x * Base + b = (k * Base + d) * wt + s
  BY <1>2, <1>3, <1>4, <1>5, <1>6, <1>7, <1>8
<1> QED  BY <1>9 DEF c, d, s

\* What the loop of the division holds: cur before byte i of the quotient, whose
\* cut to a byte loses nothing.
LEMMA DivisionByByte ==
  ASSUME NEW y \in [1 .. Width -> ByteValues], NEW wt \in Nat \ {0}
  PROVE  \E cur \in [1 .. Width + 1 -> Nat] :
           /\ cur[1] = Scaled(y)[1]
           /\ \A i \in 2 .. Width + 1 : cur[i] = (cur[i - 1] % wt) * Base + Scaled(y)[i]
           /\ \A i \in 1 .. Width + 1 : cur[i] \div wt \in ByteValues
           /\ RankValue(y, wt) = [i \in 1 .. Width + 1 |-> cur[i] \div wt]
<1> DEFINE num == Scaled(y)
           n == Width
           More(i, x) == (x % wt) * Base + num[i]
           Step(c) == [i \in 1 .. n + 1 |->
                         (IF i = 1 THEN 0 ELSE (c[i - 1] % wt) * Base) + num[i]]
           F == [i \in 1 .. n |-> [x \in Nat |-> More(i + 1, x)]]
           cur == CHOOSE c : c = Step(c)
<1>1. n \in Nat /\ num \in [1 .. n + 1 -> ByteValues]
  BY ScaledBytes, WeightAssumption
<1> HIDE DEF num, n
<1>2. \A i \in 1 .. n + 1 : num[i] \in ByteValues /\ num[i] \in Nat
  BY <1>1, WeightAssumption DEF ByteValues
<1>3. ASSUME NEW x \in Nat, NEW b \in ByteValues PROVE (x % wt) * Base + b \in Nat
  <2>1. x % wt \in Nat
    BY DivisionIs
  <2> QED  BY <2>1, NextByte
<1>4. PICK f \in [0 .. n -> Nat] : Recurs(f, num[1], F, n)
  <2>1. F \in [1 .. n -> [Nat -> Nat]]
    <3>1. ASSUME NEW i \in 1 .. n, NEW x \in Nat PROVE More(i + 1, x) \in Nat
      <4> DEFINE b == num[i + 1]
      <4>1. i + 1 \in 1 .. n + 1
        BY <1>1
      <4>2. b \in ByteValues
        BY <1>2, <4>1
      <4> HIDE DEF b
      <4>3. (x % wt) * Base + b \in Nat
        BY <1>3, <4>2
      <4> QED  BY <4>3 DEF b
    <3> HIDE DEF More
    <3> QED  BY <3>1
  <2>2. num[1] \in Nat
    BY <1>1, <1>2
  <2> HIDE DEF F
  <2> QED  BY <1>1, <2>1, <2>2, RecursionExists
<1> DEFINE g == [i \in 1 .. n + 1 |-> f[i - 1]]
<1>5. g = Step(g)
  <2>1. f[0] = num[1] /\ \A i \in 1 .. n : f[i] = (f[i - 1] % wt) * Base + num[i + 1]
    <3>1. \A i \in 1 .. n : f[i - 1] \in Nat
      BY <1>1
    <3> QED  BY <1>4, <3>1 DEF Recurs
  <2>2. ASSUME NEW i \in 1 .. n + 1
        PROVE  f[i - 1] = (IF i = 1 THEN 0 ELSE (g[i - 1] % wt) * Base) + num[i]
    <3>1. CASE i = 1
      <4>1. num[1] \in Nat
        BY <1>1, <1>2
      <4> QED  BY <2>1, <3>1, <4>1
    <3>2. CASE i # 1
      <4>1. i - 1 \in 1 .. n /\ i - 1 \in 1 .. n + 1 /\ (i - 1) + 1 = i
        BY <1>1, <3>2
      <4>2. f[i - 1] = (f[(i - 1) - 1] % wt) * Base + num[(i - 1) + 1]
        BY <2>1, <4>1
      <4>3. g[i - 1] = f[(i - 1) - 1]
        BY <4>1
      <4> HIDE DEF g, F
      <4> QED  BY <3>2, <4>1, <4>2, <4>3
    <3> QED  BY <3>1, <3>2
  <2> QED  BY <2>2
<1>6. cur = Step(cur)
  <2> HIDE DEF Step, g
  <2> QED  BY <1>5
<1> HIDE DEF cur, F
<1>7. cur[1] = num[1] /\ \A i \in 2 .. n + 1 : cur[i] = (cur[i - 1] % wt) * Base + num[i]
  <2>1. \A i \in 1 .. n + 1 : cur[i] = (IF i = 1 THEN 0 ELSE (cur[i - 1] % wt) * Base) + num[i]
    BY <1>6
  <2>2. 1 \in 1 .. n + 1 /\ num[1] \in Nat
    BY <1>1, <1>2
  <2>3. cur[1] = num[1]
    BY <2>1, <2>2
  <2>4. ASSUME NEW i \in 2 .. n + 1 PROVE cur[i] = (cur[i - 1] % wt) * Base + num[i]
    <3>1. i \in 1 .. n + 1 /\ i # 1
      BY <1>1
    <3> HIDE DEF Step
    <3> QED  BY <2>1, <3>1
  <2> QED  BY <2>3, <2>4
<1> DEFINE A == {i \in Nat : i >= 1 /\ i <= n + 1 => cur[i] \in Nat /\ cur[i] \div wt \in ByteValues}
<1>8. Nat \subseteq A
  <2>1. 0 \in A
    OBVIOUS
  <2>2. ASSUME NEW i \in Nat, i \in A PROVE i + 1 \in A
    <3> SUFFICES ASSUME i + 1 <= n + 1
                 PROVE  cur[i + 1] \in Nat /\ cur[i + 1] \div wt \in ByteValues
      OBVIOUS
    <3>1. i + 1 \in 1 .. n + 1 /\ num[i + 1] \in ByteValues /\ num[i + 1] \in Nat
      BY <1>1, <1>2
    <3> DEFINE r == IF i = 0 THEN 0 ELSE cur[i] % wt
    <3>2. r \in 0 .. wt - 1
      <4>1. CASE i = 0
        BY <4>1
      <4>2. CASE i # 0
        <5>1. cur[i] \in Nat
          BY <1>1, <2>2, <4>2
        <5> QED  BY <4>2, <5>1, DivisionIs
      <4> QED  BY <4>1, <4>2
    <3>3. cur[i + 1] = r * Base + num[i + 1]
      <4>1. CASE i = 0
        BY <1>7, <3>1, <4>1, WeightAssumption
      <4>2. CASE i # 0
        <5>1. i + 1 \in 2 .. n + 1 /\ (i + 1) - 1 = i
          BY <1>1, <4>2
        <5> QED  BY <1>7, <4>2, <5>1
      <4> QED  BY <4>1, <4>2
    <3> HIDE DEF A, r
    <3> QED  BY <3>1, <3>2, <3>3, DivisionStep
  <2> HIDE DEF A
  <2> QED  BY <2>1, <2>2, NaturalsOf
<1>9. \A i \in 1 .. n + 1 : cur[i] \in Nat /\ cur[i] \div wt \in ByteValues
  BY <1>8
<1>10. cur \in [1 .. n + 1 -> Nat]
  BY <1>6, <1>9
<1>11. RankValue(y, wt) = [i \in 1 .. n + 1 |-> cur[i] \div wt]
  <2>1. RankValue(y, wt) = [i \in 1 .. n + 1 |-> (cur[i] \div wt) % Base]
    BY DEF RankValue, cur, num, n
  <2>2. \A i \in 1 .. n + 1 : (cur[i] \div wt) % Base = cur[i] \div wt
    <3> TAKE i \in 1 .. n + 1
    <3> DEFINE x == cur[i] \div wt
    <3>1. x \in 0 .. Base - 1 /\ Base \in Nat \ {0}
      BY <1>9, WeightAssumption DEF ByteValues
    <3> HIDE DEF x
    <3>2. x % Base = x
      BY <3>1
    <3> QED  BY <3>2 DEF x
  <2> QED  BY <2>1, <2>2
<1> QED  BY <1>7, <1>9, <1>10, <1>11 DEF num, n

\* The long division, byte by byte and with each step cut to a byte, computes the
\* quotient exactly, for every number of bytes and every weight but 0 (RankValue).
THEOREM RankIsQuotient ==
  ASSUME NEW y \in [1 .. Width -> ByteValues], NEW wt \in Nat \ {0}
  PROVE  /\ RankValue(y, wt) \in [1 .. Width + 1 -> ByteValues]
         /\ Value(RankValue(y, wt)) = Quotient(y, wt)
<1> DEFINE num == Scaled(y)
           rank == RankValue(y, wt)
           n == Width + 1
<1>1. n \in Nat /\ n >= 2 /\ num \in [1 .. n -> ByteValues]
  BY ScaledBytes, WeightAssumption
<1>2. PICK cur \in [1 .. n -> Nat] :
        /\ cur[1] = num[1]
        /\ \A i \in 2 .. n : cur[i] = (cur[i - 1] % wt) * Base + num[i]
        /\ \A i \in 1 .. n : cur[i] \div wt \in ByteValues
        /\ rank = [i \in 1 .. n |-> cur[i] \div wt]
  BY DivisionByByte
<1>3. rank \in [1 .. n -> ByteValues] /\ \A i \in 1 .. n : rank[i] = cur[i] \div wt
  BY <1>2
<1> HIDE DEF num, rank, n
<1>4. PICK v \in [0 .. n -> Nat] :
        /\ v[0] = 0
        /\ \A i \in 1 .. n : v[i] = v[i - 1] * Base + num[i]
        /\ Value(num) = v[n]
  BY <1>1, ValueByByte
<1>5. PICK w \in [0 .. n -> Nat] :
        /\ w[0] = 0
        /\ \A i \in 1 .. n : w[i] = w[i - 1] * Base + rank[i]
        /\ Value(rank) = w[n]
  BY <1>1, <1>3, ValueByByte
<1> DEFINE Rest(i) == IF i = 0 THEN 0 ELSE cur[i] % wt
           A == {i \in Nat : i <= n => v[i] = w[i] * wt + Rest(i)}
<1>6. \A i \in 0 .. n : Rest(i) \in 0 .. wt - 1
  <2> TAKE i \in 0 .. n
  <2>1. CASE i = 0
    BY <2>1
  <2>2. CASE i # 0
    <3>1. cur[i] \in Nat
      BY <1>1, <2>2
    <3> QED  BY <2>2, <3>1, DivisionIs
  <2> QED  BY <2>1, <2>2
<1>7. \A i \in 1 .. n : cur[i] = Rest(i - 1) * Base + num[i]
  <2> TAKE i \in 1 .. n
  <2>1. CASE i = 1
    <3>1. num[1] \in Nat
      BY <1>1, WeightAssumption DEF ByteValues
    <3>2. 0 * Base + num[1] = num[1]
      BY <3>1, WeightAssumption
    <3> QED  BY <1>2, <2>1, <3>2
  <2>2. CASE i # 1
    <3>1. i \in 2 .. n /\ i - 1 # 0
      BY <1>1, <2>2
    <3> QED  BY <1>2, <3>1
  <2> QED  BY <2>1, <2>2
<1>8. 0 \in A
  BY <1>4, <1>5
<1>9. ASSUME NEW i \in Nat, i \in A PROVE i + 1 \in A
  <2> SUFFICES ASSUME i + 1 <= n PROVE v[i + 1] = w[i + 1] * wt + Rest(i + 1)
    OBVIOUS
  <2> DEFINE x == v[i]
             k == w[i]
             r == Rest(i)
             b == num[i + 1]
             c == cur[i + 1]
  <2>1. i \in 0 .. n /\ i + 1 \in 1 .. n /\ (i + 1) - 1 = i /\ i + 1 # 0
    BY <1>1
  <2>2. x = k * wt + r
    BY <1>9, <2>1
  <2>3. x \in Nat /\ k \in Nat /\ r \in 0 .. wt - 1 /\ b \in ByteValues
    BY <1>1, <1>6, <2>1
  <2>4. c = r * Base + b
    BY <1>7, <2>1
  <2>5. v[i + 1] = x * Base + b
    BY <1>4, <2>1
  <2>6. w[i + 1] = k * Base + (c \div wt)
    BY <1>3, <1>5, <2>1
  <2>7. Rest(i + 1) = c % wt
    BY <2>1
  <2> HIDE DEF A, Rest, x, k, r, b, c
  <2>8. x * Base + b = (k * Base + (c \div wt)) * wt + (c % wt)
    BY <2>2, <2>3, <2>4, DivisionGoesOn
  <2> QED  BY <2>5, <2>6, <2>7, <2>8
<1>10. v[n] = w[n] * wt + Rest(n)
  <2> HIDE DEF A
  <2>1. n \in A
    BY <1>1, <1>8, <1>9, NaturalsOf
  <2> QED  BY <1>1, <2>1 DEF A
<1>11. v[n] \in Nat /\ w[n] \in Nat /\ Rest(n) \in 0 .. wt - 1
  BY <1>1, <1>6
<1> HIDE DEF Rest, A
<1>12. v[n] \div wt = w[n]
  BY <1>10, <1>11, DivisionIsUnique
<1>13. Value(num) = Value(Tail(y)) * One
  BY ScaledValue DEF num
<1> QED  BY <1>3, <1>4, <1>5, <1>12, <1>13 DEF Quotient, rank, n

\* An output that is larger without its first byte never has the smaller quotient.
LEMMA QuotientGrows ==
  ASSUME NEW y \in [1 .. Width -> ByteValues], NEW z \in [1 .. Width -> ByteValues],
         NEW wt \in Nat \ {0}, Value(Tail(y)) <= Value(Tail(z))
  PROVE  Quotient(y, wt) <= Quotient(z, wt)
<1> DEFINE a == Value(Tail(y))
           b == Value(Tail(z))
           x == a * One
           u == b * One
           c == x \div wt
           d == u \div wt
<1>1. a \in Nat /\ b \in Nat /\ a <= b
  <2>1. Width - 1 \in Nat
    BY WeightAssumption
  <2>2. Tail(y) \in [1 .. Width - 1 -> ByteValues] /\ Tail(z) \in [1 .. Width - 1 -> ByteValues]
    BY ScaledBytes
  <2> QED  BY <2>1, <2>2, SmallerComparesValues
<1>2. One \in Nat
  BY WeightAssumption DEF One
<1> HIDE DEF a, b
<1>3. x <= u /\ x \in Nat /\ u \in Nat
  BY <1>1, <1>2, ProductGrows
<1> HIDE DEF x, u
<1>4. c \in Nat /\ x % wt \in 0 .. wt - 1 /\ x = c * wt + (x % wt)
  BY <1>3, DivisionIs
<1>5. d \in Nat /\ u % wt \in 0 .. wt - 1 /\ u = d * wt + (u % wt)
  BY <1>3, DivisionIs
<1> HIDE DEF c, d
<1>6. ASSUME d + 1 <= c PROVE FALSE
  <2>1. (d + 1) * wt <= c * wt
    BY <1>4, <1>5, <1>6, ProductGrows
  <2>2. (d + 1) * wt = d * wt + wt /\ d * wt \in Int /\ c * wt \in Int
    BY <1>4, <1>5
  <2> QED  BY <1>3, <1>4, <1>5, <2>1, <2>2
<1>7. c <= d
  BY <1>4, <1>5, <1>6
<1> QED  BY <1>7 DEF Quotient, a, b, x, u, c, d

\* Whatever alpha and the history of the chain's entropy, the weight is at least
\* 1.0 and fits four bytes: the division is never by 0 (MovingAvg4Q16, WeightQ16).
THEOREM WeightRange ==
  ASSUME NEW alpha \in Nat, NEW h \in [1 .. 4 -> Nat]
  PROVE  WeightOf(alpha, h) \in One .. One * One - 1
<1>1. One \in Nat /\ One >= 4
  <2>1. Base \in Nat /\ Base >= 2
    BY WeightAssumption
  <2>2. 2 * Base <= Base * Base
    BY <2>1, ProductGrows
  <2>3. Base * Base \in Nat
    BY <2>1
  <2> QED  BY <2>1, <2>2, <2>3 DEF One
<1>2. Average(h) \in Nat
  <2>1. h[1] \in Nat /\ h[2] \in Nat /\ h[3] \in Nat /\ h[4] \in Nat
    OBVIOUS
  <2> DEFINE s == h[1] + h[2] + h[3] + h[4]
  <2>2. s \in Nat
    BY <2>1
  <2> HIDE DEF s
  <2>3. s \div 4 \in Nat
    BY <2>2
  <2> QED  BY <2>3 DEF Average, s
<1>3. (alpha * Average(h)) \div One \in Nat
  <2> DEFINE m == alpha * Average(h)
  <2>1. m \in Nat
    BY <1>2
  <2>2. One \in Nat \ {0}
    BY <1>1
  <2> HIDE DEF m
  <2>3. m \div One \in Nat
    BY <2>1, <2>2, DivisionIs
  <2> QED  BY <2>3 DEF m
<1>4. One * One \in Nat /\ One <= One * One - 1
  <2>1. 4 * One <= One * One /\ One * One \in Nat
    BY <1>1, ProductGrows
  <2> QED  BY <1>1, <2>1
<1> DEFINE w == One + (alpha * Average(h)) \div One
           top == One * One - 1
<1>5. w \in Nat /\ One <= w /\ top \in Nat /\ One <= top
  BY <1>1, <1>3, <1>4
<1>6. WeightOf(alpha, h) = IF w > top THEN top ELSE w
  BY DEF WeightOf
<1> HIDE DEF w
<1> QED  BY <1>1, <1>4, <1>5, <1>6

\* Outputs that differ in their first byte only have one rank: no weight tells
\* them apart, although the number they are divided as does (RankValue shifts
\* the byte out of the buffer).
THEOREM FirstByteIsLost ==
  ASSUME NEW y \in [1 .. Width -> ByteValues], NEW z \in [1 .. Width -> ByteValues],
         \A i \in 2 .. Width : y[i] = z[i], NEW wt \in Nat \ {0}
  PROVE  RankValue(y, wt) = RankValue(z, wt)
<1>1. Width \in Nat /\ Width >= 1
  BY WeightAssumption
<1>2. SubSeq(y, 2, Width) = SubSeq(z, 2, Width)
  <2>1. y \in Seq(ByteValues) /\ z \in Seq(ByteValues) /\ Len(y) = Width /\ Len(z) = Width
    BY <1>1
  <2>2. /\ SubSeq(y, 2, Width) = [i \in 1 .. (Width - 2) + 1 |-> y[i + 1]]
        /\ SubSeq(z, 2, Width) = [i \in 1 .. (Width - 2) + 1 |-> z[i + 1]]
    BY <1>1, <2>1
  <2>3. \A i \in 1 .. (Width - 2) + 1 : y[i + 1] = z[i + 1]
    BY <1>1
  <2> QED  BY <2>2, <2>3
<1>3. Scaled(y) = Scaled(z)
  BY <1>2 DEF Scaled
<1> QED  BY <1>3 DEF RankValue

-----------------------------------------------------------------------------
(* The schedule is ranked, and every slot of its epoch has a producer. *)

\* Those listed are ordered by the quotient of their output, and then by peer id.
LEMMA BeforeIsByQuotient ==
  ASSUME IInv, NEW e \in Epochs, NEW p \in Listed(e), NEW q \in Listed(e)
  PROVE  /\ Ratio(e, p) \in Nat /\ Ratio(e, q) \in Nat
         /\ Before(e, p, q) <=>
              Ratio(e, p) < Ratio(e, q) \/ (Ratio(e, p) = Ratio(e, q) /\ Pid[p] < Pid[q])
<1> DEFINE wt == schedule[e].wt
           a == RankValue(Ranked(e, p), wt)
           b == RankValue(Ranked(e, q), wt)
<1>1. wt \in Nat \ {0}
  <2>1. One \in Nat \ {0}
    BY WeightAssumption DEF One
  <2>2. wt \in Weights \cup {One}
    BY DEF IInv, TypeOK
  <2> QED  BY <2>1, <2>2, ParameterAssumption
<1>2. /\ Ranked(e, p) \in [1 .. Width -> ByteValues]
      /\ Ranked(e, q) \in [1 .. Width -> ByteValues]
  <2>1. /\ p \in Pubs /\ q \in Pubs
        /\ schedule[e].of[p] \in Seeds /\ schedule[e].of[q] \in Seeds
    BY Names DEF Listed, IInv, TypeOK
  <2> QED  BY <2>1, ParameterAssumption DEF Ranked, ByteValues
<1> HIDE DEF wt
<1>3. a \in [1 .. Width + 1 -> ByteValues] /\ Value(a) = Quotient(Ranked(e, p), wt)
  BY <1>1, <1>2, RankIsQuotient
<1>4. b \in [1 .. Width + 1 -> ByteValues] /\ Value(b) = Quotient(Ranked(e, q), wt)
  BY <1>1, <1>2, RankIsQuotient
<1>5. Before(e, p, q) <=> Smaller(a, b) \/ (a = b /\ Pid[p] < Pid[q])
  BY DEF Before, wt
<1> HIDE DEF a, b
<1>6. Width + 1 \in Nat
  BY WeightAssumption
<1>7. /\ Value(a) \in Nat /\ Value(b) \in Nat
      /\ Smaller(a, b) <=> Value(a) < Value(b)
      /\ a = b <=> Value(a) = Value(b)
  BY <1>3, <1>4, <1>6, SmallerComparesValues
<1>8. Ratio(e, p) = Value(a) /\ Ratio(e, q) = Value(b)
  BY <1>3, <1>4 DEF Ratio, wt
<1> QED  BY <1>5, <1>7, <1>8

Order(e) == {c \in Listed(e) \X Listed(e) : Before(e, c[1], c[2])}

LEMMA BeforeOrders ==
  ASSUME IInv, NEW e \in Epochs
  PROVE  OrdersStrictly(Order(e), Listed(e))
<1> DEFINE S == Listed(e)
           Q(p) == Ratio(e, p)
<1>1. \A p \in S : Q(p) \in Nat /\ Pid[p] \in Int /\ p \in Pubs
  BY BeforeIsByQuotient, ParameterAssumption DEF Listed
<1>2. \A p, q \in S : Before(e, p, q) <=> Q(p) < Q(q) \/ (Q(p) = Q(q) /\ Pid[p] < Pid[q])
  BY BeforeIsByQuotient
<1>3. \A p, q \in S : <<p, q>> \in Order(e) <=> Before(e, p, q)
  BY DEF Order
<1> HIDE DEF Q, S
<1>4. \A p \in S : ~ Before(e, p, p)
  BY <1>1, <1>2
<1>5. ASSUME NEW p \in S, NEW q \in S, NEW r \in S, Before(e, p, q), Before(e, q, r)
      PROVE  Before(e, p, r)
  BY <1>1, <1>2, <1>5
<1>6. ASSUME NEW p \in S, NEW q \in S, p # q
      PROVE  Before(e, p, q) \/ Before(e, q, p)
  <2>1. Pid[p] # Pid[q]
    BY <1>1, <1>6, ParameterAssumption
  <2> QED  BY <1>1, <1>2, <2>1
<1>7. OrdersStrictly(Order(e), S)
  BY <1>3, <1>4, <1>5, <1>6 DEF OrdersStrictly
<1> QED  BY <1>7 DEF S

\* What a schedule lists is finite.
LEMMA ScheduleFits ==
  ASSUME NEW e \in Epochs
  PROVE  /\ Listed(e) \in SUBSET Pubs /\ IsFiniteSet(Listed(e))
         /\ Cardinality(Listed(e)) \in Nat
         /\ Listed(e) # {} => Cardinality(Listed(e)) # 0
<1>1. Listed(e) \in SUBSET Pubs
  BY DEF Listed
<1>2. IsFiniteSet(Listed(e))
  BY <1>1, ParameterAssumption, FS_Subset
<1> QED  BY <1>1, <1>2, FS_CardinalityType, FS_EmptySet

\* Places grow with the order, and each place up to the length is taken.
LEMMA PlacesOfSchedule ==
  ASSUME IInv, NEW e \in Epochs
  PROVE  /\ \A p \in Listed(e) : Place(e, p) \in Nat
         /\ \A p, q \in Listed(e) : Before(e, p, q) => Place(e, p) < Place(e, q)
         /\ \A i \in 0 .. Cardinality(Listed(e)) - 1 : \E p \in Listed(e) : Place(e, p) = i
<1> DEFINE S == Listed(e)
           R == Order(e)
<1>1. IsFiniteSet(S) /\ Cardinality(S) \in Nat
  BY ScheduleFits
<1>2. OrdersStrictly(R, S)
  BY BeforeOrders
<1>3. \A p, q \in S : Before(e, p, q) <=> <<p, q>> \in R
  BY DEF Order
<1>4. \A p \in S : Place(e, p) = Cardinality(Below(R, S, p))
  <2> TAKE p \in S
  <2>1. Below(R, S, p) = {q \in S : Before(e, q, p)}
    BY <1>3 DEF Below
  <2> QED  BY <2>1 DEF Place
<1> HIDE DEF R, S
<1>5. /\ \A x \in S : Cardinality(Below(R, S, x)) \in 0 .. Cardinality(S) - 1
      /\ \A x, y \in S : <<x, y>> \in R =>
           Cardinality(Below(R, S, x)) < Cardinality(Below(R, S, y))
      /\ \A i \in 0 .. Cardinality(S) - 1 : \E x \in S : Cardinality(Below(R, S, x)) = i
  BY <1>1, <1>2, PlacesOfOrder
<1>6. \A p \in S : Place(e, p) \in Nat
  BY <1>1, <1>4, <1>5
<1>7. \A p, q \in S : Before(e, p, q) => Place(e, p) < Place(e, q)
  BY <1>3, <1>4, <1>5
<1>8. \A i \in 0 .. Cardinality(S) - 1 : \E p \in S : Place(e, p) = i
  BY <1>4, <1>5
<1> QED  BY <1>6, <1>7, <1>8 DEF S

LEMMA InvariantRanks == IInv => RankedByOutput
<1> SUFFICES ASSUME IInv, NEW e \in Epochs, NEW p \in Listed(e), NEW q \in Listed(e)
             PROVE  /\ p # q => Place(e, p) # Place(e, q)
                    /\ Ratio(e, p) < Ratio(e, q) => Place(e, p) < Place(e, q)
                    /\ Ratio(e, p) = Ratio(e, q) /\ Pid[p] < Pid[q] => Place(e, p) < Place(e, q)
  BY DEF RankedByOutput
<1>1. p \in Pubs /\ q \in Pubs
  BY DEF Listed
<1>2. /\ Ratio(e, p) \in Nat /\ Ratio(e, q) \in Nat
      /\ Before(e, p, q) <=>
           Ratio(e, p) < Ratio(e, q) \/ (Ratio(e, p) = Ratio(e, q) /\ Pid[p] < Pid[q])
      /\ Before(e, q, p) <=>
           Ratio(e, q) < Ratio(e, p) \/ (Ratio(e, q) = Ratio(e, p) /\ Pid[q] < Pid[p])
  BY BeforeIsByQuotient
<1>3. Before(e, p, q) => Place(e, p) < Place(e, q)
  BY PlacesOfSchedule
<1>4. Before(e, q, p) => Place(e, q) < Place(e, p)
  BY PlacesOfSchedule
<1>5. Place(e, p) \in Nat /\ Place(e, q) \in Nat
  BY PlacesOfSchedule
<1>6. p # q => Pid[p] # Pid[q] /\ Pid[p] \in Int /\ Pid[q] \in Int
  BY <1>1, ParameterAssumption
<1> QED  BY <1>2, <1>3, <1>4, <1>5, <1>6

\* Each candidate has one place, and the places are in the order of the outputs
\* without their first byte, divided by the weight, and then of the peer ids,
\* for outputs of any length and any weight (updateLeader, RankValue, CmpRank).
THEOREM ScheduleIsRanked == Spec => []RankedByOutput
BY InvariantRanks, InvariantHolds, PTL

LEMMA EpochInRange ==
  ASSUME IInv
  PROVE  /\ Epoch(slot) \in Epochs
         /\ GroupIndex(slot) \in Nat
<1> DEFINE L == EpochLength
           x == slot \div L
<1>1. L \in Nat \ {0} /\ slot \in Nat /\ MaxEpoch \in Nat /\ slot < (MaxEpoch + 1) * L
  BY ParameterAssumption DEF IInv, TypeOK
<1>2. x \in Nat /\ slot % L \in 0 .. L - 1 /\ slot = x * L + (slot % L)
  BY <1>1, DivisionIs
<1> HIDE DEF L, x
<1>3. ASSUME MaxEpoch + 1 <= x PROVE FALSE
  <2>1. (MaxEpoch + 1) * L <= x * L
    BY <1>1, <1>2, <1>3, ProductGrows
  <2>2. x * L \in Int /\ (MaxEpoch + 1) * L \in Int
    BY <1>1, <1>2
  <2> QED  BY <1>1, <1>2, <2>1, <2>2
<1>4. x \in Epochs
  BY <1>1, <1>2, <1>3 DEF Epochs
<1>5. GroupIndex(slot) \in Nat
  <2>1. EpochSlotOffset(slot) \in Nat
    BY <1>2 DEF EpochSlotOffset, L
  <2>2. SlotsPerLeader \in Nat \ {0}
    BY ParameterAssumption
  <2> QED  BY <2>1, <2>2, DivisionIs DEF GroupIndex
<1> QED  BY <1>4, <1>5 DEF Epoch, x, L

\* The schedule has a candidate at each index below its length.
LEMMA ScheduledIsListed ==
  ASSUME IInv, NEW e \in Epochs, NEW i \in 0 .. Cardinality(Listed(e)) - 1
  PROVE  Scheduled(e, i) \in Listed(e)
<1>1. \E p \in Listed(e) : Place(e, p) = i
  BY PlacesOfSchedule
<1> QED  BY <1>1 DEF Scheduled, Place

LEMMA GraceIndexIsInt ==
  ASSUME NEW group \in Nat, NEW len \in Nat \ {0}
  PROVE  GraceIndex(group, len) \in Int
<1> DEFINE a == group + len - 3
<1>1. a \in Int
  OBVIOUS
<1> HIDE DEF a
<1>2. CASE a >= 0
  <2>1. a % len \in 0 .. len - 1
    BY <1>1, <1>2, DivisionIs
  <2> QED  BY <1>2, <2>1 DEF GraceIndex, Rem, a
<1>3. CASE a < 0
  <2>1. - a \in Nat /\ (- a) % len \in 0 .. len - 1
    BY <1>1, <1>3, DivisionIs
  <2>2. ~ (a >= 0) /\ - ((- a) % len) \in Int
    BY <1>1, <1>3, <2>1
  <2> QED  BY <2>2 DEF GraceIndex, Rem, a
<1> QED  BY <1>1, <1>2, <1>3

\* Exactly one node is granted the slot, and it is a candidate of epoch e.
ProducerFrom(e) ==
  \E p \in CandidatesOf(e) : \A q \in Pubs : AllowProduceSlot(q, slot, TRUE) <=> q = p

SlotsHaveProducers ==
  /\ Listed(Epoch(slot)) # {} => ProducerFrom(Epoch(slot))
  /\ InGrace(slot) /\ ~ GraceMisses(slot) => ProducerFrom(Epoch(slot) - 1)

LEMMA InvariantHasProducers == IInv => SlotsHaveProducers
<1> SUFFICES ASSUME IInv PROVE SlotsHaveProducers
  OBVIOUS
<1> DEFINE e == Epoch(slot)
           group == GroupIndex(slot)
<1>1. e \in Epochs /\ e \in Nat /\ group \in Nat
  BY EpochInRange DEF Epochs
<1>2. ASSUME Listed(e) # {} PROVE ProducerFrom(e)
  <2> DEFINE n == Cardinality(Listed(e))
             i == group % n
  <2>1. n \in Nat \ {0}
    BY <1>1, <1>2, ScheduleFits
  <2>2. i \in 0 .. n - 1
    <3> HIDE DEF n
    <3> QED  BY <1>1, <2>1, DivisionIs
  <2>3. Scheduled(e, i) \in CandidatesOf(e)
    BY <1>1, <2>2, ScheduledIsListed DEF IInv, CachesFit
  <2>4. \A q \in Pubs : AllowProduceSlot(q, slot, TRUE) <=> q = Scheduled(e, i)
    BY <1>2 DEF AllowProduceSlot
  <2> HIDE DEF i
  <2> QED  BY <2>3, <2>4 DEF ProducerFrom
<1>3. ASSUME InGrace(slot), ~ GraceMisses(slot) PROVE ProducerFrom(e - 1)
  <2> DEFINE n == Cardinality(Listed(e - 1))
             i == GraceIndex(group, n)
  <2>1. e - 1 \in Epochs /\ Listed(e - 1) # {} /\ Listed(e) = {}
    <3>1. e > 0 /\ Listed(e - 1) # {} /\ Listed(e) = {}
      BY <1>3 DEF InGrace
    <3> HIDE DEF e
    <3>2. e - 1 \in Epochs
      BY <1>1, <3>1, ParameterAssumption DEF Epochs
    <3> QED  BY <3>1, <3>2
  <2>2. n \in Nat \ {0}
    BY <2>1, ScheduleFits
  <2>3. ~ (i < 0)
    BY <1>3 DEF GraceMisses
  <2>4. i \in 0 .. n - 1
    <3> HIDE DEF n
    <3> QED  BY <1>1, <2>2, <2>3, GraceIndexIsInt, GraceIndexRange
  <2>5. Scheduled(e - 1, i) \in CandidatesOf(e - 1)
    BY <2>1, <2>4, ScheduledIsListed DEF IInv, CachesFit
  <2>6. \A q \in Pubs : AllowProduceSlot(q, slot, TRUE) <=> q = Scheduled(e - 1, i)
    BY <1>3, <2>1 DEF AllowProduceSlot
  <2> HIDE DEF i
  <2> QED  BY <2>5, <2>6 DEF ProducerFrom
<1> QED  BY <1>2, <1>3 DEF SlotsHaveProducers

\* Of connected nodes with the same schedules exactly one is granted the slot, a
\* candidate of the epoch, whatever the number of candidates and of slots to a
\* leader; and in the grace period a candidate of the last one, unless the index
\* is the negative one (AllowProduceSlot).
THEOREM EverySlotHasProducer == Spec => []SlotsHaveProducers
BY InvariantHasProducers, InvariantHolds, PTL
=============================================================================
