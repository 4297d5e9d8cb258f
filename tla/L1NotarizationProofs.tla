------------------------ MODULE L1NotarizationProofs ------------------------
(***************************************************************************)
(* Proofs about L1Notarization for every set of blocks and attesters.      *)
(***************************************************************************)
EXTENDS L1Notarization, FiniteSetTheorems, TLAPS

-----------------------------------------------------------------------------
(* Lists of records. *)

\* No block has two records in the list.
OncePerBlock(records) ==
  \A i, j \in 1 .. Len(records) : records[i].hash = records[j].hash => i = j

\* The index of such a list holds the place of each of its records.
LEMMA IndexOfFinds ==
  ASSUME NEW records \in Seq(Records), OncePerBlock(records)
  PROVE  /\ IndexOf(records) \in [Blocks -> 0 .. Len(records)]
         /\ \A i \in 1 .. Len(records) : IndexOf(records)[records[i].hash] = i
<1>1. ASSUME NEW i \in 1 .. Len(records)
      PROVE  records[i].hash \in Blocks /\ IndexOf(records)[records[i].hash] = i
  <2> DEFINE b == records[i].hash
  <2>1. b \in Blocks
    <3>1. records[i] \in Records
      OBVIOUS
    <3> QED
      BY <3>1 DEF Records
  <2>2. Places(records, b) = {i}
    BY DEF Places, OncePerBlock
  <2>3. (CHOOSE k \in {i} : \A j \in {i} : j <= k) = i
    OBVIOUS
  <2> QED
    BY <2>1, <2>2, <2>3 DEF IndexOf
<1>2. ASSUME NEW b \in Blocks
      PROVE  IndexOf(records)[b] \in 0 .. Len(records)
  <2>1. CASE Places(records, b) = {}
    BY <2>1 DEF IndexOf
  <2>2. CASE Places(records, b) # {}
    <3>1. PICK i \in 1 .. Len(records) : records[i].hash = b
      BY <2>2 DEF Places
    <3> QED
      BY <1>1, <3>1
  <2> QED
    BY <2>1, <2>2
<1>3. IndexOf(records) \in [Blocks -> 0 .. Len(records)]
  BY <1>2 DEF IndexOf
<1> QED
  BY <1>1, <1>3

\* Cutting a list keeps its front.
LEMMA TruncateKeepsFront ==
  ASSUME NEW records \in Seq(Records)
  PROVE  /\ Truncate(records) \in Seq(Records)
         /\ Len(Truncate(records)) <= MaxRecent
         /\ Len(Truncate(records)) <= Len(records)
         /\ \A i \in 1 .. Len(Truncate(records)) : Truncate(records)[i] = records[i]
<1>1. CASE Len(records) > MaxRecent
  <2>1. Truncate(records) = SubSeq(records, 1, MaxRecent)
    BY <1>1 DEF Truncate
  <2>2. MaxRecent \in Nat \ {0}
    BY ParameterAssumption
  <2> QED
    BY <1>1, <2>1, <2>2
<1>2. CASE ~(Len(records) > MaxRecent)
  BY <1>2, ParameterAssumption DEF Truncate
<1> QED
  BY <1>1, <1>2

\* A new record in front of the list: the other records move by one place, and
\* the block still has no other record.
LEMMA NewInFront ==
  ASSUME TypeOK, RecordsAreIndexed,
         NEW record \in Records, index[record.hash] = 0
  PROVE  /\ <<record>> \o recent \in Seq(Records)
         /\ Len(<<record>> \o recent) = Len(recent) + 1
         /\ (<<record>> \o recent)[1] = record
         /\ \A i \in 2 .. Len(recent) + 1 : (<<record>> \o recent)[i] = recent[i - 1]
         /\ \A i \in 1 .. Len(recent) : recent[i].hash # record.hash
         /\ OncePerBlock(<<record>> \o recent)
<1> DEFINE new == <<record>> \o recent
<1>1. recent \in Seq(Records) /\ <<record>> \in Seq(Records)
  BY DEF TypeOK
<1>2. /\ new \in Seq(Records)
      /\ Len(new) = Len(recent) + 1
      /\ new[1] = record
      /\ \A i \in 2 .. Len(recent) + 1 : new[i] = recent[i - 1]
  BY <1>1
<1>3. \A i \in 1 .. Len(recent) : recent[i].hash # record.hash
  BY <1>1 DEF RecordsAreIndexed
<1>4. OncePerBlock(new)
  <2> HIDE DEF new
  <2>1. SUFFICES ASSUME NEW i \in 1 .. Len(recent) + 1, NEW j \in 1 .. Len(recent) + 1,
                        new[i].hash = new[j].hash
                 PROVE  i = j
    BY <1>2 DEF OncePerBlock
  <2>2. Len(recent) \in Nat
    BY <1>1
  <2>3. CASE i = 1 \/ j = 1
    <3>1. ASSUME NEW k \in 2 .. Len(recent) + 1
          PROVE  new[k].hash # record.hash
      <4>1. k - 1 \in 1 .. Len(recent) /\ new[k] = recent[k - 1]
        BY <1>2, <2>2
      <4> QED
        BY <1>3, <4>1
    <3>2. new[1].hash = record.hash
      BY <1>2
    <3>3. (i = 1 \/ i \in 2 .. Len(recent) + 1) /\ (j = 1 \/ j \in 2 .. Len(recent) + 1)
      BY <2>2
    <3> QED
      BY <2>1, <2>3, <3>1, <3>2, <3>3
  <2>4. CASE i # 1 /\ j # 1
    <3>1. /\ new[i] = recent[i - 1] /\ i - 1 \in 1 .. Len(recent)
          /\ new[j] = recent[j - 1] /\ j - 1 \in 1 .. Len(recent)
      BY <1>2, <2>2, <2>4
    <3>2. i - 1 = j - 1
      BY <2>1, <3>1 DEF RecordsAreIndexed
    <3> QED
      BY <2>2, <3>2
  <2> QED
    BY <2>3, <2>4
<1> QED
  BY <1>2, <1>3, <1>4

-----------------------------------------------------------------------------
(* What recording a block does to the list and to the kept attestations. *)

\* The list and its index after a step.
ListOK ==
  /\ recent \in Seq(Records) /\ Len(recent) <= MaxRecent
  /\ index \in [Blocks -> 0 .. MaxRecent + 1]
  /\ attests \in [Blocks -> SUBSET Attesters]
  /\ RecordsAreIndexed

\* What is shown as notarized before the step is so after it, if it is shown.
KeepsNotarized ==
  \A b \in Blocks : ShownNotarized(b) /\ Shown(b)' => ShownNotarized(b)'

LEMMA PruneAttestsStep ==
  ASSUME TypeOK, PruneAttests
  PROVE  attests' \in [Blocks -> SUBSET Attesters]
BY DEF TypeOK, PruneAttests

\* A list that is the front of the old one with a new record keeps what was
\* notarized.
LEMMA FrontKeepsNotarized ==
  ASSUME TypeOK, RecordsAreIndexed, NEW record \in Records,
         index[record.hash] = 0, recent' = Truncate(<<record>> \o recent)
  PROVE  KeepsNotarized
<1> DEFINE new == <<record>> \o recent
<1>1. /\ new \in Seq(Records)
      /\ Len(new) = Len(recent) + 1
      /\ new[1] = record
      /\ \A i \in 2 .. Len(recent) + 1 : new[i] = recent[i - 1]
      /\ \A i \in 1 .. Len(recent) : recent[i].hash # record.hash
      /\ recent' = Truncate(new)
  BY NewInFront
<1> HIDE DEF new
<1>2. /\ recent' \in Seq(Records)
      /\ Len(recent') <= Len(new)
      /\ \A i \in 1 .. Len(recent') : recent'[i] = new[i]
  <2>1. /\ Truncate(new) \in Seq(Records)
        /\ Len(Truncate(new)) <= Len(new)
        /\ \A i \in 1 .. Len(Truncate(new)) : Truncate(new)[i] = new[i]
    BY <1>1, TruncateKeepsFront
  <2> QED
    BY <1>1, <2>1
<1>3. SUFFICES ASSUME NEW b \in Blocks, ShownNotarized(b), Shown(b)'
               PROVE  ShownNotarized(b)'
  BY DEF KeepsNotarized
<1>4. PICK i \in 1 .. Len(recent) : recent[i].hash = b /\ recent[i].notarized
  BY <1>3 DEF ShownNotarized
<1>5. PICK j \in 1 .. Len(recent') : recent'[j].hash = b
  BY <1>3 DEF Shown
<1>6. Len(recent) \in Nat
  BY DEF TypeOK
<1>7. /\ j \in 2 .. Len(recent) + 1
      /\ j - 1 \in 1 .. Len(recent)
      /\ recent'[j] = recent[j - 1]
  <2>1. record.hash # b
    BY <1>1, <1>4
  <2>2. j # 1 /\ recent'[j] = new[j]
    BY <1>1, <1>2, <1>5, <2>1
  <2>3. Len(recent') \in Nat
    BY <1>2
  <2>4. j \in 2 .. Len(recent) + 1 /\ j - 1 \in 1 .. Len(recent)
    BY <1>1, <1>2, <1>6, <2>2, <2>3
  <2> QED
    BY <1>1, <2>2, <2>4
<1>8. j - 1 = i
  BY <1>4, <1>5, <1>7 DEF RecordsAreIndexed
<1> QED
  BY <1>4, <1>5, <1>7, <1>8 DEF ShownNotarized

LEMMA AddRecordStep ==
  ASSUME TypeOK, RecordsAreIndexed, NEW b \in Blocks, index[b] = 0,
         NEW c \in 0 .. Cardinality(Attesters), AddRecord(b, c)
  PROVE  ListOK' /\ KeepsNotarized
<1> DEFINE record == [hash |-> b, notarized |-> FALSE, attesters |-> c]
           new == <<record>> \o recent
<1>1. /\ recent' = Truncate(new)
      /\ index' = IndexOf(recent')
      /\ attests' \in [Blocks -> SUBSET Attesters]
  BY PruneAttestsStep DEF AddRecord
<1>2. record \in Records /\ record.hash = b
  BY DEF Records
<1> HIDE DEF record
<1>3. new \in Seq(Records) /\ OncePerBlock(new) /\ Len(new) \in Nat
  BY <1>2, NewInFront
<1> HIDE DEF new
<1>4. /\ recent' \in Seq(Records) /\ Len(recent') <= MaxRecent /\ Len(recent') <= Len(new)
      /\ \A i \in 1 .. Len(recent') : recent'[i] = new[i]
  BY <1>1, <1>3, TruncateKeepsFront
<1>5. OncePerBlock(recent')
  BY <1>3, <1>4 DEF OncePerBlock
<1>6. /\ index' \in [Blocks -> 0 .. Len(recent')]
      /\ \A i \in 1 .. Len(recent') : index'[recent'[i].hash] = i
  BY <1>1, <1>4, <1>5, IndexOfFinds
<1>7. index' \in [Blocks -> 0 .. MaxRecent + 1]
  BY <1>4, <1>6, ParameterAssumption
<1>8. KeepsNotarized
  BY <1>1, <1>2, FrontKeepsNotarized DEF new
<1> QED
  BY <1>1, <1>4, <1>6, <1>7, <1>8 DEF ListOK, RecordsAreIndexed

LEMMA AddNotarizedStep ==
  ASSUME TypeOK, RecordsAreIndexed, NEW b \in Blocks, index[b] = 0,
         NEW c \in 0 .. Cardinality(Attesters), AddNotarized(b, c)
  PROVE  ListOK' /\ KeepsNotarized
<1> DEFINE record == [hash |-> b, notarized |-> TRUE, attesters |-> c]
           new == <<record>> \o recent
<1>1. /\ recent' = Truncate(new)
      /\ index' = IndexOf(new)
      /\ attests' \in [Blocks -> SUBSET Attesters]
  BY PruneAttestsStep DEF AddNotarized
<1>2. record \in Records /\ record.hash = b
  BY DEF Records
<1> HIDE DEF record
<1>3. /\ new \in Seq(Records) /\ OncePerBlock(new)
      /\ Len(new) = Len(recent) + 1 /\ Len(recent) \in Nat /\ Len(recent) <= MaxRecent
  BY <1>2, NewInFront DEF TypeOK
<1> HIDE DEF new
<1>4. /\ recent' \in Seq(Records) /\ Len(recent') <= MaxRecent /\ Len(recent') <= Len(new)
      /\ \A i \in 1 .. Len(recent') : recent'[i] = new[i]
  BY <1>1, <1>3, TruncateKeepsFront
<1>5. /\ index' \in [Blocks -> 0 .. Len(new)]
      /\ \A i \in 1 .. Len(new) : index'[new[i].hash] = i
  BY <1>1, <1>3, IndexOfFinds
<1>6. index' \in [Blocks -> 0 .. MaxRecent + 1]
  BY <1>3, <1>5, ParameterAssumption
<1>7. \A i \in 1 .. Len(recent') : index'[recent'[i].hash] = i
  BY <1>3, <1>4, <1>5
<1>8. KeepsNotarized
  BY <1>1, <1>2, FrontKeepsNotarized DEF new
<1> QED
  BY <1>1, <1>4, <1>6, <1>7, <1>8 DEF ListOK, RecordsAreIndexed

\* A record that keeps its block and stays notarized.
LEMMA ChangeRecordStep ==
  ASSUME TypeOK, RecordsAreIndexed, NEW b \in Blocks,
         index[b] # 0, index[b] <= Len(recent), NEW record \in Records,
         record.hash = recent[index[b]].hash,
         recent[index[b]].notarized => record.notarized,
         ChangeRecord(b, record)
  PROVE  ListOK' /\ KeepsNotarized
<1>1. index[b] \in 1 .. Len(recent) /\ recent \in Seq(Records)
  BY DEF TypeOK
<1>2. /\ recent' \in Seq(Records) /\ Len(recent') = Len(recent)
      /\ recent'[index[b]] = record
      /\ \A i \in 1 .. Len(recent) \ {index[b]} : recent'[i] = recent[i]
      /\ index' = index
  BY <1>1 DEF ChangeRecord
<1>3. \A i \in 1 .. Len(recent) : /\ recent'[i].hash = recent[i].hash
                                  /\ recent[i].notarized => recent'[i].notarized
  BY <1>1, <1>2
<1>4. attests' \in [Blocks -> SUBSET Attesters]
  BY PruneAttestsStep DEF ChangeRecord
<1>5. RecordsAreIndexed'
  BY <1>2, <1>3 DEF RecordsAreIndexed
<1>6. KeepsNotarized
  BY <1>2, <1>3 DEF KeepsNotarized, ShownNotarized
<1> QED
  BY <1>2, <1>4, <1>5, <1>6 DEF ListOK, TypeOK

-----------------------------------------------------------------------------
(* Counts, jobs, and the inductive invariant. *)

LEMMA Counts ==
  ASSUME NEW S \in SUBSET Attesters, NEW T \in SUBSET S
  PROVE  /\ Cardinality(S) \in 0 .. Cardinality(Attesters)
         /\ Cardinality(T) \in Nat
         /\ Cardinality(T) <= Cardinality(S)
<1>1. IsFiniteSet(Attesters)
  BY ParameterAssumption
<1>2. IsFiniteSet(S) /\ Cardinality(S) <= Cardinality(Attesters)
  BY <1>1, FS_Subset
<1>3. IsFiniteSet(T) /\ Cardinality(T) <= Cardinality(S)
  BY <1>2, FS_Subset
<1>4. Cardinality(Attesters) \in Nat /\ Cardinality(S) \in Nat /\ Cardinality(T) \in Nat
  BY <1>1, <1>2, <1>3, FS_CardinalityType
<1> QED
  BY <1>2, <1>3, <1>4

\* What is not about the list.
CountsOK ==
  /\ attested \in [Blocks -> SUBSET Attesters]
  /\ queue \in SUBSET (Blocks \X Attesters)
  /\ announced \in SUBSET (Blocks \X (1 .. Cardinality(Attesters)))
  /\ work \in [Threads -> Jobs \cup {Idle}]
  /\ seen \in [Blocks -> SUBSET Attesters]
  /\ young \in SUBSET Blocks
  /\ panicked \in BOOLEAN
  /\ CountedHaveAttested
  /\ JobsAreBacked

LEMMA Parts == IInv <=> ListOK /\ CountsOK
BY DEF IInv, TypeOK, ListOK, CountsOK

LEMMA PartsNext == IInv' <=> ListOK' /\ CountsOK'
BY DEF IInv, TypeOK, ListOK, CountsOK

\* A goroutine at work has a block and a count.
LEMMA JobType ==
  ASSUME TypeOK, NEW t \in Threads, work[t].stage # "idle"
  PROVE  /\ work[t] \in Jobs
         /\ work[t].block \in Blocks
         /\ work[t].count \in 0 .. Cardinality(Attesters)
<1>1. work[t] \in Jobs
  BY DEF TypeOK, Idle
<1> QED
  BY <1>1 DEF Jobs

\* A goroutine that finishes, or goes on with a count that suffices.
LEMMA NextStage ==
  ASSUME IInv, NEW t \in Threads, work[t].stage # "idle", UNCHANGED attested,
         \/ Finish(t)
         \/ /\ \E s \in {"notarize", "forget", "announce"} : GoOn(t, s)
            /\ work[t].count >= MinAttesters
            /\ work[t].count <= Cardinality(attested[work[t].block])
  PROVE  work' \in [Threads -> Jobs \cup {Idle}] /\ JobsAreBacked'
<1>1. TypeOK /\ JobsAreBacked
  BY DEF IInv
<1>2. work[t] \in Jobs /\ work \in [Threads -> Jobs \cup {Idle}]
  BY <1>1, JobType DEF TypeOK
<1>3. CASE Finish(t)
  <2>1. /\ work'[t] = Idle
        /\ \A u \in Threads \ {t} : work'[u] = work[u]
        /\ work' \in [Threads -> Jobs \cup {Idle}]
    BY <1>2, <1>3 DEF Finish
  <2>2. Idle.stage = "idle"
    BY DEF Idle
  <2> QED
    BY <1>1, <2>1, <2>2 DEF JobsAreBacked
<1>4. ASSUME NEW s \in {"notarize", "forget", "announce"}, GoOn(t, s),
             work[t].count >= MinAttesters,
             work[t].count <= Cardinality(attested[work[t].block])
      PROVE  work' \in [Threads -> Jobs \cup {Idle}] /\ JobsAreBacked'
  <2> DEFINE job == [work[t] EXCEPT !.stage = s]
  <2>1. /\ job \in Jobs /\ job.stage = s
        /\ job.block = work[t].block /\ job.count = work[t].count
    BY <1>2 DEF Jobs
  <2>2. work' = [work EXCEPT ![t] = job]
    BY <1>4 DEF GoOn
  <2> HIDE DEF job
  <2>3. /\ work'[t] = job
        /\ \A u \in Threads \ {t} : work'[u] = work[u]
        /\ work' \in [Threads -> Jobs \cup {Idle}]
    BY <1>2, <2>1, <2>2
  <2> QED
    BY <1>1, <1>4, <2>1, <2>3 DEF JobsAreBacked
<1> QED
  BY <1>3, <1>4

\* A publication: more attesters never invalidate a count.
LEMMA PublishStep ==
  ASSUME TypeOK, CountedHaveAttested, NEW b \in Blocks, NEW a \in Attesters,
         Publish(a, b), UNCHANGED seen
  PROVE  /\ attested' \in [Blocks -> SUBSET Attesters]
         /\ queue' \in SUBSET (Blocks \X Attesters)
         /\ CountedHaveAttested'
         /\ \A c \in Blocks : /\ attested[c] \subseteq attested'[c]
                              /\ Cardinality(attested[c]) \in Nat
                              /\ Cardinality(attested'[c]) \in Nat
                              /\ Cardinality(attested[c]) <= Cardinality(attested'[c])
         /\ a \in attested'[b]
<1>1. /\ attested' \in [Blocks -> SUBSET Attesters]
      /\ \A c \in Blocks : attested[c] \subseteq attested'[c]
      /\ a \in attested'[b]
  BY DEF TypeOK, Publish
<1>2. queue' = queue \cup {<<b, a>>} /\ queue' \in SUBSET (Blocks \X Attesters)
  BY DEF TypeOK, Publish
<1>3. CountedHaveAttested'
  BY <1>1, <1>2 DEF CountedHaveAttested, TypeOK
<1>4. ASSUME NEW c \in Blocks
      PROVE  /\ Cardinality(attested[c]) \in Nat
             /\ Cardinality(attested'[c]) \in Nat
             /\ Cardinality(attested[c]) <= Cardinality(attested'[c])
  <2>1. attested'[c] \in SUBSET Attesters /\ attested[c] \in SUBSET attested'[c]
    BY <1>1
  <2> QED
    BY <2>1, Counts
<1> QED
  BY <1>1, <1>2, <1>3, <1>4

\* Counting an attestation: the count is that of nodes that attested.
LEMMA TrackStep ==
  ASSUME IInv, NEW t \in Threads, NEW b \in Blocks, NEW a \in attested[b],
         Track(t, b, a), queue' \subseteq queue
  PROVE  IInv' /\ KeepsNotarized
<1>1. TypeOK /\ CountedHaveAttested /\ JobsAreBacked
  BY DEF IInv
<1>2. /\ attested' = attested /\ announced' = announced
      /\ recent' = recent /\ index' = index /\ panicked' = panicked
  BY DEF Track
<1>3. a \in Attesters /\ attested[b] \in SUBSET Attesters
  BY <1>1 DEF TypeOK
<1>4. /\ seen' \in [Blocks -> SUBSET Attesters]
      /\ attests' \in [Blocks -> SUBSET Attesters]
      /\ young' \in SUBSET Blocks
  BY <1>1, <1>3 DEF TypeOK, Track
<1>5. CountedHaveAttested'
  <2>1. ASSUME NEW c \in Blocks PROVE seen'[c] \subseteq attested[c]
    BY <1>1 DEF CountedHaveAttested, TypeOK, Track
  <2> QED
    BY <1>1, <1>2, <2>1 DEF CountedHaveAttested
<1> DEFINE count == Cardinality(seen[b] \cup {a})
           job == [stage |-> "update", block |-> b, count |-> count]
<1>6. /\ count \in 0 .. Cardinality(Attesters)
      /\ count <= Cardinality(attested[b])
  <2>1. seen[b] \cup {a} \in SUBSET attested[b]
    BY <1>1 DEF CountedHaveAttested
  <2>2. seen[b] \cup {a} \in SUBSET Attesters
    BY <1>3, <2>1
  <2> QED
    BY <1>3, <2>1, <2>2, Counts
<1>7. work' = [work EXCEPT ![t] = job]
  BY DEF Track
<1> HIDE DEF count
<1>8. job \in Jobs /\ job.stage = "update" /\ job.block = b /\ job.count = count
  BY <1>6 DEF Jobs
<1> HIDE DEF job
<1>9. /\ work'[t] = job
      /\ \A u \in Threads \ {t} : work'[u] = work[u]
      /\ work' \in [Threads -> Jobs \cup {Idle}]
  BY <1>1, <1>7, <1>8 DEF TypeOK
<1>10. JobsAreBacked'
  BY <1>1, <1>2, <1>6, <1>8, <1>9 DEF JobsAreBacked
<1>11. CountsOK'
  BY <1>1, <1>2, <1>4, <1>5, <1>9, <1>10 DEF CountsOK, TypeOK
<1>12. ListOK' /\ KeepsNotarized
  BY <1>2, <1>4
     DEF IInv, TypeOK, ListOK, RecordsAreIndexed, KeepsNotarized, ShownNotarized
<1> QED
  BY <1>11, <1>12, PartsNext

-----------------------------------------------------------------------------
(* The actions. *)

LEMMA InitStep == Init => IInv
<1> SUFFICES ASSUME Init PROVE IInv
  OBVIOUS
<1>1. Idle.stage = "idle"
  BY DEF Idle
<1>2. TypeOK
  <2>1. MaxRecent \in Nat
    BY ParameterAssumption
  <2>2. recent \in Seq(Records) /\ Len(recent) <= MaxRecent
    BY <2>1 DEF Init
  <2>3. panicked \in BOOLEAN
    BY DEF Init
  <2>4. work \in [Threads -> Jobs \cup {Idle}]
    BY DEF Init
  <2>5. /\ attested \in [Blocks -> SUBSET Attesters]
        /\ seen \in [Blocks -> SUBSET Attesters]
        /\ attests \in [Blocks -> SUBSET Attesters]
        /\ index \in [Blocks -> 0 .. MaxRecent + 1]
    BY <2>1 DEF Init
  <2> QED
    BY <2>2, <2>3, <2>4, <2>5 DEF Init, TypeOK
<1>3. RecordsAreIndexed /\ CountedHaveAttested
  BY DEF Init, RecordsAreIndexed, CountedHaveAttested
<1>4. JobsAreBacked
  BY <1>1 DEF Init, JobsAreBacked
<1> QED
  BY <1>2, <1>3, <1>4 DEF IInv

\* A step that leaves the list alone.
LEMMA ListStays ==
  ASSUME IInv, UNCHANGED noted
  PROVE  ListOK' /\ KeepsNotarized
BY DEF IInv, TypeOK, ListOK, noted, RecordsAreIndexed, KeepsNotarized, ShownNotarized

LEMMA AttestStep ==
  ASSUME IInv, NEW a \in Attesters, NEW b \in Blocks, Attest(a, b)
  PROVE  IInv' /\ KeepsNotarized
<1>1. TypeOK /\ CountedHaveAttested /\ JobsAreBacked
  BY DEF IInv
<1>2. Publish(a, b) /\ UNCHANGED <<panicked, announced, work, seen, young, noted>>
  BY DEF Attest
<1>3. /\ attested' \in [Blocks -> SUBSET Attesters]
      /\ queue' \in SUBSET (Blocks \X Attesters)
      /\ CountedHaveAttested'
      /\ \A c \in Blocks : /\ attested[c] \subseteq attested'[c]
                           /\ Cardinality(attested[c]) \in Nat
                           /\ Cardinality(attested'[c]) \in Nat
                           /\ Cardinality(attested[c]) <= Cardinality(attested'[c])
  BY <1>1, <1>2, PublishStep
<1>4. JobsAreBacked'
  <2>1. SUFFICES ASSUME NEW t \in Threads
                 PROVE  /\ work[t].stage = "track" => Self \in attested'[work[t].block]
                        /\ work[t].stage \notin {"idle", "attest", "track"} =>
                             work[t].count <= Cardinality(attested'[work[t].block])
                        /\ work[t].stage \in {"notarize", "forget", "announce"} =>
                             work[t].count >= MinAttesters
    BY <1>2 DEF JobsAreBacked
  <2>2. CASE work[t].stage = "idle"
    BY <2>2
  <2>3. CASE work[t].stage # "idle"
    <3>1. work[t].block \in Blocks /\ work[t].count \in Nat
      BY <1>1, <2>3, JobType
    <3> QED
      BY <1>1, <1>3, <3>1 DEF JobsAreBacked
  <2> QED
    BY <2>2, <2>3
<1>5. CountsOK'
  BY <1>1, <1>2, <1>3, <1>4 DEF CountsOK, TypeOK
<1> QED
  BY <1>2, <1>5, ListStays, PartsNext

LEMMA OnBlockStep ==
  ASSUME IInv, NEW b \in Blocks, OnBlock(b)
  PROVE  IInv' /\ KeepsNotarized
<1>1. TypeOK /\ RecordsAreIndexed /\ CountedHaveAttested /\ JobsAreBacked
  BY DEF IInv
<1>2. UNCHANGED <<panicked, attested, queue, announced, seen, young>>
  BY DEF OnBlock
<1>3. ListOK' /\ KeepsNotarized
  <2>1. CASE index[b] = 0
    <3>1. 0 \in 0 .. Cardinality(Attesters)
      BY ParameterAssumption, FS_CardinalityType
    <3>2. AddRecord(b, 0)
      BY <2>1 DEF OnBlock
    <3> QED
      BY <1>1, <2>1, <3>1, <3>2, AddRecordStep
  <2>2. CASE index[b] # 0
    BY <2>2, ListStays DEF OnBlock
  <2> QED
    BY <2>1, <2>2
<1> DEFINE job == [stage |-> "attest", block |-> b, count |-> 0]
<1>4. job \in Jobs /\ job.stage = "attest"
  BY ParameterAssumption, FS_CardinalityType DEF Jobs
<1>5. work' = [work EXCEPT !["blocks"] = job]
  BY DEF OnBlock
<1> HIDE DEF job
<1>6. /\ work'["blocks"] = job
      /\ \A t \in Threads \ {"blocks"} : work'[t] = work[t]
      /\ work' \in [Threads -> Jobs \cup {Idle}]
  BY <1>1, <1>4, <1>5 DEF TypeOK, Threads
<1>7. JobsAreBacked'
  BY <1>1, <1>2, <1>4, <1>6 DEF JobsAreBacked
<1>8. CountsOK'
  BY <1>1, <1>2, <1>6, <1>7 DEF CountsOK, TypeOK, CountedHaveAttested
<1> QED
  BY <1>3, <1>8, PartsNext

LEMMA OnBlockProposedStep ==
  ASSUME IInv, OnBlockProposed
  PROVE  IInv' /\ KeepsNotarized
<1>1. TypeOK /\ CountedHaveAttested /\ JobsAreBacked
  BY DEF IInv
<1>2. "blocks" \in Threads /\ work["blocks"].stage = "attest"
  BY DEF OnBlockProposed, Threads
<1>3. UNCHANGED <<panicked, announced, seen, young, noted>>
  BY DEF OnBlockProposed
<1> DEFINE b == work["blocks"].block
<1>4. work["blocks"] \in Jobs /\ b \in Blocks
  BY <1>1, <1>2, JobType
<1>5. CASE Publish(Self, b) /\ GoOn("blocks", "track")
  <2>1. /\ attested' \in [Blocks -> SUBSET Attesters]
        /\ queue' \in SUBSET (Blocks \X Attesters)
        /\ CountedHaveAttested'
        /\ \A c \in Blocks : /\ attested[c] \subseteq attested'[c]
                             /\ Cardinality(attested[c]) \in Nat
                             /\ Cardinality(attested'[c]) \in Nat
                             /\ Cardinality(attested[c]) <= Cardinality(attested'[c])
        /\ Self \in attested'[b]
    BY <1>1, <1>3, <1>4, <1>5, PublishStep, ParameterAssumption
  <2> DEFINE job == [work["blocks"] EXCEPT !.stage = "track"]
  <2>2. job \in Jobs /\ job.stage = "track" /\ job.block = b
    BY <1>4 DEF Jobs
  <2>3. work' = [work EXCEPT !["blocks"] = job]
    BY <1>5 DEF GoOn
  <2> HIDE DEF job
  <2>4. /\ work'["blocks"] = job
        /\ \A t \in Threads \ {"blocks"} : work'[t] = work[t]
        /\ work' \in [Threads -> Jobs \cup {Idle}]
    BY <1>1, <1>2, <2>2, <2>3 DEF TypeOK
  <2>5. JobsAreBacked'
    <3>1. SUFFICES ASSUME NEW t \in Threads
                   PROVE  /\ work'[t].stage = "track" => Self \in attested'[work'[t].block]
                          /\ work'[t].stage \notin {"idle", "attest", "track"} =>
                               work'[t].count <= Cardinality(attested'[work'[t].block])
                          /\ work'[t].stage \in {"notarize", "forget", "announce"} =>
                               work'[t].count >= MinAttesters
      BY DEF JobsAreBacked
    <3>2. CASE t = "blocks"
      BY <2>1, <2>2, <2>4, <3>2
    <3>3. CASE t # "blocks" /\ work[t].stage = "idle"
      BY <2>4, <3>3
    <3>4. CASE t # "blocks" /\ work[t].stage # "idle"
      <4>1. work[t].block \in Blocks /\ work[t].count \in Nat
        BY <1>1, <3>4, JobType
      <4> QED
        BY <1>1, <2>1, <2>4, <3>4, <4>1 DEF JobsAreBacked
    <3> QED
      BY <3>2, <3>3, <3>4
  <2> QED
    BY <1>1, <1>3, <2>1, <2>4, <2>5, ListStays, PartsNext DEF CountsOK, TypeOK
<1>6. CASE Finish("blocks") /\ UNCHANGED <<attested, queue>>
  <2>1. work' \in [Threads -> Jobs \cup {Idle}] /\ JobsAreBacked'
    BY <1>2, <1>6, NextStage
  <2> QED
    BY <1>1, <1>3, <1>6, <2>1, ListStays, PartsNext
       DEF CountsOK, TypeOK, CountedHaveAttested
<1> QED
  BY <1>5, <1>6 DEF OnBlockProposed

\* What is known of a goroutine that has counted.
LEMMA Counted ==
  ASSUME IInv, NEW t \in Threads,
         work[t].stage \in {"update", "notarize", "forget", "announce"}
  PROVE  /\ work[t].stage # "idle"
         /\ work[t].block \in Blocks
         /\ work[t].count \in 0 .. Cardinality(Attesters)
         /\ work[t].count <= Cardinality(attested[work[t].block])
         /\ work[t].stage # "update" => work[t].count >= MinAttesters
BY JobType DEF IInv, JobsAreBacked

LEMMA UpdateAttestersStep ==
  ASSUME IInv, NEW t \in Threads, UpdateAttesters(t)
  PROVE  IInv' /\ KeepsNotarized
<1> DEFINE b == work[t].block
           c == work[t].count
<1>1. TypeOK /\ RecordsAreIndexed /\ CountedHaveAttested
  BY DEF IInv
<1>2. /\ work[t].stage = "update" /\ AfterUpdate(t)
      /\ UNCHANGED <<panicked, attested, queue, announced, seen, young>>
  BY DEF UpdateAttesters
<1>3. /\ work[t].stage # "idle" /\ b \in Blocks
      /\ c \in 0 .. Cardinality(Attesters) /\ c <= Cardinality(attested[b])
  BY <1>2, Counted
<1>4. work' \in [Threads -> Jobs \cup {Idle}] /\ JobsAreBacked'
  <2>1. \/ Finish(t)
        \/ GoOn(t, "notarize") /\ c >= MinAttesters
    BY <1>2 DEF AfterUpdate
  <2> QED
    BY <1>2, <1>3, <2>1, NextStage
<1>5. ListOK' /\ KeepsNotarized
  <2>1. CASE index[b] = 0
    <3>1. AddRecord(b, c)
      BY <2>1 DEF UpdateAttesters
    <3> QED
      BY <1>1, <1>3, <2>1, <3>1, AddRecordStep
  <2>2. CASE index[b] # 0
    <3> DEFINE record == [recent[index[b]] EXCEPT !.attesters = c]
    <3>1. index[b] <= Len(recent) /\ ChangeRecord(b, record)
      BY <2>2 DEF UpdateAttesters
    <3>2. recent[index[b]] \in Records
      BY <1>1, <1>3, <2>2, <3>1 DEF TypeOK
    <3>3. /\ record \in Records /\ record.hash = recent[index[b]].hash
          /\ record.notarized = recent[index[b]].notarized
      BY <1>3, <3>2 DEF Records
    <3> HIDE DEF record
    <3> QED
      BY <1>1, <1>3, <2>2, <3>1, <3>3, ChangeRecordStep
  <2> QED
    BY <2>1, <2>2
<1> QED
  BY <1>1, <1>2, <1>4, <1>5, PartsNext DEF CountsOK, TypeOK, CountedHaveAttested

LEMMA RecordNotarizedStep ==
  ASSUME IInv, NEW t \in Threads, RecordNotarized(t)
  PROVE  IInv' /\ KeepsNotarized
<1> DEFINE b == work[t].block
           c == work[t].count
<1>1. TypeOK /\ RecordsAreIndexed /\ CountedHaveAttested
  BY DEF IInv
<1>2. /\ work[t].stage = "notarize" /\ GoOn(t, "forget")
      /\ UNCHANGED <<panicked, attested, queue, announced, seen, young>>
  BY DEF RecordNotarized
<1>3. /\ work[t].stage # "idle" /\ b \in Blocks /\ c >= MinAttesters
      /\ c \in 0 .. Cardinality(Attesters) /\ c <= Cardinality(attested[b])
  BY <1>2, Counted
<1>4. work' \in [Threads -> Jobs \cup {Idle}] /\ JobsAreBacked'
  BY <1>2, <1>3, NextStage
<1>5. ListOK' /\ KeepsNotarized
  <2>1. CASE index[b] = 0
    <3>1. AddNotarized(b, c)
      BY <2>1 DEF RecordNotarized
    <3> QED
      BY <1>1, <1>3, <2>1, <3>1, AddNotarizedStep
  <2>2. CASE index[b] # 0
    <3> DEFINE record == [recent[index[b]] EXCEPT !.notarized = TRUE, !.attesters = c]
    <3>1. index[b] <= Len(recent) /\ ChangeRecord(b, record)
      BY <2>2 DEF RecordNotarized
    <3>2. recent[index[b]] \in Records
      BY <1>1, <1>3, <2>2, <3>1 DEF TypeOK
    <3>3. record \in Records /\ record.hash = recent[index[b]].hash /\ record.notarized
      BY <1>3, <3>2 DEF Records
    <3> HIDE DEF record
    <3> QED
      BY <1>1, <1>3, <2>2, <3>1, <3>3, ChangeRecordStep
  <2> QED
    BY <2>1, <2>2
<1> QED
  BY <1>1, <1>2, <1>4, <1>5, PartsNext DEF CountsOK, TypeOK, CountedHaveAttested

LEMMA StopTrackingStep ==
  ASSUME IInv, NEW t \in Threads, StopTracking(t)
  PROVE  IInv' /\ KeepsNotarized
<1>1. TypeOK /\ CountedHaveAttested
  BY DEF IInv
<1>2. /\ work[t].stage = "forget" /\ GoOn(t, "announce")
      /\ seen' = [seen EXCEPT ![work[t].block] = {}]
      /\ UNCHANGED <<panicked, attested, queue, announced, young, noted>>
  BY DEF StopTracking
<1>3. work' \in [Threads -> Jobs \cup {Idle}] /\ JobsAreBacked'
  BY <1>2, Counted, NextStage
<1>4. seen' \in [Blocks -> SUBSET Attesters] /\ CountedHaveAttested'
  BY <1>1, <1>2 DEF TypeOK, CountedHaveAttested
<1> QED
  BY <1>1, <1>2, <1>3, <1>4, ListStays, PartsNext DEF CountsOK, TypeOK

LEMMA PublishNotarizedStep ==
  ASSUME IInv, NEW t \in Threads, PublishNotarized(t)
  PROVE  IInv' /\ KeepsNotarized
<1>1. TypeOK /\ CountedHaveAttested
  BY DEF IInv
<1>2. /\ work[t].stage = "announce" /\ Finish(t)
      /\ announced' = announced \cup {<<work[t].block, work[t].count>>}
      /\ UNCHANGED <<panicked, attested, queue, seen, young, noted>>
  BY DEF PublishNotarized
<1>3. /\ work[t].stage # "idle" /\ work[t].block \in Blocks
      /\ work[t].count \in 1 .. Cardinality(Attesters)
  BY <1>2, Counted, ParameterAssumption
<1>4. work' \in [Threads -> Jobs \cup {Idle}] /\ JobsAreBacked'
  BY <1>2, <1>3, NextStage
<1>5. announced' \in SUBSET (Blocks \X (1 .. Cardinality(Attesters)))
  BY <1>1, <1>2, <1>3 DEF TypeOK
<1> QED
  BY <1>1, <1>2, <1>4, <1>5, ListStays, PartsNext DEF CountsOK, TypeOK, CountedHaveAttested

LEMMA PanicStep ==
  ASSUME IInv, NEW t \in Threads, Panic(t)
  PROVE  IInv' /\ KeepsNotarized
<1>1. TypeOK /\ CountedHaveAttested
  BY DEF IInv
<1>2. /\ work' = [u \in Threads |-> Idle]
      /\ seen' = [b \in Blocks |-> {}]
      /\ attests' = [b \in Blocks |-> {}]
      /\ young' = {} /\ recent' = <<>> /\ index' = [b \in Blocks |-> 0]
      /\ panicked' = TRUE
      /\ UNCHANGED <<attested, queue, announced>>
  BY DEF Panic
<1>3. Idle.stage = "idle"
  BY DEF Idle
<1>4. JobsAreBacked'
  BY <1>2, <1>3 DEF JobsAreBacked
<1>5. CountsOK'
  BY <1>1, <1>2, <1>4 DEF CountsOK, TypeOK, CountedHaveAttested
<1>6. ListOK'
  BY <1>2, ParameterAssumption DEF ListOK, RecordsAreIndexed
<1>7. KeepsNotarized
  BY <1>2 DEF KeepsNotarized, Shown
<1> QED
  BY <1>5, <1>6, <1>7, PartsNext

LEMMA RetentionEndsStep ==
  ASSUME IInv, NEW b \in Blocks, RetentionEnds(b)
  PROVE  IInv' /\ KeepsNotarized
<1>1. /\ young' \subseteq young
      /\ UNCHANGED <<panicked, attested, queue, announced, work, seen, noted>>
  BY DEF RetentionEnds
<1>2. CountsOK'
  BY <1>1 DEF IInv, CountsOK, TypeOK, CountedHaveAttested, JobsAreBacked
<1> QED
  BY <1>1, <1>2, ListStays, PartsNext

\* Every step keeps the invariant, and what is shown as notarized.
LEMMA NextStep ==
  ASSUME IInv, [Next]_vars
  PROVE  IInv' /\ KeepsNotarized
<1>1. TypeOK /\ JobsAreBacked /\ CountedHaveAttested
  BY DEF IInv
<1>2. ASSUME NEW b \in Blocks, OnBlock(b) PROVE IInv' /\ KeepsNotarized
  BY <1>2, OnBlockStep
<1>3. ASSUME NEW b \in Blocks, RetentionEnds(b) PROVE IInv' /\ KeepsNotarized
  BY <1>3, RetentionEndsStep
<1>4. ASSUME NEW b \in Blocks, NEW a \in Attesters, Attest(a, b)
      PROVE  IInv' /\ KeepsNotarized
  BY <1>4, AttestStep
<1>5. ASSUME NEW b \in Blocks, NEW a \in Attesters, OnAttest(b, a)
      PROVE  IInv' /\ KeepsNotarized
  <2>1. a \in attested[b]
    BY <1>1, <1>5 DEF OnAttest, CountedHaveAttested
  <2>2. "attests" \in Threads /\ Track("attests", b, a) /\ queue' \subseteq queue
    BY <1>5 DEF OnAttest, Threads
  <2> QED
    BY <2>1, <2>2, TrackStep
<1>6. ASSUME OnBlockProposed PROVE IInv' /\ KeepsNotarized
  BY <1>6, OnBlockProposedStep
<1>7. ASSUME TrackOwn PROVE IInv' /\ KeepsNotarized
  <2> DEFINE b == work["blocks"].block
  <2>1. "blocks" \in Threads /\ work["blocks"].stage = "track"
    BY <1>7 DEF TrackOwn, Threads
  <2>2. b \in Blocks /\ Self \in attested[b]
    BY <1>1, <2>1, JobType DEF JobsAreBacked
  <2>3. Track("blocks", b, Self) /\ queue' \subseteq queue
    BY <1>7 DEF TrackOwn
  <2> QED
    BY <2>1, <2>2, <2>3, TrackStep
<1>8. ASSUME NEW t \in Threads,
             \/ UpdateAttesters(t) \/ RecordNotarized(t) \/ StopTracking(t)
             \/ PublishNotarized(t) \/ Panic(t)
      PROVE  IInv' /\ KeepsNotarized
  BY <1>8, UpdateAttestersStep, RecordNotarizedStep, StopTrackingStep,
     PublishNotarizedStep, PanicStep
<1>9. CASE UNCHANGED vars
  <2>1. CountsOK'
    BY <1>9 DEF vars, IInv, CountsOK, TypeOK, CountedHaveAttested, JobsAreBacked
  <2> QED
    BY <1>9, <2>1, ListStays, PartsNext DEF vars
<1> QED
  BY <1>2, <1>3, <1>4, <1>5, <1>6, <1>7, <1>8, <1>9 DEF Next

-----------------------------------------------------------------------------
(* Theorems. *)

\* Types, the index, and the counts of the goroutines hold together.
THEOREM Invariance == Spec => []IInv
<1>1. Init => IInv
  BY InitStep
<1>2. IInv /\ [Next]_vars => IInv'
  BY NextStep
<1> QED
  BY <1>1, <1>2, PTL DEF Spec

\* The service's state is well typed, and the list never exceeds its maximum.
THEOREM TypeCorrect == Spec => []TypeOK
<1>1. IInv => TypeOK
  BY DEF IInv
<1> QED
  BY <1>1, Invariance, PTL

\* Every record of the list is found through the index, at its place.
THEOREM RecordsIndexed == Spec => []RecordsAreIndexed
<1>1. IInv => RecordsAreIndexed
  BY DEF IInv
<1> QED
  BY <1>1, Invariance, PTL

\* A block shown as notarized is shown so as long as it is shown.
THEOREM NotarizedForGood == Spec => RecordStaysNotarized
<1>1. IInv /\ [Next]_vars =>
        [\A b \in Blocks : ShownNotarized(b) /\ Shown(b)' => ShownNotarized(b)']_vars
  BY NextStep DEF KeepsNotarized
<1> QED
  BY <1>1, Invariance, PTL DEF Spec, RecordStaysNotarized

\* What is announced has been attested by as many nodes, and enough of them.
LEMMA AbstractStep ==
  ASSUME IInv, [Next]_vars
  PROVE  [Abstract!Next]_<<attested, announced>>
<1>1. TypeOK
  BY DEF IInv
<1>2. ASSUME NEW b \in Blocks, NEW a \in Attesters, Publish(a, b), announced' = announced
      PROVE  Abstract!Next
  BY <1>1, <1>2 DEF Publish, TypeOK, Abstract!Next
<1>3. ASSUME NEW b \in Blocks, NEW a \in Attesters, Attest(a, b)
      PROVE  Abstract!Next
  BY <1>2, <1>3 DEF Attest
<1>4. ASSUME OnBlockProposed
      PROVE  Abstract!Next \/ UNCHANGED <<attested, announced>>
  <2>1. "blocks" \in Threads /\ work["blocks"].stage = "attest" /\ announced' = announced
    BY <1>4 DEF OnBlockProposed, Threads
  <2>2. work["blocks"].block \in Blocks
    BY <1>1, <2>1, JobType
  <2>3. Publish(Self, work["blocks"].block) \/ attested' = attested
    BY <1>4 DEF OnBlockProposed
  <2> QED
    BY <1>2, <2>1, <2>2, <2>3, ParameterAssumption
<1>5. ASSUME NEW t \in Threads, PublishNotarized(t)
      PROVE  Abstract!Next
  <2>1. /\ work[t].stage = "announce"
        /\ announced' = announced \cup {<<work[t].block, work[t].count>>}
        /\ attested' = attested
    BY <1>5 DEF PublishNotarized
  <2>2. /\ work[t].count \in 0 .. Cardinality(Attesters)
        /\ work[t].count <= Cardinality(attested[work[t].block])
        /\ work[t].count >= MinAttesters
        /\ work[t].block \in Blocks
    BY <2>1, Counted
  <2>3. Cardinality(attested[work[t].block]) \in Nat
    BY <1>1, <2>2, Counts DEF TypeOK
  <2>4. work[t].count \in MinAttesters .. Cardinality(attested[work[t].block])
    BY <2>2, <2>3, ParameterAssumption
  <2> QED
    <3>1. ASSUME NEW p \in announced' \ announced
          PROVE  p[2] \in MinAttesters .. Cardinality(attested[p[1]])
      <4>1. p = <<work[t].block, work[t].count>>
        BY <2>1
      <4> QED
        BY <2>4, <4>1
    <3>2. \A b \in Blocks : attested[b] \subseteq attested'[b]
      BY <2>1
    <3>3. announced \subseteq announced'
      BY <2>1
    <3> QED
      BY <3>1, <3>2, <3>3 DEF Abstract!Next, Abstract!Cardinality, Cardinality
<1>6. CASE \/ \E b \in Blocks : \/ OnBlock(b) \/ RetentionEnds(b)
                                \/ \E a \in Attesters : OnAttest(b, a)
           \/ TrackOwn
           \/ \E t \in Threads : \/ UpdateAttesters(t) \/ RecordNotarized(t)
                                 \/ StopTracking(t) \/ Panic(t)
           \/ UNCHANGED vars
  BY <1>6 DEF OnBlock, RetentionEnds, OnAttest, TrackOwn, Track, UpdateAttesters,
              RecordNotarized, StopTracking, Panic, vars
<1> QED
  BY <1>3, <1>4, <1>5, <1>6 DEF Next

\* Every announcement counts at least MinAttesters distinct nodes that attested
\* the block, and an announcement is never taken back.
THEOREM Refinement == Spec => ImplementsNotarization
<1>1. Init => Abstract!Init
  BY DEF Init, Abstract!Init
<1>2. IInv /\ [Next]_vars => [Abstract!Next]_<<attested, announced>>
  BY AbstractStep
<1> QED
  BY <1>1, <1>2, Invariance, PTL DEF Spec, ImplementsNotarization, Abstract!Spec
=============================================================================
