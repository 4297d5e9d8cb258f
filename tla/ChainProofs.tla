---------------------------- MODULE ChainProofs ----------------------------
(***************************************************************************)
(* Theorems about Chain, for every set of blocks and any number of         *)
(* restarts.                                                               *)
(*                                                                         *)
(* The inductive invariant has one part for each thing the acceptance of a *)
(* block leaves half done while the mutex is held: the file of the current *)
(* block may be missing until it is written, and the children queued for   *)
(* it wait in vain until they are popped.  The files that cannot be read   *)
(* are counted against the failed writes and the restarts.                 *)
(***************************************************************************)
EXTENDS Chain, FiniteSetTheorems, TLAPS

-----------------------------------------------------------------------------
(* The parts of the invariant. *)

\* The index on disk holds no block that memory has lost.
IndexBehind == index \subseteq known

\* Somebody has written the block, or failed to.
Tried(b) == file[b] # "none"

\* Of the known blocks, only the current one may have no file yet; if the
\* index on disk lists it, it has one, good or bad.
FilesFollow ==
  /\ \A b \in known : Tried(b) \/ (stage = "block" /\ b = current)
  /\ \A b \in index : Tried(b)

\* What transactions are found in has a file and contains them.
Served(f) == \A t \in Txs : f[t] # NoBlock => Tried(f[t]) /\ t \in TxsOf[f[t]]

TxsFollow == Served(txIndex) /\ Served(txFile)

\* The block handed to the hook is known, and has a file once it is released.
HookFollows ==
  /\ caller # NoBlock => caller \in known
  /\ hook # NoBlock => Tried(hook)

\* Each bad file is the fault of a failed write or a restart of its own.
BadFiles == {b \in Blocks : file[b] = "bad"}

LossCounted ==
  /\ IsFiniteSet(BadFiles)
  /\ Cardinality(BadFiles) <= failures + crashes

\* Only the children of the current block wait for a known parent, and only
\* until they are popped.
OnlyCurrentAwaited ==
  \A b \in waiting :
    Connects(b) => /\ stage \in {"block", "index", "txs"}
                   /\ Parent[b] = current

IInv ==
  /\ TypeOK
  /\ NoHoles
  /\ IndexBehind
  /\ FilesFollow
  /\ TxsFollow
  /\ HookFollows
  /\ LossCounted
  /\ OnlyCurrentAwaited
  /\ TipIsHighest

LEMMA InitIInv == Init => IInv
<1> SUFFICES ASSUME Init PROVE IInv
  OBVIOUS
<1>1. LossCounted
  <2>1. BadFiles = {}
    BY DEF Init, BadFiles
  <2> QED
    BY <2>1, FS_EmptySet, BlockAssumption DEF Init, LossCounted
<1> QED
  BY <1>1, BlockAssumption
  DEF Init, IInv, TypeOK, MaybeBlock, NoTxs, NoHoles, Rooted, IndexBehind,
      FilesFollow, TxsFollow, Served, HookFollows, OnlyCurrentAwaited,
      TipIsHighest

\* A step that spoils at most one file, and counts it, keeps the account.
LEMMA LossStaysCounted ==
  ASSUME IInv, NEW b, NEW d \in {0, 1},
         BadFiles' \subseteq BadFiles \cup (IF d = 0 THEN {} ELSE {b}),
         (failures + crashes)' = failures + crashes + d
  PROVE  LossCounted'
<1>1. /\ IsFiniteSet(BadFiles) /\ Cardinality(BadFiles) <= failures + crashes
      /\ failures + crashes \in Nat
  BY BlockAssumption DEF IInv, LossCounted, TypeOK
<1>2. Cardinality(BadFiles) \in Nat
  BY <1>1, FS_CardinalityType
<1>3. CASE d = 0
  <2>1. BadFiles' \subseteq BadFiles
    BY <1>3
  <2>2. IsFiniteSet(BadFiles') /\ Cardinality(BadFiles') <= Cardinality(BadFiles)
    BY <1>1, <2>1, FS_Subset
  <2> QED
    BY <1>1, <1>2, <1>3, <2>2, FS_CardinalityType DEF LossCounted
<1>4. CASE d = 1
  <2>1. BadFiles' \subseteq BadFiles \cup {b}
    BY <1>4
  <2>2. /\ IsFiniteSet(BadFiles \cup {b})
        /\ Cardinality(BadFiles \cup {b}) <= Cardinality(BadFiles) + 1
    BY <1>1, <1>2, FS_AddElement
  <2>3. /\ IsFiniteSet(BadFiles')
        /\ Cardinality(BadFiles') <= Cardinality(BadFiles \cup {b})
    BY <2>1, <2>2, FS_Subset
  <2>4. Cardinality(BadFiles') \in Nat /\ Cardinality(BadFiles \cup {b}) \in Nat
    BY <2>2, <2>3, FS_CardinalityType
  <2> QED
    BY <1>1, <1>2, <1>4, <2>2, <2>3, <2>4 DEF LossCounted
<1> QED
  BY <1>3, <1>4

\* A step that writes no file and counts no trouble keeps it too.
LEMMA LossUntouched ==
  ASSUME IInv, UNCHANGED <<file, trouble>>
  PROVE  LossCounted'
BY DEF IInv, LossCounted, BadFiles, trouble

-----------------------------------------------------------------------------
(* The beginning of acceptBlockLocked. *)

\* A block that connects leaves no hole, and the tip stays a highest block.
LEMMA AcceptKeepsTree ==
  ASSUME IInv, NEW b \in Blocks, Connects(b), Accept(b),
         UNCHANGED <<index, trouble>>
  PROVE  /\ known' = known \cup {b}
         /\ known' \subseteq Blocks
         /\ (tip \in known \cup {NoBlock})'
         /\ NoHoles'
         /\ IndexBehind'
         /\ TipIsHighest'
<1> USE BlockAssumption DEF IInv, TypeOK, MaybeBlock, trouble
<1>1. known' = known \cup {b} /\ tip' = TipAfter(b)
  BY DEF Accept
<1>2. (tip \in known \cup {NoBlock})' /\ known' \subseteq Blocks
  BY <1>1 DEF TipAfter
<1>3. NoHoles' /\ IndexBehind'
  BY <1>1 DEF NoHoles, Rooted, IndexBehind, Connects
<1>4. TipIsHighest'
  <2>1. TipHeight \in Nat /\ TipHeight' \in Nat
    BY <1>2 DEF TipHeight
  <2>2. TipHeight' >= TipHeight /\ TipHeight' >= Height[b]
    BY <1>1, <2>1 DEF TipAfter, TipHeight
  <2> QED
    BY <1>1, <2>1, <2>2 DEF TipIsHighest
<1> QED
  BY <1>1, <1>2, <1>3, <1>4

\* A block that becomes known makes only its own children connect.
LEMMA AcceptAwaitsChildren ==
  ASSUME IInv, NEW b \in Blocks, Accept(b), UNCHANGED waiting,
         stage \in {"idle", "children"}
  PROVE  OnlyCurrentAwaited'
<1>1. \A c \in waiting : ~Connects(c)
  BY DEF IInv, OnlyCurrentAwaited
<1>2. known' = known \cup {b} /\ current' = b /\ stage' = "block"
  BY DEF Accept
<1>3. ASSUME NEW c \in waiting, Connects(c)'
      PROVE  Parent[c] = b
  BY <1>1, <1>2, <1>3 DEF Connects
<1> QED
  BY <1>2, <1>3 DEF OnlyCurrentAwaited

\* What Inject does to the invariant, for the fetch and for the cascade.
LEMMA InjectKeepsIInv ==
  ASSUME IInv, NEW b \in Blocks, Inject(b), stage \in {"idle", "children"},
         stage = "idle" => caller = NoBlock \/ caller \in known,
         UNCHANGED <<txIndex, caller, disk, hook, cursor, proposed, trouble>>,
         cascade' \in SUBSET Blocks, fetching' \in SUBSET MaybeBlock
  PROVE  IInv'
<1> USE BlockAssumption DEF trouble
<1>0. LossCounted'
  BY LossUntouched DEF disk
<1>1. CASE Connects(b)
  <2>1. Accept(b) /\ UNCHANGED waiting
    BY <1>1 DEF Inject
  <2>2. /\ known' = known \cup {b}
        /\ known' \subseteq Blocks
        /\ (tip \in known \cup {NoBlock})'
        /\ NoHoles'
        /\ IndexBehind'
        /\ TipIsHighest'
    BY <1>1, <2>1, AcceptKeepsTree DEF disk
  <2>3. OnlyCurrentAwaited'
    BY <2>1, AcceptAwaitsChildren
  <2>4. TypeOK'
    BY <2>1, <2>2 DEF IInv, TypeOK, Accept, MaybeBlock, disk
  <2>5. FilesFollow' /\ TxsFollow' /\ HookFollows'
    BY <2>1, <2>2 DEF IInv, FilesFollow, TxsFollow, Served, HookFollows, Tried,
                      Accept, disk
  <2> QED
    BY <1>0, <2>2, <2>3, <2>4, <2>5 DEF IInv
<1>2. CASE ~Connects(b)
  <2>1. waiting' = waiting \cup {b} /\ UNCHANGED <<known, tip, current, stage>>
    BY <1>2 DEF Inject
  <2>2. TypeOK'
    BY <2>1 DEF IInv, TypeOK, MaybeBlock, disk
  <2>3. OnlyCurrentAwaited'
    BY <1>2, <2>1 DEF IInv, OnlyCurrentAwaited, Connects
  <2> QED
    BY <1>0, <2>1, <2>2, <2>3
    DEF IInv, NoHoles, IndexBehind, FilesFollow, TxsFollow, Served, HookFollows,
        Tried, TipIsHighest, TipHeight, disk
<1> QED
  BY <1>1, <1>2

-----------------------------------------------------------------------------
(* The actions. *)

LEMMA ReceiveKeepsIInv ==
  ASSUME IInv, NEW b \in Blocks, ReceiveConnected(b) \/ ReceiveOrphan(b)
  PROVE  IInv'
<1> USE BlockAssumption DEF trouble
<1>0. LossCounted'
  BY LossUntouched DEF ReceiveConnected, ReceiveOrphan, disk
<1>1. CASE ReceiveConnected(b)
  <2>1. /\ known' = known \cup {b}
        /\ known' \subseteq Blocks
        /\ (tip \in known \cup {NoBlock})'
        /\ NoHoles'
        /\ IndexBehind'
        /\ TipIsHighest'
    BY <1>1, AcceptKeepsTree DEF ReceiveConnected, disk
  <2>2. OnlyCurrentAwaited'
    BY <1>1, AcceptAwaitsChildren DEF ReceiveConnected
  <2>3. TypeOK'
    BY <1>1, <2>1 DEF IInv, TypeOK, ReceiveConnected, Accept, MaybeBlock, disk, goroutines
  <2>4. FilesFollow' /\ TxsFollow' /\ HookFollows'
    BY <1>1, <2>1 DEF IInv, FilesFollow, TxsFollow, Served, HookFollows, Tried,
                      ReceiveConnected, Accept, disk, goroutines
  <2> QED
    BY <1>0, <2>1, <2>2, <2>3, <2>4 DEF IInv
<1>2. CASE ReceiveOrphan(b)
  <2>1. TypeOK'
    BY <1>2 DEF IInv, TypeOK, ReceiveOrphan, MaybeBlock, call, disk
  <2>2. OnlyCurrentAwaited'
    BY <1>2 DEF IInv, OnlyCurrentAwaited, ReceiveOrphan, Connects, call
  <2> QED
    BY <1>0, <1>2, <2>1, <2>2
    DEF IInv, ReceiveOrphan, NoHoles, IndexBehind, FilesFollow, TxsFollow, Served,
        HookFollows, Tried, TipIsHighest, TipHeight, call, disk
<1> QED
  BY <1>1, <1>2

LEMMA WriteKeepsIInv ==
  ASSUME IInv, Write
  PROVE  IInv'
<1> USE BlockAssumption DEF memory, goroutines, Succeeds
<1>0. /\ failures' \in 0 .. MaxFailures
      /\ failures' = failures \/ (failures + crashes)' = failures + crashes + 1
      /\ failures \in Nat /\ crashes \in Nat /\ crashes' = crashes
  BY DEF IInv, TypeOK, Write, SaveBlock, SaveIndex, SaveTxIndex, Fails
<1>1. CASE SaveBlock
  <2>1. \A b \in Blocks : Tried(b) \/ b = current => Tried(b)'
    BY <1>1 DEF IInv, TypeOK, SaveBlock, Tried
  <2>2. TypeOK'
    BY <1>0, <1>1 DEF IInv, TypeOK, SaveBlock, MaybeBlock
  <2>3. FilesFollow'
    BY <1>1, <2>1 DEF IInv, TypeOK, FilesFollow, SaveBlock
  <2>4. Served(txIndex)' /\ Served(txFile)'
    BY <1>1, <2>1 DEF IInv, TypeOK, TxsFollow, Served, SaveBlock, MaybeBlock
  <2>5. HookFollows'
    BY <1>1, <2>1 DEF IInv, TypeOK, HookFollows, SaveBlock, MaybeBlock
  <2>6. OnlyCurrentAwaited'
    BY <1>1 DEF IInv, OnlyCurrentAwaited, SaveBlock, Connects
  <2>7. LossCounted'
    <3>1. CASE failures' = failures
      <4>1. file' = [file EXCEPT ![current] = "whole"]
        BY <1>0, <1>1, <3>1 DEF SaveBlock, Fails
      <4>2. BadFiles' \subseteq BadFiles
        BY <4>1 DEF IInv, TypeOK, BadFiles
      <4> QED
        BY <1>0, <3>1, <4>2, LossStaysCounted
    <3>2. CASE (failures + crashes)' = failures + crashes + 1
      <4>1. BadFiles' \subseteq BadFiles \cup {current}
        BY <1>1 DEF SaveBlock, IInv, TypeOK, BadFiles
      <4> QED
        BY <3>2, <4>1, LossStaysCounted
    <3> QED
      BY <1>0, <3>1, <3>2
  <2> QED
    BY <1>0, <1>1, <2>2, <2>3, <2>4, <2>5, <2>6, <2>7
    DEF IInv, SaveBlock, NoHoles, IndexBehind, TxsFollow, TipIsHighest, TipHeight
<1>2. ASSUME UNCHANGED file
      PROVE  LossCounted'
  <2>1. BadFiles' = BadFiles
    BY <1>2 DEF BadFiles
  <2>2. CASE failures' = failures
    BY <1>0, <2>1, <2>2, LossStaysCounted
  <2>3. CASE (failures + crashes)' = failures + crashes + 1
    BY <2>1, <2>3, LossStaysCounted
  <2> QED
    BY <1>0, <2>2, <2>3
<1>3. CASE SaveIndex
  <2>1. current \in known /\ Tried(current)
    BY <1>3 DEF IInv, TypeOK, FilesFollow, SaveIndex
  <2>2. TypeOK'
    BY <1>0, <1>3, <2>1 DEF IInv, TypeOK, SaveIndex, IndexTxs, MaybeBlock
  <2>3. index' \in {known, index, {}}
    BY <1>3 DEF SaveIndex
  <2>4. FilesFollow' /\ HookFollows' /\ NoHoles' /\ IndexBehind'
    BY <1>3, <2>3
    DEF IInv, FilesFollow, HookFollows, SaveIndex, Tried, NoHoles, Rooted,
        IndexBehind
  <2>5. TxsFollow'
    BY <1>3, <2>1 DEF IInv, TxsFollow, Served, SaveIndex, IndexTxs, Tried
  <2>6. OnlyCurrentAwaited'
    BY <1>3 DEF IInv, OnlyCurrentAwaited, SaveIndex, Connects
  <2> QED
    BY <1>0, <1>2, <1>3, <2>2, <2>4, <2>5, <2>6
    DEF IInv, SaveIndex, TipIsHighest, TipHeight
<1>4. CASE SaveTxIndex
  <2>1. txFile' \in {txIndex, txFile, NoTxs}
    BY <1>4 DEF SaveTxIndex
  <2>2. NoTxs \in [Txs -> MaybeBlock] /\ Served(NoTxs)'
    BY DEF NoTxs, MaybeBlock, Served
  <2>3. TypeOK'
    BY <1>0, <1>4, <2>1, <2>2 DEF IInv, TypeOK, SaveTxIndex, ChildrenOf, MaybeBlock
  <2>4. TxsFollow'
    <3>1. Served(txIndex)' /\ UNCHANGED txIndex
      BY <1>4 DEF IInv, TxsFollow, Served, SaveTxIndex, Tried
    <3>2. ASSUME UNCHANGED txFile PROVE Served(txFile)'
      BY <1>4, <3>2 DEF IInv, TxsFollow, Served, SaveTxIndex, Tried
    <3> QED
      BY <2>1, <2>2, <3>1, <3>2 DEF TxsFollow, Served, NoTxs
  <2>5. FilesFollow' /\ HookFollows'
    BY <1>4 DEF IInv, FilesFollow, HookFollows, SaveTxIndex, Tried
  <2>6. OnlyCurrentAwaited'
    BY <1>4 DEF IInv, OnlyCurrentAwaited, SaveTxIndex, ChildrenOf, Connects
  <2> QED
    BY <1>0, <1>2, <1>4, <2>3, <2>4, <2>5, <2>6
    DEF IInv, SaveTxIndex, NoHoles, IndexBehind, TipIsHighest, TipHeight
<1> QED
  BY <1>1, <1>3, <1>4 DEF Write

LEMMA CascadeKeepsIInv ==
  ASSUME IInv, Cascade
  PROVE  IInv'
<1>1. ASSUME NEW c \in Blocks, HandleChild(c)
      PROVE  IInv'
  <2>1. /\ stage = "children"
        /\ Inject(c)
        /\ UNCHANGED <<txIndex, caller, disk, hook, cursor, proposed, trouble>>
        /\ cascade' \in SUBSET Blocks
        /\ fetching' \in SUBSET MaybeBlock
    BY <1>1 DEF IInv, TypeOK, HandleChild, goroutines
  <2> QED
    BY <2>1, InjectKeepsIInv
<1>2. CASE Unlock
  <2>1. TypeOK'
    BY <1>2 DEF IInv, TypeOK, Unlock, MaybeBlock, memory, disk, trouble
  <2>2. HookFollows'
    BY <1>2 DEF IInv, FilesFollow, HookFollows, Unlock, Tried, memory, disk
  <2>3. OnlyCurrentAwaited'
    BY <1>2 DEF IInv, OnlyCurrentAwaited, Unlock, Connects, memory
  <2>4. LossCounted'
    BY <1>2, LossUntouched DEF Unlock, disk
  <2> QED
    BY <1>2, <2>1, <2>2, <2>3, <2>4
    DEF IInv, Unlock, NoHoles, IndexBehind, FilesFollow, TxsFollow, Served, Tried,
        TipIsHighest, TipHeight, memory, disk, trouble
<1> QED
  BY <1>1, <1>2 DEF Cascade

\* The disk a crash leaves serves all it served, and no index gains a block.
LEMMA RestartKeepsIInv ==
  ASSUME IInv, Restart
  PROVE  IInv'
<1> USE BlockAssumption
<1>1. DiskAfterCrash
  BY DEF Restart
<1>2. /\ file' \in [Blocks -> {"none", "bad", "whole"}]
      /\ \A b \in Blocks : Tried(b) => Tried(b)'
  BY <1>1 DEF DiskAfterCrash, disk, IInv, TypeOK, Tried
<1>3. index' \subseteq index /\ Rooted(index')
  BY <1>1 DEF DiskAfterCrash, disk, IInv, NoHoles, Rooted
<1>4. txFile' \in [Txs -> MaybeBlock] /\ Served(txFile)'
  <2>1. Served(txFile)
    BY DEF IInv, TxsFollow
  <2>2. txFile' = txFile \/ txFile' = NoTxs
    BY <1>1 DEF DiskAfterCrash, disk
  <2> QED
    BY <1>2, <2>1, <2>2 DEF IInv, TypeOK, NoTxs, MaybeBlock, Served
<1>5. \A b \in index : Tried(b)'
  BY <1>2 DEF IInv, TypeOK, FilesFollow
<1>6. TypeOK'
  BY <1>2, <1>3, <1>4 DEF Restart, IInv, TypeOK, MaybeBlock
<1>7. NoHoles' /\ IndexBehind' /\ OnlyCurrentAwaited'
  BY <1>3 DEF Restart, NoHoles, Rooted, IndexBehind, OnlyCurrentAwaited
<1>8. FilesFollow'
  BY <1>3, <1>5 DEF Restart, FilesFollow
<1>9. TxsFollow'
  BY <1>4 DEF Restart, TxsFollow, Served, Tried
<1>10. HookFollows'
  BY <1>2 DEF Restart, IInv, TypeOK, HookFollows
<1>11. TipIsHighest'
  BY DEF Restart, IInv, TypeOK, TipIsHighest
<1>12. LossCounted'
  <2>1. BadFiles' \subseteq BadFiles \cup {current}
    BY <1>1 DEF DiskAfterCrash, disk, IInv, TypeOK, BadFiles
  <2>2. (failures + crashes)' = failures + crashes + 1
    BY BlockAssumption DEF Restart, IInv, TypeOK
  <2> QED
    BY <2>1, <2>2, LossStaysCounted
<1> QED
  BY <1>12, <1>6, <1>7, <1>8, <1>9, <1>10, <1>11 DEF IInv

LEMMA NextIInv == IInv /\ [Next]_vars => IInv'
<1> SUFFICES ASSUME IInv, [Next]_vars PROVE IInv'
  OBVIOUS
<1>1. ASSUME NEW b \in Blocks, ReceiveConnected(b) \/ ReceiveOrphan(b)
      PROVE  IInv'
  BY <1>1, ReceiveKeepsIInv
<1>2. ASSUME NEW b \in Blocks, FetchParent(b)
      PROVE  IInv'
  <2>1. /\ stage = "idle"
        /\ Inject(b)
        /\ UNCHANGED <<txIndex, caller, disk, hook, cursor, proposed, trouble>>
        /\ cascade' \in SUBSET Blocks
        /\ fetching' \in SUBSET MaybeBlock
        /\ caller = NoBlock \/ caller \in known
    BY <1>2 DEF IInv, TypeOK, HookFollows, FetchParent
  <2> QED
    BY <2>1, InjectKeepsIInv
<1>3. CASE Write
  BY <1>3, WriteKeepsIInv
<1>4. CASE Cascade
  BY <1>4, CascadeKeepsIInv
<1>5. CASE Restart
  BY <1>5, RestartKeepsIInv
<1>6. ASSUME UNCHANGED <<memory, call, disk, trouble>>,
             TypeOK',
             hook' \in {hook, NoBlock}
      PROVE  IInv'
  <2>1. LossCounted'
    BY <1>6, LossUntouched DEF disk
  <2> QED
    BY <1>6, <2>1
    DEF memory, call, disk, trouble, IInv, NoHoles, IndexBehind, FilesFollow,
        TxsFollow, Served, HookFollows, Tried, OnlyCurrentAwaited, Connects,
        TipIsHighest, TipHeight
<1>7. ASSUME NEW b \in MaybeBlock, FetchFails(b)
      PROVE  IInv'
  <2>1. TypeOK'
    BY <1>7 DEF IInv, TypeOK, FetchFails, memory, call, disk, trouble
  <2> QED
    BY <1>6, <1>7, <2>1 DEF FetchFails
<1>8. CASE RetryFetches
  <2>1. TypeOK'
    BY <1>8, BlockAssumption
    DEF IInv, TypeOK, RetryFetches, MaybeBlock, memory, call, disk, trouble
  <2> QED
    BY <1>6, <1>8, <2>1 DEF RetryFetches
<1>9. CASE RunHook
  <2>1. TypeOK'
    BY <1>9 DEF IInv, TypeOK, RunHook, MaybeBlock, memory, call, disk, trouble
  <2> QED
    BY <1>6, <1>9, <2>1 DEF RunHook
<1>10. CASE ReadTip
  <2>1. TypeOK'
    BY <1>10 DEF IInv, TypeOK, ReadTip, MaybeBlock, memory, call, disk, trouble
  <2> QED
    BY <1>6, <1>10, <2>1 DEF ReadTip
<1>11. ASSUME NEW b \in Own, Propose(b)
       PROVE  IInv'
  <2>1. TypeOK'
    BY <1>11 DEF IInv, TypeOK, Propose, memory, call, disk, trouble
  <2> QED
    BY <1>6, <1>11, <2>1 DEF Propose
<1>12. CASE SkipTick
  <2>1. TypeOK'
    BY <1>12 DEF IInv, TypeOK, SkipTick, memory, call, disk, trouble
  <2> QED
    BY <1>6, <1>12, <2>1 DEF SkipTick
<1>13. CASE UNCHANGED vars
  <2>1. TypeOK'
    BY <1>13 DEF IInv, TypeOK, vars, memory, call, disk, goroutines, trouble
  <2> QED
    BY <1>6, <1>13, <2>1 DEF vars, goroutines
<1> QED
  BY <1>1, <1>2, <1>3, <1>4, <1>5, <1>7, <1>8, <1>9, <1>10, <1>11, <1>12, <1>13
  DEF Next

\* The parts hold together in every reachable state.
THEOREM InvariantHolds == Spec => []IInv
BY InitIInv, NextIInv, PTL DEF Spec

-----------------------------------------------------------------------------
(* The properties. *)

\* The store has no holes, in memory and on disk.
THEOREM StoreHasNoHoles == Spec => []NoHoles
<1>1. IInv => NoHoles
  BY DEF IInv
<1> QED
  BY <1>1, InvariantHolds, PTL

\* No block waits for a parent that is known.
THEOREM CascadeIsComplete == Spec => []NoneWaitsInVain
<1>1. IInv => NoneWaitsInVain
  BY DEF IInv, OnlyCurrentAwaited, NoneWaitsInVain
<1> QED
  BY <1>1, InvariantHolds, PTL

\* What the index lists, a transaction is found in and the other layers are
\* told of can be read, but for one block a failed write or restart.
THEOREM LossBounded == Spec => []LossIsBounded
<1>1. IInv => LossIsBounded
  <2> SUFFICES ASSUME IInv PROVE LossIsBounded
    OBVIOUS
  <2>1. \A b \in Promised : b \in Blocks /\ Tried(b)
    BY DEF Promised, IInv, TypeOK, MaybeBlock, FilesFollow, TxsFollow, Served,
           HookFollows
  <2>2. {b \in Promised : file[b] # "whole"} \subseteq BadFiles
    BY <2>1 DEF BadFiles, Tried, IInv, TypeOK
  <2>3. /\ IsFiniteSet(BadFiles) /\ Cardinality(BadFiles) <= failures + crashes
        /\ failures + crashes \in Nat
    BY BlockAssumption DEF IInv, LossCounted, TypeOK
  <2>4. /\ IsFiniteSet({b \in Promised : file[b] # "whole"})
        /\ Cardinality({b \in Promised : file[b] # "whole"}) <= Cardinality(BadFiles)
    BY <2>2, <2>3, FS_Subset
  <2>5. Cardinality({b \in Promised : file[b] # "whole"}) <= failures + crashes
    BY <2>3, <2>4, FS_CardinalityType
  <2>6. \A t \in Txs : txIndex[t] # NoBlock => t \in TxsOf[txIndex[t]]
    BY DEF IInv, TxsFollow, Served
  <2> QED
    BY <2>1, <2>5, <2>6 DEF LossIsBounded, Tried
<1> QED
  BY <1>1, InvariantHolds, PTL

\* The tip is a known block, and before any restart a highest one.
THEOREM TipSound == Spec => []TipIsSound
<1>1. IInv => TipIsSound
  BY DEF IInv, TipIsSound
<1> QED
  BY <1>1, InvariantHolds, PTL
=============================================================================
