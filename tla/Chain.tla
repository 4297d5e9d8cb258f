------------------------------- MODULE Chain -------------------------------
(***************************************************************************)
(* The block store of one node (internal/blockchain/block.go): blocks are  *)
(* accepted above a block that is known, or wait for their parent, which   *)
(* is fetched from peers; every accepted block is written to disk, and a   *)
(* restart reads the disk.  The builder proposes blocks on top of the tip. *)
(*                                                                         *)
(* acceptBlockLocked holds the mutex while it writes three files and then  *)
(* accepts the blocks that waited.  Each write is an action, because the   *)
(* process may stop before, after or in the middle of it: os.WriteFile     *)
(* empties a file before it fills it.  A write may also fail; the error is *)
(* dropped and the acceptance goes on.  While stage is not "idle" the      *)
(* mutex is held and whoever needs it waits.                               *)
(*                                                                         *)
(* Blocks of other producers are in flight from the start: gossip delivers *)
(* them at any time, again, or never.  All blocks are taken to be valid;   *)
(* one that is not leaves no trace.                                        *)
(***************************************************************************)
EXTENDS Naturals, FiniteSets

CONSTANTS
  Blocks,     \* the blocks producers publish
  Own,        \* those of this node's builder
  NoBlock,    \* the empty hash
  Parent,     \* PrevHash of a block
  Height,     \* Height of a block
  Txs,        \* transaction ids
  TxsOf,      \* TxIDs of a block
  Idle,       \* a builder between two ticks
  MaxCrashes, \* bound on the restarts of the node
  MaxFailures \* bound on the writes that fail

ASSUME BlockAssumption ==
  /\ Own \subseteq Blocks
  /\ NoBlock \notin Blocks
  /\ Parent \in [Blocks -> Blocks \cup {NoBlock}]
  /\ Height \in [Blocks -> Nat \ {0}]
  /\ TxsOf \in [Blocks -> SUBSET Txs]
  /\ Idle \notin Blocks \cup {NoBlock}
  /\ MaxCrashes \in Nat
  /\ MaxFailures \in Nat

VARIABLES
  known,     \* Chain.known
  tip,       \* Chain.TipHash; TipHeight is its height
  txIndex,   \* Chain.txIndex: the block a transaction is found in
  waiting,   \* Chain.waiting: blocks queued until their parent comes
  stage,     \* what acceptBlockLocked does next, "idle" when nobody is in it
  current,   \* the block it is at
  cascade,   \* queued children it has taken out and not handled yet
  caller,    \* the block the subscriber is accepting, if it is in there
  hook,      \* an accepted block whose hook is to be called
  fetching,  \* parents some goroutine is asking the peers for
  cursor,    \* the builder's prev, read at its tick
  file,      \* file[b]: the block's file on disk, "bad" if its last write
             \* failed or was cut short and left nothing that can be read
  index,     \* the known blocks in index.json, {} if it cannot be read
  txFile,    \* txindex.json
  proposed,  \* blocks the builder has published
  crashes,
  failures

memory == <<known, tip, txIndex, waiting>>
call == <<stage, current, cascade, caller>>
disk == <<file, index, txFile>>
goroutines == <<hook, fetching, cursor>>
trouble == <<crashes, failures>>
vars == <<memory, call, disk, goroutines, proposed, trouble>>

MaybeBlock == Blocks \cup {NoBlock}
NoTxs == [t \in Txs |-> NoBlock]

TypeOK ==
  /\ known \in SUBSET Blocks
  /\ tip \in known \cup {NoBlock}
  /\ txIndex \in [Txs -> MaybeBlock]
  /\ waiting \in SUBSET Blocks
  /\ stage \in {"idle", "block", "index", "txs", "children"}
  /\ current \in MaybeBlock
  /\ stage # "idle" => current \in known
  /\ cascade \in SUBSET Blocks
  /\ caller \in MaybeBlock
  /\ hook \in MaybeBlock
  /\ fetching \in SUBSET MaybeBlock
  /\ cursor \in MaybeBlock \cup {Idle}
  /\ file \in [Blocks -> {"none", "bad", "whole"}]
  /\ index \in SUBSET Blocks
  /\ txFile \in [Txs -> MaybeBlock]
  /\ proposed \in SUBSET Own
  /\ crashes \in 0 .. MaxCrashes
  /\ failures \in 0 .. MaxFailures

Init ==
  /\ known = {} /\ tip = NoBlock /\ txIndex = NoTxs /\ waiting = {}
  /\ stage = "idle" /\ current = NoBlock /\ cascade = {} /\ caller = NoBlock
  /\ hook = NoBlock /\ fetching = {} /\ cursor = Idle
  /\ file = [b \in Blocks |-> "none"] /\ index = {} /\ txFile = NoTxs
  /\ proposed = {} /\ crashes = 0 /\ failures = 0

-----------------------------------------------------------------------------
(* Acceptance. *)

\* Blocks the network has.
Published == (Blocks \ Own) \cup proposed

\* A first block, or one right above a known block.
Connects(b) ==
  \/ Height[b] = 1 /\ Parent[b] = NoBlock
  \/ Parent[b] \in known /\ Height[b] = Height[Parent[b]] + 1

TipHeight == IF tip = NoBlock THEN 0 ELSE Height[tip]

\* Mutant: the tip is the block accepted last.
TipIsLatest(b) == b

\* The tip moves to any higher block, on whatever branch; the two other
\* conditions of the code are cases of this one.
TipAfter(b) == IF Height[b] > TipHeight THEN b ELSE tip

\* acceptBlockLocked begins: the block is known and may become the tip.
Accept(b) ==
  /\ known' = known \cup {b}
  /\ tip' = TipAfter(b)
  /\ current' = b
  /\ stage' = "block"

\* A block of the topic is accepted, ...
ReceiveConnected(b) ==
  /\ stage = "idle" /\ caller = NoBlock /\ hook = NoBlock
  /\ b \in Published
  /\ Connects(b)
  /\ Accept(b)
  /\ caller' = b
  /\ UNCHANGED <<txIndex, waiting, cascade, disk, goroutines, proposed, trouble>>

\* ... or queued, and a goroutine started that fetches its parent.
ReceiveOrphan(b) ==
  /\ stage = "idle" /\ caller = NoBlock /\ hook = NoBlock
  /\ b \in Published
  /\ ~Connects(b)
  /\ waiting' = waiting \cup {b}
  /\ fetching' = fetching \cup {Parent[b]}
  /\ UNCHANGED <<known, tip, txIndex, call, disk, hook, cursor, proposed, trouble>>

\* Mutant: an orphan fetched from a peer is not queued.
DropFetched(b) ==
  IF Connects(b)
  THEN Accept(b) /\ UNCHANGED waiting
  ELSE UNCHANGED <<known, tip, current, stage, waiting>>

\* Mutant: a fetched block is accepted, whatever is below it.
InjectAlways(b) == Accept(b) /\ UNCHANGED waiting

\* A fetched block is accepted, without a hook, or queued.
Inject(b) ==
  IF Connects(b)
  THEN Accept(b) /\ UNCHANGED waiting
  ELSE waiting' = waiting \cup {b} /\ UNCHANGED <<known, tip, current, stage>>

\* A peer serves the parent from its disk (fetchAndInjectParent).
FetchParent(b) ==
  /\ stage = "idle"
  /\ b \in fetching \cap Published
  /\ fetching' = fetching \ {b}
  /\ Inject(b)
  /\ UNCHANGED <<txIndex, cascade, caller, disk, hook, cursor, proposed, trouble>>

\* No peer has it.
FetchFails(b) ==
  /\ b \in fetching
  /\ fetching' = fetching \ {b}
  /\ UNCHANGED <<memory, call, disk, hook, cursor, proposed, trouble>>

\* The retry loop, every two seconds: ask again for all that is waited for.
RetryFetches ==
  /\ stage = "idle"
  /\ fetching' = fetching \cup {Parent[b] : b \in waiting}
  /\ UNCHANGED <<memory, call, disk, hook, cursor, proposed, trouble>>

\* Mutant: the block is not written.
SaveNothing ==
  /\ stage = "block"
  /\ stage' = "index"
  /\ UNCHANGED <<memory, current, cascade, caller, disk, goroutines, proposed, trouble>>

\* A write succeeds, or fails.
Succeeds == UNCHANGED failures

Fails ==
  /\ failures < MaxFailures
  /\ failures' = failures + 1

\* saveBlock.  A write that fails leaves the file as it was, which is fine if
\* the block was accepted before, or empties it.
SaveBlock ==
  /\ stage = "block"
  /\ \/ Succeeds /\ file' = [file EXCEPT ![current] = "whole"]
     \/ /\ Fails
        /\ \E f \in {file[current], "bad"} \ {"none"} :
             file' = [file EXCEPT ![current] = f]
  /\ stage' = "index"
  /\ UNCHANGED <<memory, current, cascade, caller, index, txFile, goroutines,
                 proposed, crashes>>

\* The first block with a transaction is the one it is found in.
IndexTxs(b) ==
  [t \in Txs |-> IF t \in TxsOf[b] /\ txIndex[t] = NoBlock THEN b
                                                           ELSE txIndex[t]]

\* saveIndex, after which the index of transactions is updated.  The tip is
\* written too, under names that loadIndex does not read.
SaveIndex ==
  /\ stage = "index"
  /\ \/ Succeeds /\ index' = known
     \/ Fails /\ index' \in {index, {}}
  /\ txIndex' = IndexTxs(current)
  /\ stage' = "txs"
  /\ UNCHANGED <<known, tip, waiting, current, cascade, caller, file, txFile,
                 goroutines, proposed, crashes>>

\* Blocks queued for b.
ChildrenOf(b) == {c \in waiting : Parent[c] = b}

\* Mutant: only the block that came in has its children popped.
SaveTxIndexFlat ==
  /\ stage = "txs"
  /\ txFile' = txIndex
  /\ cascade' = cascade \cup (IF caller = current THEN ChildrenOf(current) ELSE {})
  /\ waiting' = waiting \ (cascade' \ cascade)
  /\ stage' = "children"
  /\ UNCHANGED <<known, tip, txIndex, current, caller, file, index, goroutines,
                 proposed, trouble>>

\* saveTxIndex and popChildren.
SaveTxIndex ==
  /\ stage = "txs"
  /\ \/ Succeeds /\ txFile' = txIndex
     \/ Fails /\ txFile' \in {txFile, NoTxs}
  /\ cascade' = cascade \cup ChildrenOf(current)
  /\ waiting' = waiting \ ChildrenOf(current)
  /\ stage' = "children"
  /\ UNCHANGED <<known, tip, txIndex, current, caller, file, index, goroutines,
                 proposed, crashes>>

\* The loop over the children: each is accepted in turn, with its own
\* children, or queued again if its height is not one above its parent's.
\* The code goes depth first, in the order they were queued.
HandleChild(c) ==
  /\ stage = "children"
  /\ c \in cascade
  /\ cascade' = cascade \ {c}
  /\ Inject(c)
  /\ UNCHANGED <<txIndex, caller, disk, goroutines, proposed, trouble>>

\* All children are handled and the mutex is released.
Unlock ==
  /\ stage = "children"
  /\ cascade = {}
  /\ stage' = "idle"
  /\ current' = NoBlock
  /\ caller' = NoBlock
  /\ hook' = IF caller = NoBlock THEN hook ELSE caller
  /\ UNCHANGED <<memory, cascade, disk, fetching, cursor, proposed, trouble>>

\* onAccept, for the block that came from the topic only.
RunHook ==
  /\ hook # NoBlock
  /\ hook' = NoBlock
  /\ UNCHANGED <<memory, call, disk, fetching, cursor, proposed, trouble>>

-----------------------------------------------------------------------------
(* The builder. *)

\* A tick: read the tip.  What the builder remembered is never used, since
\* it is replaced by the tip whenever it differs from it.
ReadTip ==
  /\ stage = "idle"
  /\ cursor = Idle
  /\ cursor' = tip
  /\ UNCHANGED <<memory, call, disk, hook, fetching, proposed, trouble>>

\* Publish a block above what was the tip when it was read.
Propose(b) ==
  /\ b \in Own \ proposed
  /\ Parent[b] = cursor
  /\ Height[b] = (IF cursor = NoBlock THEN 0 ELSE Height[cursor]) + 1
  /\ proposed' = proposed \cup {b}
  /\ cursor' = Idle
  /\ UNCHANGED <<memory, call, disk, hook, fetching, trouble>>

\* Not elected, or the block could not be signed or published.
SkipTick ==
  /\ cursor # Idle
  /\ cursor' = Idle
  /\ UNCHANGED <<memory, call, disk, hook, fetching, proposed, trouble>>

-----------------------------------------------------------------------------
(* Restarts. *)

\* What a crash can leave on disk: all as it is, or the file that is being
\* written without its contents.
DiskAfterCrash ==
  \/ UNCHANGED disk
  \/ /\ stage = "block"
     /\ file' = [file EXCEPT ![current] = "bad"]
     /\ UNCHANGED <<index, txFile>>
  \/ stage = "index" /\ index' = {} /\ UNCHANGED <<file, txFile>>
  \/ stage = "txs" /\ txFile' = NoTxs /\ UNCHANGED <<file, index>>

\* The process ends at any point and starts again: loadIndex restores the
\* known blocks but not the tip, loadTxIndex the index of transactions.
Restart ==
  /\ crashes < MaxCrashes
  /\ crashes' = crashes + 1
  /\ DiskAfterCrash
  /\ known' = index'
  /\ tip' = NoBlock
  /\ txIndex' = txFile'
  /\ waiting' = {}
  /\ stage' = "idle" /\ current' = NoBlock /\ cascade' = {} /\ caller' = NoBlock
  /\ hook' = NoBlock /\ fetching' = {} /\ cursor' = Idle
  /\ UNCHANGED <<proposed, failures>>

-----------------------------------------------------------------------------
Write == SaveBlock \/ SaveIndex \/ SaveTxIndex

Cascade == (\E c \in Blocks : HandleChild(c)) \/ Unlock

Next ==
  \/ \E b \in Blocks : ReceiveConnected(b) \/ ReceiveOrphan(b)
  \/ \E b \in Blocks : FetchParent(b)
  \/ \E b \in MaybeBlock : FetchFails(b)
  \/ RetryFetches
  \/ Write
  \/ Cascade
  \/ RunHook
  \/ ReadTip
  \/ \E b \in Own : Propose(b)
  \/ SkipTick
  \/ Restart

\* The goroutine that holds the mutex goes on.  Parents are asked for every
\* two seconds, and a peer that has the block answers again and again: this
\* is strong fairness, as other goroutines hold the mutex in between.
Fairness ==
  /\ WF_vars(Write)
  /\ WF_vars(Cascade)
  /\ SF_vars(RetryFetches)
  /\ \A b \in Blocks : SF_vars(FetchParent(b))

Spec == Init /\ [][Next]_vars /\ Fairness

-----------------------------------------------------------------------------
\* Whatever order blocks come in, and wherever a restart cuts the acceptance
\* of a chain of them, every known block descends from a first block through
\* known blocks: the store has no holes.
Rooted(S) ==
  \A b \in S :
    \/ Height[b] = 1 /\ Parent[b] = NoBlock
    \/ Parent[b] \in S /\ Height[b] = Height[Parent[b]] + 1

NoHoles == Rooted(known) /\ Rooted(index)

\* When the mutex is free, no block waits for a parent that is known: the
\* cascade has reached every descendant of every block accepted, whoever
\* queued it and while whatever else was under way.
NoneWaitsInVain ==
  stage = "idle" => \A b \in waiting : ~Connects(b)

\* What somebody will look for on disk: what the index lists, what a
\* transaction is found in and what the other layers are being told of.
Promised ==
  (index \cup {hook} \cup {txIndex[t] : t \in Txs}) \ {NoBlock}

\* No write that fails is repeated or reported, and one block is accepted
\* while others wait for it; still each failed write and each restart costs at
\* most one block its file, every other block that is promised can be read,
\* and a transaction is found in a block that contains it.
LossIsBounded ==
  /\ \A b \in Promised : file[b] # "none"
  /\ Cardinality({b \in Promised : file[b] # "whole"}) <= failures + crashes
  /\ \A t \in Txs : txIndex[t] # NoBlock => t \in TxsOf[txIndex[t]]

\* Until a restart loses it, the tip is a highest known block, although
\* blocks are accepted from the topic, from peers and from the queue.
TipIsHighest == crashes = 0 => \A b \in known : Height[b] <= TipHeight

\* The tip is a known block, also after a restart, and until then a highest one
\* (acceptBlockLocked, loadIndex).
TipIsSound == TypeOK /\ TipIsHighest

\* A block whose ancestors the network has does not wait for ever: they are
\* fetched one after the other, each queued in turn, and then accepted, unless
\* a restart empties the queue.
Queued(b) == b \in waiting

QueueDrains == \A b \in Blocks : Queued(b) ~> ~Queued(b)
=============================================================================
