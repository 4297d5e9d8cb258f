------------------------------ MODULE Mempool ------------------------------
(***************************************************************************)
(* The mempool (internal/mempool/mempool.go) with the replay window it     *)
(* consults (internal/coseutil/cose.go): a bounded FIFO of transactions    *)
(* that expire.  Every method of Pool holds the mutex for its whole length *)
(* and is one action here.                                                 *)
(*                                                                         *)
(* A sender is a device id together with a key id, which is what the       *)
(* replay window is kept by (seqKey).  Signatures and payloads are taken   *)
(* to be valid; a malformed transaction is refused before any state is     *)
(* read.                                                                   *)
(***************************************************************************)
EXTENDS Integers, Sequences, FiniteSets, FiniteSetsExt, SequencesExt

CONSTANTS
  Txs,       \* transactions, by transaction id
  Senders,   \* device id and key id
  Sender,    \* the sender of a transaction
  Number,    \* its sequence number
  Size,      \* its length in bytes
  Capacity,  \* Pool.capacity, 0 for none
  CapBytes,  \* Pool.capBytes, 0 for none
  TTL        \* Pool.ttl in ticks of the model's clock, 0 for none

ASSUME MempoolAssumption ==
  /\ Sender \in [Txs -> Senders]
  /\ Number \in [Txs -> Nat \ {0}]
  /\ Size \in [Txs -> Nat]
  /\ Capacity \in Nat
  /\ CapBytes \in Nat
  /\ TTL \in Nat

VARIABLES
  pool,  \* Pool: the maps and counters behind one mutex
  age,   \* age[t]: ticks since t was added; TTL + 1 stands for all above
  last,  \* last[s]: devSeq, the highest number seen from s
  left   \* transactions that have been in the pool and are not any more

poolVars == <<pool, age, last, left>>

Pools == [entries : SUBSET Txs, order : Seq(Txs), bytes : Int]

PoolInit ==
  /\ pool = [entries |-> {}, order |-> <<>>, bytes |-> 0]
  /\ age = [t \in Txs |-> 0]
  /\ last = [s \in Senders |-> 0]
  /\ left = {}

-----------------------------------------------------------------------------
(* Whatever a method drops it drops from the head of the FIFO: the expired,  *)
(* and then the oldest as long as a new transaction does not fit.            *)

\* The length of the transactions of S together.
BytesOf == [S \in SUBSET Txs |-> MapThenSumSet(LAMBDA t : Size[t], S)]
Bytes(S) == BytesOf[S]

\* The transactions of the FIFO s that are in S, as a walk over s meets them.
Kept(s, S) ==
  LET kept[n \in 0 .. Len(s)] ==
        IF n = 0 THEN <<>>
        ELSE IF s[n] \in S THEN Append(kept[n - 1], s[n])
             ELSE kept[n - 1]
  IN kept[Len(s)]

\* The k oldest transactions.
Oldest(k) == {pool.order[i] : i \in 1 .. k} \cap pool.entries

\* Mutant: the counter of bytes is left alone.
WithoutUncounted(k) ==
  [entries |-> pool.entries \ Oldest(k),
   order   |-> SubSeq(pool.order, k + 1, Len(pool.order)),
   bytes   |-> pool.bytes]

\* The pool without its k oldest transactions.
Without(k) ==
  [entries |-> pool.entries \ Oldest(k),
   order   |-> SubSeq(pool.order, k + 1, Len(pool.order)),
   bytes   |-> pool.bytes - Bytes(Oldest(k))]

\* sweepLocked: how many it drops, stopping at the first that is not expired.
Stale ==
  IF TTL = 0 THEN 0
  ELSE Max({k \in 0 .. Len(pool.order) : \A t \in Oldest(k) : age[t] > TTL})

\* t fits when the k oldest are gone.
FitsWithout(t, k) ==
  /\ Capacity > 0 => Cardinality(pool.entries \ Oldest(k)) < Capacity
  /\ CapBytes > 0 => pool.bytes - Bytes(Oldest(k)) + Size[t] <= CapBytes

\* How many are dropped to make room for t, the expired ones included.
RoomFor(t) == Min({k \in Stale .. Len(pool.order) : FitsWithout(t, k)})

\* The transaction becomes the newest of the pool.
Insert(p, t) ==
  [entries |-> p.entries \cup {t},
   order   |-> Append(p.order, t),
   bytes   |-> p.bytes + Size[t]]

\* The pool becomes p; what it loses has left it, what it gains is new.
Settle(p) ==
  /\ pool' = p
  /\ left' = left \cup (pool.entries \ p.entries)
  /\ age' = [t \in Txs |-> IF t \in pool.entries \cap p.entries THEN age[t] ELSE 0]

-----------------------------------------------------------------------------
(* The methods of Pool. *)

\* Mutant: a number may be used again.
IsNoOlder(t) == Number[t] >= last[Sender[t]]

\* UpdateLastSeq would advance the window.
IsNews(t) == Number[t] > last[Sender[t]]

Advance(t) == last' = [last EXCEPT ![Sender[t]] = Number[t]]

TooLarge(t) == CapBytes > 0 /\ Size[t] > CapBytes

\* What AddValidatedCOSE finds, once it has swept.
IsDuplicate(t) == t \in pool.entries \ Oldest(Stale)
IsAdmissible(t) == ~IsDuplicate(t) /\ IsNews(t) /\ ~TooLarge(t)

\* "duplicate" and "replay": the pool is swept and nothing else.
Refuse(t) ==
  /\ IsDuplicate(t) \/ ~IsNews(t)
  /\ Settle(Without(Stale))
  /\ UNCHANGED last

\* "too_large": found only after the window has moved on.
RefuseLarge(t) ==
  /\ ~IsDuplicate(t)
  /\ IsNews(t)
  /\ TooLarge(t)
  /\ Settle(Without(Stale))
  /\ Advance(t)

\* Mutant: the window is left to the handler of HTTP.
EnterUnmarked(t) ==
  /\ IsAdmissible(t)
  /\ Settle(Insert(Without(RoomFor(t)), t))
  /\ UNCHANGED last

\* The transaction enters, the oldest making room for it.
Enter(t) ==
  /\ IsAdmissible(t)
  /\ Settle(Insert(Without(RoomFor(t)), t))
  /\ Advance(t)

\* AddValidatedCOSE, for a transaction whose key is registered.  The error
\* "mempool_full" needs bytes in an empty pool and is left out: by PoolInStep
\* there are none, and evicting from the head always makes room.
AddValidatedCOSE(t) == Refuse(t) \/ RefuseLarge(t) \/ Enter(t)

\* Len and Snapshot: a look at the pool sweeps it.
Look ==
  /\ Settle(Without(Stale))
  /\ UNCHANGED last

\* The end of PopBatch(max)'s batch in the FIFO.
BatchEnd(max) ==
  IF max <= 0 \/ Stale + max > Len(pool.order) THEN Len(pool.order)
                                               ELSE Stale + max

\* What PopBatch(max) returns.
Batch(max) ==
  Kept(SubSeq(pool.order, Stale + 1, BatchEnd(max)), pool.entries)

PopBatch(max) ==
  /\ Settle(Without(BatchEnd(max)))
  /\ UNCHANGED last

\* Remove the transactions of a block; no sweep here.
RemoveTxIDs(S) ==
  /\ Settle([entries |-> pool.entries \ S,
             order   |-> Kept(pool.order, Txs \ S),
             bytes   |-> pool.bytes - Bytes(S \cap pool.entries)])
  /\ UNCHANGED last

\* Time passes.
Tick ==
  /\ age' = [t \in Txs |->
               IF t \in pool.entries /\ age[t] <= TTL THEN age[t] + 1
                                                      ELSE age[t]]
  /\ UNCHANGED <<pool, last, left>>

-----------------------------------------------------------------------------
PoolTypeOK ==
  /\ pool \in Pools
  /\ age \in [Txs -> 0 .. TTL + 1]
  /\ last \in [Senders -> Nat]
  /\ left \in SUBSET Txs

\* The map, the FIFO and the counter of bytes, updated one by one in five
\* methods, tell the same story, and no cap is ever exceeded.
PoolInStep ==
  /\ ToSet(pool.order) = pool.entries
  /\ Len(pool.order) = Cardinality(pool.entries)
  /\ pool.bytes = Bytes(pool.entries)
  /\ Capacity > 0 => Cardinality(pool.entries) <= Capacity
  /\ CapBytes > 0 => pool.bytes <= CapBytes

\* Nothing expires behind a transaction that has not expired: sweepLocked,
\* which stops at the first live one, drops all that have expired.
OldestFirst ==
  \A i, j \in DOMAIN pool.order :
    i < j => age[pool.order[i]] >= age[pool.order[j]]

\* A transaction that was packed, pruned, evicted or has expired never enters
\* the pool again, however often it is delivered.
LeavesForGood == left \cap pool.entries = {}
=============================================================================
