------------------------------- MODULE TxFlow -------------------------------
(***************************************************************************)
(* The way of a transaction through one node: from the transaction topic   *)
(* (internal/gossip/pubsub.go, StartTxGossipToPool) or HTTP (POST /tx)     *)
(* through the mempool into a block (internal/blockchain/block.go), with   *)
(* the retry of transactions whose sender's key is not yet registered.     *)
(*                                                                         *)
(* Two goroutines take transactions in: "topic" reads the subscription and *)
(* "retry" the channel of transactions to try again.  A goroutine that     *)
(* meets an unknown key asks the peers for it, for up to 1.2 seconds and   *)
(* without a lock, then tries once more; job holds the transaction during  *)
(* that time.                                                              *)
(*                                                                         *)
(* Gossip delivers any transaction at any time, again, or never.  The      *)
(* handler of POST /tx checks the transaction, publishes it and adds it:   *)
(* the publication changes nothing here, and the handler is one action.    *)
(***************************************************************************)
EXTENDS Mempool

CONSTANTS
  NoJob,     \* a goroutine that waits for input
  MaxRetry,  \* maxRetry: attempts of one transaction (5 in the code)
  RetryCap,  \* capacity of the channel of retries (256 in the code)
  MaxTxs,    \* transactions per block, 0 for no limit
  MaxBytes   \* bytes per block, 0 for no limit

ASSUME FlowAssumption ==
  /\ MaxRetry \in Nat
  /\ RetryCap \in Nat
  /\ MaxTxs \in Nat
  /\ MaxBytes \in Nat

Goroutines == {"topic", "retry"}
Retries == [tx : Txs, attempts : 0 .. MaxRetry + 1]

ASSUME JobAssumption == NoJob \notin Retries

VARIABLES
  keys,    \* senders whose public key is registered
  job,     \* job[g]: the transaction g is fetching a key for, or NoJob
  retries  \* the channel of transactions to try again

flowVars == <<keys, job, retries>>
vars == <<pool, age, last, left, keys, job, retries>>

TypeOK ==
  /\ PoolTypeOK
  /\ keys \in SUBSET Senders
  /\ job \in [Goroutines -> Retries \cup {NoJob}]
  /\ retries \in Seq(Retries)
  /\ Len(retries) <= RetryCap

Init ==
  /\ PoolInit
  /\ keys \in SUBSET Senders
  /\ job = [g \in Goroutines |-> NoJob]
  /\ retries = <<>>

-----------------------------------------------------------------------------
(* Admission: the function "process". *)

Known(t) == Sender[t] \in keys

\* The first attempt of goroutine g at r: add the transaction, or go and
\* fetch the key.  An unknown key is found before the pool is locked.
Attempt(g, r) ==
  \/ /\ Known(r.tx)
     /\ AddValidatedCOSE(r.tx)
     /\ UNCHANGED <<keys, job>>
  \/ /\ ~Known(r.tx)
     /\ job' = [job EXCEPT ![g] = r]
     /\ UNCHANGED <<pool, age, last, left, keys>>

\* A message of the transaction topic.
Deliver(t) ==
  /\ job["topic"] = NoJob
  /\ Attempt("topic", [tx |-> t, attempts |-> 0])
  /\ UNCHANGED retries

\* A receive from the channel of retries.
Receive ==
  /\ job["retry"] = NoJob
  /\ retries # <<>>
  /\ retries' = Tail(retries)

\* The retry goroutine's turn, after its pause.
TakeRetry == Receive /\ Attempt("retry", Head(retries))

\* A send to the channel, given up when it is full.
Enqueue(r) ==
  retries' = IF Len(retries) < RetryCap THEN Append(retries, r) ELSE retries

\* What goroutine g does with r when the second attempt failed, for whatever
\* reason.
TryAgain(g, r) ==
  IF g = "topic" \/ r.attempts < MaxRetry
  THEN Enqueue([r EXCEPT !.attempts = @ + 1])
  ELSE UNCHANGED retries

\* Mutant: no second attempt without a key from a peer.
SecondAttemptIfFound(g, t, found) ==
  IF found /\ Sender[t] \in keys'
  THEN /\ AddValidatedCOSE(t)
       /\ IF IsAdmissible(t) THEN UNCHANGED retries ELSE TryAgain(g, job[g])
  ELSE /\ UNCHANGED poolVars
       /\ TryAgain(g, job[g])

\* The second attempt, whether or not a peer had the key: it may have been
\* registered by others meanwhile.
SecondAttempt(g, t, found) ==
  IF Sender[t] \in keys'
  THEN /\ AddValidatedCOSE(t)
       /\ IF IsAdmissible(t) THEN UNCHANGED retries ELSE TryAgain(g, job[g])
  ELSE /\ UNCHANGED poolVars
       /\ TryAgain(g, job[g])

\* Goroutine g is done with its transaction.
Finish(g) ==
  /\ job[g] # NoJob
  /\ job' = [job EXCEPT ![g] = NoJob]

\* FetchAndRegisterKey returns and the second attempt follows.
FetchReturns(g) ==
  /\ Finish(g)
  /\ \E found \in BOOLEAN :
       /\ keys' = IF found THEN keys \cup {Sender[job[g].tx]} ELSE keys
       /\ SecondAttempt(g, job[g].tx, found)

\* POST /tx: a transaction whose key is unknown is answered with an error.
PostTx(t) ==
  /\ Known(t)
  /\ AddValidatedCOSE(t)
  /\ UNCHANGED flowVars

\* A key comes with a registration, a handshake or a block's transactions.
RegisterKey(s) ==
  /\ s \notin keys
  /\ keys' = keys \cup {s}
  /\ UNCHANGED <<poolVars, job, retries>>

-----------------------------------------------------------------------------
(* Blocks. *)

\* Mutant: the limit of bytes is left to the subscriber.
FitsCount(batch, n) == MaxTxs > 0 => n <= MaxTxs

\* The first n transactions of the batch fit into a block.
Fits(batch, n) ==
  /\ MaxTxs > 0 => n <= MaxTxs
  /\ MaxBytes > 0 => Bytes(ToSet(SubSeq(batch, 1, n))) <= MaxBytes

\* The transactions of the block the builder makes of a batch.  The rest of
\* the batch is in no block and has left the pool.
Packed(batch) ==
  SubSeq(batch, 1, Max({n \in 0 .. Len(batch) : Fits(batch, n)}))

\* A tick of the builder that is allowed to produce: the batch leaves the
\* pool, whether or not the block can then be signed and published.
BuildBlock ==
  /\ PopBatch(MaxTxs)
  /\ UNCHANGED flowVars

\* The hook of an accepted block, its own or another producer's; S is what
\* the block has of the pool.
AcceptBlock(S) ==
  /\ S # {}
  /\ RemoveTxIDs(S)
  /\ UNCHANGED flowVars

\* GET /status and GET /mempool, and the builder before it pops a batch.
ReadPool == Look /\ UNCHANGED flowVars

TimePasses == Tick /\ UNCHANGED flowVars

Next ==
  \/ \E t \in Txs : Deliver(t) \/ PostTx(t)
  \/ TakeRetry
  \/ \E g \in Goroutines : FetchReturns(g)
  \/ \E s \in Senders : RegisterKey(s)
  \/ BuildBlock
  \/ \E S \in SUBSET pool.entries : AcceptBlock(S)
  \/ ReadPool
  \/ TimePasses

\* Both goroutines go on, and the fetch of a key ends by its timeout.  Only
\* TakeRetry receives and only FetchReturns finishes, whenever they can.
Fairness ==
  /\ WF_retries(Receive)
  /\ \A g \in Goroutines : WF_job(Finish(g))

Spec == Init /\ [][Next]_vars /\ Fairness

-----------------------------------------------------------------------------
\* What the subscriber of the block topic asks of a block's transactions
\* (StartBlockSubscriber): not too many, not too long, none twice, and all
\* of senders it can know the key of.
Acceptable(txs) ==
  /\ MaxTxs > 0 => Len(txs) <= MaxTxs
  /\ MaxBytes > 0 => Bytes(ToSet(txs)) <= MaxBytes
  /\ IsInjective(txs)
  /\ \A i \in DOMAIN txs : Known(txs[i])

\* The builder fills a block from the pool by its own rules; whenever it
\* does, every subscriber with the same limits takes the block.
NextBlockIsAcceptable == Acceptable(Packed(Batch(MaxTxs)))

\* The pool is sound whatever is added, evicted, expired, popped and pruned in
\* whatever order by HTTP, topic, retries, builder and block hook: map, FIFO
\* and byte count agree, the limits hold, and the FIFO is ordered by age, on
\* which sweepLocked relies.
PoolSound == TypeOK /\ PoolInStep /\ OldestFirst

\* Transaction t is in the hands of a goroutine, or waits for one.
Waiting(t) ==
  \/ \E g \in Goroutines : job[g] # NoJob /\ job[g].tx = t
  \/ \E i \in DOMAIN retries : retries[i].tx = t

WaitingKeyed(t) == Waiting(t) /\ Known(t)

\* The pool has taken notice of t or of a later transaction of its sender.
Considered(t) == last[Sender[t]] >= Number[t]

\* A transaction that came before its key is not forgotten if the key comes
\* while it is fetched or waits: the pool gets to judge it, although the
\* channel may be full and its attempts used up.
KeyedIsConsidered == \A t \in Txs : WaitingKeyed(t) ~> Considered(t)

\* The numbers of a sender are used in increasing order, each once, whichever
\* of HTTP, topic and retries brings the transactions, in whatever order.
Abstract == INSTANCE Admission WITH admitted <- pool.entries \cup left
AdmissionSpec == Abstract!Spec
=============================================================================
