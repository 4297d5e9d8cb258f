---------------------------- MODULE TxFlowProofs ----------------------------
(***************************************************************************)
(* Theorems about TxFlow, for any transactions, senders and caps.          *)
(*                                                                         *)
(* Every action of TxFlow leaves the pool alone or is one of the methods   *)
(* of Pool, and every method only drops transactions, or adds one whose    *)
(* number is news: PoolStep and PoolSteps.  The first invariant says that  *)
(* the replay window covers all that has ever been in the pool; the second *)
(* that FIFO, map, ages and byte counter of the pool agree, for which sums *)
(* over sets and the walk over the FIFO are dealt with first.              *)
(***************************************************************************)
EXTENDS TxFlow, Induction, TLAPS

-----------------------------------------------------------------------------
(* What the methods of Pool can do. *)

\* Transactions leave the pool, and none enters.
OnlyDrops ==
  /\ pool'.entries \subseteq pool.entries
  /\ left' = left \cup (pool.entries \ pool'.entries)

\* Transaction t enters, others may leave.
Enters(t) ==
  /\ IsNews(t)
  /\ Advance(t)
  /\ \E kept \in SUBSET pool.entries :
       /\ pool'.entries = kept \cup {t}
       /\ left' = left \cup (pool.entries \ (kept \cup {t}))

\* The number of t is used up, and t does not enter.
UsesUp(t) == IsNews(t) /\ Advance(t) /\ OnlyDrops

PoolStep ==
  \/ OnlyDrops /\ UNCHANGED last
  \/ \E t \in Txs : Enters(t) \/ UsesUp(t)

\* sweepLocked and the evictions only drop transactions, however many they
\* drop.
LEMMA WithoutDrops ==
  ASSUME NEW k
  PROVE  Without(k).entries \subseteq pool.entries
BY DEF Without

\* AddValidatedCOSE drops transactions and lets in at most its own, with the
\* window moved on.
LEMMA AddIsPoolStep ==
  ASSUME NEW t \in Txs, AddValidatedCOSE(t)
  PROVE  PoolStep
<1>1. CASE Refuse(t)
  <2>1. OnlyDrops /\ UNCHANGED last
    BY <1>1, WithoutDrops DEF Refuse, Settle, OnlyDrops
  <2> QED
    BY <2>1 DEF PoolStep
<1>2. CASE RefuseLarge(t)
  <2>1. UsesUp(t)
    BY <1>2, WithoutDrops DEF RefuseLarge, Settle, UsesUp, OnlyDrops
  <2> QED
    BY <2>1 DEF PoolStep
<1>3. CASE Enter(t)
  <2> DEFINE kept == Without(RoomFor(t)).entries
  <2>1. kept \in SUBSET pool.entries
    BY WithoutDrops
  <2>2. Settle(Insert(Without(RoomFor(t)), t))
    BY <1>3 DEF Enter
  <2>3. Insert(Without(RoomFor(t)), t).entries = kept \cup {t}
    BY DEF Insert
  <2>4. /\ pool'.entries = kept \cup {t}
        /\ left' = left \cup (pool.entries \ (kept \cup {t}))
    BY <2>2, <2>3 DEF Settle
  <2>5. IsNews(t) /\ Advance(t)
    BY <1>3 DEF Enter, IsAdmissible
  <2>6. Enters(t)
    BY <2>1, <2>4, <2>5 DEF Enters
  <2> QED
    BY <2>6 DEF PoolStep
<1> QED
  BY <1>1, <1>2, <1>3 DEF AddValidatedCOSE

\* Every other method only drops transactions.
LEMMA LookIsPoolStep == Look => PoolStep
BY WithoutDrops DEF Look, Settle, OnlyDrops, PoolStep

LEMMA PopIsPoolStep ==
  ASSUME NEW max, PopBatch(max)
  PROVE  PoolStep
BY WithoutDrops DEF PopBatch, Settle, OnlyDrops, PoolStep

LEMMA RemoveIsPoolStep ==
  ASSUME NEW S, RemoveTxIDs(S)
  PROVE  PoolStep
BY DEF RemoveTxIDs, Settle, OnlyDrops, PoolStep

-----------------------------------------------------------------------------
(* The goroutines. *)

\* The part of TypeOK the goroutines need: what they hold is a transaction.
Jobs ==
  /\ job \in [Goroutines -> Retries \cup {NoJob}]
  /\ retries \in Seq(Retries)

LEMMA EnqueueTyped ==
  ASSUME retries \in Seq(Retries), NEW r \in Retries, Enqueue(r)
  PROVE  retries' \in Seq(Retries)
BY DEF Enqueue

\* A transaction that is tried again stays within its attempts.
LEMMA TryAgainTyped ==
  ASSUME Jobs, NEW g \in Goroutines, NEW r \in Retries, TryAgain(g, r),
         g = "topic" => r.attempts = 0
  PROVE  retries' \in Seq(Retries)
<1>1. CASE UNCHANGED retries
  BY <1>1 DEF Jobs
<1>2. CASE Enqueue([r EXCEPT !.attempts = @ + 1]) /\ (g = "topic" \/ r.attempts < MaxRetry)
  <2>1. r.attempts + 1 \in 0 .. MaxRetry + 1
    BY <1>2, FlowAssumption DEF Retries
  <2>2. [r EXCEPT !.attempts = @ + 1] \in Retries
    BY <2>1 DEF Retries
  <2> QED
    BY <1>2, <2>2, EnqueueTyped DEF Jobs
<1> QED
  BY <1>1, <1>2 DEF TryAgain

\* The subscription never holds a transaction that was tried before.
TopicIsFirst == job["topic"] # NoJob => job["topic"].attempts = 0

\* The goroutines keep to their types, and whatever they do to the pool is a
\* step of the pool.
LEMMA FlowSteps ==
  ASSUME Jobs, TopicIsFirst, Next
  PROVE  Jobs' /\ TopicIsFirst' /\ (PoolStep \/ UNCHANGED <<pool, last, left>>)
<1> USE JobAssumption
<1>1. ASSUME NEW t \in Txs, Deliver(t)
      PROVE  Jobs' /\ TopicIsFirst' /\ (PoolStep \/ UNCHANGED <<pool, last, left>>)
  <2> DEFINE r == [tx |-> t, attempts |-> 0]
  <2>1. r \in Retries
    BY FlowAssumption DEF Retries
  <2>2. CASE AddValidatedCOSE(t) /\ UNCHANGED <<job, retries>>
    BY <2>2, AddIsPoolStep DEF Jobs, TopicIsFirst
  <2>3. CASE job' = [job EXCEPT !["topic"] = r] /\ UNCHANGED <<pool, last, left, retries>>
    BY <2>1, <2>3 DEF Jobs, TopicIsFirst, Goroutines
  <2> QED
    BY <1>1, <2>2, <2>3 DEF Deliver, Attempt
<1>2. ASSUME NEW t \in Txs, PostTx(t)
      PROVE  Jobs' /\ TopicIsFirst' /\ (PoolStep \/ UNCHANGED <<pool, last, left>>)
  BY <1>2, AddIsPoolStep DEF PostTx, Jobs, TopicIsFirst, flowVars
<1>3. CASE TakeRetry
  <2> DEFINE r == Head(retries)
  <2>1. r \in Retries /\ retries' \in Seq(Retries)
    BY <1>3 DEF TakeRetry, Receive, Jobs
  <2>2. r.tx \in Txs
    BY <2>1 DEF Retries
  <2>3. CASE AddValidatedCOSE(r.tx) /\ UNCHANGED job
    BY <2>1, <2>2, <2>3, AddIsPoolStep DEF Jobs, TopicIsFirst
  <2>4. CASE job' = [job EXCEPT !["retry"] = r] /\ UNCHANGED <<pool, last, left>>
    BY <2>1, <2>4 DEF Jobs, TopicIsFirst, Goroutines
  <2> QED
    BY <1>3, <2>3, <2>4 DEF TakeRetry, Attempt
<1>4. ASSUME NEW g \in Goroutines, FetchReturns(g)
      PROVE  Jobs' /\ TopicIsFirst' /\ (PoolStep \/ UNCHANGED <<pool, last, left>>)
  <2>1. job[g] \in Retries /\ job' = [job EXCEPT ![g] = NoJob]
    BY <1>4 DEF FetchReturns, Finish, Jobs
  <2>2. g = "topic" => job[g].attempts = 0
    BY <1>4 DEF TopicIsFirst, FetchReturns, Finish
  <2>3. job[g].tx \in Txs
    BY <2>1 DEF Retries
  <2>4. job' \in [Goroutines -> Retries \cup {NoJob}] /\ TopicIsFirst'
    BY <2>1 DEF Jobs, TopicIsFirst, Goroutines
  <2>5. PICK found \in BOOLEAN : SecondAttempt(g, job[g].tx, found)
    BY <1>4 DEF FetchReturns
  <2>6. retries' = retries \/ TryAgain(g, job[g])
    BY <2>5 DEF SecondAttempt
  <2>7. retries' \in Seq(Retries)
    BY <2>1, <2>2, <2>6, TryAgainTyped DEF Jobs
  <2>8. PoolStep \/ UNCHANGED <<pool, last, left>>
    BY <2>3, <2>5, AddIsPoolStep DEF SecondAttempt, poolVars
  <2> QED
    BY <2>4, <2>7, <2>8 DEF Jobs
<1>5. ASSUME NEW s \in Senders, RegisterKey(s)
      PROVE  Jobs' /\ TopicIsFirst' /\ (PoolStep \/ UNCHANGED <<pool, last, left>>)
  BY <1>5 DEF RegisterKey, Jobs, TopicIsFirst, poolVars
<1>6. CASE BuildBlock
  BY <1>6, PopIsPoolStep DEF BuildBlock, Jobs, TopicIsFirst, flowVars
<1>7. ASSUME NEW S, AcceptBlock(S)
      PROVE  Jobs' /\ TopicIsFirst' /\ (PoolStep \/ UNCHANGED <<pool, last, left>>)
  BY <1>7, RemoveIsPoolStep DEF AcceptBlock, Jobs, TopicIsFirst, flowVars
<1>8. CASE ReadPool
  BY <1>8, LookIsPoolStep DEF ReadPool, Jobs, TopicIsFirst, flowVars
<1>9. CASE TimePasses
  BY <1>9 DEF TimePasses, Tick, Jobs, TopicIsFirst, flowVars
<1> QED
  BY <1>1, <1>2, <1>3, <1>4, <1>5, <1>6, <1>7, <1>8, <1>9 DEF Next

-----------------------------------------------------------------------------
(* The inductive invariant. *)

\* The transactions that have ever been in the pool.
Admitted == pool.entries \cup left

\* The window has reached the number of every transaction that has ever been
\* in the pool.
WindowCovers == \A t \in Admitted : last[Sender[t]] >= Number[t]

IInv ==
  /\ Admitted \subseteq Txs
  /\ last \in [Senders -> Nat]
  /\ Jobs
  /\ TopicIsFirst
  /\ WindowCovers
  /\ LeavesForGood

LEMMA InitIInv == Init => IInv
BY FlowAssumption DEF Init, PoolInit, IInv, Admitted, Jobs, TopicIsFirst,
                      WindowCovers, LeavesForGood, Goroutines

\* The window only moves forward.
LEMMA WindowGrows ==
  ASSUME last \in [Senders -> Nat], NEW t \in Txs, IsNews(t), Advance(t)
  PROVE  /\ last' \in [Senders -> Nat]
         /\ last'[Sender[t]] = Number[t]
         /\ \A s \in Senders : last'[s] >= last[s]
<1>1. Sender[t] \in Senders /\ Number[t] \in Nat
  BY MempoolAssumption
<1> QED
  BY <1>1 DEF IsNews, Advance

\* The pool's part of the invariant is kept by every step of the pool.
LEMMA PoolKeepsIInv ==
  ASSUME IInv, PoolStep \/ UNCHANGED <<pool, last, left>>
  PROVE  /\ (Admitted \subseteq Txs)'
         /\ (last \in [Senders -> Nat])'
         /\ WindowCovers'
         /\ LeavesForGood'
<1> USE DEF IInv
<1>0. \A t \in Txs : Sender[t] \in Senders /\ Number[t] \in Nat
  BY MempoolAssumption
<1>1. CASE UNCHANGED <<pool, last, left>>
  BY <1>1 DEF Admitted, WindowCovers, LeavesForGood
<1>2. CASE OnlyDrops /\ UNCHANGED last
  BY <1>2 DEF OnlyDrops, Admitted, WindowCovers, LeavesForGood
<1>3. ASSUME NEW t \in Txs, UsesUp(t)
      PROVE  /\ (Admitted \subseteq Txs)'
             /\ (last \in [Senders -> Nat])'
             /\ WindowCovers'
             /\ LeavesForGood'
  <2>1. last' \in [Senders -> Nat] /\ \A s \in Senders : last'[s] >= last[s]
    BY <1>3, WindowGrows DEF UsesUp
  <2>2. Admitted' = Admitted
    BY <1>3 DEF UsesUp, OnlyDrops, Admitted
  <2>3. ASSUME NEW u \in Admitted PROVE last'[Sender[u]] >= Number[u]
    BY <1>0, <2>1 DEF WindowCovers
  <2>4. LeavesForGood'
    BY <1>3 DEF UsesUp, OnlyDrops, LeavesForGood
  <2> QED
    BY <2>1, <2>2, <2>3, <2>4 DEF WindowCovers
<1>4. ASSUME NEW t \in Txs, Enters(t)
      PROVE  /\ (Admitted \subseteq Txs)'
             /\ (last \in [Senders -> Nat])'
             /\ WindowCovers'
             /\ LeavesForGood'
  <2>1. /\ last' \in [Senders -> Nat]
        /\ last'[Sender[t]] = Number[t]
        /\ \A s \in Senders : last'[s] >= last[s]
    BY <1>4, WindowGrows DEF Enters
  <2>2. t \notin Admitted
    BY <1>0, <1>4 DEF Enters, IsNews, WindowCovers
  <2>3. Admitted' = Admitted \cup {t} /\ LeavesForGood'
    BY <1>4, <2>2 DEF Enters, Admitted, LeavesForGood
  <2>4. ASSUME NEW u \in Admitted PROVE last'[Sender[u]] >= Number[u]
    BY <1>0, <2>1 DEF WindowCovers
  <2>5. last'[Sender[t]] >= Number[t]
    BY <1>0, <2>1
  <2> QED
    BY <2>1, <2>3, <2>4, <2>5 DEF WindowCovers
<1> QED
  BY <1>1, <1>2, <1>3, <1>4 DEF PoolStep

LEMMA NextIInv == IInv /\ [Next]_vars => IInv'
<1> SUFFICES ASSUME IInv, [Next]_vars PROVE IInv'
  OBVIOUS
<1>1. CASE Next
  <2>1. Jobs' /\ TopicIsFirst' /\ (PoolStep \/ UNCHANGED <<pool, last, left>>)
    BY <1>1, FlowSteps DEF IInv
  <2> QED
    BY <2>1, PoolKeepsIInv DEF IInv
<1>2. CASE UNCHANGED vars
  BY <1>2 DEF vars, IInv, Admitted, Jobs, TopicIsFirst, WindowCovers, LeavesForGood
<1> QED
  BY <1>1, <1>2

\* In every reachable state the replay window covers all that has ever been
\* in the pool, and the goroutines hold transactions within their attempts.
THEOREM WindowInvariant == Spec => []IInv
BY InitIInv, NextIInv, PTL DEF Spec

\* A transaction that was packed, pruned, evicted or has expired never enters
\* the pool again.
THEOREM GoneForGood == Spec => []LeavesForGood
<1>1. IInv => LeavesForGood
  BY DEF IInv
<1> QED
  BY <1>1, WindowInvariant, PTL

-----------------------------------------------------------------------------
(* The abstract specification. *)

\* Every step of the node is a step of Admission, or none of its business.
LEMMA StepIsAdmission == IInv /\ [Next]_vars => [Abstract!Next]_<<last, Admitted>>
<1> SUFFICES ASSUME IInv, [Next]_vars
             PROVE  Abstract!Next \/ UNCHANGED <<last, Admitted>>
  BY DEF Admitted
<1>1. PoolStep \/ UNCHANGED <<pool, last, left>>
  BY FlowSteps DEF IInv, vars
<1>2. CASE UNCHANGED <<pool, last, left>>
  BY <1>2 DEF Admitted
<1>3. CASE OnlyDrops /\ UNCHANGED last
  BY <1>3 DEF OnlyDrops, Admitted
<1>4. ASSUME NEW t \in Txs, UsesUp(t)
      PROVE  Abstract!Next
  <2>1. Admitted' = Admitted
    BY <1>4 DEF UsesUp, OnlyDrops, Admitted
  <2>2. Abstract!Spend(t)
    BY <1>4, <2>1 DEF UsesUp, IsNews, Advance, Abstract!Spend, Abstract!UseNumber, Admitted
  <2> QED
    BY <2>2 DEF Abstract!Next
<1>5. ASSUME NEW t \in Txs, Enters(t)
      PROVE  Abstract!Next
  <2>1. Admitted' = Admitted \cup {t}
    BY <1>5 DEF Enters, Admitted
  <2>2. Abstract!Admit(t)
    BY <1>5, <2>1 DEF Enters, IsNews, Advance, Abstract!Admit, Abstract!UseNumber, Admitted
  <2> QED
    BY <2>2 DEF Abstract!Next
<1> QED
  BY <1>1, <1>2, <1>3, <1>4, <1>5 DEF PoolStep

\* The numbers of a sender are used in increasing order, each once, whichever
\* of HTTP, topic and retries brings the transactions.
THEOREM NumbersIncrease == Spec => AdmissionSpec
<1>1. Init => Abstract!Init
  BY DEF Init, PoolInit, Abstract!Init
<1>2. IInv /\ [Next]_vars => [Abstract!Next]_<<last, pool.entries \cup left>>
  BY StepIsAdmission DEF Admitted
<1> QED
  BY <1>1, <1>2, WindowInvariant, PTL DEF Spec, AdmissionSpec, Abstract!Spec
-----------------------------------------------------------------------------
(* The bytes of transactions: the sum of their lengths is the number of      *)
(* their bytes, so that sums of disjoint sets add up.                        *)

\* The bytes of the transactions of S, one by one.
Units(S) == {u \in Txs \X Nat : u[1] \in S /\ u[2] \in 1 .. Size[u[1]]}

LEMMA UnitsOfOne ==
  ASSUME NEW t \in Txs
  PROVE  IsFiniteSet(Units({t})) /\ Cardinality(Units({t})) = Size[t]
<1> DEFINE f == [i \in 1 .. Size[t] |-> <<t, i>>]
<1>1. Size[t] \in Nat
  BY MempoolAssumption
<1>2. f \in [1 .. Size[t] -> Units({t})]
  BY <1>1 DEF Units
<1>3. \A u \in Units({t}) : \E i \in 1 .. Size[t] : f[i] = u
  BY DEF Units
<1>4. \A i, j \in 1 .. Size[t] : f[i] = f[j] => i = j
  OBVIOUS
<1>5. f \in Bijection(1 .. Size[t], Units({t}))
  <2> HIDE DEF f
  <2> QED  BY <1>2, <1>3, <1>4 DEF Bijection, Injection, Surjection, IsInjective
<1>6. ExistsBijection(1 .. Size[t], Units({t}))
  BY <1>5 DEF ExistsBijection
<1>7. IsFiniteSet(1 .. Size[t]) /\ Cardinality(1 .. Size[t]) = Size[t]
  <2>1. 1 \in Int /\ Size[t] \in Int
    BY <1>1
  <2>2. /\ IsFiniteSet(1 .. Size[t])
        /\ Cardinality(1 .. Size[t]) = IF 1 > Size[t] THEN 0 ELSE Size[t] - 1 + 1
    BY <2>1, FS_Interval
  <2> QED  BY <1>1, <2>2
<1> QED  BY <1>6, <1>7, FS_Bijection

LEMMA UnitsAdd ==
  ASSUME NEW S \in SUBSET Txs, NEW t \in Txs, t \notin S, IsFiniteSet(Units(S))
  PROVE  /\ IsFiniteSet(Units(S \cup {t}))
         /\ Cardinality(Units(S \cup {t})) = Cardinality(Units(S)) + Size[t]
<1>1. Units(S \cup {t}) = Units(S) \cup Units({t}) /\ Units(S) \cap Units({t}) = {}
  BY DEF Units
<1>2. Cardinality(Units(S)) \in Nat /\ Size[t] \in Nat
  BY FS_CardinalityType, MempoolAssumption
<1>3. IsFiniteSet(Units({t})) /\ Cardinality(Units({t})) = Size[t]
  BY UnitsOfOne
<1>4. /\ IsFiniteSet(Units(S) \cup Units({t}))
      /\ Cardinality(Units(S) \cup Units({t})) =
           Cardinality(Units(S)) + Cardinality(Units({t})) - Cardinality(Units(S) \cap Units({t}))
  BY <1>3, FS_Union
<1>5. Cardinality(Units(S) \cap Units({t})) = 0
  BY <1>1, FS_EmptySet
<1>6. Cardinality(Units(S) \cup Units({t})) = Cardinality(Units(S)) + Size[t]
  BY <1>2, <1>3, <1>4, <1>5
<1>7. Units(S \cup {t}) = Units(S) \cup Units({t})
  BY <1>1
<1> QED  BY <1>4, <1>6, <1>7

LEMMA UnitsFinite ==
  ASSUME NEW S \in SUBSET Txs, IsFiniteSet(S)
  PROVE  IsFiniteSet(Units(S))
<1> DEFINE A == {Units({t}) : t \in S}
<1>1. IsFiniteSet(A)
  <2> DEFINE f == [t \in S |-> Units({t})]
  <2>1. f \in Surjection(S, A)
    BY DEF Surjection
  <2> HIDE DEF f, A
  <2> QED  BY <2>1, FS_Surjection
<1>2. \A T \in A : IsFiniteSet(T)
  BY UnitsOfOne
<1>3. IsFiniteSet(UNION A)
  <2> HIDE DEF A
  <2> QED  BY <1>1, <1>2, FS_UNION
<1>4. Units(S) = UNION A
  BY DEF Units
<1> QED  BY <1>3, <1>4

LEMMA BytesAreUnits ==
  ASSUME NEW S \in SUBSET Txs, IsFiniteSet(S)
  PROVE  Bytes(S) = Cardinality(Units(S))
<1> DEFINE x(s) == CHOOSE y \in s : TRUE
           Step(f) == [s \in SUBSET S |-> IF s = {} THEN 0 ELSE Size[x(s)] + f[s \ {x(s)}]]
           w == [s \in SUBSET S |-> Cardinality(Units(s))]
           g == CHOOSE f : f = Step(f)
           R == StrictSubsetOrdering(S)
           B == {s \in SUBSET S : g[s] # Cardinality(Units(s))}
<1>1. \A s \in SUBSET S : s # {} => x(s) \in s
  OBVIOUS
<1>2. \A s \in SUBSET S : IsFiniteSet(s) /\ IsFiniteSet(Units(s)) /\ s \in SUBSET Txs
  BY FS_Subset, UnitsFinite
<1>3. Cardinality(Units({})) = 0
  BY FS_EmptySet DEF Units
<1>4. ASSUME NEW s \in SUBSET S, s # {}
      PROVE  Cardinality(Units(s)) = Size[x(s)] + Cardinality(Units(s \ {x(s)}))
  <2> DEFINE t == x(s)
             r == s \ {t}
  <2>1. t \in s /\ t \in Txs /\ r \in SUBSET S /\ r \in SUBSET Txs /\ t \notin r /\ s = r \cup {t}
    BY <1>1, <1>4
  <2> HIDE DEF t, r
  <2>2. Cardinality(Units(s)) = Cardinality(Units(r)) + Size[t]
    BY <1>2, <2>1, UnitsAdd
  <2>3. Cardinality(Units(r)) \in Nat /\ Size[t] \in Nat
    BY <1>2, <2>1, FS_CardinalityType, MempoolAssumption
  <2>4. Cardinality(Units(s)) = Size[t] + Cardinality(Units(r))
    BY <2>2, <2>3
  <2> QED  BY <2>4 DEF t, r
<1>5. w = Step(w)
  BY <1>3, <1>4
<1>6. g = Step(g)
  <2> HIDE DEF Step, w
  <2> QED  BY <1>5
<1>7. B = {}
  <2>1. SUFFICES ASSUME B # {} PROVE FALSE
    OBVIOUS
  <2>2. IsWellFoundedOn(R, SUBSET S)
    BY FS_StrictSubsetOrderingWellFounded, FS_FiniteSubsetsOfFinite
  <2>3. PICK s \in B : \A r \in B : ~ (<<r, s>> \in R)
    <3>1. B \subseteq SUBSET S
      OBVIOUS
    <3> HIDE DEF B, R
    <3> QED  BY <2>1, <2>2, <3>1, WFMin
  <2>4. g[s] = IF s = {} THEN 0 ELSE Size[x(s)] + g[s \ {x(s)}]
    <3> HIDE DEF g, x
    <3> QED  BY <1>6
  <2>5. s # {}
    <3> HIDE DEF g, x
    <3> QED  BY <1>3, <2>4
  <2>6. s \ {x(s)} \in SUBSET S /\ <<s \ {x(s)}, s>> \in R
    BY <1>1, <2>5 DEF StrictSubsetOrdering
  <2>7. g[s \ {x(s)}] = Cardinality(Units(s \ {x(s)}))
    <3> HIDE DEF g, x, R
    <3> QED  BY <2>3, <2>6
  <2>8. g[s] = Cardinality(Units(s))
    <3> HIDE DEF g, x, R
    <3> QED  BY <1>4, <2>4, <2>5, <2>7
  <2> QED  BY <2>8
<1>8. Bytes(S) = g[S]
  BY DEF Bytes, BytesOf, MapThenSumSet, MapThenFoldSet
<1>9. g[S] = Cardinality(Units(S))
  <2> HIDE DEF g
  <2> QED  BY <1>7
<1> QED  BY <1>8, <1>9

\* What is dropped and what is kept add up.
LEMMA BytesSplit ==
  ASSUME NEW S \in SUBSET Txs, IsFiniteSet(S), NEW T \in SUBSET S
  PROVE  /\ Bytes(S \ T) = Bytes(S) - Bytes(T)
         /\ Bytes(S) \in Nat /\ Bytes(T) \in Nat /\ Bytes(S \ T) \in Nat
<1>1. /\ T \in SUBSET Txs /\ IsFiniteSet(T) /\ IsFiniteSet(Units(T))
      /\ S \ T \in SUBSET Txs /\ IsFiniteSet(S \ T) /\ IsFiniteSet(Units(S \ T))
  BY FS_Subset, UnitsFinite
<1>2. Units(S) = Units(S \ T) \cup Units(T) /\ Units(S \ T) \cap Units(T) = {}
  BY DEF Units
<1>3. Cardinality(Units(S \ T) \cup Units(T)) =
        Cardinality(Units(S \ T)) + Cardinality(Units(T)) - Cardinality(Units(S \ T) \cap Units(T))
  BY <1>1, FS_Union
<1>4. Cardinality(Units(S \ T) \cap Units(T)) = 0
  BY <1>2, FS_EmptySet
<1>5. Cardinality(Units(S \ T)) \in Nat /\ Cardinality(Units(T)) \in Nat
  BY <1>1, FS_CardinalityType
<1>6. Cardinality(Units(S \ T) \cup Units(T)) = Cardinality(Units(S \ T)) + Cardinality(Units(T))
  BY <1>3, <1>4, <1>5
<1>7. Cardinality(Units(S)) = Cardinality(Units(S \ T)) + Cardinality(Units(T))
  BY <1>2, <1>6
<1>8. /\ Bytes(S) = Cardinality(Units(S)) /\ Bytes(T) = Cardinality(Units(T))
      /\ Bytes(S \ T) = Cardinality(Units(S \ T))
  BY <1>1, BytesAreUnits
<1> QED  BY <1>5, <1>7, <1>8

LEMMA BytesAdd ==
  ASSUME NEW S \in SUBSET Txs, IsFiniteSet(S), NEW t \in Txs, t \notin S
  PROVE  Bytes(S \cup {t}) = Bytes(S) + Size[t]
<1>1. IsFiniteSet(S \cup {t}) /\ S \cup {t} \in SUBSET Txs
  BY FS_AddElement
<1>2. Cardinality(Units(S \cup {t})) = Cardinality(Units(S)) + Size[t]
  BY UnitsAdd, UnitsFinite
<1> QED  BY <1>1, <1>2, BytesAreUnits

LEMMA BytesOfNone == Bytes({}) = 0
<1>1. Units({}) = {} /\ {} \in SUBSET Txs
  BY DEF Units
<1>2. IsFiniteSet({}) /\ Cardinality({}) = 0
  BY FS_EmptySet
<1>3. Bytes({}) = Cardinality(Units({}))
  BY <1>1, <1>2, BytesAreUnits
<1> QED  BY <1>1, <1>2, <1>3

-----------------------------------------------------------------------------

\* s is u without some of its elements; h tells where each came from.
Embeds(h, s, u) ==
  /\ h \in [1 .. Len(s) -> 1 .. Len(u)]
  /\ \A i, j \in 1 .. Len(s) : i < j => h[i] < h[j]
  /\ \A i \in 1 .. Len(s) : s[i] = u[h[i]]

\* s, over V, is what u has of S, in u's order.
Filters(s, u, S, V) ==
  /\ s \in Seq(V)
  /\ \E h : Embeds(h, s, u)
  /\ {s[i] : i \in 1 .. Len(s)} = {u[i] : i \in 1 .. Len(u)} \cap S

\* Of u the elements of S are kept, and no others, in their order.
LEMMA KeptIsFilter ==
  ASSUME NEW V, NEW u \in Seq(V), NEW S
  PROVE  Filters(Kept(u, S), u, S, V)
<1> DEFINE N == Len(u)
           More(n, kept) == IF u[n] \in S THEN Append(kept, u[n]) ELSE kept
           Step(f) == [n \in 0 .. N |-> IF n = 0 THEN <<>> ELSE More(n, f[n - 1])]
           F == [n \in 1 .. N |-> [q \in Seq(V) |-> More(n, q)]]
           k == CHOOSE f : f = Step(f)
<1>1. N \in Nat /\ \A n \in 1 .. N : u[n] \in V
  OBVIOUS
<1>2. \A n \in 1 .. N : \A q \in Seq(V) : More(n, q) \in Seq(V)
  BY <1>1
<1>3. F \in [1 .. N -> [Seq(V) -> Seq(V)]]
  BY <1>2
<1>4. PICK f \in [0 .. N -> Seq(V)] :
        f[0] = <<>> /\ \A n \in 1 .. N : f[n] = F[n][f[n - 1]]
  <2> DEFINE W == Seq(V)
             e == <<>>
  <2>1. e \in W /\ F \in [1 .. N -> [W -> W]] /\ N \in Nat
    BY <1>1, <1>3
  <2> HIDE DEF F, N, W, e
  <2>2. \E f \in [0 .. N -> W] : Recurs(f, e, F, N)
    BY <2>1, RecursionExists
  <2> QED  BY <2>2 DEF Recurs, W, e
<1>5. f = Step(f)
  <2>1. \A n \in 1 .. N : f[n - 1] \in Seq(V)
    BY <1>1
  <2>2. \A n \in 1 .. N : f[n] = More(n, f[n - 1])
    BY <1>4, <2>1
  <2>3. \A n \in 0 .. N : f[n] = IF n = 0 THEN <<>> ELSE More(n, f[n - 1])
    <3> HIDE DEF More, F
    <3> QED  BY <1>1, <1>4, <2>2
  <2> HIDE DEF More, F, N
  <2> QED  BY <2>3
<1>6. k = Step(k)
  <2> HIDE DEF Step
  <2> QED  BY <1>5
<1>7. k[0] = <<>> /\ \A n \in 1 .. N : k[n] = More(n, k[n - 1])
  <2> HIDE DEF k, More
  <2> QED  BY <1>1, <1>6
<1> HIDE DEF k, F, Step
<1> DEFINE Good(n) ==
             /\ k[n] \in Seq(V)
             /\ \E h \in [1 .. Len(k[n]) -> 1 .. n] :
                  /\ \A i, j \in 1 .. Len(k[n]) : i < j => h[i] < h[j]
                  /\ \A i \in 1 .. Len(k[n]) : k[n][i] = u[h[i]]
             /\ {k[n][i] : i \in 1 .. Len(k[n])} = {u[i] : i \in 1 .. n} \cap S
           A == {n \in Nat : n <= N => Good(n)}
<1>8. Good(0)
  <2>1. k[0] = <<>> /\ Len(k[0]) = 0 /\ 1 .. 0 = {}
    BY <1>7
  <2>2. <<>> \in [1 .. 0 -> 1 .. 0]
    BY <2>1
  <2> QED  BY <2>1, <2>2
<1>9. ASSUME NEW n \in Nat, n + 1 <= N, Good(n) PROVE Good(n + 1)
  <2> DEFINE s == k[n]
             m == Len(s)
  <2>1. n + 1 \in 1 .. N /\ u[n + 1] \in V /\ k[n + 1] = More(n + 1, s)
    BY <1>1, <1>7, <1>9
  <2>2. s \in Seq(V) /\ m \in Nat
    BY <1>9
  <2>3. PICK h \in [1 .. m -> 1 .. n] :
          /\ \A i, j \in 1 .. m : i < j => h[i] < h[j]
          /\ \A i \in 1 .. m : s[i] = u[h[i]]
    BY <1>9
  <2>4. {s[i] : i \in 1 .. m} = {u[i] : i \in 1 .. n} \cap S
    BY <1>9
  <2>5. {u[i] : i \in 1 .. n + 1} = {u[i] : i \in 1 .. n} \cup {u[n + 1]}
    <3>1. 1 .. n + 1 = 1 .. n \cup {n + 1}
      OBVIOUS
    <3> QED  BY <3>1
  <2> HIDE DEF s, m
  <2>6. CASE u[n + 1] \notin S
    <3>1. k[n + 1] = s
      BY <2>1, <2>6
    <3>2. h \in [1 .. m -> 1 .. n + 1]
      BY <2>3
    <3>3. {s[i] : i \in 1 .. m} = {u[i] : i \in 1 .. n + 1} \cap S
      BY <2>4, <2>5, <2>6
    <3> QED  BY <2>2, <2>3, <3>1, <3>2, <3>3 DEF m
  <2>7. CASE u[n + 1] \in S
    <3> DEFINE q == Append(s, u[n + 1])
               l == [i \in 1 .. m + 1 |-> IF i = m + 1 THEN n + 1 ELSE h[i]]
    <3>1. k[n + 1] = q
      BY <2>1, <2>7
    <3>2. /\ q \in Seq(V) /\ Len(q) = m + 1
          /\ q[m + 1] = u[n + 1] /\ \A i \in 1 .. m : q[i] = s[i]
      BY <2>1, <2>2 DEF m
    <3>3. l \in [1 .. m + 1 -> 1 .. n + 1]
      BY <2>2, <2>3
    <3>4. \A i \in 1 .. m : l[i] = h[i] /\ h[i] \in 1 .. n
      BY <2>2, <2>3
    <3>5. l[m + 1] = n + 1
      BY <2>2
    <3> HIDE DEF q, l
    <3>6. \A i, j \in 1 .. m + 1 : i < j => l[i] < l[j]
      <4> TAKE i, j \in 1 .. m + 1
      <4> HAVE i < j
      <4>1. i \in 1 .. m
        BY <2>2
      <4>2. CASE j \in 1 .. m
        BY <2>3, <3>4, <4>1, <4>2
      <4>3. CASE j = m + 1
        BY <3>4, <3>5, <4>1, <4>3
      <4> QED  BY <2>2, <4>2, <4>3
    <3>7. \A i \in 1 .. m + 1 : q[i] = u[l[i]]
      BY <2>2, <2>3, <3>2, <3>4, <3>5
    <3>8. {q[i] : i \in 1 .. m + 1} = {s[i] : i \in 1 .. m} \cup {u[n + 1]}
      <4>1. 1 .. m + 1 = 1 .. m \cup {m + 1}
        BY <2>2
      <4> QED  BY <3>2, <4>1
    <3>9. {q[i] : i \in 1 .. m + 1} = {u[i] : i \in 1 .. n + 1} \cap S
      BY <2>4, <2>5, <2>7, <3>8
    <3> QED  BY <3>1, <3>2, <3>3, <3>6, <3>7, <3>9
  <2> QED  BY <2>6, <2>7
<1>10. Good(N)
  <2> HIDE DEF Good
  <2>1. 0 \in A
    BY <1>8
  <2>2. \A n \in Nat : n \in A => n + 1 \in A
    BY <1>1, <1>9
  <2>3. Nat \subseteq A
    <3> HIDE DEF A
    <3> QED  BY <2>1, <2>2, NaturalsOf
  <2> QED  BY <1>1, <2>3
<1>11. Kept(u, S) = k[N]
  BY DEF Kept, k, Step
<1>12. \E h : Embeds(h, k[N], u)
  BY <1>10 DEF Embeds
<1>13. k[N] \in Seq(V) /\ {k[N][i] : i \in 1 .. Len(k[N])} = {u[i] : i \in 1 .. Len(u)} \cap S
  BY <1>10
<1> QED
  <2> HIDE DEF N
  <2> QED  BY <1>11, <1>12, <1>13 DEF Filters

-----------------------------------------------------------------------------
(* The FIFO of the pool, under whatever its methods do to it. *)

\* Map, FIFO and byte counter of a pool p tell the same story.
Fifo(p) ==
  /\ p.order \in Seq(Txs)
  /\ p.entries = {p.order[i] : i \in 1 .. Len(p.order)}
  /\ \A i, j \in 1 .. Len(p.order) : p.order[i] = p.order[j] => i = j
  /\ p.bytes = Bytes(p.entries)

WithinCaps(p) ==
  /\ Capacity > 0 => Cardinality(p.entries) <= Capacity
  /\ CapBytes > 0 => p.bytes <= CapBytes

AgesFit == age \in [Txs -> 0 .. TTL + 1]

LEMMA FifoFacts ==
  ASSUME NEW p, Fifo(p)
  PROVE  /\ p.entries \in SUBSET Txs /\ IsFiniteSet(p.entries)
         /\ Cardinality(p.entries) = Len(p.order)
         /\ p.bytes \in Nat
<1> DEFINE n == Len(p.order)
<1>1. n \in Nat /\ p.order \in [1 .. n -> Txs]
  BY DEF Fifo
<1>2. p.entries \in SUBSET Txs
  BY <1>1 DEF Fifo
<1>3. p.order \in Bijection(1 .. n, p.entries)
  <2>1. p.order \in [1 .. n -> p.entries]
    BY <1>1 DEF Fifo
  <2> QED  BY <2>1 DEF Fifo, Bijection, Injection, Surjection, IsInjective
<1>4. IsFiniteSet(1 .. n) /\ Cardinality(1 .. n) = n
  <2>1. 1 \in Int /\ n \in Int
    BY <1>1
  <2>2. IsFiniteSet(1 .. n) /\ Cardinality(1 .. n) = IF 1 > n THEN 0 ELSE n - 1 + 1
    BY <2>1, FS_Interval
  <2> QED  BY <1>1, <2>2
<1>5. IsFiniteSet(p.entries) /\ Cardinality(p.entries) = n
  <2> HIDE DEF n
  <2> QED  BY <1>3, <1>4, FS_Bijection DEF ExistsBijection
<1>6. Bytes(p.entries) \in Nat
  BY <1>2, <1>5, BytesSplit
<1> QED  BY <1>2, <1>5, <1>6 DEF Fifo

LEMMA OldestPart ==
  ASSUME Fifo(pool), NEW k \in 0 .. Len(pool.order)
  PROVE  /\ Oldest(k) \in SUBSET pool.entries
         /\ pool.entries \ Oldest(k) = {pool.order[i] : i \in k + 1 .. Len(pool.order)}
<1> DEFINE n == Len(pool.order)
<1>1. n \in Nat /\ k \in Nat /\ k <= n
  BY DEF Fifo
<1>2. \A i \in 1 .. n : i \in 1 .. k \/ i \in k + 1 .. n
  BY <1>1
<1>3. \A i \in k + 1 .. n : i \in 1 .. n /\ i \notin 1 .. k
  BY <1>1
<1>4. \A i \in 1 .. k : i \in 1 .. n
  BY <1>1
<1> HIDE DEF n
<1> QED  BY <1>2, <1>3, <1>4 DEF Fifo, Oldest, n

\* Dropping the k oldest leaves a pool in order.
LEMMA WithoutIsFifo ==
  ASSUME Fifo(pool), NEW k \in 0 .. Len(pool.order)
  PROVE  /\ Fifo(Without(k))
         /\ Without(k).entries = pool.entries \ Oldest(k)
         /\ Without(k).bytes = pool.bytes - Bytes(Oldest(k))
         /\ \E h : Embeds(h, Without(k).order, pool.order)
<1> DEFINE n == Len(pool.order)
           q == SubSeq(pool.order, k + 1, n)
           h == [i \in 1 .. n - k |-> k + i]
<1>1. n \in Nat /\ k \in Nat /\ k <= n /\ pool.order \in Seq(Txs)
  BY DEF Fifo
<1>2. q \in Seq(Txs) /\ Len(q) = n - k /\ \A i \in 1 .. n - k : q[i] = pool.order[k + i]
  BY <1>1
<1>3. Without(k) = [entries |-> pool.entries \ Oldest(k), order |-> q,
                    bytes |-> pool.bytes - Bytes(Oldest(k))]
  BY DEF Without
<1>4. /\ pool.entries \in SUBSET Txs /\ IsFiniteSet(pool.entries)
      /\ Oldest(k) \in SUBSET pool.entries
      /\ pool.entries \ Oldest(k) = {pool.order[i] : i \in k + 1 .. n}
  BY FifoFacts, OldestPart
<1>5. {pool.order[i] : i \in k + 1 .. n} = {q[i] : i \in 1 .. Len(q)}
  <2>1. ASSUME NEW i \in k + 1 .. n PROVE i - k \in 1 .. n - k /\ q[i - k] = pool.order[i]
    <3>1. i - k \in 1 .. n - k /\ k + (i - k) = i
      BY <1>1
    <3> QED  BY <1>2, <3>1
  <2>2. ASSUME NEW i \in 1 .. n - k PROVE k + i \in k + 1 .. n
    BY <1>1
  <2> HIDE DEF q
  <2>3. {pool.order[i] : i \in k + 1 .. n} \subseteq {q[i] : i \in 1 .. n - k}
    BY <2>1
  <2>4. {q[i] : i \in 1 .. n - k} \subseteq {pool.order[i] : i \in k + 1 .. n}
    BY <1>2, <2>2
  <2> QED  BY <1>2, <2>3, <2>4
<1>6. \A i, j \in 1 .. Len(q) : q[i] = q[j] => i = j
  <2> TAKE i, j \in 1 .. Len(q)
  <2> HAVE q[i] = q[j]
  <2>1. k + i \in 1 .. n /\ k + j \in 1 .. n /\ pool.order[k + i] = pool.order[k + j]
    BY <1>1, <1>2
  <2>2. k + i = k + j
    BY <2>1 DEF Fifo
  <2> QED  BY <1>1, <1>2, <2>2
<1>7. pool.bytes - Bytes(Oldest(k)) = Bytes(pool.entries \ Oldest(k))
  BY <1>4, BytesSplit DEF Fifo
<1>8. Fifo(Without(k))
  <2> DEFINE E == pool.entries \ Oldest(k)
             b == pool.bytes - Bytes(Oldest(k))
  <2>1. E = {q[i] : i \in 1 .. Len(q)} /\ b = Bytes(E) /\ q \in Seq(Txs)
    BY <1>2, <1>4, <1>5, <1>7
  <2>2. Without(k) = [entries |-> E, order |-> q, bytes |-> b]
    BY <1>3
  <2> HIDE DEF q, n, E, b
  <2> QED  BY <1>6, <2>1, <2>2 DEF Fifo
<1>9. Embeds(h, q, pool.order)
  <2>1. h \in [1 .. n - k -> 1 .. n]
    BY <1>1
  <2>2. \A i, j \in 1 .. n - k : i < j => h[i] < h[j]
    BY <1>1
  <2>3. \A i \in 1 .. n - k : q[i] = pool.order[h[i]]
    BY <1>2
  <2> HIDE DEF h, q
  <2> QED  BY <1>2, <2>1, <2>2, <2>3 DEF Embeds
<1> QED  BY <1>3, <1>8, <1>9

\* A transaction that was not there is the newest of a pool in order.
LEMMA InsertIsFifo ==
  ASSUME NEW p, Fifo(p), NEW t \in Txs, t \notin p.entries
  PROVE  /\ Fifo(Insert(p, t))
         /\ Insert(p, t).order = Append(p.order, t)
         /\ Cardinality(Insert(p, t).entries) = Cardinality(p.entries) + 1
         /\ Insert(p, t).bytes = p.bytes + Size[t]
<1> DEFINE n == Len(p.order)
           q == Append(p.order, t)
<1>1. n \in Nat /\ p.order \in Seq(Txs)
  BY DEF Fifo
<1>2. q \in Seq(Txs) /\ Len(q) = n + 1 /\ q[n + 1] = t /\ \A i \in 1 .. n : q[i] = p.order[i]
  BY <1>1
<1>3. Insert(p, t) = [entries |-> p.entries \cup {t}, order |-> q, bytes |-> p.bytes + Size[t]]
  BY DEF Insert
<1>4. 1 .. n + 1 = 1 .. n \cup {n + 1}
  BY <1>1
<1> HIDE DEF q, n
<1>5. p.entries \cup {t} = {q[i] : i \in 1 .. Len(q)}
  BY <1>2, <1>4 DEF Fifo, n
<1>6. \A i, j \in 1 .. Len(q) : q[i] = q[j] => i = j
  <2>1. \A i \in 1 .. n : q[i] \in p.entries
    BY <1>2 DEF Fifo, n
  <2> QED  BY <1>2, <1>4, <2>1 DEF Fifo, n
<1>7. p.bytes + Size[t] = Bytes(p.entries \cup {t})
  BY FifoFacts, BytesAdd DEF Fifo
<1>8. Cardinality(p.entries \cup {t}) = Cardinality(p.entries) + 1
  BY FifoFacts, FS_AddElement
<1> QED  BY <1>2, <1>3, <1>5, <1>6, <1>7, <1>8 DEF Fifo, q

\* The pool without the transactions of a block.
Pruned(S) ==
  [entries |-> pool.entries \ S,
   order   |-> Kept(pool.order, Txs \ S),
   bytes   |-> pool.bytes - Bytes(S \cap pool.entries)]

LEMMA PrunedIsFifo ==
  ASSUME Fifo(pool), NEW S
  PROVE  /\ Fifo(Pruned(S))
         /\ Pruned(S).entries \subseteq pool.entries
         /\ Pruned(S).bytes <= pool.bytes
         /\ \E h : Embeds(h, Pruned(S).order, pool.order)
<1> DEFINE q == Kept(pool.order, Txs \ S)
           T == S \cap pool.entries
<1>1. pool.order \in Seq(Txs)
  BY DEF Fifo
<1>2. /\ q \in Seq(Txs)
      /\ \E h : Embeds(h, q, pool.order)
      /\ {q[i] : i \in 1 .. Len(q)} = {pool.order[i] : i \in 1 .. Len(pool.order)} \cap (Txs \ S)
  <2>1. Filters(q, pool.order, Txs \ S, Txs)
    BY <1>1, KeptIsFilter
  <2> HIDE DEF q
  <2> QED  BY <2>1 DEF Filters
<1> HIDE DEF q
<1>3. /\ Pruned(S).entries = pool.entries \ S
      /\ Pruned(S).order = q
      /\ Pruned(S).bytes = pool.bytes - Bytes(T)
  BY DEF Pruned, q
<1>4. pool.entries \in SUBSET Txs /\ IsFiniteSet(pool.entries)
  BY FifoFacts
<1>5. pool.entries \ S = {q[i] : i \in 1 .. Len(q)}
  BY <1>2, <1>4 DEF Fifo
<1>6. \A i, j \in 1 .. Len(q) : q[i] = q[j] => i = j
  <2>1. PICK h : Embeds(h, q, pool.order)
    BY <1>2
  <2> TAKE i, j \in 1 .. Len(q)
  <2> HAVE q[i] = q[j]
  <2>2. h[i] \in 1 .. Len(pool.order) /\ h[j] \in 1 .. Len(pool.order) /\ h[i] = h[j]
    BY <2>1 DEF Embeds, Fifo
  <2>3. i \in Nat /\ j \in Nat /\ Len(pool.order) \in Nat
    BY <1>1, <1>2
  <2> QED  BY <2>1, <2>2, <2>3 DEF Embeds
<1>7. /\ pool.bytes - Bytes(T) = Bytes(pool.entries \ S)
      /\ pool.bytes - Bytes(T) <= pool.bytes
  <2>1. T \in SUBSET pool.entries /\ pool.entries \ T = pool.entries \ S
    OBVIOUS
  <2>2. /\ Bytes(pool.entries \ T) = Bytes(pool.entries) - Bytes(T)
        /\ Bytes(pool.entries) \in Nat /\ Bytes(T) \in Nat
    BY <1>4, <2>1, BytesSplit
  <2>3. pool.bytes = Bytes(pool.entries)
    BY DEF Fifo
  <2> HIDE DEF T
  <2> QED  BY <2>1, <2>2, <2>3
<1> QED  BY <1>2, <1>3, <1>5, <1>6, <1>7 DEF Fifo

-----------------------------------------------------------------------------

LEMMA StaleInRange ==
  ASSUME Fifo(pool)
  PROVE  Stale \in 0 .. Len(pool.order)
<1> DEFINE n == Len(pool.order)
           S == {k \in 0 .. n : \A t \in Oldest(k) : age[t] > TTL}
<1>1. n \in Nat
  BY DEF Fifo
<1>2. CASE TTL = 0
  BY <1>1, <1>2 DEF Stale
<1>3. CASE TTL # 0
  <2>1. Oldest(0) = {}
    BY DEF Oldest
  <2>2. S \in SUBSET (0 .. n) /\ 0 \in S /\ 0 \in Int /\ n \in Int
    BY <1>1, <2>1
  <2> HIDE DEF S, n
  <2>3. \E m \in S : \A l \in S : l <= m
    BY <2>2, GreatestExists
  <2>4. \A l, m \in S : l <= m <=> m >= l
    BY <2>2
  <2>5. Max(S) \in S
    BY <2>3, <2>4 DEF Max
  <2>6. Stale = Max(S)
    BY <1>3 DEF Stale, S, n
  <2> QED  BY <2>2, <2>5, <2>6 DEF n
<1> QED  BY <1>2, <1>3

LEMMA BatchEndInRange ==
  ASSUME Fifo(pool), NEW max \in Nat
  PROVE  BatchEnd(max) \in Stale .. Len(pool.order) /\ BatchEnd(max) \in 0 .. Len(pool.order)
<1>1. Len(pool.order) \in Nat
  BY DEF Fifo
<1> QED  BY <1>1, StaleInRange DEF BatchEnd

\* There is room for a transaction that is not too large, in an empty pool if
\* not before: the error "mempool_full" is never reached.
LEMMA RoomInRange ==
  ASSUME Fifo(pool), NEW t \in Txs, ~TooLarge(t)
  PROVE  RoomFor(t) \in 0 .. Len(pool.order) /\ FitsWithout(t, RoomFor(t))
<1> DEFINE n == Len(pool.order)
           S == {k \in Stale .. n : FitsWithout(t, k)}
<1>1. n \in Nat /\ Stale \in 0 .. n /\ n \in 0 .. n
  BY StaleInRange DEF Fifo
<1>2. Oldest(n) = pool.entries
  <2>1. n + 1 .. n = {}
    BY <1>1
  <2> QED  BY <1>1, <2>1, OldestPart
<1>3. FitsWithout(t, n)
  <2>1. pool.entries \ Oldest(n) = {} /\ Cardinality({}) = 0
    BY <1>2, FS_EmptySet
  <2>2. pool.bytes - Bytes(Oldest(n)) = 0
    <3>1. pool.bytes = Bytes(pool.entries) /\ pool.bytes \in Nat
      BY FifoFacts DEF Fifo
    <3> HIDE DEF n
    <3> QED  BY <1>2, <3>1
  <2>3. Size[t] \in Nat /\ Capacity \in Nat /\ CapBytes \in Nat
    BY MempoolAssumption
  <2>4. CapBytes > 0 => Size[t] <= CapBytes
    BY <2>3 DEF TooLarge
  <2>5. CapBytes > 0 => pool.bytes - Bytes(Oldest(n)) + Size[t] <= CapBytes
    BY <2>2, <2>3, <2>4
  <2>6. Capacity > 0 => Cardinality(pool.entries \ Oldest(n)) < Capacity
    BY <2>1, <2>3
  <2> QED  BY <2>5, <2>6 DEF FitsWithout
<1>4. S \in SUBSET (Stale .. n) /\ n \in S /\ Stale \in Int /\ n \in Int
  BY <1>1, <1>3
<1> HIDE DEF S, n
<1>5. \E m \in S : \A l \in S : m <= l
  BY <1>4, LeastExists
<1>6. Min(S) \in S
  BY <1>5 DEF Min
<1>7. RoomFor(t) = Min(S)
  BY DEF RoomFor, S, n
<1>8. RoomFor(t) \in S
  BY <1>6, <1>7
<1>9. RoomFor(t) \in Stale .. n /\ FitsWithout(t, RoomFor(t))
  BY <1>8 DEF S
<1> QED  BY <1>1, <1>9 DEF n

-----------------------------------------------------------------------------
(* The ages. *)

\* In p a transaction behind another one is new, or was behind it, or behind an
\* older one, before.
Follows(p) ==
  \A i, j \in 1 .. Len(p.order) : i < j =>
    \/ p.order[j] \notin pool.entries
    \/ p.order[i] \in pool.entries /\ age[p.order[i]] >= age[p.order[j]]

PoolFits ==
  /\ pool \in Pools
  /\ Fifo(pool)
  /\ WithinCaps(pool)
  /\ AgesFit
  /\ OldestFirst

\* What the pool becomes when it becomes p.
LEMMA SettleFits ==
  ASSUME PoolFits, NEW p \in Pools, Fifo(p), WithinCaps(p), Follows(p), Settle(p)
  PROVE  PoolFits'
<1>1. pool' = p
  BY DEF Settle
<1>2. \A t \in Txs : age'[t] = IF t \in pool.entries \cap p.entries THEN age[t] ELSE 0
  BY DEF Settle
<1>3. TTL \in Nat /\ \A t \in Txs : age[t] \in 0 .. TTL + 1
  BY MempoolAssumption DEF PoolFits, AgesFit
<1>4. AgesFit'
  <2>1. \A t \in Txs : (IF t \in pool.entries \cap p.entries THEN age[t] ELSE 0) \in 0 .. TTL + 1
    BY <1>3
  <2> QED  BY <2>1 DEF Settle, AgesFit
<1>5. /\ \A i \in 1 .. Len(p.order) : p.order[i] \in p.entries /\ p.order[i] \in Txs
      /\ DOMAIN p.order = 1 .. Len(p.order)
  BY DEF Fifo
<1>6. \A i, j \in 1 .. Len(p.order) : i < j => age'[p.order[i]] >= age'[p.order[j]]
  <2> TAKE i, j \in 1 .. Len(p.order)
  <2> HAVE i < j
  <2>1. age'[p.order[i]] \in Nat
    BY <1>2, <1>3, <1>5
  <2>2. CASE p.order[j] \notin pool.entries
    <3>1. age'[p.order[j]] = 0
      BY <1>2, <1>5, <2>2
    <3> QED  BY <2>1, <3>1
  <2>3. CASE p.order[j] \in pool.entries
    <3>1. p.order[i] \in pool.entries /\ age[p.order[i]] >= age[p.order[j]]
      BY <2>3 DEF Follows
    <3>2. age'[p.order[i]] = age[p.order[i]] /\ age'[p.order[j]] = age[p.order[j]]
      BY <1>2, <1>5, <2>3, <3>1
    <3> QED  BY <3>1, <3>2
  <2> QED  BY <2>2, <2>3
<1>7. OldestFirst'
  BY <1>1, <1>5, <1>6 DEF OldestFirst
<1>8. Fifo(pool)' /\ WithinCaps(pool)' /\ (pool \in Pools)'
  BY <1>1 DEF Fifo, WithinCaps
<1> QED  BY <1>4, <1>7, <1>8 DEF PoolFits

\* Where transactions are only dropped the order of the rest stays.
LEMMA EmbeddedFollows ==
  ASSUME Fifo(pool), OldestFirst, NEW p, Fifo(p), NEW h, Embeds(h, p.order, pool.order)
  PROVE  Follows(p)
<1> SUFFICES ASSUME NEW i \in 1 .. Len(p.order), NEW j \in 1 .. Len(p.order), i < j
             PROVE  p.order[i] \in pool.entries /\ age[p.order[i]] >= age[p.order[j]]
  BY DEF Follows
<1>1. /\ h[i] \in 1 .. Len(pool.order) /\ h[j] \in 1 .. Len(pool.order) /\ h[i] < h[j]
      /\ p.order[i] = pool.order[h[i]] /\ p.order[j] = pool.order[h[j]]
  BY DEF Embeds
<1>2. DOMAIN pool.order = 1 .. Len(pool.order)
  BY DEF Fifo
<1> QED  BY <1>1, <1>2 DEF Fifo, OldestFirst

\* Methods that drop the k oldest.
LEMMA DroppingFits ==
  ASSUME PoolFits, NEW k \in 0 .. Len(pool.order)
  PROVE  Without(k) \in Pools /\ Fifo(Without(k)) /\ WithinCaps(Without(k)) /\ Follows(Without(k))
<1>1. /\ Fifo(Without(k))
      /\ Without(k).entries = pool.entries \ Oldest(k)
      /\ Without(k).bytes = pool.bytes - Bytes(Oldest(k))
      /\ \E h : Embeds(h, Without(k).order, pool.order)
  BY WithoutIsFifo DEF PoolFits
<1>2. Without(k).entries \in SUBSET Txs /\ Without(k).order \in Seq(Txs) /\ Without(k).bytes \in Nat
  BY <1>1, FifoFacts DEF Fifo
<1>3. Without(k) \in Pools
  BY <1>2 DEF Without, Pools
<1>4. Oldest(k) \in SUBSET pool.entries /\ pool.entries \in SUBSET Txs /\ IsFiniteSet(pool.entries)
  BY OldestPart, FifoFacts DEF PoolFits
<1>5. Cardinality(pool.entries \ Oldest(k)) <= Cardinality(pool.entries)
  BY <1>4, FS_Subset
<1>6. /\ Cardinality(pool.entries \ Oldest(k)) \in Nat /\ Cardinality(pool.entries) \in Nat
      /\ pool.bytes \in Nat /\ Bytes(Oldest(k)) \in Nat
  <2>1. IsFiniteSet(pool.entries \ Oldest(k))
    BY <1>4, FS_Subset
  <2> QED  BY <1>4, <2>1, FS_CardinalityType, BytesSplit, FifoFacts DEF PoolFits
<1>7. WithinCaps(Without(k))
  BY <1>1, <1>5, <1>6, MempoolAssumption DEF PoolFits, WithinCaps
<1> QED  BY <1>1, <1>3, <1>7, EmbeddedFollows DEF PoolFits

\* The methods of Pool keep it in order; t is not in the pool when its number
\* is news.
LEMMA AddFits ==
  ASSUME PoolFits, NEW t \in Txs, IsNews(t) => t \notin pool.entries, AddValidatedCOSE(t)
  PROVE  PoolFits'
<1>1. Stale \in 0 .. Len(pool.order)
  BY StaleInRange DEF PoolFits
<1>2. CASE Settle(Without(Stale))
  BY <1>1, <1>2, DroppingFits, SettleFits
<1>3. CASE Enter(t)
  <2> DEFINE k == RoomFor(t)
             p == Without(k)
             q == Insert(p, t)
  <2>1. ~TooLarge(t) /\ t \notin pool.entries /\ Settle(q)
    BY <1>3 DEF Enter, IsAdmissible
  <2>2. k \in 0 .. Len(pool.order) /\ FitsWithout(t, k)
    BY <2>1, RoomInRange DEF PoolFits
  <2>3. /\ Fifo(p) /\ Follows(p)
        /\ p.entries = pool.entries \ Oldest(k)
        /\ p.bytes = pool.bytes - Bytes(Oldest(k))
    BY <2>2, DroppingFits, WithoutIsFifo DEF PoolFits
  <2> HIDE DEF k, p
  <2>4. t \notin p.entries
    BY <2>1, <2>3
  <2>5. /\ Fifo(q) /\ q.order = Append(p.order, t)
        /\ Cardinality(q.entries) = Cardinality(p.entries) + 1
        /\ q.bytes = p.bytes + Size[t]
    BY <2>3, <2>4, InsertIsFifo
  <2>6. q.entries \in SUBSET Txs /\ q.order \in Seq(Txs) /\ q.bytes \in Nat
    BY <2>5, FifoFacts DEF Fifo
  <2>7. q \in Pools
    BY <2>6 DEF Insert, Pools
  <2>8. WithinCaps(q)
    <3>1. Cardinality(p.entries) \in Nat /\ Capacity \in Nat
      BY <2>3, FifoFacts, FS_CardinalityType, MempoolAssumption
    <3>2. /\ Capacity > 0 => Cardinality(p.entries) < Capacity
          /\ CapBytes > 0 => p.bytes + Size[t] <= CapBytes
      BY <2>2, <2>3 DEF FitsWithout
    <3> HIDE DEF q
    <3> QED  BY <2>5, <3>1, <3>2 DEF WithinCaps
  <2>9. Follows(q)
    <3> SUFFICES ASSUME NEW i \in 1 .. Len(q.order), NEW j \in 1 .. Len(q.order), i < j,
                        q.order[j] \in pool.entries
                 PROVE  q.order[i] \in pool.entries /\ age[q.order[i]] >= age[q.order[j]]
      BY DEF Follows
    <3>1. p.order \in Seq(Txs) /\ Len(p.order) \in Nat
      BY <2>3 DEF Fifo
    <3>2. /\ Len(q.order) = Len(p.order) + 1 /\ q.order[Len(p.order) + 1] = t
          /\ \A l \in 1 .. Len(p.order) : q.order[l] = p.order[l]
      BY <2>5, <3>1
    <3>3. j \in 1 .. Len(p.order) /\ i \in 1 .. Len(p.order)
      BY <2>1, <3>1, <3>2
    <3> HIDE DEF q
    <3> QED  BY <2>3, <3>2, <3>3 DEF Follows
  <2> QED  BY <2>1, <2>5, <2>7, <2>8, <2>9, SettleFits
<1> QED  BY <1>2, <1>3 DEF AddValidatedCOSE, Refuse, RefuseLarge

LEMMA LookFits == PoolFits /\ Look => PoolFits'
BY StaleInRange, DroppingFits, SettleFits DEF PoolFits, Look

LEMMA PopFits ==
  ASSUME PoolFits, NEW max \in Nat, PopBatch(max)
  PROVE  PoolFits'
<1>1. BatchEnd(max) \in 0 .. Len(pool.order)
  BY BatchEndInRange DEF PoolFits
<1> QED  BY <1>1, DroppingFits, SettleFits DEF PopBatch

LEMMA RemoveFits ==
  ASSUME PoolFits, NEW S, RemoveTxIDs(S)
  PROVE  PoolFits'
<1>1. /\ Fifo(Pruned(S)) /\ Pruned(S).entries \subseteq pool.entries /\ Pruned(S).bytes <= pool.bytes
      /\ \E h : Embeds(h, Pruned(S).order, pool.order)
  BY PrunedIsFifo DEF PoolFits
<1>2. /\ Pruned(S).entries \in SUBSET Txs /\ Pruned(S).order \in Seq(Txs) /\ Pruned(S).bytes \in Nat
      /\ IsFiniteSet(Pruned(S).entries)
  BY <1>1, FifoFacts DEF Fifo
<1>3. Pruned(S) \in Pools
  BY <1>2 DEF Pruned, Pools
<1>4. IsFiniteSet(pool.entries) /\ pool.bytes \in Nat
  BY FifoFacts DEF PoolFits
<1>5. /\ Cardinality(Pruned(S).entries) <= Cardinality(pool.entries)
      /\ Cardinality(Pruned(S).entries) \in Nat /\ Cardinality(pool.entries) \in Nat
  BY <1>1, <1>2, <1>4, FS_Subset, FS_CardinalityType
<1>6. WithinCaps(Pruned(S))
  BY <1>1, <1>2, <1>4, <1>5, MempoolAssumption DEF PoolFits, WithinCaps
<1>7. Settle(Pruned(S))
  BY DEF RemoveTxIDs, Pruned
<1> QED  BY <1>1, <1>3, <1>6, <1>7, EmbeddedFollows, SettleFits DEF PoolFits

\* All that wait grow older together.
LEMMA TickFits == PoolFits /\ Tick => PoolFits'
<1> SUFFICES ASSUME PoolFits, Tick PROVE PoolFits'
  OBVIOUS
<1>1. pool' = pool
  BY DEF Tick
<1>2. TTL \in Nat /\ \A t \in Txs : age[t] \in 0 .. TTL + 1
  BY MempoolAssumption DEF PoolFits, AgesFit
<1>3. \A t \in Txs : age'[t] = IF t \in pool.entries /\ age[t] <= TTL THEN age[t] + 1 ELSE age[t]
  BY DEF Tick
<1>4. AgesFit'
  <2>1. \A t \in Txs :
          (IF t \in pool.entries /\ age[t] <= TTL THEN age[t] + 1 ELSE age[t]) \in 0 .. TTL + 1
    BY <1>2
  <2> QED  BY <2>1 DEF Tick, AgesFit
<1>5. /\ \A i \in 1 .. Len(pool.order) : pool.order[i] \in pool.entries /\ pool.order[i] \in Txs
      /\ DOMAIN pool.order = 1 .. Len(pool.order)
  BY DEF PoolFits, Fifo
<1>6. OldestFirst'
  <2> SUFFICES ASSUME NEW i \in DOMAIN pool.order, NEW j \in DOMAIN pool.order, i < j
               PROVE  age'[pool.order[i]] >= age'[pool.order[j]]
    BY <1>1 DEF OldestFirst
  <2>1. age[pool.order[i]] >= age[pool.order[j]]
    BY DEF PoolFits, OldestFirst
  <2> DEFINE x == pool.order[i]
             y == pool.order[j]
  <2>2. x \in pool.entries /\ y \in pool.entries /\ x \in Txs /\ y \in Txs
    BY <1>5
  <2> HIDE DEF x, y
  <2>3. age'[x] >= age'[y]
    BY <1>2, <1>3, <2>1, <2>2 DEF x, y
  <2> QED  BY <2>3 DEF x, y
<1> QED  BY <1>1, <1>4, <1>6 DEF PoolFits, Fifo, WithinCaps

LEMMA StutterFits == PoolFits /\ UNCHANGED <<pool, age>> => PoolFits'
BY DEF PoolFits, Fifo, WithinCaps, AgesFit, OldestFirst
-----------------------------------------------------------------------------
(* The pool in the hands of the goroutines. *)

\* Of every transaction in the pool the sender's key is registered.
EntriesKnown == keys \in SUBSET Senders /\ \A t \in pool.entries : Known(t)

FlowInv ==
  /\ PoolFits
  /\ EntriesKnown
  /\ Len(retries) <= RetryCap

LEMMA InitFlow == Init => FlowInv
<1> SUFFICES ASSUME Init PROVE FlowInv
  OBVIOUS
<1>1. /\ pool = [entries |-> {}, order |-> <<>>, bytes |-> 0]
      /\ age = [t \in Txs |-> 0]
      /\ keys \in SUBSET Senders /\ retries = <<>>
  BY DEF Init, PoolInit
<1>2. pool \in Pools /\ 1 .. Len(pool.order) = {} /\ pool.order \in Seq(Txs) /\ DOMAIN pool.order = {}
  BY <1>1 DEF Pools
<1>3. Fifo(pool)
  BY <1>1, <1>2, BytesOfNone DEF Fifo
<1>4. WithinCaps(pool)
  BY <1>1, FS_EmptySet, MempoolAssumption DEF WithinCaps
<1>5. AgesFit
  <2>1. 0 \in 0 .. TTL + 1
    BY MempoolAssumption
  <2> QED  BY <1>1, <2>1 DEF AgesFit
<1> QED
  BY <1>1, <1>2, <1>3, <1>4, <1>5, FlowAssumption DEF FlowInv, PoolFits, OldestFirst, EntriesKnown

LEMMA EnqueueFits ==
  ASSUME retries \in Seq(Retries), Len(retries) <= RetryCap, NEW r, Enqueue(r)
  PROVE  Len(retries') <= RetryCap
<1>1. CASE Len(retries) < RetryCap
  <2>1. Len(Append(retries, r)) = Len(retries) + 1 /\ Len(retries) \in Nat
    OBVIOUS
  <2> QED  BY <1>1, <2>1, FlowAssumption DEF Enqueue
<1> QED  BY <1>1 DEF Enqueue

LEMMA TryAgainFits ==
  ASSUME retries \in Seq(Retries), Len(retries) <= RetryCap, NEW g, NEW r, TryAgain(g, r)
  PROVE  Len(retries') <= RetryCap
BY EnqueueFits DEF TryAgain

\* What is in the pool after a transaction was offered was there or is it.
LEMMA AddedIsKnown ==
  ASSUME NEW t \in Txs, AddValidatedCOSE(t)
  PROVE  pool'.entries \subseteq pool.entries \cup {t}
<1>1. CASE Settle(Without(Stale))
  BY <1>1, WithoutDrops DEF Settle
<1>2. CASE Enter(t)
  <2>1. pool' = Insert(Without(RoomFor(t)), t)
    BY <1>2 DEF Enter, Settle
  <2>2. Insert(Without(RoomFor(t)), t).entries = Without(RoomFor(t)).entries \cup {t}
    BY DEF Insert
  <2> QED  BY <2>1, <2>2, WithoutDrops
<1> QED  BY <1>1, <1>2 DEF AddValidatedCOSE, Refuse, RefuseLarge

\* Adding a transaction whose key is known.
LEMMA AddingKeepsFlow ==
  ASSUME IInv, PoolFits, keys \in SUBSET Senders, \A u \in pool.entries : Known(u),
         NEW t \in Txs, AddValidatedCOSE(t),
         keys \subseteq keys', keys' \in SUBSET Senders, Sender[t] \in keys'
  PROVE  PoolFits' /\ EntriesKnown'
<1>1. IsNews(t) => t \notin pool.entries
  <2>1. t \in pool.entries => last[Sender[t]] >= Number[t]
    BY DEF IInv, WindowCovers, Admitted
  <2>2. last[Sender[t]] \in Int /\ Number[t] \in Int
    BY MempoolAssumption DEF IInv
  <2> QED  BY <2>1, <2>2 DEF IsNews
<1>2. PoolFits'
  BY <1>1, AddFits
<1>3. EntriesKnown'
  BY AddedIsKnown DEF EntriesKnown, Known
<1> QED  BY <1>2, <1>3

LEMMA NextFlow == IInv /\ FlowInv /\ [Next]_vars => FlowInv'
<1> SUFFICES ASSUME IInv, FlowInv, [Next]_vars PROVE FlowInv'
  OBVIOUS
<1> USE DEF FlowInv
<1>0. /\ retries \in Seq(Retries) /\ Len(retries) \in Nat
      /\ keys \in SUBSET Senders /\ \A u \in pool.entries : Known(u)
  BY DEF IInv, Jobs, EntriesKnown
<1>a. ASSUME UNCHANGED <<pool, age, keys>> PROVE PoolFits' /\ EntriesKnown'
  BY <1>0, <1>a, StutterFits DEF EntriesKnown, Known
<1>b. ASSUME PoolFits', pool'.entries \subseteq pool.entries, UNCHANGED flowVars PROVE FlowInv'
  BY <1>0, <1>b DEF EntriesKnown, Known, flowVars
<1>1. ASSUME NEW t \in Txs, Deliver(t) PROVE FlowInv'
  <2>1. CASE Known(t) /\ AddValidatedCOSE(t) /\ UNCHANGED <<keys, retries>>
    BY <1>0, <2>1, AddingKeepsFlow DEF Known
  <2>2. CASE UNCHANGED <<pool, age, keys, retries>>
    BY <1>0, <1>a, <2>2
  <2> QED  BY <1>1, <2>1, <2>2 DEF Deliver, Attempt
<1>2. ASSUME NEW t \in Txs, PostTx(t) PROVE FlowInv'
  BY <1>0, <1>2, AddingKeepsFlow DEF PostTx, Known, flowVars
<1>3. CASE TakeRetry
  <2> DEFINE r == Head(retries)
  <2>1. r \in Retries /\ Len(retries') <= RetryCap
    <3>1. retries # <<>> /\ retries' = Tail(retries)
      BY <1>3 DEF TakeRetry, Receive
    <3>2. Len(Tail(retries)) = Len(retries) - 1
      BY <1>0, <3>1
    <3> QED  BY <1>0, <3>1, <3>2, FlowAssumption
  <2>2. r.tx \in Txs
    BY <2>1 DEF Retries
  <2>3. CASE Known(r.tx) /\ AddValidatedCOSE(r.tx) /\ UNCHANGED keys
    BY <1>0, <2>1, <2>2, <2>3, AddingKeepsFlow DEF Known
  <2>4. CASE UNCHANGED <<pool, age, keys>>
    BY <1>a, <2>1, <2>4
  <2> QED  BY <1>3, <2>3, <2>4 DEF TakeRetry, Attempt
<1>4. ASSUME NEW g \in Goroutines, FetchReturns(g) PROVE FlowInv'
  <2> DEFINE t == job[g].tx
  <2>1. t \in Txs
    BY <1>4, JobAssumption DEF FetchReturns, Finish, IInv, Jobs, Retries
  <2>2. keys \subseteq keys' /\ keys' \in SUBSET Senders
    BY <1>0, <1>4, <2>1, MempoolAssumption DEF FetchReturns
  <2>3. PICK found \in BOOLEAN : SecondAttempt(g, t, found)
    BY <1>4 DEF FetchReturns
  <2>4. UNCHANGED retries \/ TryAgain(g, job[g])
    BY <2>3 DEF SecondAttempt
  <2>5. Len(retries') <= RetryCap
    BY <1>0, <2>4, TryAgainFits
  <2>6. CASE Sender[t] \in keys' /\ AddValidatedCOSE(t)
    <3> HIDE DEF t
    <3> QED  BY <1>0, <2>1, <2>2, <2>5, <2>6, AddingKeepsFlow
  <2>7. CASE UNCHANGED poolVars
    <3>1. PoolFits'
      BY <2>7, StutterFits DEF poolVars
    <3>2. EntriesKnown'
      BY <1>0, <2>2, <2>7 DEF EntriesKnown, Known, poolVars
    <3> QED  BY <2>5, <3>1, <3>2
  <2> QED  BY <2>3, <2>6, <2>7 DEF SecondAttempt
<1>5. ASSUME NEW s \in Senders, RegisterKey(s) PROVE FlowInv'
  <2>1. PoolFits'
    BY <1>5, StutterFits DEF RegisterKey, poolVars
  <2> QED  BY <1>0, <1>5, <2>1 DEF RegisterKey, EntriesKnown, Known, poolVars
<1>6. CASE BuildBlock
  <2>1. PoolFits'
    BY <1>6, PopFits, FlowAssumption DEF BuildBlock
  <2>2. pool'.entries \subseteq pool.entries
    BY <1>6, WithoutDrops DEF BuildBlock, PopBatch, Settle
  <2> QED  BY <1>6, <1>b, <2>1, <2>2 DEF BuildBlock
<1>7. ASSUME NEW S \in SUBSET pool.entries, AcceptBlock(S) PROVE FlowInv'
  <2>1. PoolFits'
    BY <1>7, RemoveFits DEF AcceptBlock
  <2>2. pool'.entries \subseteq pool.entries
    BY <1>7 DEF AcceptBlock, RemoveTxIDs, Settle
  <2> QED  BY <1>7, <1>b, <2>1, <2>2 DEF AcceptBlock
<1>8. CASE ReadPool
  <2>1. PoolFits'
    BY <1>8, LookFits DEF ReadPool
  <2>2. pool'.entries \subseteq pool.entries
    BY <1>8, WithoutDrops DEF ReadPool, Look, Settle
  <2> QED  BY <1>8, <1>b, <2>1, <2>2 DEF ReadPool
<1>9. CASE TimePasses
  <2>1. PoolFits' /\ pool' = pool
    BY <1>9, TickFits DEF TimePasses, Tick
  <2> QED  BY <1>9, <1>b, <2>1 DEF TimePasses
<1>10. CASE UNCHANGED vars
  BY <1>0, <1>10, <1>a DEF vars
<1> QED
  BY <1>1, <1>2, <1>3, <1>4, <1>5, <1>6, <1>7, <1>8, <1>9, <1>10 DEF Next

\* Map, FIFO and byte counter agree in every reachable state, the caps hold, the
\* oldest are first, and only transactions of known senders are in the pool.
THEOREM FlowInvariant == Spec => []FlowInv
BY InitFlow, NextFlow, WindowInvariant, PTL DEF Spec

\* The pool is sound whatever is added, evicted, expired, popped and pruned in
\* whatever order by HTTP, topic, retries, builder and block hook (mempool.go).
THEOREM PoolIsSound == Spec => []PoolSound
<1>1. IInv /\ FlowInv => PoolSound
  <2> SUFFICES ASSUME IInv, FlowInv PROVE PoolSound
    OBVIOUS
  <2> USE DEF IInv, FlowInv
  <2>1. TypeOK
    BY DEF TypeOK, PoolTypeOK, Admitted, Jobs, EntriesKnown, PoolFits, AgesFit
  <2>2. PoolInStep
    <3>1. Len(pool.order) = Cardinality(pool.entries)
      BY FifoFacts DEF PoolFits
    <3>2. ToSet(pool.order) = pool.entries
      BY DEF PoolFits, Fifo, ToSet
    <3> QED  BY <3>1, <3>2 DEF PoolInStep, PoolFits, Fifo, WithinCaps
  <2> QED  BY <2>1, <2>2 DEF PoolSound, PoolFits
<1> QED  BY <1>1, WindowInvariant, FlowInvariant, PTL

-----------------------------------------------------------------------------
(* The next block. *)

\* The builder's batch: transactions of the pool, none twice.
LEMMA BatchFacts ==
  ASSUME Fifo(pool), NEW max \in Nat
  PROVE  /\ Batch(max) \in Seq(Txs)
         /\ \A i \in 1 .. Len(Batch(max)) : Batch(max)[i] \in pool.entries
         /\ \A i, j \in 1 .. Len(Batch(max)) : Batch(max)[i] = Batch(max)[j] => i = j
<1> DEFINE m == BatchEnd(max)
           u == SubSeq(pool.order, Stale + 1, m)
           b == Kept(u, pool.entries)
<1>1. pool.order \in Seq(Txs) /\ Len(pool.order) \in Nat
  BY DEF Fifo
<1>2. Stale \in 0 .. Len(pool.order) /\ m \in Stale .. Len(pool.order)
  BY StaleInRange, BatchEndInRange
<1> HIDE DEF m
<1>3. /\ u \in Seq(Txs) /\ Len(u) = m - Stale
      /\ \A i \in 1 .. Len(u) : u[i] = pool.order[Stale + i]
  BY <1>1, <1>2
<1> HIDE DEF u
<1>4. /\ b \in Seq(Txs)
      /\ \E h : Embeds(h, b, u)
      /\ {b[i] : i \in 1 .. Len(b)} = {u[i] : i \in 1 .. Len(u)} \cap pool.entries
  <2>1. Filters(b, u, pool.entries, Txs)
    BY <1>3, KeptIsFilter
  <2> HIDE DEF b
  <2> QED  BY <2>1 DEF Filters
<1>5. Batch(max) = b
  BY DEF Batch, u, m
<1> HIDE DEF b
<1>6. \A i \in 1 .. Len(b) : b[i] \in pool.entries
  BY <1>4
<1>7. \A i, j \in 1 .. Len(b) : b[i] = b[j] => i = j
  <2>1. PICK h : Embeds(h, b, u)
    BY <1>4
  <2> TAKE i, j \in 1 .. Len(b)
  <2> HAVE b[i] = b[j]
  <2>2. h[i] \in 1 .. Len(u) /\ h[j] \in 1 .. Len(u) /\ u[h[i]] = u[h[j]]
    BY <2>1 DEF Embeds
  <2>3. /\ Stale + h[i] \in 1 .. Len(pool.order) /\ Stale + h[j] \in 1 .. Len(pool.order)
        /\ pool.order[Stale + h[i]] = pool.order[Stale + h[j]]
    <3> DEFINE x == h[i]
               y == h[j]
    <3>1. x \in 1 .. Len(u) /\ y \in 1 .. Len(u) /\ u[x] = u[y]
      BY <2>2
    <3> HIDE DEF x, y
    <3>2. Stale + x \in 1 .. Len(pool.order) /\ Stale + y \in 1 .. Len(pool.order)
      BY <1>1, <1>2, <1>3, <3>1
    <3>3. pool.order[Stale + x] = pool.order[Stale + y]
      BY <1>3, <3>1
    <3> QED  BY <3>2, <3>3 DEF x, y
  <2>4. Stale + h[i] = Stale + h[j]
    BY <2>3 DEF Fifo
  <2>5. h[i] = h[j]
    BY <1>1, <1>2, <1>3, <2>2, <2>4
  <2>6. i \in Nat /\ j \in Nat
    OBVIOUS
  <2> QED  BY <2>1, <2>5, <2>6 DEF Embeds
<1> QED  BY <1>4, <1>5, <1>6, <1>7

\* The block is filled up to its limits and not beyond.
LEMMA PackedFacts ==
  ASSUME NEW b \in Seq(Txs)
  PROVE  \E n \in 0 .. Len(b) : Packed(b) = SubSeq(b, 1, n) /\ Fits(b, n)
<1> DEFINE S == {n \in 0 .. Len(b) : Fits(b, n)}
<1>1. Fits(b, 0)
  <2>1. ToSet(SubSeq(b, 1, 0)) = {}
    BY DEF ToSet
  <2>2. Bytes(ToSet(SubSeq(b, 1, 0))) = 0
    BY <2>1, BytesOfNone
  <2> QED  BY <2>2, FlowAssumption DEF Fits
<1>2. S \in SUBSET (0 .. Len(b)) /\ 0 \in S /\ 0 \in Int /\ Len(b) \in Int
  BY <1>1
<1> HIDE DEF S
<1>3. \E n \in S : \A k \in S : k <= n
  BY <1>2, GreatestExists
<1>4. \A n, k \in S : k <= n <=> n >= k
  BY <1>2
<1>5. Max(S) \in S
  BY <1>3, <1>4 DEF Max
<1>6. Packed(b) = SubSeq(b, 1, Max(S))
  BY DEF Packed, S
<1> QED  BY <1>5, <1>6 DEF S

\* Whenever the builder fills a block from the pool, every subscriber with the
\* same limits takes it (BlockBuilder.Start, StartBlockSubscriber).
THEOREM BlocksAreAcceptable == Spec => []NextBlockIsAcceptable
<1>1. FlowInv => NextBlockIsAcceptable
  <2> SUFFICES ASSUME FlowInv PROVE Acceptable(Packed(Batch(MaxTxs)))
    BY DEF NextBlockIsAcceptable
  <2> DEFINE b == Batch(MaxTxs)
  <2>1. /\ b \in Seq(Txs)
        /\ \A i \in 1 .. Len(b) : b[i] \in pool.entries
        /\ \A i, j \in 1 .. Len(b) : b[i] = b[j] => i = j
    BY BatchFacts, FlowAssumption DEF FlowInv, PoolFits
  <2> HIDE DEF b
  <2>2. PICK n \in 0 .. Len(b) : Packed(b) = SubSeq(b, 1, n) /\ Fits(b, n)
    BY <2>1, PackedFacts
  <2> DEFINE q == SubSeq(b, 1, n)
  <2>3. Len(q) = n /\ DOMAIN q = 1 .. n /\ \A i \in 1 .. n : q[i] = b[i] /\ i \in 1 .. Len(b)
    BY <2>1
  <2>4. /\ MaxTxs > 0 => Len(q) <= MaxTxs
        /\ MaxBytes > 0 => Bytes(ToSet(q)) <= MaxBytes
    BY <2>2, <2>3 DEF Fits
  <2> HIDE DEF q
  <2>5. IsInjective(q)
    BY <2>1, <2>3 DEF IsInjective
  <2>6. \A i \in DOMAIN q : Known(q[i])
    BY <2>1, <2>3 DEF FlowInv, EntriesKnown
  <2> QED  BY <2>2, <2>4, <2>5, <2>6 DEF Acceptable, q, b
<1> QED  BY <1>1, FlowInvariant, PTL

=============================================================================
