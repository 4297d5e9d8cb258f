------------------------------- MODULE Weight -------------------------------
(***************************************************************************)
(* The rank arithmetic of AION (internal/aion/weight.go): a candidate's    *)
(* rank is its VRF output, scaled, divided by the epoch's weight with a    *)
(* long division byte by byte.  A VRF output is a sequence of Width bytes, *)
(* the most significant first; Base is the number of values of a byte.     *)
(***************************************************************************)
EXTENDS Integers, Sequences

CONSTANTS Base, Width

ASSUME WeightAssumption ==
  /\ Base \in Nat /\ Base >= 2
  /\ Width \in Nat \ {0}

One == Base * Base             \* qOne: 1.0 with two fractional bytes

\* MovingAvg4Q16
Average(h) == (h[1] + h[2] + h[3] + h[4]) \div 4

\* WeightQ16: 1 + alpha * average, cut to four bytes.
WeightOf(alpha, h) ==
  LET wt == One + (alpha * Average(h)) \div One
      top == One * One - 1
  IN IF wt > top THEN top ELSE wt

\* The scaled output has room for one byte more only, so the first byte of the
\* output is shifted out.
Scaled(y) == SubSeq(y, 2, Width) \o <<0, 0>>

\* Mutant: the remainder is not brought down to the next byte.
RankValueNoCarry(y, wt) == [i \in 1 .. Width + 1 |-> Scaled(y)[i] \div wt]

RankValue(y, wt) ==
  LET num == Scaled(y)
      cur[i \in 1 .. Width + 1] ==
        (IF i = 1 THEN 0 ELSE (cur[i - 1] % wt) * Base) + num[i]
  IN [i \in 1 .. Width + 1 |-> (cur[i] \div wt) % Base]

\* CmpRank(a, b) < 0: the first byte that differs decides.
Smaller(a, b) ==
  \E i \in DOMAIN a : a[i] < b[i] /\ \A j \in 1 .. i - 1 : a[j] = b[j]

-----------------------------------------------------------------------------
(* What the division is to compute. *)

\* The number that the bytes of d are.
Value(d) ==
  LET v[i \in 0 .. Len(d)] == IF i = 0 THEN 0 ELSE v[i - 1] * Base + d[i]
  IN v[Len(d)]

\* The output without its first byte, divided by the weight.
Quotient(y, wt) == (Value(Tail(y)) * One) \div wt
=============================================================================
