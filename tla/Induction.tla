------------------------------ MODULE Induction ------------------------------
(***************************************************************************)
(* Lemmas about natural numbers and finite sets that the proofs of the     *)
(* mempool and of the election need: least elements, induction over a set  *)
(* of naturals, functions defined by recursion, and the places of the      *)
(* elements of a finite set in a strict order.  Nothing here is about the  *)
(* code.                                                                   *)
(***************************************************************************)
EXTENDS Integers, FiniteSets, FiniteSetTheorems, TLAPS

\* A set of naturals that is not empty has a least element.
LEMMA LeastNatural ==
  ASSUME NEW S \in SUBSET Nat, S # {}
  PROVE  \E m \in S : \A n \in S : m <= n
<1> DEFINE R == StrictSubsetOrdering(Nat)
           F == FiniteSubsetsOf(Nat)
           T == {0 .. n : n \in S}
<1>1. IsWellFoundedOn(R, F)
  BY FS_StrictSubsetOrderingWellFounded
<1>2. T \subseteq F /\ T # {}
  <2>1. ASSUME NEW n \in S PROVE 0 .. n \in F
    <3>1. n \in Int /\ 0 \in Int
      OBVIOUS
    <3>2. IsFiniteSet(0 .. n)
      BY <3>1, FS_Interval
    <3>3. 0 .. n \in SUBSET Nat
      BY <3>1
    <3> QED  BY <3>2, <3>3 DEF FiniteSubsetsOf
  <2> QED  BY <2>1
<1>3. PICK x \in T : \A y \in T : ~ (<<y, x>> \in R)
  <2> HIDE DEF R, F, T
  <2> QED  BY <1>1, <1>2, WFMin
<1>4. PICK m \in S : x = 0 .. m
  OBVIOUS
<1>5. ASSUME NEW n \in S, n < m PROVE FALSE
  <2>1. 0 .. n \in T
    OBVIOUS
  <2>2. 0 .. n \subseteq 0 .. m /\ m \in 0 .. m /\ m \notin 0 .. n
    BY <1>5
  <2>3. <<0 .. n, 0 .. m>> \in R
    BY <2>2 DEF StrictSubsetOrdering
  <2> QED  BY <2>1, <2>3, <1>3, <1>4
<1> QED  BY <1>5

\* Induction over the naturals, for a set of them.
LEMMA NaturalsOf ==
  ASSUME NEW S, 0 \in S, \A n \in Nat : n \in S => n + 1 \in S
  PROVE  Nat \subseteq S
<1> SUFFICES ASSUME Nat \ S # {} PROVE FALSE
  OBVIOUS
<1>1. Nat \ S \in SUBSET Nat
  OBVIOUS
<1>2. PICK m \in Nat \ S : \A n \in Nat \ S : m <= n
  BY <1>1, LeastNatural
<1>3. m # 0 /\ m - 1 \in Nat
  BY <1>2
<1>4. m - 1 \in S
  BY <1>2, <1>3
<1> QED  BY <1>2, <1>3, <1>4

\* A bounded set of integers that is not empty has a greatest element, and a
\* least one.
LEMMA GreatestExists ==
  ASSUME NEW a \in Int, NEW b \in Int, NEW S \in SUBSET (a .. b), S # {}
  PROVE  \E m \in S : \A n \in S : n <= m
<1> DEFINE T == {b - n : n \in S}
<1>1. T \in SUBSET Nat /\ T # {}
  OBVIOUS
<1>2. PICK d \in T : \A c \in T : d <= c
  <2> HIDE DEF T
  <2> QED  BY <1>1, LeastNatural
<1>3. PICK m \in S : d = b - m
  BY <1>2
<1>4. ASSUME NEW n \in S PROVE n <= m
  <2>1. b - n \in T
    OBVIOUS
  <2>2. d <= b - n
    BY <1>2, <2>1
  <2>3. n \in Int /\ m \in Int
    OBVIOUS
  <2> QED  BY <1>3, <2>2, <2>3
<1> QED  BY <1>4

LEMMA LeastExists ==
  ASSUME NEW a \in Int, NEW b \in Int, NEW S \in SUBSET (a .. b), S # {}
  PROVE  \E m \in S : \A n \in S : m <= n
<1> DEFINE T == {n - a : n \in S}
<1>0. \A n \in S : n - a \in Nat
  OBVIOUS
<1>1. T \in SUBSET Nat /\ T # {}
  BY <1>0
<1>2. PICK d \in T : \A c \in T : d <= c
  <2> HIDE DEF T
  <2> QED  BY <1>1, LeastNatural
<1>3. PICK m \in S : d = m - a
  BY <1>2
<1>4. ASSUME NEW n \in S PROVE m <= n
  <2>1. n - a \in T
    OBVIOUS
  <2>2. d <= n - a
    BY <1>2, <2>1
  <2>3. n \in Int /\ m \in Int
    OBVIOUS
  <2> QED  BY <1>3, <2>2, <2>3
<1> QED  BY <1>4

\* f starts with v0 and F[n] leads from one value to the next.
Recurs(f, v0, F, N) == f[0] = v0 /\ \A n \in 1 .. N : f[n] = F[n][f[n - 1]]

\* A function on 0 .. N can be defined by its value at 0 and a step from each
\* number to the next.
LEMMA RecursionExists ==
  ASSUME NEW V, NEW v0 \in V, NEW N \in Nat, NEW F \in [1 .. N -> [V -> V]]
  PROVE  \E f \in [0 .. N -> V] : Recurs(f, v0, F, N)
<1> DEFINE Upto(n) == \E f \in [0 .. n -> V] :
                        f[0] = v0 /\ \A i \in 1 .. n : f[i] = F[i][f[i - 1]]
           S == {n \in Nat : n <= N => Upto(n)}
<1>1. 0 \in S
  <2>1. [i \in 0 .. 0 |-> v0] \in [0 .. 0 -> V]
    OBVIOUS
  <2>2. [i \in 0 .. 0 |-> v0][0] = v0 /\ \A i \in 1 .. 0 : FALSE
    OBVIOUS
  <2>3. Upto(0)
    BY <2>1, <2>2
  <2> QED  BY <2>3
<1>2. ASSUME NEW n \in Nat, n \in S PROVE n + 1 \in S
  <2>1. SUFFICES ASSUME n + 1 <= N PROVE Upto(n + 1)
    OBVIOUS
  <2>2. Upto(n)
    BY <1>2, <2>1
  <2>3. PICK f \in [0 .. n -> V] :
          f[0] = v0 /\ \A i \in 1 .. n : f[i] = F[i][f[i - 1]]
    BY <2>2
  <2> DEFINE g == [i \in 0 .. n + 1 |-> IF i = n + 1 THEN F[n + 1][f[n]] ELSE f[i]]
  <2>4. f[n] \in V /\ n + 1 \in 1 .. N
    BY <2>1
  <2>5. F[n + 1][f[n]] \in V
    BY <2>4
  <2>6. g \in [0 .. n + 1 -> V]
    BY <2>5
  <2>7. g[0] = v0
    BY <2>3
  <2>8. ASSUME NEW i \in 1 .. n + 1 PROVE g[i] = F[i][g[i - 1]]
    <3>1. CASE i = n + 1
      <4>1. g[i] = F[n + 1][f[n]] /\ g[i - 1] = f[n]
        BY <3>1
      <4> QED  BY <3>1, <4>1
    <3>2. CASE i \in 1 .. n
      <4>1. g[i] = f[i] /\ g[i - 1] = f[i - 1]
        BY <3>2
      <4> QED  BY <2>3, <3>2, <4>1
    <3> QED  BY <3>1, <3>2
  <2> HIDE DEF g
  <2> QED  BY <2>6, <2>7, <2>8
<1>3. N \in S
  <2> HIDE DEF S
  <2>1. Nat \subseteq S
    BY <1>1, <1>2, NaturalsOf
  <2> QED  BY <2>1
<1>4. PICK f \in [0 .. N -> V] : f[0] = v0 /\ \A i \in 1 .. N : f[i] = F[i][f[i - 1]]
  BY <1>3
<1>5. Recurs(f, v0, F, N)
  BY <1>4 DEF Recurs
<1> QED  BY <1>5
-----------------------------------------------------------------------------
(* The places of the elements of a finite set in a strict order. *)

\* R orders the elements of S strictly.
OrdersStrictly(R, S) ==
  /\ \A x \in S : <<x, x>> \notin R
  /\ \A x, y, z \in S : <<x, y>> \in R /\ <<y, z>> \in R => <<x, z>> \in R
  /\ \A x, y \in S : x # y => <<x, y>> \in R \/ <<y, x>> \in R

Below(R, S, x) == {y \in S : <<y, x>> \in R}

\* As many elements are below x as x's place says; the places are the numbers
\* from 0 up to the number of elements, each taken once.
LEMMA PlacesOfOrder ==
  ASSUME NEW S, IsFiniteSet(S), NEW R, OrdersStrictly(R, S)
  PROVE  /\ \A x \in S : Cardinality(Below(R, S, x)) \in 0 .. Cardinality(S) - 1
         /\ \A x, y \in S : <<x, y>> \in R =>
              Cardinality(Below(R, S, x)) < Cardinality(Below(R, S, y))
         /\ \A i \in 0 .. Cardinality(S) - 1 : \E x \in S : Cardinality(Below(R, S, x)) = i
<1> DEFINE n == Cardinality(S)
           place == [x \in S |-> Cardinality(Below(R, S, x))]
<1>1. n \in Nat
  BY FS_CardinalityType
<1>2. ASSUME NEW x \in S
      PROVE  IsFiniteSet(Below(R, S, x)) /\ Cardinality(Below(R, S, x)) \in 0 .. n - 1
  <2>1. Below(R, S, x) \in SUBSET S /\ x \notin Below(R, S, x)
    BY DEF Below, OrdersStrictly
  <2>2. IsFiniteSet(Below(R, S, x)) /\ Cardinality(Below(R, S, x)) <= n
    BY <2>1, FS_Subset
  <2>3. Cardinality(Below(R, S, x)) # n
    BY <2>1, FS_Subset
  <2>4. Cardinality(Below(R, S, x)) \in Nat
    BY <2>2, FS_CardinalityType
  <2> QED  BY <1>1, <2>2, <2>3, <2>4
<1>3. ASSUME NEW x \in S, NEW y \in S, <<x, y>> \in R
      PROVE  Cardinality(Below(R, S, x)) < Cardinality(Below(R, S, y))
  <2>1. Below(R, S, x) \in SUBSET Below(R, S, y)
    BY <1>3 DEF Below, OrdersStrictly
  <2>2. x \in Below(R, S, y) /\ x \notin Below(R, S, x)
    BY <1>3 DEF Below, OrdersStrictly
  <2>3. /\ Cardinality(Below(R, S, x)) <= Cardinality(Below(R, S, y))
        /\ Cardinality(Below(R, S, x)) # Cardinality(Below(R, S, y))
    BY <1>2, <2>1, <2>2, FS_Subset
  <2>4. Cardinality(Below(R, S, x)) \in Int /\ Cardinality(Below(R, S, y)) \in Int
    BY <1>2
  <2> QED  BY <2>3, <2>4
<1>4. ASSUME NEW i \in 0 .. n - 1
      PROVE  \E x \in S : Cardinality(Below(R, S, x)) = i
  <2>1. place \in [S -> 0 .. n - 1]
    BY <1>2
  <2>2. ASSUME NEW x \in S, NEW y \in S, place[x] = place[y] PROVE x = y
    <3>1. SUFFICES ASSUME <<x, y>> \in R \/ <<y, x>> \in R PROVE FALSE
      BY DEF OrdersStrictly
    <3>2. /\ Cardinality(Below(R, S, x)) = Cardinality(Below(R, S, y))
          /\ Cardinality(Below(R, S, x)) \in Int
      BY <1>2, <2>2
    <3> QED  BY <1>3, <3>1, <3>2
  <2>3. place \in Injection(S, 0 .. n - 1)
    BY <2>1, <2>2 DEF Injection, IsInjective
  <2>4. IsFiniteSet(0 .. n - 1) /\ Cardinality(0 .. n - 1) = n
    <3>1. n - 1 \in Int /\ 0 \in Int
      BY <1>1
    <3>2. Cardinality(0 .. n - 1) = IF 0 > n - 1 THEN 0 ELSE (n - 1) - 0 + 1
      BY <3>1, FS_Interval
    <3> QED  BY <1>1, <3>1, <3>2, FS_Interval
  <2>5. place \in Surjection(S, 0 .. n - 1)
    <3> HIDE DEF place
    <3> QED  BY <2>3, <2>4, FS_Injection
  <2> QED  BY <2>5 DEF Surjection
<1> QED  BY <1>2, <1>3, <1>4
=============================================================================
