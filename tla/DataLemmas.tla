----------------------------- MODULE DataLemmas -----------------------------
(***************************************************************************)
(* Facts about numbers, functions and sequences that the proofs about the  *)
(* kernel's rings, lists and tables rest on.                               *)
(***************************************************************************)
EXTENDS Integers, Sequences, FiniteSetTheorems, TLAPS

\* A function on 1..n with values in S is a sequence.
LEMMA FcnIsSeq ==
    ASSUME NEW S, NEW n \in Nat, NEW f \in [1..n -> S]
    PROVE  f \in Seq(S) /\ Len(f) = n /\ DOMAIN f = 1..n
  OBVIOUS

\* A number below twice the modulus is reduced by one subtraction.
LEMMA ModOnce ==
    ASSUME NEW C \in Nat \ {0}, NEW a \in 0..(2 * C - 1)
    PROVE  a % C = IF a < C THEN a ELSE a - C
  OBVIOUS

\* Division rounds down, and keeps the order of numbers.
LEMMA Division ==
    ASSUME NEW n \in Nat \ {0}
    PROVE  /\ 0 \div n = 0 /\ n \div n = 1
           /\ \A a \in Nat : a \div n \in Nat
           /\ \A a, b \in Nat : a <= b => a \div n <= b \div n
  OBVIOUS

\* A list without repetitions is not longer than its elements are many.
LEMMA NoLongerThan ==
    ASSUME NEW T, IsFiniteSet(T), NEW n \in Nat, NEW f \in [1..n -> T],
           \A i, j \in 1..n : f[i] = f[j] => i = j
    PROVE  n <= Cardinality(T)
<1> DEFINE S == 1..n
<1>1. IsFiniteSet(S) /\ Cardinality(S) = n
  BY FS_Interval
<1>2. Cardinality(T) \in Nat
  BY FS_CardinalityType
<1>3. f \in [S -> T] /\ ~\E x, y \in S : x # y /\ f[x] = f[y]
  OBVIOUS
<1> HIDE DEF S
<1>4. ~(Cardinality(T) < Cardinality(S))
  BY <1>1, <1>3, FS_PigeonHole
<1> QED BY <1>1, <1>2, <1>4

\* A set of numbers has a least one.  What holds of 0 and, with all smaller
\* numbers, of n therefore holds of every number: the least exception would be none.
LEMMA LeastNumber ==
    ASSUME NEW T \in SUBSET Nat, T # {}
    PROVE  \E m \in T : \A n \in T : m <= n
<1> DEFINE R == StrictSubsetOrdering(Nat)
           F == {0..k : k \in T}
<1>1. IsWellFoundedOn(R, FiniteSubsetsOf(Nat))
  BY FS_StrictSubsetOrderingWellFounded
<1>2. F \subseteq FiniteSubsetsOf(Nat) /\ F # {}
  <2>1. \A k \in T : 0..k \in FiniteSubsetsOf(Nat)
    <3> SUFFICES ASSUME NEW k \in T PROVE 0..k \in FiniteSubsetsOf(Nat)
      OBVIOUS
    <3>1. IsFiniteSet(0..k)
      BY FS_Interval
    <3>2. 0..k \in SUBSET Nat
      OBVIOUS
    <3> QED BY <3>1, <3>2 DEF FiniteSubsetsOf
  <2> QED BY <2>1
<1>3. PICK x \in F : \A y \in F : <<y, x>> \notin R
  <2> HIDE DEF R, F
  <2> QED BY <1>1, <1>2, WFMin
<1>4. PICK m \in T : x = 0..m
  BY <1>3
<1>5. ASSUME NEW n \in T, ~(m <= n) PROVE FALSE
  <2>1. 0..n \subseteq 0..m /\ 0..n # 0..m
    BY <1>5
  <2>2. <<0..n, 0..m>> \in R
    BY <2>1 DEF StrictSubsetOrdering
  <2> QED BY <1>3, <1>4, <2>2
<1> QED BY <1>5

\* What a function makes of a finite set is finite, and as large if no value is
\* met twice.
LEMMA ImageFinite ==
    ASSUME NEW S, IsFiniteSet(S), NEW T, NEW f \in [S -> T], \A y \in T : \E x \in S : f[x] = y
    PROVE  /\ IsFiniteSet(T)
           /\ (\A x, y \in S : f[x] = f[y] => x = y) => Cardinality(T) = Cardinality(S)
<1>1. f \in Surjection(S, T)
  BY DEF Surjection
<1>2. (\A x, y \in S : f[x] = f[y] => x = y) => f \in Injection(S, T)
  BY DEF Injection, IsInjective
<1> QED BY <1>1, <1>2, FS_Surjection
=============================================================================
