------------------------------ MODULE Recursion -----------------------------
(***************************************************************************)
(* What the proofs need to know of recursive functions on the first natural *)
(* numbers.  The induction theorems of the library take an operator, which  *)
(* the provers cannot instantiate; these take sets and functions instead.   *)
(***************************************************************************)
EXTENDS Integers, WellFoundedInduction, TLAPS

\* A set of natural numbers that is not empty has a least element: searches stop
\* at the first index with some property, and a proof by induction at the
\* first number that is an exception.
LEMMA LeastNatural ==
  ASSUME NEW S \in SUBSET Nat, S # {}
  PROVE  \E m \in S : \A n \in S : m <= n
<1>1. PICK m \in S : \A n \in S : ~(<<n, m>> \in OpToRel(<, Nat))
  BY NatLessThanWellFounded, WFMin
<1>2. ASSUME NEW n \in S, n < m PROVE FALSE
  <2>1. <<n, m>> \in OpToRel(<, Nat)
    <3>1. <<n, m>> \in Nat \X Nat
      OBVIOUS
    <3> QED BY <1>2, <3>1 DEF OpToRel
  <2> QED BY <1>1, <2>1
<1> QED BY <1>2

\* Counting up: what holds of 0 and of the next number after each one of which it
\* holds, holds of all numbers up to n.  T is the set of those of which it holds.
LEMMA CountingUp ==
  ASSUME NEW n \in Nat, NEW T, 0 \in T,
         \A i \in 1 .. n : i - 1 \in T => i \in T
  PROVE  \A i \in 0 .. n : i \in T
<1> SUFFICES ASSUME NEW j \in 0 .. n, j \notin T PROVE FALSE
  OBVIOUS
<1> DEFINE S == {i \in 0 .. n : i \notin T}
<1>1. S \in SUBSET Nat /\ S # {}
  OBVIOUS
<1>2. PICK m \in S : \A i \in S : m <= i
  BY <1>1, LeastNatural
<1>3. m \in 1 .. n /\ m - 1 \in 0 .. n /\ ~(m <= m - 1)
  BY <1>2
<1>4. m - 1 \in T
  BY <1>2, <1>3
<1> QED BY <1>2, <1>3, <1>4

\* A function on 0 .. n is to start with a, and to go on from the value for i - 1
\* to that for i by G[i].
Stepwise(n, S, a, G) == n \in Nat /\ a \in S /\ G \in [1 .. n -> [S -> S]]

\* Such a function exists.
LEMMA StepwiseFunction ==
  ASSUME NEW n, NEW S, NEW a, NEW G, Stepwise(n, S, a, G)
  PROVE  \E f \in [0 .. n -> S] : f[0] = a /\ \A i \in 1 .. n : f[i] = G[i][f[i - 1]]
<1> USE DEF Stepwise
<1> DEFINE Good(m) == \E f \in [0 .. m -> S] :
                        f[0] = a /\ \A i \in 1 .. m : f[i] = G[i][f[i - 1]]
           T == {m \in 0 .. n : Good(m)}
<1>1. 0 \in T
  <2> DEFINE f == [i \in 0 .. 0 |-> a]
  <2>1. f \in [0 .. 0 -> S] /\ f[0] = a /\ \A i \in 1 .. 0 : f[i] = G[i][f[i - 1]]
    OBVIOUS
  <2>2. Good(0)
    BY <2>1
  <2> QED BY <2>2
<1>2. ASSUME NEW m \in 1 .. n, m - 1 \in T PROVE m \in T
  <2>1. PICK f \in [0 .. m - 1 -> S] :
          f[0] = a /\ \A i \in 1 .. m - 1 : f[i] = G[i][f[i - 1]]
    BY <1>2
  <2> DEFINE g == [i \in 0 .. m |-> IF i = m THEN G[m][f[m - 1]] ELSE f[i]]
  <2>2. f[m - 1] \in S /\ G[m][f[m - 1]] \in S
    <3>1. m - 1 \in 0 .. m - 1
      OBVIOUS
    <3>2. f[m - 1] \in S
      BY <3>1
    <3> QED BY <3>2
  <2>3. \A i \in 0 .. m - 1 : g[i] = f[i]
    OBVIOUS
  <2>4. g \in [0 .. m -> S]
    <3>1. ASSUME NEW i \in 0 .. m PROVE g[i] \in S
      <4>1. CASE i = m
        BY <2>2, <4>1
      <4>2. CASE i # m
        <5>1. i \in 0 .. m - 1
          BY <4>2
        <5> QED BY <2>3, <5>1
      <4> QED BY <4>1, <4>2
    <3> QED BY <3>1
  <2>5. g[0] = a
    <3>1. 0 \in 0 .. m - 1
      OBVIOUS
    <3> QED BY <2>1, <2>3, <3>1
  <2>6. ASSUME NEW i \in 1 .. m PROVE g[i] = G[i][g[i - 1]]
    <3>1. i - 1 \in 0 .. m - 1 /\ g[i - 1] = f[i - 1]
      BY <2>3
    <3>2. CASE i = m
      <4>1. g[m] = G[m][f[m - 1]]
        OBVIOUS
      <4> QED BY <3>1, <3>2, <4>1
    <3>3. CASE i # m
      <4>1. i \in 1 .. m - 1 /\ i \in 0 .. m - 1
        BY <3>3
      <4>2. g[i] = f[i] /\ f[i] = G[i][f[i - 1]]
        BY <2>1, <2>3, <4>1
      <4> QED BY <3>1, <4>2
    <3> QED BY <3>2, <3>3
  <2> HIDE DEF g
  <2>7. Good(m)
    BY <2>4, <2>5, <2>6
  <2> HIDE DEF Good
  <2> QED BY <2>7
<1>3. n \in T
  <2> HIDE DEF T
  <2>1. \A i \in 0 .. n : i \in T
    BY <1>1, <1>2, CountingUp
  <2> QED BY <2>1
<1> QED BY <1>3

\* The value of a function for p is to be that for a lower number J[p], or D[p] when
\* J[p] is none.
Jumping(n, S, D, J) ==
  n \in Nat /\ D \in [0 .. n -> S] /\ J \in [0 .. n -> Int] /\ \A p \in 0 .. n : J[p] < p

\* Such a function exists.
LEMMA JumpingFunction ==
  ASSUME NEW n, NEW S, NEW D, NEW J, Jumping(n, S, D, J)
  PROVE  \E f \in [0 .. n -> S] :
           \A p \in 0 .. n : f[p] = IF J[p] >= 0 THEN f[J[p]] ELSE D[p]
<1> USE DEF Jumping
<1> DEFINE Good(m) == \E f \in [0 .. m -> S] :
                        \A p \in 0 .. m : f[p] = IF J[p] >= 0 THEN f[J[p]] ELSE D[p]
           T == {m \in 0 .. n : Good(m)}
<1>1. 0 \in T
  <2> DEFINE f == [i \in 0 .. 0 |-> D[0]]
  <2>1. 0 \in 0 .. n /\ D[0] \in S /\ ~(J[0] >= 0)
    OBVIOUS
  <2>2. f \in [0 .. 0 -> S] /\ \A p \in 0 .. 0 : f[p] = IF J[p] >= 0 THEN f[J[p]] ELSE D[p]
    BY <2>1
  <2>3. Good(0)
    BY <2>2
  <2> QED BY <2>3
<1>2. ASSUME NEW m \in 1 .. n, m - 1 \in T PROVE m \in T
  <2>1. PICK f \in [0 .. m - 1 -> S] :
          \A p \in 0 .. m - 1 : f[p] = IF J[p] >= 0 THEN f[J[p]] ELSE D[p]
    BY <1>2
  <2> DEFINE last == IF J[m] >= 0 THEN f[J[m]] ELSE D[m]
             g == [i \in 0 .. m |-> IF i = m THEN last ELSE f[i]]
  <2>2. m \in 0 .. n /\ J[m] \in Int /\ J[m] < m /\ D[m] \in S
    OBVIOUS
  <2>3. last \in S
    <3>1. J[m] >= 0 => J[m] \in 0 .. m - 1
      BY <2>2
    <3> QED BY <2>2, <3>1
  <2>4. (\A i \in 0 .. m - 1 : g[i] = f[i]) /\ g[m] = last
    OBVIOUS
  <2>5. g \in [0 .. m -> S]
    <3>1. ASSUME NEW i \in 0 .. m PROVE g[i] \in S
      <4>1. CASE i = m
        BY <2>3, <4>1
      <4>2. CASE i # m
        <5>1. i \in 0 .. m - 1
          BY <4>2
        <5> QED BY <2>4, <5>1
      <4> QED BY <4>1, <4>2
    <3> QED BY <3>1
  <2> HIDE DEF g
  <2>6. ASSUME NEW p \in 0 .. m PROVE g[p] = IF J[p] >= 0 THEN g[J[p]] ELSE D[p]
    <3>1. p \in 0 .. n /\ J[p] \in Int /\ J[p] < p
      BY <2>2
    <3>2. J[p] >= 0 => g[J[p]] = f[J[p]]
      <4>1. J[p] >= 0 => J[p] \in 0 .. m - 1
        BY <3>1
      <4> QED BY <2>4, <4>1
    <3>3. CASE p = m
      BY <2>4, <3>2, <3>3
    <3>4. CASE p # m
      <4>1. p \in 0 .. m - 1
        BY <3>4
      <4>2. g[p] = f[p] /\ f[p] = IF J[p] >= 0 THEN f[J[p]] ELSE D[p]
        BY <2>1, <2>4, <4>1
      <4> QED BY <3>2, <4>2
    <3> QED BY <3>3, <3>4
  <2>7. Good(m)
    BY <2>5, <2>6
  <2> HIDE DEF Good
  <2> QED BY <2>2, <2>7
<1>3. n \in T
  <2> HIDE DEF T
  <2>1. \A i \in 0 .. n : i \in T
    BY <1>1, <1>2, CountingUp
  <2> QED BY <2>1
<1> QED BY <1>3

\* A loop: G is done again and again, from a on.  What does change the state makes
\* the measure M of it smaller, and that is at most n at first.
Repeats(n, S, a, G, M) ==
  /\ n \in Nat /\ a \in S /\ G \in [S -> S] /\ M \in [S -> Nat] /\ M[a] <= n
  /\ \A s \in S : G[s] = s \/ M[G[s]] < M[s]

\* There is a function that does it n times.
LEMMA RepeatedFunction ==
  ASSUME NEW n, NEW S, NEW a, NEW G, NEW M, Repeats(n, S, a, G, M)
  PROVE  \E f \in [0 .. n -> S] : f[0] = a /\ \A i \in 1 .. n : f[i] = G[f[i - 1]]
<1> DEFINE H == [i \in 1 .. n |-> G]
<1>1. Stepwise(n, S, a, H) /\ \A i \in 1 .. n : H[i] = G
  BY DEF Repeats, Stepwise
<1> HIDE DEF H
<1>2. PICK f \in [0 .. n -> S] : f[0] = a /\ \A i \in 1 .. n : f[i] = H[i][f[i - 1]]
  BY <1>1, StepwiseFunction
<1> QED BY <1>1, <1>2

\* And after that, doing it once more changes nothing.
LEMMA RepeatedEnds ==
  ASSUME NEW n, NEW S, NEW a, NEW G, NEW M, Repeats(n, S, a, G, M),
         NEW f, f[0] = a, \A i \in 1 .. n : f[i] = G[f[i - 1]]
  PROVE  f[n] \in S /\ G[f[n]] = f[n]
<1>1. n \in Nat /\ a \in S /\ M[a] <= n
  BY DEF Repeats
<1>2. \A s \in S : G[s] \in S /\ M[s] \in Nat /\ (G[s] = s \/ M[G[s]] < M[s])
  BY DEF Repeats
<1> DEFINE Good(i) == f[i] \in S /\ (G[f[i]] = f[i] \/ M[f[i]] <= n - i)
           T == {i \in 0 .. n : Good(i)}
<1>3. 0 \in T
  BY <1>1
<1>4. ASSUME NEW i \in 1 .. n, i - 1 \in T PROVE i \in T
  <2>1. f[i - 1] \in S /\ (G[f[i - 1]] = f[i - 1] \/ M[f[i - 1]] <= n - (i - 1))
    BY <1>4
  <2>2. f[i] = G[f[i - 1]] /\ f[i] \in S
    BY <1>2, <2>1
  <2>3. CASE G[f[i - 1]] = f[i - 1]
    BY <2>1, <2>2, <2>3
  <2>4. CASE G[f[i - 1]] # f[i - 1]
    <3>1. M[f[i]] < M[f[i - 1]] /\ M[f[i - 1]] <= n - (i - 1) /\ M[f[i]] \in Nat /\ M[f[i - 1]] \in Nat
      BY <1>2, <2>1, <2>2, <2>4
    <3>2. M[f[i]] <= n - i
      BY <1>1, <3>1
    <3> QED BY <2>2, <3>2
  <2> QED BY <2>3, <2>4
<1> HIDE DEF T
<1>5. n \in T
  <2>1. \A i \in 0 .. n : i \in T
    BY <1>1, <1>3, <1>4, CountingUp
  <2> QED BY <1>1, <2>1
<1>6. f[n] \in S /\ (G[f[n]] = f[n] \/ M[f[n]] <= n - n)
  BY <1>5 DEF T
<1>7. ~(M[G[f[n]]] < M[f[n]]) \/ ~(M[f[n]] <= n - n)
  BY <1>1, <1>2, <1>6
<1> QED BY <1>2, <1>6, <1>7
=============================================================================
