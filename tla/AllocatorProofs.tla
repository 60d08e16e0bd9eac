--------------------------- MODULE AllocatorProofs --------------------------
(***************************************************************************)
(* Proofs about the wall vector of c4_Allocator, for every MaxInt, every    *)
(* set of lengths and every setting of the limits of ReduceFrags.           *)
(***************************************************************************)
EXTENDS Allocator, FiniteSetTheorems, SequenceTheorems, Recursion

\* A function on 1 .. n is a sequence of length n.
LEMMA FunctionIsSequence ==
  ASSUME NEW S, NEW n \in Nat, NEW f \in [1 .. n -> S]
  PROVE  f \in Seq(S) /\ Len(f) = n
<1>1. f \in Seq(S)
  BY SeqDef
<1>2. Len(f) \in Nat /\ DOMAIN f = 1 .. Len(f)
  BY <1>1, LenProperties
<1>3. DOMAIN f = 1 .. n
  OBVIOUS
<1>4. Len(f) = n
  BY <1>2, <1>3
<1> QED BY <1>1, <1>4

\* What a sorted vector of walls is, entry by entry.
LEMMA SortedFacts ==
  ASSUME NEW w, Sorted(w)
  PROVE  /\ Len(w) \in Nat /\ Len(w) >= 4 /\ Len(w) % 2 = 0
         /\ w \in [1 .. Len(w) -> 0 .. MaxInt]
         /\ w[1] = 0 /\ w[2] = 0 /\ w[Len(w)] = MaxInt
         /\ \A i, j \in 2 .. Len(w) : i < j => w[i] < w[j]
<1>1. w \in Seq(0 .. MaxInt)
  BY DEF Sorted
<1>2. Len(w) \in Nat /\ w \in [1 .. Len(w) -> 0 .. MaxInt]
  BY <1>1, LenProperties
<1> QED BY <1>2 DEF Sorted

\* And what shows that a vector is one.
LEMMA SortedIntro ==
  ASSUME NEW n \in Nat, n >= 4, n % 2 = 0,
         NEW w \in [1 .. n -> 0 .. MaxInt],
         w[1] = 0, w[2] = 0, w[n] = MaxInt,
         \A i, j \in 2 .. n : i < j => w[i] < w[j]
  PROVE  Sorted(w)
<1>1. w \in Seq(0 .. MaxInt) /\ Len(w) = n
  BY FunctionIsSequence
<1> QED BY <1>1 DEF Sorted

----------------------------------------------------------------------------
\* The elementary changes of the vector.

\* One wall is moved, staying between its neighbours.
LEMMA SetAtSorted ==
  ASSUME NEW w, Sorted(w), NEW i \in 2 .. Len(w) - 2, NEW v \in Int,
         GetAt(w, i - 1) < v, v < GetAt(w, i + 1)
  PROVE  Sorted(SetAt(w, i, v))
<1> DEFINE n == Len(w)
           u == SetAt(w, i, v)
<1>1. /\ n \in Nat /\ n >= 4 /\ n % 2 = 0
      /\ w \in [1 .. n -> 0 .. MaxInt]
      /\ w[1] = 0 /\ w[2] = 0 /\ w[n] = MaxInt
      /\ \A a, b \in 2 .. n : a < b => w[a] < w[b]
  BY SortedFacts
<1>2. i \in Int /\ i >= 2 /\ i + 2 <= n
  BY <1>1
<1>3. w[i] < v /\ v < w[i + 2]
  BY <1>2 DEF GetAt
<1>4. w[i] \in 0 .. MaxInt /\ w[i + 2] \in 0 .. MaxInt
  BY <1>1, <1>2
<1>5. v \in 0 .. MaxInt
  BY <1>3, <1>4, AllocatorAssumption DEF AllocatorAssumption
<1>6. u \in [1 .. n -> 0 .. MaxInt] /\ u[i + 1] = v
  BY <1>1, <1>2, <1>5 DEF SetAt
<1>7. \A k \in 1 .. n : k # i + 1 => u[k] = w[k]
  BY <1>1 DEF SetAt
<1>8. ASSUME NEW a \in 2 .. n, NEW b \in 2 .. n, a < b PROVE u[a] < u[b]
  <2> HIDE DEF u
  <2>1. CASE a = i + 1
    <3>1. u[b] = w[b]
      BY <1>1, <1>7, <1>8, <2>1
    <3>2. b = i + 2 \/ (i + 2 < b /\ w[i + 2] < w[b])
      BY <1>1, <1>2, <1>8, <2>1
    <3>3. w[b] \in 0 .. MaxInt
      BY <1>1
    <3> QED BY <1>3, <1>4, <1>5, <1>6, <2>1, <3>1, <3>2, <3>3
  <2>2. CASE b = i + 1
    <3>1. u[a] = w[a]
      BY <1>1, <1>7, <1>8, <2>2
    <3>2. a = i \/ (a < i /\ w[a] < w[i])
      BY <1>1, <1>2, <1>8, <2>2
    <3>3. w[a] \in 0 .. MaxInt
      BY <1>1
    <3> QED BY <1>3, <1>4, <1>5, <1>6, <2>2, <3>1, <3>2, <3>3
  <2>3. CASE a # i + 1 /\ b # i + 1
    BY <1>1, <1>7, <1>8, <2>3
  <2> QED BY <2>1, <2>2, <2>3
<1>9. u[1] = 0 /\ u[2] = 0 /\ u[n] = MaxInt
  BY <1>1, <1>2, <1>7
<1> QED BY <1>1, <1>6, <1>8, <1>9, SortedIntro

\* A pair behind the first and before the last is removed.
LEMMA RemovePairSorted ==
  ASSUME NEW w, Sorted(w), NEW i \in 2 .. Len(w) - 3
  PROVE  Sorted(RemovePair(w, i))
<1> DEFINE n == Len(w)
           u == RemovePair(w, i)
<1>1. /\ n \in Nat /\ n >= 4 /\ n % 2 = 0
      /\ w \in [1 .. n -> 0 .. MaxInt]
      /\ w[1] = 0 /\ w[2] = 0 /\ w[n] = MaxInt
      /\ \A a, b \in 2 .. n : a < b => w[a] < w[b]
  BY SortedFacts
<1>2. n - 2 \in Nat /\ n - 2 >= 4 /\ (n - 2) % 2 = 0
  BY <1>1
<1>3. u \in [1 .. n - 2 -> 0 .. MaxInt]
  BY <1>1, <1>2 DEF RemovePair
<1>4. \A k \in 1 .. n - 2 : u[k] = IF k <= i THEN w[k] ELSE w[k + 2]
  BY DEF RemovePair
<1> HIDE DEF u
<1>5. ASSUME NEW a \in 2 .. n - 2, NEW b \in 2 .. n - 2, a < b PROVE u[a] < u[b]
  BY <1>1, <1>4, <1>5
<1>6. u[1] = 0 /\ u[2] = 0 /\ u[n - 2] = MaxInt
  BY <1>1, <1>2, <1>4
<1> QED BY <1>2, <1>3, <1>5, <1>6, SortedIntro DEF u

\* A pair is inserted between two walls.
LEMMA PairInsertedSorted ==
  ASSUME NEW w, Sorted(w), NEW i \in 2 .. Len(w) - 1,
         NEW from \in Int, NEW to \in Int,
         GetAt(w, i - 1) < from, from < to, to < GetAt(w, i)
  PROVE  Sorted(PairInserted(w, i, from, to))
<1> DEFINE n == Len(w)
           u == PairInserted(w, i, from, to)
<1>1. /\ n \in Nat /\ n >= 4
      /\ w \in [1 .. n -> 0 .. MaxInt]
      /\ w[1] = 0 /\ w[2] = 0 /\ w[n] = MaxInt
      /\ \A a, b \in 2 .. n : a < b => w[a] < w[b]
  BY SortedFacts
<1>2. i \in Int /\ 2 <= i /\ i < n
  BY <1>1
<1>3. w[i] < from /\ to < w[i + 1]
  BY <1>2 DEF GetAt
<1>4. w[i] \in 0 .. MaxInt /\ w[i + 1] \in 0 .. MaxInt
  BY <1>1, <1>2
<1>5. from \in 0 .. MaxInt /\ to \in 0 .. MaxInt
  BY <1>3, <1>4, AllocatorAssumption DEF AllocatorAssumption
<1>6. /\ u \in [1 .. n + 2 -> 0 .. MaxInt]
      /\ \A k \in 1 .. n + 2 : u[k] = CASE k <= i    -> w[k]
                                       [] k = i + 1 -> from
                                       [] k = i + 2 -> to
                                       [] OTHER     -> w[k - 2]
  BY <1>1, <1>2, <1>5 DEF PairInserted
<1> HIDE DEF u
<1>7. /\ \A k \in 1 .. i : u[k] = w[k]
      /\ u[i + 1] = from /\ u[i + 2] = to
      /\ \A k \in i + 3 .. n + 2 : u[k] = w[k - 2]
  <2> HIDE DEF n
  <2>1. ASSUME NEW k \in 1 .. i PROVE u[k] = w[k]
    <3>1. k \in 1 .. n + 2 /\ k <= i
      BY <1>1, <1>2
    <3> QED BY <1>6, <3>1
  <2>2. i + 1 \in 1 .. n + 2 /\ i + 2 \in 1 .. n + 2
    BY <1>1, <1>2
  <2>3. ~(i + 1 <= i) /\ ~(i + 2 <= i) /\ i + 2 # i + 1
    BY <1>2
  <2>4. u[i + 1] = from /\ u[i + 2] = to
    BY <1>6, <2>2, <2>3
  <2>5. ASSUME NEW k \in i + 3 .. n + 2 PROVE u[k] = w[k - 2]
    <3>1. k \in 1 .. n + 2 /\ ~(k <= i) /\ k # i + 1 /\ k # i + 2
      BY <1>1, <1>2
    <3> QED BY <1>6, <3>1
  <2> QED BY <2>1, <2>4, <2>5
<1>8. ASSUME NEW a \in 2 .. n + 2, NEW b \in 2 .. n + 2, a < b PROVE u[a] < u[b]
  <2> HIDE DEF n
  <2>1. ASSUME NEW k \in 2 .. i PROVE u[k] = w[k] /\ u[k] \in Int /\ u[k] < from
    <3>1. u[k] = w[k] /\ w[k] \in 0 .. MaxInt
      BY <1>1, <1>2, <1>7
    <3>2. k = i \/ w[k] < w[i]
      BY <1>1, <1>2
    <3> QED BY <1>3, <1>4, <1>5, <3>1, <3>2
  <2>2. ASSUME NEW k \in i + 3 .. n + 2
        PROVE  u[k] = w[k - 2] /\ u[k] \in Int /\ to < u[k]
    <3>1. k - 2 \in i + 1 .. n /\ k - 2 \in 1 .. n /\ k - 2 \in 2 .. n /\ i + 1 \in 2 .. n
      BY <1>1, <1>2
    <3>2. u[k] = w[k - 2] /\ w[k - 2] \in 0 .. MaxInt
      BY <1>1, <1>7, <3>1
    <3>3. k - 2 = i + 1 \/ w[i + 1] < w[k - 2]
      BY <1>1, <1>2, <3>1
    <3> QED BY <1>3, <1>4, <1>5, <3>2, <3>3
  <2>3. CASE b <= i
    <3>1. a \in 2 .. i /\ b \in 2 .. i /\ a \in 2 .. n /\ b \in 2 .. n
      BY <1>1, <1>2, <1>8, <2>3
    <3>2. u[a] = w[a] /\ u[b] = w[b] /\ w[a] < w[b]
      BY <1>1, <1>8, <2>1, <3>1
    <3> QED BY <3>2
  <2>4. CASE a >= i + 3
    <3>1. a \in i + 3 .. n + 2 /\ b \in i + 3 .. n + 2
      BY <1>1, <1>2, <1>8, <2>4
    <3>2. a - 2 \in 2 .. n /\ b - 2 \in 2 .. n /\ a - 2 < b - 2
      BY <1>1, <1>2, <1>8, <3>1
    <3>3. u[a] = w[a - 2] /\ u[b] = w[b - 2]
      BY <2>2, <3>1
    <3> QED BY <1>1, <3>2, <3>3
  <2>5. CASE a <= i + 2 /\ b >= i + 1
    <3>1. a \in 2 .. i \/ a = i + 1 \/ a = i + 2
      BY <1>2, <2>5
    <3>2. b = i + 1 \/ b = i + 2 \/ b \in i + 3 .. n + 2
      BY <1>1, <1>2, <2>5
    <3>3. a \in 2 .. i => u[a] \in Int /\ u[a] < from
      BY <2>1
    <3>4. b \in i + 3 .. n + 2 => u[b] \in Int /\ to < u[b]
      BY <2>2
    <3> QED BY <1>2, <1>5, <1>7, <1>8, <3>1, <3>2, <3>3, <3>4
  <2> QED BY <1>1, <1>2, <2>3, <2>4, <2>5
<1>9. u[1] = 0 /\ u[2] = 0 /\ u[n + 2] = MaxInt
  <2> HIDE DEF n
  <2>1. u[1] = w[1] /\ u[2] = w[2]
    BY <1>1, <1>2, <1>7
  <2>2. n + 2 \in i + 3 .. n + 2 /\ (n + 2) - 2 = n
    BY <1>1, <1>2
  <2>3. u[n + 2] = w[n]
    BY <1>7, <2>2
  <2> QED BY <1>1, <2>1, <2>3
<1>10. n + 2 \in Nat /\ n + 2 >= 4 /\ (n + 2) % 2 = 0
  BY SortedFacts
<1> QED BY <1>6, <1>8, <1>9, <1>10, SortedIntro DEF u

\* A sorted vector of which some entries are kept, in their order.
LEMMA SelectionSorted ==
  ASSUME NEW w, Sorted(w), NEW m \in Nat, m >= 4, m % 2 = 0,
         NEW s \in [1 .. m -> 1 .. Len(w)],
         s[1] = 1, s[2] = 2, s[m] = Len(w),
         \A a, b \in 1 .. m : a < b => s[a] < s[b]
  PROVE  Sorted([k \in 1 .. m |-> w[s[k]]])
<1> DEFINE n == Len(w)
           u == [k \in 1 .. m |-> w[s[k]]]
<1>1. /\ n \in Nat /\ n >= 4
      /\ w \in [1 .. n -> 0 .. MaxInt]
      /\ w[1] = 0 /\ w[2] = 0 /\ w[n] = MaxInt
      /\ \A a, b \in 2 .. n : a < b => w[a] < w[b]
  BY SortedFacts
<1>2. u \in [1 .. m -> 0 .. MaxInt] /\ u[1] = 0 /\ u[2] = 0 /\ u[m] = MaxInt
  BY <1>1
<1>3. ASSUME NEW a \in 2 .. m, NEW b \in 2 .. m, a < b PROVE u[a] < u[b]
  <2>1. a \in 1 .. m /\ b \in 1 .. m /\ 2 \in 1 .. m
    OBVIOUS
  <2>2. s[a] < s[b] /\ (a = 2 \/ s[2] < s[a]) /\ s[a] \in 1 .. n /\ s[b] \in 1 .. n
    BY <1>3, <2>1
  <2>3. s[a] \in 2 .. n /\ s[b] \in 2 .. n
    BY <1>1, <2>2
  <2>4. w[s[a]] < w[s[b]]
    BY <1>1, <2>2, <2>3
  <2> QED BY <2>1, <2>4
<1> HIDE DEF u
<1>4. Sorted(u)
  BY <1>2, <1>3, SortedIntro
<1> QED BY <1>4 DEF u
----------------------------------------------------------------------------
\* ReduceFrags keeps some of the pairs.

\* The ranges it keeps are inner ones, a finite set.
LEMMA KeptIsInner ==
  ASSUME NEW w, Sorted(w)
  PROVE  /\ Kept(w) \subseteq InnerPairs(w)
         /\ Cardinality(Kept(w)) \in Nat
<1>1. Kept(w) \subseteq InnerPairs(w)
  BY DEF Kept, LargerThan
<1>2. Len(w) - 3 \in Int
  BY SortedFacts
<1>3. IsFiniteSet(2 .. Len(w) - 3)
  BY <1>2, FS_Interval
<1>4. Kept(w) \in SUBSET (2 .. Len(w) - 3)
  BY <1>1 DEF InnerPairs
<1>5. IsFiniteSet(Kept(w))
  BY <1>3, <1>4, FS_Subset
<1> QED BY <1>1, <1>5, FS_CardinalityType

\* The vector made of the first pair, the pairs kept and the last pair is sorted.
LEMMA ReduceFragsSorted ==
  ASSUME NEW w, Sorted(w), NEW v \in ReduceFrags(w)
  PROVE  Sorted(v)
<1> DEFINE n == Len(w)
           S == Kept(w)
           c == Cardinality(S)
           m == 2 * c + 4
<1>1. PICK f \in Increasing(S) : v = Compacted(w, f, c)
  BY DEF ReduceFrags
<1>2. c \in Nat /\ n \in Nat /\ n >= 4 /\ n % 2 = 0
  BY KeptIsInner, SortedFacts
<1>3. /\ f \in [1 .. c -> S]
      /\ \A a, b \in 1 .. c : a < b => f[a] < f[b]
  BY <1>1 DEF Increasing
<1>4. ASSUME NEW p \in 1 .. c
      PROVE  f[p] \in Int /\ 2 <= f[p] /\ f[p] <= n - 4 /\ f[p] % 2 = 0
  <2>1. f[p] \in InnerPairs(w)
    BY <1>3, KeptIsInner
  <2>2. f[p] \in 2 .. n - 3 /\ f[p] % 2 = 0
    BY <2>1 DEF InnerPairs
  <2> QED BY <1>2, <2>2
<1> DEFINE half(k) == (k - 1) \div 2
           s == [k \in 1 .. m |->
                   CASE k <= 2     -> k
                     [] k > m - 2  -> n - m + k
                     [] OTHER      -> f[half(k)] + 1 + ((k + 1) % 2)]
<1>5. ASSUME NEW k \in 1 .. m, 2 < k, k <= m - 2
      PROVE  half(k) \in 1 .. c /\ k = 2 * half(k) + 1 + ((k + 1) % 2) /\ (k + 1) % 2 \in 0 .. 1
  BY <1>2, <1>5
<1>6. m \in Int /\ m >= 4
  BY <1>2
<1>7. /\ \A k \in 1 .. m : k <= 2 => s[k] = k
      /\ \A k \in 1 .. m : k > m - 2 => s[k] = n - m + k
      /\ \A k \in 1 .. m : 2 < k /\ k <= m - 2 => s[k] = f[half(k)] + 1 + ((k + 1) % 2)
  <2> HIDE DEF m, n, half
  <2> QED BY <1>6
<1> HIDE DEF s
<1>8. s[1] = 1 /\ s[2] = 2 /\ s[m - 1] = n - 1 /\ s[m] = n
  <2> HIDE DEF m, n
  <2> QED BY <1>2, <1>6, <1>7
<1>9. ASSUME NEW k \in 1 .. m, 2 < k, k <= m - 2
       PROVE  s[k] \in 3 .. n - 2
  <2>1. s[k] = f[half(k)] + 1 + ((k + 1) % 2)
    BY <1>7, <1>9
  <2>2. half(k) \in 1 .. c /\ (k + 1) % 2 \in 0 .. 1
    BY <1>5, <1>9
  <2>3. f[half(k)] \in Int /\ 2 <= f[half(k)] /\ f[half(k)] <= n - 4
    BY <1>4, <2>2
  <2> HIDE DEF half, n
  <2> QED BY <1>2, <2>1, <2>2, <2>3
<1>10. ASSUME NEW k \in 1 .. m
      PROVE  \/ k = 1 \/ k = 2 \/ k = m - 1 \/ k = m
             \/ 2 < k /\ k <= m - 2
  BY <1>6
<1>11. s \in [1 .. m -> 1 .. n]
  <2>1. \A k \in 1 .. m : s[k] \in 1 .. n
    BY <1>2, <1>10, <1>8, <1>9
  <2> QED BY <2>1 DEF s
<1>12. ASSUME NEW a \in 1 .. m, NEW b \in 1 .. m, a < b
       PROVE  s[a] < s[b]
  <2>1. CASE 2 < a /\ a <= m - 2 /\ 2 < b /\ b <= m - 2
    <3>1. /\ half(a) \in 1 .. c /\ a = 2 * half(a) + 1 + ((a + 1) % 2) /\ (a + 1) % 2 \in 0 .. 1
          /\ half(b) \in 1 .. c /\ b = 2 * half(b) + 1 + ((b + 1) % 2) /\ (b + 1) % 2 \in 0 .. 1
      BY <1>5, <2>1
    <3>2. /\ s[a] = f[half(a)] + 1 + ((a + 1) % 2)
          /\ s[b] = f[half(b)] + 1 + ((b + 1) % 2)
      BY <1>7, <2>1
    <3>3. /\ f[half(a)] \in Int /\ f[half(a)] % 2 = 0
          /\ f[half(b)] \in Int /\ f[half(b)] % 2 = 0
      BY <1>4, <3>1
    <3> HIDE DEF half
    <3>4. CASE half(a) = half(b)
      BY <1>12, <3>1, <3>2, <3>3, <3>4
    <3>5. CASE half(a) < half(b)
      <4>1. f[half(a)] < f[half(b)]
        BY <1>3, <3>1, <3>5
      <4>2. f[half(a)] + 2 <= f[half(b)]
        BY <3>3, <4>1
      <4> QED BY <3>1, <3>2, <3>3, <4>2
    <3>6. CASE half(b) < half(a)
      BY <1>12, <3>1, <3>6
    <3> QED BY <3>1, <3>4, <3>5, <3>6
  <2>2. CASE ~(2 < a /\ a <= m - 2 /\ 2 < b /\ b <= m - 2)
    <3>1. /\ 2 < a /\ a <= m - 2 => s[a] \in 3 .. n - 2
          /\ 2 < b /\ b <= m - 2 => s[b] \in 3 .. n - 2
      BY <1>9
    <3> HIDE DEF m, n
    <3> QED BY <1>2, <1>6, <1>10, <1>12, <1>8, <2>2, <3>1
  <2> QED BY <2>1, <2>2
<1>13. v = [k \in 1 .. m |-> w[s[k]]]
  <2>1. v = [k \in 1 .. m |->
               CASE k <= 2     -> w[k]
                 [] k > m - 2  -> w[n - m + k]
                 [] OTHER      -> w[f[half(k)] + 1 + ((k + 1) % 2)]]
    BY <1>1, <1>2 DEF Compacted
  <2>2. ASSUME NEW k \in 1 .. m PROVE v[k] = w[s[k]]
    <3> HIDE DEF m, n, half
    <3>1. CASE k <= 2
      BY <1>7, <2>1, <3>1
    <3>2. CASE k > m - 2
      BY <1>6, <1>7, <2>1, <3>2
    <3>3. CASE 2 < k /\ k <= m - 2
      BY <1>7, <2>1, <3>3
    <3> QED BY <1>6, <3>1, <3>2, <3>3
  <2> QED BY <2>1, <2>2
<1>14. m \in Nat /\ m >= 4 /\ m % 2 = 0
  BY <1>2
<1>15. Sorted([k \in 1 .. m |-> w[s[k]]])
  <2> HIDE DEF m, n
  <2> QED BY <1>8, <1>11, <1>12, <1>14, SelectionSorted DEF n
<1> QED BY <1>13, <1>15
----------------------------------------------------------------------------
\* The searches.

\* Locate returns the wall at or after pos that has all walls below pos before it.
LEMMA LocateFacts ==
  ASSUME NEW w, Sorted(w), NEW pos \in 1 .. MaxInt
  PROVE  /\ Locate(w, pos) \in 2 .. Len(w) - 1
         /\ pos <= GetAt(w, Locate(w, pos))
         /\ GetAt(w, Locate(w, pos) - 1) < pos
<1> DEFINE n == Len(w)
           Found(i) == pos <= GetAt(w, i) /\ \A j \in 0 .. i - 1 : GetAt(w, j) < pos
           S == {i \in 0 .. n - 1 : pos <= GetAt(w, i)}
<1>1. /\ n \in Nat /\ n >= 4
      /\ w \in [1 .. n -> 0 .. MaxInt]
      /\ w[1] = 0 /\ w[2] = 0 /\ w[n] = MaxInt
  BY SortedFacts
<1>2. MaxInt \in Nat /\ pos \in Int /\ 1 <= pos /\ pos <= MaxInt
  BY AllocatorAssumption DEF AllocatorAssumption
<1>3. S \in SUBSET Nat /\ n - 1 \in S
  BY <1>1, <1>2 DEF GetAt
<1>4. PICK m \in S : \A k \in S : m <= k
  BY <1>3, LeastNatural
<1>5. m \in 0 .. n - 1 /\ Found(m)
  <2>1. ASSUME NEW j \in 0 .. m - 1 PROVE GetAt(w, j) < pos
    <3>1. j \in 0 .. n - 1 /\ j \notin S
      BY <1>1, <1>4
    <3>2. GetAt(w, j) \in 0 .. MaxInt
      BY <1>1, <3>1 DEF GetAt
    <3> QED BY <1>2, <3>1, <3>2
  <2> QED BY <2>1
<1> DEFINE i == Locate(w, pos)
<1>6. i \in 0 .. n - 1 /\ Found(i)
  BY <1>5 DEF Locate
<1> HIDE DEF i
<1>7. i # 0 /\ i # 1
  BY <1>1, <1>2, <1>6 DEF GetAt
<1>8. i \in 2 .. n - 1 /\ i - 1 \in 0 .. i - 1
  BY <1>1, <1>6, <1>7
<1> QED BY <1>6, <1>8 DEF i

\* Allocate finds the first range that is long enough, the last one if no other.
LEMMA FitIndexFacts ==
  ASSUME NEW w, Sorted(w), NEW len \in Nat \ {0}, AllocationLimit(w) + len < MaxInt
  PROVE  /\ FitIndex(w, len) \in 2 .. Len(w) - 2
         /\ FitIndex(w, len) % 2 = 0
         /\ GetAt(w, FitIndex(w, len)) + len <= GetAt(w, FitIndex(w, len) + 1)
         /\ \A j \in 2 .. FitIndex(w, len) - 1 :
              j % 2 = 0 => GetAt(w, j + 1) < GetAt(w, j) + len
<1> DEFINE n == Len(w)
           Fits(i) == GetAt(w, i + 1) >= GetAt(w, i) + len
           Starts == {j \in 2 .. n - 2 : j % 2 = 0}
           S == {i \in Starts : Fits(i)}
<1>1. /\ n \in Nat /\ n >= 4 /\ n % 2 = 0
      /\ w \in [1 .. n -> 0 .. MaxInt] /\ w[n] = MaxInt
  BY SortedFacts
<1>2. MaxInt \in Nat
  BY AllocatorAssumption DEF AllocatorAssumption
<1>3. n - 2 \in Starts /\ S \in SUBSET Nat
  BY <1>1
<1>4. Fits(n - 2)
  <2>1. GetAt(w, n - 2) \in Int /\ GetAt(w, n - 2) + len < MaxInt
    BY <1>1 DEF AllocationLimit, GetAt
  <2>2. GetAt(w, (n - 2) + 1) = MaxInt
    BY <1>1 DEF GetAt
  <2> QED BY <1>2, <2>1, <2>2
<1>5. PICK m \in S : \A k \in S : m <= k
  BY <1>3, <1>4, LeastNatural
<1>6. ASSUME NEW j \in 2 .. m - 1, j % 2 = 0 PROVE GetAt(w, j + 1) < GetAt(w, j) + len
  <2>1. j \in Starts /\ j \notin S
    BY <1>1, <1>5, <1>6
  <2>2. GetAt(w, j) \in Int /\ GetAt(w, j + 1) \in Int
    BY <1>1, <2>1 DEF GetAt
  <2> QED BY <2>1, <2>2
<1>7. \E i \in Starts : /\ Fits(i)
                        /\ \A j \in 2 .. i - 1 :
                              j % 2 = 0 => GetAt(w, j + 1) < GetAt(w, j) + len
  BY <1>5, <1>6
<1>8. /\ FitIndex(w, len) \in Starts /\ Fits(FitIndex(w, len))
      /\ \A j \in 2 .. FitIndex(w, len) - 1 :
            j % 2 = 0 => GetAt(w, j + 1) < GetAt(w, j) + len
  BY <1>7 DEF FitIndex
<1>9. ASSUME NEW i \in Starts PROVE GetAt(w, i) \in Int /\ GetAt(w, i + 1) \in Int
  BY <1>1 DEF GetAt
<1> QED BY <1>8, <1>9

----------------------------------------------------------------------------
\* The parts of the operations.

\* A block taken from the front of a free range that ends at or before it, or
\* after it; the last range never ends.
LEMMA FrontTakenSorted ==
  ASSUME NEW w, Sorted(w), NEW i \in 2 .. Len(w) - 2, i % 2 = 0,
         NEW to \in Int, GetAt(w, i) < to, to < MaxInt
  PROVE  Sorted(FrontTaken(w, i, to))
<1> DEFINE n == Len(w)
<1>1. /\ n \in Nat /\ n >= 4 /\ n % 2 = 0
      /\ w \in [1 .. n -> 0 .. MaxInt] /\ w[n] = MaxInt
      /\ \A a, b \in 2 .. n : a < b => w[a] < w[b]
  BY SortedFacts
<1>2. CASE GetAt(w, i + 1) > to
  <2>1. GetAt(w, i - 1) < to
    <3>1. i \in 2 .. n /\ i + 1 \in 2 .. n /\ w[i] < w[i + 1]
      BY <1>1
    <3>2. w[i] \in 0 .. MaxInt /\ w[i + 1] \in 0 .. MaxInt
      BY <1>1, <3>1
    <3>3. GetAt(w, i - 1) = w[i] /\ GetAt(w, i) = w[i + 1]
      BY DEF GetAt
    <3> QED BY <3>1, <3>2, <3>3
  <2>2. to < GetAt(w, i + 1)
    <3>1. GetAt(w, i + 1) \in Int
      BY <1>1 DEF GetAt
    <3> QED BY <1>2, <3>1
  <2>3. Sorted(SetAt(w, i, to))
    BY <2>1, <2>2, SetAtSorted
  <2> QED BY <1>2, <2>3 DEF FrontTaken
<1>3. CASE ~(GetAt(w, i + 1) > to)
  <2>1. i # n - 2
    <3>1. SUFFICES ASSUME i = n - 2 PROVE FALSE
      OBVIOUS
    <3>2. i + 1 + 1 = n
      BY <1>1, <3>1
    <3>3. GetAt(w, i + 1) = MaxInt
      BY <1>1, <3>2 DEF GetAt
    <3> QED BY <1>3, <3>3, AllocatorAssumption DEF AllocatorAssumption
  <2>2. i \in 2 .. n - 3
    <3>1. i \in 2 .. n - 2 /\ n \in Int
      BY <1>1
    <3> HIDE DEF n
    <3> QED BY <2>1, <3>1
  <2>3. Sorted(RemovePair(w, i))
    BY <2>2, RemovePairSorted
  <2> QED BY <1>3, <2>3 DEF FrontTaken
<1> QED BY <1>2, <1>3

\* InsertPair, with or without ReduceFrags.
LEMMA InsertPairSorted ==
  ASSUME NEW w, Sorted(w), NEW i \in 2 .. Len(w) - 1,
         NEW from \in Int, NEW to \in Int, GetAt(w, i - 1) < from, from < to,
         NEW v \in InsertPair(w, i, from, to)
  PROVE  Sorted(v)
<1>1. GetAt(w, i) \in Int
  <2>1. Len(w) \in Nat /\ w \in [1 .. Len(w) -> 0 .. MaxInt]
    BY SortedFacts
  <2> QED BY <2>1 DEF GetAt
<1>2. CASE to >= GetAt(w, i)
  BY <1>1, <1>2 DEF InsertPair
<1>3. CASE to < GetAt(w, i)
  <2> DEFINE u == PairInserted(w, i, from, to)
  <2>1. Sorted(u)
    BY <1>3, PairInsertedSorted
  <2>2. v \in ReduceFrags(u) \/ v = u
    BY <1>1, <1>3 DEF InsertPair
  <2> HIDE DEF u
  <2> QED BY <2>1, <2>2, ReduceFragsSorted
<1>4. to >= GetAt(w, i) \/ to < GetAt(w, i)
  BY <1>1
<1> QED BY <1>2, <1>3, <1>4
----------------------------------------------------------------------------
\* The operations.

\* Allocate keeps the vector sorted, as long as the file can grow by len.
LEMMA AllocatedSorted ==
  ASSUME NEW w, Sorted(w), NEW len \in Nat \ {0}, AllocationLimit(w) + len < MaxInt
  PROVE  Sorted(Allocated(w, len))
<1> DEFINE i == FitIndex(w, len)
           n == Len(w)
<1>1. /\ n \in Nat /\ n >= 4
      /\ w \in [1 .. n -> 0 .. MaxInt] /\ w[n] = MaxInt
      /\ \A a, b \in 2 .. n : a < b => w[a] < w[b]
  BY SortedFacts
<1>2. i \in 2 .. n - 2 /\ i % 2 = 0 /\ GetAt(w, i) + len <= GetAt(w, i + 1)
  BY FitIndexFacts
<1> HIDE DEF i
<1>3. GetAt(w, i) \in Int /\ GetAt(w, i + 1) \in Int
  BY <1>1, <1>2 DEF GetAt
<1>4. GetAt(w, i) <= GetAt(w, n - 2)
  <2>1. i + 1 \in 2 .. n /\ (n - 2) + 1 \in 2 .. n /\ i + 1 <= (n - 2) + 1
    BY <1>1, <1>2
  <2>2. i + 1 = (n - 2) + 1 \/ w[i + 1] < w[(n - 2) + 1]
    BY <1>1, <2>1
  <2>3. w[i + 1] \in Int /\ w[(n - 2) + 1] \in Int
    BY <1>1, <2>1
  <2> QED BY <2>2, <2>3 DEF GetAt
<1>5. GetAt(w, n - 2) \in Int /\ GetAt(w, n - 2) + len < MaxInt
  BY <1>1 DEF AllocationLimit, GetAt
<1>6. GetAt(w, i) + len < MaxInt
  BY <1>3, <1>4, <1>5, AllocatorAssumption DEF AllocatorAssumption
<1>7. Sorted(FrontTaken(w, i, GetAt(w, i) + len))
  BY <1>2, <1>3, <1>6, FrontTakenSorted
<1> QED BY <1>7 DEF Allocated, i

\* So does Occupy, wherever the block lies.
LEMMA OccupiedSorted ==
  ASSUME NEW w, Sorted(w), NEW pos \in Nat \ {0}, NEW len \in Nat \ {0},
         pos + len < MaxInt, NEW v \in OccupiedWalls(w, pos, len)
  PROVE  Sorted(v)
<1> DEFINE i == Locate(w, pos)
           n == Len(w)
<1>1. /\ n \in Nat /\ n >= 4 /\ n % 2 = 0
      /\ w \in [1 .. n -> 0 .. MaxInt] /\ w[n] = MaxInt
      /\ \A a, b \in 2 .. n : a < b => w[a] < w[b]
  BY SortedFacts
<1>2. MaxInt \in Nat
  BY AllocatorAssumption DEF AllocatorAssumption
<1>3. /\ i \in 2 .. n - 1 /\ pos <= GetAt(w, i) /\ GetAt(w, i - 1) < pos
  <2>1. pos \in 1 .. MaxInt
    BY <1>2
  <2> QED BY <2>1, LocateFacts
<1>4. v \in CASE i % 2 = 1 /\ GetAt(w, i) = pos + len -> {SetAt(w, i, pos)}
              [] i % 2 = 1 /\ GetAt(w, i) # pos + len -> InsertPair(w, i, pos, pos + len)
              [] i % 2 = 0 /\ GetAt(w, i) = pos       -> {FrontTaken(w, i, pos + len)}
              [] OTHER                               -> {w}
  BY DEF OccupiedWalls
<1> HIDE DEF i
<1>5. CASE i % 2 = 1 /\ GetAt(w, i) = pos + len
  <2>1. v = SetAt(w, i, pos)
    BY <1>4, <1>5
  <2>2. i # n - 1
    <3>1. SUFFICES ASSUME i = n - 1 PROVE FALSE
      OBVIOUS
    <3>2. i + 1 = n
      BY <1>1, <3>1
    <3>3. GetAt(w, i) = MaxInt
      BY <1>1, <3>2 DEF GetAt
    <3>4. pos + len # MaxInt
      BY <1>2
    <3> QED BY <1>5, <3>3, <3>4
  <2>3. i \in 2 .. n - 2
    <3> HIDE DEF n
    <3> QED BY <1>1, <1>3, <2>2
  <2>4. pos < GetAt(w, i + 1)
    <3>1. i + 1 \in 2 .. n /\ i + 1 + 1 \in 2 .. n
      BY <1>1, <2>3
    <3>2. w[i + 1] < w[i + 1 + 1] /\ w[i + 1] \in Int /\ w[i + 1 + 1] \in Int
      BY <1>1, <3>1
    <3>3. pos + len < GetAt(w, i + 1) /\ GetAt(w, i + 1) \in Int
      BY <1>5, <3>2 DEF GetAt
    <3> QED BY <3>3
  <2> QED BY <1>3, <2>1, <2>3, <2>4, SetAtSorted
<1>6. CASE i % 2 = 1 /\ GetAt(w, i) # pos + len
  <2>1. v \in InsertPair(w, i, pos, pos + len)
    BY <1>4, <1>6
  <2> QED BY <1>3, <2>1, InsertPairSorted
<1>7. CASE i % 2 = 0 /\ GetAt(w, i) = pos
  <2>1. v = FrontTaken(w, i, pos + len)
    BY <1>4, <1>7
  <2>2. i \in 2 .. n - 2
    BY <1>1, <1>3, <1>7
  <2> QED BY <1>7, <2>1, <2>2, FrontTakenSorted
<1>8. CASE i % 2 = 0 /\ GetAt(w, i) # pos
  BY <1>4, <1>8
<1>9. i % 2 = 0 \/ i % 2 = 1
  BY <1>1, <1>3
<1> QED BY <1>5, <1>6, <1>7, <1>8, <1>9

\* Release moves the first wall of a pair before it removes the pair, for nothing.
LEMMA RemovedAfterMove ==
  ASSUME NEW w, Sorted(w), NEW i \in 2 .. Len(w) - 1, NEW x \in Int
  PROVE  RemovePair(SetAt(w, i - 1, x), i - 1) = RemovePair(w, i - 1)
<1> DEFINE n == Len(w)
           u == SetAt(w, i - 1, x)
<1>1. n \in Nat /\ n >= 4 /\ w \in [1 .. n -> 0 .. MaxInt]
  BY SortedFacts
<1>2. Len(u) = n
  <2>1. u \in [1 .. n -> 0 .. MaxInt \cup {x}]
    BY <1>1 DEF SetAt
  <2> QED BY <1>1, <2>1, FunctionIsSequence
<1>3. \A k \in 1 .. n : k # i => u[k] = w[k]
  BY <1>1 DEF SetAt
<1> HIDE DEF u
<1>4. ASSUME NEW k \in 1 .. n - 2
      PROVE  (IF k <= i - 1 THEN u[k] ELSE u[k + 2]) = IF k <= i - 1 THEN w[k] ELSE w[k + 2]
  <2>1. k \in 1 .. n /\ k + 2 \in 1 .. n /\ i \in Int
    BY <1>1
  <2>2. k <= i - 1 => k # i
    BY <2>1
  <2>3. ~(k <= i - 1) => k + 2 # i
    BY <2>1
  <2> QED BY <1>3, <2>1, <2>2, <2>3
<1>5. RemovePair(u, i - 1) = RemovePair(w, i - 1)
  BY <1>1, <1>2, <1>4 DEF RemovePair
<1> QED BY <1>5 DEF u

\* And Release of a block in use.  When the wall before the end of the block is
\* not its first byte it lies before the block, else some byte would be free.
LEMMA ReleasedSorted ==
  ASSUME NEW w, Sorted(w), NEW pos \in Nat \ {0}, NEW len \in Nat \ {0},
         Releasable(w, pos, len), NEW v \in ReleasedWalls(w, pos, len)
  PROVE  Sorted(v)
<1> DEFINE i == Locate(w, pos + len)
           n == Len(w)
           prevUp == SetAt(w, i - 1, pos + len)
<1>1. /\ n \in Nat /\ n >= 4 /\ n % 2 = 0
      /\ w \in [1 .. n -> 0 .. MaxInt] /\ w[1] = 0 /\ w[2] = 0 /\ w[n] = MaxInt
      /\ \A a, b \in 2 .. n : a < b => w[a] < w[b]
  BY SortedFacts
<1>2. MaxInt \in Nat
  BY AllocatorAssumption DEF AllocatorAssumption
<1>3. pos + len <= GetAt(w, n - 2) /\ GetAt(w, n - 2) \in 0 .. MaxInt
  BY <1>1 DEF Releasable, AllocationLimit, GetAt
<1>4. i \in 2 .. n - 1 /\ pos + len <= GetAt(w, i) /\ GetAt(w, i - 1) < pos + len
  <2>1. pos + len \in 1 .. MaxInt
    BY <1>2, <1>3
  <2> QED BY <2>1, LocateFacts
<1>5. v \in CASE GetAt(w, i - 1) = pos /\ GetAt(w, i) = pos + len -> {RemovePair(prevUp, i - 1)}
              [] GetAt(w, i - 1) = pos /\ GetAt(w, i) # pos + len -> {prevUp}
              [] OTHER -> InsertPair(w, i, pos, pos + len)
  BY DEF ReleasedWalls
<1> HIDE DEF i
<1>6. /\ i + 1 \in 1 .. n /\ i \in 1 .. n
      /\ GetAt(w, i) \in Int /\ GetAt(w, i - 1) \in Int
  BY <1>1, <1>4 DEF GetAt
<1>7. ASSUME GetAt(w, i - 1) = pos PROVE i - 1 \in 2 .. n - 2
  <2>1. i # 2
    BY <1>1, <1>7 DEF GetAt
  <2> QED BY <1>1, <1>4, <2>1
<1>8. CASE GetAt(w, i - 1) = pos /\ GetAt(w, i) = pos + len
  <2>1. v = RemovePair(prevUp, i - 1)
    BY <1>5, <1>8
  <2>2. i - 1 \in 2 .. n - 3
    <3>1. SUFFICES ASSUME i = n - 1 PROVE FALSE
      <4>1. i - 1 \in 2 .. n - 2
        BY <1>7, <1>8
      <4>2. n \in Int
        BY <1>1
      <4> HIDE DEF n
      <4>3. i \in Int
        BY <1>6, <4>2
      <4> QED BY <4>1, <4>2, <4>3
    <3>2. (n - 2) + 1 \in 2 .. n /\ n \in 2 .. n /\ (n - 2) + 1 < n
      BY <1>1
    <3>3. w[(n - 2) + 1] < w[n]
      BY <1>1, <3>2
    <3>4. GetAt(w, n - 2) < MaxInt
      BY <1>1, <3>3 DEF GetAt
    <3>5. i + 1 = n
      BY <1>1, <3>1
    <3>6. GetAt(w, i) = MaxInt
      BY <1>1, <3>5 DEF GetAt
    <3> QED BY <1>2, <1>3, <1>8, <3>4, <3>6
  <2>3. RemovePair(prevUp, i - 1) = RemovePair(w, i - 1)
    BY <1>1, <1>4, RemovedAfterMove
  <2> QED BY <2>1, <2>2, <2>3, RemovePairSorted
<1>9. CASE GetAt(w, i - 1) = pos /\ GetAt(w, i) # pos + len
  <2>1. v = prevUp
    BY <1>5, <1>9
  <2>2. GetAt(w, (i - 1) - 1) < pos + len
    <3>1. i - 1 \in 2 .. n /\ i \in 2 .. n /\ (i - 1) - 1 + 1 = i - 1 /\ i - 1 + 1 = i
      BY <1>1, <1>4, <1>7, <1>9
    <3>2. w[i - 1] < w[i] /\ w[i - 1] \in Int /\ w[i] \in Int
      BY <1>1, <3>1
    <3>3. GetAt(w, (i - 1) - 1) < pos /\ GetAt(w, (i - 1) - 1) \in Int
      BY <1>9, <3>1, <3>2 DEF GetAt
    <3> QED BY <3>3
  <2>3. pos + len < GetAt(w, (i - 1) + 1)
    BY <1>4, <1>6, <1>9 DEF GetAt
  <2> QED BY <1>7, <1>9, <2>1, <2>2, <2>3, SetAtSorted
<1>10. CASE GetAt(w, i - 1) # pos
  <2>1. v \in InsertPair(w, i, pos, pos + len)
    BY <1>5, <1>10
  <2>2. GetAt(w, i - 1) < pos
    <3>1. SUFFICES ASSUME pos < GetAt(w, i - 1) PROVE FALSE
      BY <1>6, <1>10
    <3>2. \A p \in pos .. pos + len - 1 : ~FreeAt(w, p)
      BY DEF Releasable, Bytes
    <3>3. i # 2
      BY <1>1, <3>1 DEF GetAt
    <3>4. CASE i % 2 = 1
      <4>1. GetAt(w, i - 1) \in pos .. pos + len - 1
        BY <1>4, <1>6, <3>1
      <4>2. i - 1 \in 0 .. n - 2 /\ (i - 1) % 2 = 0 /\ (i - 1) + 1 = i
        <5>1. n \in Int /\ i \in 2 .. n - 1
          BY <1>1, <1>4
        <5>2. i - 1 \in 0 .. n - 2 /\ (i - 1) + 1 = i
          <6> HIDE DEF n
          <6> QED BY <5>1
        <5>3. (i - 1) % 2 = 0
          BY <3>4, <5>1
        <5> QED BY <5>2, <5>3
      <4>3. GetAt(w, i - 1) < GetAt(w, i)
        BY <1>4, <1>6
      <4>4. FreeAt(w, GetAt(w, i - 1))
        BY <1>6, <4>2, <4>3 DEF FreeAt
      <4> QED BY <3>2, <4>1, <4>4
    <3>5. CASE i % 2 = 0
      <4> DEFINE p == GetAt(w, i - 1) - 1
      <4>1. p \in pos .. pos + len - 1
        BY <1>4, <1>6, <3>1
      <4>2. i - 2 \in 0 .. n - 2 /\ (i - 2) % 2 = 0 /\ (i - 2) + 1 = i - 1
        BY <1>1, <1>4, <3>5
      <4>3. GetAt(w, i - 2) < GetAt(w, i - 1) /\ GetAt(w, i - 2) \in Int
        <5>1. i - 2 + 1 \in 2 .. n /\ i - 1 + 1 \in 2 .. n /\ i - 2 + 1 < i - 1 + 1
          BY <1>1, <1>4, <3>3, <3>5
        <5>2. w[i - 2 + 1] < w[i - 1 + 1] /\ w[i - 2 + 1] \in Int
          BY <1>1, <5>1
        <5> QED BY <5>2 DEF GetAt
      <4>4. GetAt(w, i - 2) <= p /\ p < GetAt(w, i - 1)
        BY <1>6, <4>3
      <4>5. FreeAt(w, p)
        <5> HIDE DEF p
        <5> QED BY <4>2, <4>4 DEF FreeAt
      <4> QED BY <3>2, <4>1, <4>5
    <3>6. i % 2 = 0 \/ i % 2 = 1
      BY <1>1, <1>4
    <3> QED BY <3>4, <3>5, <3>6
  <2> QED BY <1>4, <2>1, <2>2, InsertPairSorted
<1> QED BY <1>8, <1>9, <1>10

----------------------------------------------------------------------------
\* The vector of walls is sorted, in pairs, from <0,0> to MaxInt, after any
\* sequence of Initialize, Allocate, Occupy and Release, ReduceFrags included:
\* the precondition of every search and of every change in c4_Allocator.
THEOREM WallsStaySorted == Spec => []WallsSorted
<1>1. Init => WallsSorted
  <2> SUFFICES ASSUME Init PROVE Sorted(walls)
    BY DEF WallsSorted
  <2> DEFINE w == <<0, 0, 1, MaxInt>>
  <2>1. MaxInt \in Nat /\ 1 < MaxInt
    BY AllocatorAssumption DEF AllocatorAssumption
  <2>2. w \in [1 .. 4 -> 0 .. MaxInt]
    BY <2>1
  <2>3. \A i, j \in 2 .. 4 : i < j => w[i] < w[j]
    BY <2>1
  <2>4. w[1] = 0 /\ w[2] = 0 /\ w[4] = MaxInt
    OBVIOUS
  <2> HIDE DEF w
  <2>5. Sorted(w)
    <3>1. 4 \in Nat /\ 4 >= 4 /\ 4 % 2 = 0
      OBVIOUS
    <3> QED BY <2>2, <2>3, <2>4, <3>1, SortedIntro
  <2> QED BY <2>5 DEF Init, w
<1>2. WallsSorted /\ [Next]_walls => WallsSorted'
  <2> SUFFICES ASSUME Sorted(walls), [Next]_walls PROVE Sorted(walls')
    BY DEF WallsSorted, Sorted
  <2>1. \A len \in Lens : len \in Nat \ {0}
    BY AllocatorAssumption DEF AllocatorAssumption
  <2>2. MaxInt \in Nat /\ MaxPos \in Nat /\ MaxPos + 1 < MaxInt
    BY AllocatorAssumption DEF AllocatorAssumption
  <2>3. ASSUME NEW len \in Lens, Allocate(len) PROVE Sorted(walls')
    <3>1. AllocationLimit(walls) \in Int
      BY SortedFacts DEF AllocationLimit, GetAt
    <3>2. AllocationLimit(walls) + len < MaxInt
      BY <2>1, <2>2, <2>3, <3>1 DEF Allocate
    <3> QED BY <2>1, <2>3, <3>2, AllocatedSorted DEF Allocate
  <2>4. ASSUME NEW len \in Lens, NEW pos \in 1 .. MaxPos, Occupy(pos, len)
        PROVE  Sorted(walls')
    <3>1. pos \in Nat \ {0} /\ pos + len < MaxInt
      BY <2>1, <2>2, <2>4 DEF Occupy
    <3> QED BY <2>1, <2>4, <3>1, OccupiedSorted DEF Occupy
  <2>5. ASSUME NEW len \in Lens, NEW pos \in 1 .. MaxPos, Release(pos, len)
        PROVE  Sorted(walls')
    <3>1. pos \in Nat \ {0}
      BY <2>2
    <3> QED BY <2>1, <2>5, <3>1, ReleasedSorted DEF Release
  <2>6. CASE UNCHANGED walls
    BY <2>6
  <2> QED BY <2>3, <2>4, <2>5, <2>6 DEF Next
<1> QED BY <1>1, <1>2, PTL DEF Spec

----------------------------------------------------------------------------
\* The binary search.

\* The walls before the one that Locate returns are those before pos.
LEMMA LocateSplits ==
  ASSUME NEW w, Sorted(w), NEW pos \in 1 .. MaxInt, NEW j \in 0 .. Len(w) - 1
  PROVE  /\ GetAt(w, j) \in Int
         /\ j < Locate(w, pos) <=> GetAt(w, j) < pos
         /\ j > Locate(w, pos) => GetAt(w, j) > pos
<1> DEFINE n == Len(w)
           m == Locate(w, pos)
<1>1. /\ n \in Nat /\ n >= 4
      /\ w \in [1 .. n -> 0 .. MaxInt]
      /\ w[1] = 0 /\ w[2] = 0 /\ w[n] = MaxInt
      /\ \A a, b \in 2 .. n : a < b => w[a] < w[b]
  BY SortedFacts
<1>2. /\ m \in 2 .. n - 1 /\ pos <= GetAt(w, m) /\ GetAt(w, m - 1) < pos
      /\ MaxInt \in Nat
  BY LocateFacts, AllocatorAssumption DEF AllocatorAssumption
<1> HIDE DEF m
<1>3. m \in Int /\ m + 1 \in 2 .. n /\ m \in 2 .. n /\ m - 1 + 1 = m /\ j + 1 \in 1 .. n
  BY <1>1, <1>2
<1> HIDE DEF n
<1>4. w[m] \in Int /\ w[m + 1] \in Int /\ w[j + 1] \in Int /\ w[m] < pos /\ pos <= w[m + 1]
  BY <1>1, <1>2, <1>3 DEF GetAt
<1>5. CASE j < m
  <2>1. w[j + 1] <= w[m]
    <3>1. CASE j = 0
      <4>1. w[j + 1] = 0 /\ w[m] \in 0 .. MaxInt
        BY <1>1, <1>3, <3>1
      <4> QED BY <4>1
    <3>2. CASE j # 0
      <4>1. j + 1 \in 2 .. n /\ (j + 1 = m \/ j + 1 < m)
        BY <1>1, <1>3, <1>5, <3>2
      <4>2. j + 1 < m => w[j + 1] < w[m]
        BY <1>1, <1>3, <4>1
      <4> QED BY <1>4, <4>1, <4>2
    <3> QED BY <3>1, <3>2
  <2> QED BY <1>3, <1>4, <1>5, <2>1 DEF GetAt, m
<1>6. CASE j >= m
  <2>1. j = m \/ (m + 1 < j + 1 /\ j + 1 \in 2 .. n)
    BY <1>1, <1>3, <1>6
  <2>2. j # m => w[m + 1] < w[j + 1]
    BY <1>1, <1>3, <2>1
  <2> QED BY <1>3, <1>4, <1>6, <2>1, <2>2 DEF GetAt, m
<1> QED BY <1>3, <1>5, <1>6

\* What the recursive function in BinarySearch is defined to be: a function f
\* that at every pair of bounds has the value the code computes with the help of f.
Searches(f, w, pos) ==
  f = [b \in (0 .. Len(w)) \X (-1 .. Len(w)) |->
        LET lo == b[1]
            hi == b[2]
            i  == (lo + hi) \div 2
        IN  IF lo >= hi THEN IF lo < Len(w) /\ pos > GetAt(w, lo) THEN lo + 1 ELSE lo
            ELSE IF pos < GetAt(w, i) THEN f[<<lo, i - 1>>]
            ELSE IF pos > GetAt(w, i) THEN f[<<i + 1, hi>>]
            ELSE i]

\* What the search from the bounds lo and hi finds, said without recursion: the
\* wall that Locate returns, or the end of lo .. hi + 1 that is nearest to it.
Answer(w, pos, lo, hi) ==
  IF lo >= hi
  THEN IF lo < Len(w) /\ pos > GetAt(w, lo) THEN lo + 1 ELSE lo
  ELSE IF Locate(w, pos) < lo THEN lo
       ELSE IF Locate(w, pos) > hi + 1 THEN hi + 1
       ELSE Locate(w, pos)

\* One halving of the bounds does not change the answer, and brings them closer.
LEMMA HalvingKeepsAnswer ==
  ASSUME NEW w, Sorted(w), NEW pos \in 1 .. MaxInt,
         NEW lo \in 0 .. Len(w), NEW hi \in -1 .. Len(w), lo < hi,
         NEW i, i = (lo + hi) \div 2
  PROVE  /\ GetAt(w, i) \in Int
         /\ pos < GetAt(w, i) => /\ i - 1 \in -1 .. Len(w) /\ i - 1 < hi
                                 /\ Answer(w, pos, lo, i - 1) = Answer(w, pos, lo, hi)
         /\ pos > GetAt(w, i) => /\ i + 1 \in 0 .. Len(w) /\ lo < i + 1
                                 /\ Answer(w, pos, i + 1, hi) = Answer(w, pos, lo, hi)
         /\ pos = GetAt(w, i) => Answer(w, pos, lo, hi) = i
<1> DEFINE n == Len(w)
           m == Locate(w, pos)
<1>1. n \in Nat /\ n >= 4
  BY SortedFacts
<1>2. m \in 2 .. n - 1
  BY LocateFacts
<1>3. \A j \in 0 .. n - 1 : /\ GetAt(w, j) \in Int
                            /\ j < m <=> GetAt(w, j) < pos
                            /\ j > m => GetAt(w, j) > pos
  BY LocateSplits
<1>4. pos \in Int /\ lo \in Int /\ hi \in Int /\ m \in Int
  BY <1>1, <1>2, AllocatorAssumption DEF AllocatorAssumption
<1>5. i \in Int /\ lo <= i /\ i < hi /\ i \in 0 .. n - 1
  BY <1>1, <1>4
<1>6. Answer(w, pos, lo, hi) = IF m < lo THEN lo ELSE IF m > hi + 1 THEN hi + 1 ELSE m
  BY <1>4 DEF Answer
<1> HIDE DEF n, m
<1>7. ASSUME pos < GetAt(w, i)
      PROVE  Answer(w, pos, lo, i - 1) = Answer(w, pos, lo, hi)
  <2>1. m <= i
    BY <1>3, <1>4, <1>5, <1>7
  <2>2. Answer(w, pos, lo, hi) = IF m < lo THEN lo ELSE m
    BY <1>4, <1>5, <1>6, <2>1
  <2>3. CASE lo >= i - 1
    <3>1. Answer(w, pos, lo, i - 1) = IF lo < n /\ pos > GetAt(w, lo) THEN lo + 1 ELSE lo
      BY <2>3 DEF Answer, n
    <3>2. lo \in 0 .. n - 1
      BY <1>1, <1>4, <1>5
    <3>3. pos > GetAt(w, lo) <=> lo < m
      BY <1>3, <1>4, <3>2
    <3> QED BY <1>1, <1>4, <1>5, <2>1, <2>2, <2>3, <3>1, <3>2, <3>3
  <2>4. CASE lo < i - 1
    <3>1. Answer(w, pos, lo, i - 1) = IF m < lo THEN lo ELSE IF m > i - 1 + 1 THEN i - 1 + 1 ELSE m
      BY <1>4, <1>5, <2>4 DEF Answer, m
    <3> QED BY <1>4, <1>5, <2>1, <2>2, <3>1
  <2> QED BY <1>4, <1>5, <2>3, <2>4
<1>8. ASSUME pos > GetAt(w, i)
      PROVE  Answer(w, pos, i + 1, hi) = Answer(w, pos, lo, hi)
  <2>1. i < m
    BY <1>3, <1>4, <1>5, <1>8
  <2>2. Answer(w, pos, lo, hi) = IF m > hi + 1 THEN hi + 1 ELSE m
    BY <1>4, <1>5, <1>6, <2>1
  <2>3. CASE i + 1 >= hi
    <3>1. Answer(w, pos, i + 1, hi) = IF i + 1 < n /\ pos > GetAt(w, i + 1) THEN i + 1 + 1 ELSE i + 1
      BY <2>3 DEF Answer, n
    <3>2. i + 1 = hi /\ hi \in 0 .. n - 1
      BY <1>1, <1>2, <1>4, <1>5, <2>1, <2>3
    <3>3. pos > GetAt(w, i + 1) <=> i + 1 < m
      BY <1>3, <1>4, <3>2
    <3> QED BY <1>1, <1>4, <1>5, <2>1, <2>2, <3>1, <3>2, <3>3
  <2>4. CASE i + 1 < hi
    <3>1. Answer(w, pos, i + 1, hi) = IF m < i + 1 THEN i + 1 ELSE IF m > hi + 1 THEN hi + 1 ELSE m
      BY <1>4, <1>5, <2>4 DEF Answer, m
    <3> QED BY <1>4, <1>5, <2>1, <2>2, <3>1
  <2> QED BY <1>4, <1>5, <2>3, <2>4
<1>9. ASSUME pos = GetAt(w, i) PROVE Answer(w, pos, lo, hi) = i
  <2>1. m = i
    BY <1>3, <1>4, <1>5, <1>9
  <2> QED BY <1>4, <1>5, <1>6, <2>1
<1>10. GetAt(w, i) \in Int
  BY <1>3, <1>5
<1>11. i - 1 \in -1 .. n /\ i - 1 < hi /\ i + 1 \in 0 .. n /\ lo < i + 1
  BY <1>1, <1>4, <1>5
<1> QED BY <1>7, <1>8, <1>9, <1>10, <1>11 DEF n

\* A function of the answers is such a function.
LEMMA SearchExists ==
  ASSUME NEW w, Sorted(w), NEW pos \in 1 .. MaxInt
  PROVE  \E f : Searches(f, w, pos)
<1> DEFINE D == (0 .. Len(w)) \X (-1 .. Len(w))
           f == [b \in D |-> Answer(w, pos, b[1], b[2])]
           Step(b) ==
             LET lo == b[1]
                 hi == b[2]
                 i  == (lo + hi) \div 2
             IN  IF lo >= hi THEN IF lo < Len(w) /\ pos > GetAt(w, lo) THEN lo + 1 ELSE lo
                 ELSE IF pos < GetAt(w, i) THEN f[<<lo, i - 1>>]
                 ELSE IF pos > GetAt(w, i) THEN f[<<i + 1, hi>>]
                 ELSE i
<1>1. \A lo \in 0 .. Len(w), hi \in -1 .. Len(w) : f[<<lo, hi>>] = Answer(w, pos, lo, hi)
  OBVIOUS
<1>2. ASSUME NEW lo \in 0 .. Len(w), NEW hi \in -1 .. Len(w)
      PROVE  Answer(w, pos, lo, hi) = Step(<<lo, hi>>)
  <2> DEFINE i == (lo + hi) \div 2
  <2>1. Step(<<lo, hi>>) =
          IF lo >= hi THEN IF lo < Len(w) /\ pos > GetAt(w, lo) THEN lo + 1 ELSE lo
          ELSE IF pos < GetAt(w, i) THEN f[<<lo, i - 1>>]
          ELSE IF pos > GetAt(w, i) THEN f[<<i + 1, hi>>]
          ELSE i
    OBVIOUS
  <2>2. Len(w) \in Nat /\ lo \in Int /\ hi \in Int /\ pos \in Int
    BY SortedFacts, AllocatorAssumption DEF AllocatorAssumption
  <2> HIDE DEF Step, f
  <2>3. CASE lo >= hi
    BY <2>1, <2>2, <2>3 DEF Answer
  <2>4. CASE lo < hi
    <3>1. /\ GetAt(w, i) \in Int
          /\ pos < GetAt(w, i) => /\ i - 1 \in -1 .. Len(w)
                                  /\ Answer(w, pos, lo, i - 1) = Answer(w, pos, lo, hi)
          /\ pos > GetAt(w, i) => /\ i + 1 \in 0 .. Len(w)
                                  /\ Answer(w, pos, i + 1, hi) = Answer(w, pos, lo, hi)
          /\ pos = GetAt(w, i) => Answer(w, pos, lo, hi) = i
      BY <2>4, HalvingKeepsAnswer
    <3> HIDE DEF i
    <3>2. CASE pos < GetAt(w, i)
      BY <1>1, <2>1, <2>2, <2>4, <3>1, <3>2
    <3>3. CASE pos > GetAt(w, i)
      BY <1>1, <2>1, <2>2, <2>4, <3>1, <3>3
    <3>4. CASE pos = GetAt(w, i)
      BY <1>1, <2>1, <2>2, <2>4, <3>1, <3>4
    <3> QED BY <2>2, <3>1, <3>2, <3>3, <3>4
  <2> QED BY <2>2, <2>3, <2>4
<1>3. \A b \in D : Answer(w, pos, b[1], b[2]) = Step(b)
  <2> HIDE DEF Step, f
  <2> QED BY <1>2
<1>4. f = [b \in D |-> Step(b)]
  <2> HIDE DEF Step
  <2> QED BY <1>3
<1>5. Searches(f, w, pos)
  BY <1>4, Zenon DEF Searches
<1> QED BY <1>5

\* And every such function gives the answers, by induction on the distance of
\* the bounds: there is no least distance at which it gives something else.
LEMMA SearchAnswers ==
  ASSUME NEW w, Sorted(w), NEW pos \in 1 .. MaxInt,
         NEW f, Searches(f, w, pos),
         NEW lo \in 0 .. Len(w), NEW hi \in -1 .. Len(w)
  PROVE  f[<<lo, hi>>] = Answer(w, pos, lo, hi)
<1> DEFINE n == Len(w)
           Wrong(a, b) == f[<<a, b>>] # Answer(w, pos, a, b)
           S == {d \in Nat : \E a \in 0 .. n, b \in -1 .. n : Wrong(a, b) /\ d = b - a + n + 1}
<1>1. n \in Nat /\ pos \in Int
  BY SortedFacts, AllocatorAssumption DEF AllocatorAssumption
<1>2. ASSUME NEW a \in 0 .. n, NEW b \in -1 .. n
      PROVE  f[<<a, b>>] =
               LET i == (a + b) \div 2
               IN  IF a >= b THEN IF a < n /\ pos > GetAt(w, a) THEN a + 1 ELSE a
                   ELSE IF pos < GetAt(w, i) THEN f[<<a, i - 1>>]
                   ELSE IF pos > GetAt(w, i) THEN f[<<i + 1, b>>]
                   ELSE i
  BY DEF Searches
<1>3. ASSUME NEW a \in 0 .. n, NEW b \in -1 .. n, Wrong(a, b)
      PROVE  \E c \in 0 .. n, d \in -1 .. n : Wrong(c, d) /\ d - c < b - a
  <2> DEFINE i == (a + b) \div 2
  <2>1. a \in Int /\ b \in Int
    BY <1>1
  <2>2. f[<<a, b>>] = IF a >= b THEN IF a < n /\ pos > GetAt(w, a) THEN a + 1 ELSE a
                      ELSE IF pos < GetAt(w, i) THEN f[<<a, i - 1>>]
                      ELSE IF pos > GetAt(w, i) THEN f[<<i + 1, b>>]
                      ELSE i
    BY <1>2
  <2>3. a < b
    <3>1. SUFFICES ASSUME a >= b PROVE FALSE
      BY <2>1
    <3>2. f[<<a, b>>] = IF a < n /\ pos > GetAt(w, a) THEN a + 1 ELSE a
      <4> HIDE DEF i
      <4> QED BY <2>1, <2>2, <3>1
    <3>3. Answer(w, pos, a, b) = IF a < n /\ pos > GetAt(w, a) THEN a + 1 ELSE a
      BY <3>1 DEF Answer
    <3> QED BY <1>3, <3>2, <3>3
  <2>4. /\ GetAt(w, i) \in Int
        /\ pos < GetAt(w, i) => /\ i - 1 \in -1 .. n /\ i - 1 < b
                                /\ Answer(w, pos, a, i - 1) = Answer(w, pos, a, b)
        /\ pos > GetAt(w, i) => /\ i + 1 \in 0 .. n /\ a < i + 1
                                /\ Answer(w, pos, i + 1, b) = Answer(w, pos, a, b)
        /\ pos = GetAt(w, i) => Answer(w, pos, a, b) = i
    BY <2>3, HalvingKeepsAnswer
  <2>5. i \in Int
    BY <2>1
  <2> HIDE DEF i, n
  <2>6. CASE pos < GetAt(w, i)
    <3>1. f[<<a, b>>] = f[<<a, i - 1>>]
      BY <1>1, <2>1, <2>2, <2>3, <2>4, <2>6
    <3>2. Wrong(a, i - 1) /\ i - 1 \in -1 .. n /\ i - 1 - a < b - a
      BY <1>3, <2>1, <2>4, <2>5, <2>6, <3>1
    <3> HIDE DEF Wrong
    <3> QED BY <3>2
  <2>7. CASE pos > GetAt(w, i)
    <3>1. f[<<a, b>>] = f[<<i + 1, b>>]
      BY <1>1, <2>1, <2>2, <2>3, <2>4, <2>7
    <3>2. Wrong(i + 1, b) /\ i + 1 \in 0 .. n /\ b - (i + 1) < b - a
      BY <1>3, <2>1, <2>4, <2>5, <2>7, <3>1
    <3> HIDE DEF Wrong
    <3> QED BY <3>2
  <2>8. CASE pos = GetAt(w, i)
    <3>1. f[<<a, b>>] = i
      BY <1>1, <2>1, <2>2, <2>3, <2>4, <2>8
    <3> QED BY <1>3, <2>4, <2>8, <3>1
  <2>9. pos < GetAt(w, i) \/ pos > GetAt(w, i) \/ pos = GetAt(w, i)
    BY <1>1, <2>4
  <2> HIDE DEF Wrong
  <2> QED BY <2>6, <2>7, <2>8, <2>9
<1> HIDE DEF Wrong
<1>4. ASSUME S # {} PROVE FALSE
  <2>1. PICK d \in S : \A e \in S : d <= e
    <3>1. S \in SUBSET Nat
      OBVIOUS
    <3> HIDE DEF S
    <3> QED BY <1>4, <3>1, LeastNatural
  <2>2. PICK a \in 0 .. n, b \in -1 .. n : Wrong(a, b) /\ d = b - a + n + 1
    OBVIOUS
  <2>3. PICK a2 \in 0 .. n, b2 \in -1 .. n : Wrong(a2, b2) /\ b2 - a2 < b - a
    BY <1>3, <2>2
  <2> DEFINE e == b2 - a2 + n + 1
  <2>4. e \in Nat /\ e < d
    BY <1>1, <2>2, <2>3
  <2>5. e \in S
    BY <2>3, <2>4
  <2>6. d \in Nat
    OBVIOUS
  <2> HIDE DEF S, e
  <2> QED BY <2>1, <2>4, <2>5, <2>6
<1>5. ASSUME Wrong(lo, hi) PROVE FALSE
  <2> DEFINE d == hi - lo + n + 1
  <2>1. d \in Nat
    BY <1>1
  <2>2. d \in S
    BY <1>5, <2>1
  <2> QED BY <1>4, <2>2
<1> QED BY <1>5 DEF Wrong

\* The search of Locate finds the wall that Locate is to find.
LEMMA SearchIsLocate ==
  ASSUME NEW w, Sorted(w), NEW pos \in 1 .. MaxInt
  PROVE  BinarySearch(w, pos) = Locate(w, pos)
<1> DEFINE f == CHOOSE g : Searches(g, w, pos)
           n == Len(w)
<1>1. BinarySearch(w, pos) = f[<<0, n - 1>>]
  BY Zenon DEF BinarySearch, Searches
<1>2. Searches(f, w, pos)
  BY SearchExists
<1>3. n \in Nat /\ n >= 4 /\ 0 \in 0 .. n /\ n - 1 \in -1 .. n
  BY SortedFacts
<1> HIDE DEF f
<1>4. f[<<0, n - 1>>] = Answer(w, pos, 0, n - 1)
  BY <1>2, <1>3, SearchAnswers
<1>5. Locate(w, pos) \in 2 .. n - 1
  BY LocateFacts
<1>6. Answer(w, pos, 0, n - 1) = Locate(w, pos)
  <2> HIDE DEF n
  <2> QED BY <1>3, <1>5 DEF Answer, n
<1> QED BY <1>1, <1>4, <1>6

\* On every vector that the operations can produce, the binary search finds the
\* lowest wall at or after the position it is asked for.
THEOREM SearchAlwaysFindsWall == Spec => []SearchFindsWall
<1>1. WallsSorted => SearchFindsWall
  <2> SUFFICES ASSUME WallsSorted, NEW pos \in 1 .. MaxPos + 1
               PROVE  BinarySearch(walls, pos) = Locate(walls, pos)
    BY DEF SearchFindsWall
  <2>1. pos \in 1 .. MaxInt
    BY AllocatorAssumption DEF AllocatorAssumption
  <2> QED BY <2>1, SearchIsLocate DEF WallsSorted
<1> QED BY <1>1, WallsStaySorted, PTL

----------------------------------------------------------------------------
(***************************************************************************)
(* The vector of walls is the set of bytes in use of ByteSpace.  The walls  *)
(* take a byte from free to in use and back: with that parity, each         *)
(* elementary change of the vector toggles the bytes between two positions  *)
(* and no other byte, and every operation comes down to one such change.    *)
(***************************************************************************)

\* The byte p lies at or after the wall with index k and before the next one.
Between(w, k, p) == GetAt(w, k) <= p /\ p < GetAt(w, k + 1)

\* The bytes in use according to a vector: Used is UsedIn(walls).
UsedIn(w) == {p \in 1 .. AllocationLimit(w) - 1 : ~FreeAt(w, p)}

----------------------------------------------------------------------------
\* Reading a vector.

\* A sorted vector of walls, with the indices of the code.
LEMMA WallFacts ==
  ASSUME NEW w, Sorted(w)
  PROVE  /\ Len(w) \in Nat /\ Len(w) >= 4 /\ Len(w) % 2 = 0
         /\ \A k \in 0 .. Len(w) - 1 : GetAt(w, k) \in Nat /\ GetAt(w, k) <= MaxInt
         /\ GetAt(w, 0) = 0 /\ GetAt(w, 1) = 0 /\ GetAt(w, Len(w) - 1) = MaxInt
         /\ \A j, k \in 1 .. Len(w) - 1 : j < k => GetAt(w, j) < GetAt(w, k)
<1> DEFINE n == Len(w)
<1>1. /\ n \in Nat /\ n >= 4 /\ n % 2 = 0
      /\ w \in [1 .. n -> 0 .. MaxInt]
      /\ w[1] = 0 /\ w[2] = 0 /\ w[n] = MaxInt
      /\ \A i, j \in 2 .. n : i < j => w[i] < w[j]
  BY SortedFacts
<1>2. MaxInt \in Nat
  BY AllocatorAssumption DEF AllocatorAssumption
<1> HIDE DEF n
<1>3. ASSUME NEW k \in 0 .. n - 1 PROVE w[k + 1] \in Nat /\ w[k + 1] <= MaxInt
  <2>1. k + 1 \in 1 .. n
    BY <1>1
  <2>2. w[k + 1] \in 0 .. MaxInt
    BY <1>1, <2>1
  <2> QED BY <1>2, <2>2
<1>4. ASSUME NEW j \in 1 .. n - 1, NEW k \in 1 .. n - 1, j < k PROVE w[j + 1] < w[k + 1]
  <2>1. j + 1 \in 2 .. n /\ k + 1 \in 2 .. n /\ j + 1 < k + 1
    BY <1>1, <1>4
  <2> QED BY <1>1, <2>1
<1>5. w[0 + 1] = 0 /\ w[1 + 1] = 0 /\ w[n - 1 + 1] = MaxInt
  BY <1>1
<1> QED BY <1>1, <1>3, <1>4, <1>5 DEF GetAt, n

\* Every byte lies between two walls.
LEMMA SomewhereBetween ==
  ASSUME NEW w, Sorted(w), NEW p \in 0 .. MaxInt - 1
  PROVE  \E k \in 1 .. Len(w) - 2 : Between(w, k, p)
<1> DEFINE n == Len(w)
           S == {k \in 1 .. n - 1 : p < GetAt(w, k)}
<1>1. /\ n \in Nat /\ n >= 4
      /\ \A k \in 0 .. n - 1 : GetAt(w, k) \in Nat
      /\ GetAt(w, 1) = 0 /\ GetAt(w, n - 1) = MaxInt
  BY WallFacts
<1>2. p \in Int /\ p >= 0 /\ p < MaxInt
  BY AllocatorAssumption DEF AllocatorAssumption
<1>3. S \in SUBSET Nat /\ n - 1 \in S
  BY <1>1, <1>2
<1>4. PICK m \in S : \A k \in S : m <= k
  BY <1>3, LeastNatural
<1>5. m \in 1 .. n - 1 /\ p < GetAt(w, m) /\ m # 1
  BY <1>1, <1>2
<1>6. m - 1 \in 1 .. n - 2 /\ m - 1 \notin S /\ m - 1 \in 1 .. n - 1 /\ m - 1 + 1 = m
  BY <1>1, <1>4, <1>5
<1>7. GetAt(w, m - 1) <= p
  <2>1. GetAt(w, m - 1) \in Nat /\ ~(p < GetAt(w, m - 1))
    BY <1>1, <1>6
  <2> QED BY <1>2, <2>1
<1> QED BY <1>5, <1>6, <1>7 DEF Between

\* And only between two.
LEMMA NowhereElseBetween ==
  ASSUME NEW w, Sorted(w), NEW p \in Int,
         NEW j \in 1 .. Len(w) - 2, Between(w, j, p),
         NEW k \in 1 .. Len(w) - 2, Between(w, k, p)
  PROVE  j = k
<1> DEFINE n == Len(w)
<1>1. /\ n \in Nat /\ n >= 4
      /\ \A a \in 0 .. n - 1 : GetAt(w, a) \in Nat
      /\ \A a, b \in 1 .. n - 1 : a < b => GetAt(w, a) < GetAt(w, b)
  BY WallFacts
<1>2. ASSUME NEW a \in 1 .. n - 2, Between(w, a, p),
             NEW b \in 1 .. n - 2, Between(w, b, p), a < b
      PROVE  FALSE
  <2>1. /\ a + 1 \in 1 .. n - 1 /\ b \in 1 .. n - 1 /\ (a + 1 = b \/ a + 1 < b)
        /\ a + 1 \in 0 .. n - 1 /\ b \in 0 .. n - 1
    BY <1>1, <1>2
  <2>2. GetAt(w, a + 1) <= GetAt(w, b) /\ GetAt(w, a + 1) \in Nat /\ GetAt(w, b) \in Nat
    BY <1>1, <2>1
  <2>3. p < GetAt(w, a + 1) /\ GetAt(w, b) <= p
    BY <1>2 DEF Between
  <2> QED BY <2>2, <2>3
<1>3. j \in Int /\ k \in Int
  BY <1>1
<1> QED BY <1>2, <1>3

\* A byte is free when the index of the wall before it is even.
LEMMA FreeByParity ==
  ASSUME NEW w, Sorted(w), NEW p \in Int, NEW k \in 1 .. Len(w) - 2, Between(w, k, p)
  PROVE  FreeAt(w, p) <=> k % 2 = 0
<1> DEFINE n == Len(w)
<1>1. n \in Nat /\ n >= 4 /\ GetAt(w, 0) = 0 /\ GetAt(w, 1) = 0
  BY WallFacts
<1>2. ASSUME k % 2 = 0 PROVE FreeAt(w, p)
  BY <1>1, <1>2 DEF FreeAt, Between
<1>3. ASSUME FreeAt(w, p) PROVE k % 2 = 0
  <2>1. PICK i \in 0 .. n - 2 : i % 2 = 0 /\ Between(w, i, p)
    BY <1>3 DEF FreeAt, Between
  <2>2. i # 0
    BY <1>1, <2>1 DEF Between
  <2>3. i \in 1 .. n - 2
    BY <1>1, <2>2
  <2>4. i = k
    BY <2>1, <2>3, NowhereElseBetween
  <2> QED BY <2>1, <2>4
<1> QED BY <1>2, <1>3

\* The last range is free without end, so that the limit need not be mentioned.
LEMMA UsedFacts ==
  ASSUME NEW w, Sorted(w)
  PROVE  /\ UsedIn(w) = {p \in 1 .. MaxInt - 1 : ~FreeAt(w, p)}
         /\ AllocationLimit(w) = GetAt(w, Len(w) - 2)
         /\ AllocationLimit(w) \in Nat /\ 1 <= AllocationLimit(w) /\ AllocationLimit(w) < MaxInt
<1> DEFINE n == Len(w)
           L == AllocationLimit(w)
<1>1. /\ n \in Nat /\ n >= 4 /\ n % 2 = 0
      /\ \A k \in 0 .. n - 1 : GetAt(w, k) \in Nat
      /\ GetAt(w, 1) = 0 /\ GetAt(w, n - 1) = MaxInt
      /\ \A j, k \in 1 .. n - 1 : j < k => GetAt(w, j) < GetAt(w, k)
  BY WallFacts
<1>2. L = GetAt(w, n - 2)
  BY DEF AllocationLimit
<1>3. n - 2 \in 0 .. n - 1 /\ n - 2 \in 1 .. n - 1 /\ 1 \in 1 .. n - 1 /\ n - 1 \in 1 .. n - 1
      /\ 1 < n - 2 /\ n - 2 < n - 1 /\ n - 2 + 1 = n - 1 /\ n - 2 \in 1 .. n - 2 /\ (n - 2) % 2 = 0
  BY <1>1
<1>4. L \in Nat /\ 1 <= L /\ L < MaxInt /\ MaxInt \in Nat
  <2>1. GetAt(w, 1) < L /\ L < GetAt(w, n - 1) /\ L \in Nat
    BY <1>1, <1>2, <1>3
  <2> QED BY <1>1, <2>1, AllocatorAssumption DEF AllocatorAssumption
<1>5. ASSUME NEW p \in 1 .. MaxInt - 1, ~(p < L) PROVE FreeAt(w, p)
  <2>1. p \in Int /\ L <= p /\ p < MaxInt
    BY <1>4, <1>5
  <2>2. Between(w, n - 2, p)
    BY <1>1, <1>2, <1>3, <2>1 DEF Between
  <2> QED BY <1>3, <2>1, <2>2, FreeByParity
<1> HIDE DEF L
<1>6. ASSUME NEW p PROVE p \in 1 .. L - 1 <=> p \in 1 .. MaxInt - 1 /\ p < L
  BY <1>4
<1>7. UsedIn(w) = {p \in 1 .. MaxInt - 1 : ~FreeAt(w, p)}
  BY <1>5, <1>6 DEF UsedIn, L
<1> QED BY <1>2, <1>4, <1>7 DEF L

\* A byte in use lies after a wall with an odd index.
LEMMA UsedByParity ==
  ASSUME NEW w, Sorted(w), NEW p \in Int, 1 <= p,
         NEW k \in 1 .. Len(w) - 2, Between(w, k, p)
  PROVE  p \in UsedIn(w) <=> k % 2 = 1
<1>1. FreeAt(w, p) <=> k % 2 = 0
  BY FreeByParity
<1>2. p \in 1 .. MaxInt - 1
  <2>1. Len(w) \in Nat /\ k + 1 \in 0 .. Len(w) - 1
    BY WallFacts
  <2>2. GetAt(w, k + 1) \in Nat /\ GetAt(w, k + 1) <= MaxInt
    BY <2>1, WallFacts
  <2> QED BY <2>2, AllocatorAssumption DEF Between, AllocatorAssumption
<1>3. k \in Int
  BY WallFacts
<1>4. k % 2 = 1 <=> ~(k % 2 = 0)
  BY <1>3
<1> QED BY <1>1, <1>2, <1>4, UsedFacts

----------------------------------------------------------------------------
\* Each elementary change of the vector toggles the bytes of one run.

\* The two vectors differ on the bytes from "from" on and before "to", and there
\* what was free is in use and the other way round.
Toggles(w, u, from, to) ==
  \A p \in 0 .. MaxInt - 1 :
     FreeAt(u, p) <=> (FreeAt(w, p) <=> ~(from <= p /\ p < to))

\* A byte whose index in the new vector has the parity of before, or the other.
LEMMA ToggledByParity ==
  ASSUME NEW w, Sorted(w), NEW u, Sorted(u), NEW p \in Int,
         NEW j \in 1 .. Len(w) - 2, Between(w, j, p),
         NEW k \in 1 .. Len(u) - 2, Between(u, k, p),
         NEW R \in BOOLEAN, (j + k) % 2 = (IF R THEN 1 ELSE 0)
  PROVE  FreeAt(u, p) <=> (FreeAt(w, p) <=> ~R)
<1>1. FreeAt(w, p) <=> j % 2 = 0
  BY FreeByParity
<1>2. FreeAt(u, p) <=> k % 2 = 0
  BY FreeByParity
<1>3. j \in Int /\ k \in Int
  BY WallFacts
<1>4. j % 2 = 0 <=> (k % 2 = 0 <=> ~R)
  BY <1>3
<1> QED BY <1>1, <1>2, <1>4

\* One wall is moved: the bytes between its two places.
LEMMA SetAtToggles ==
  ASSUME NEW w, Sorted(w), NEW i \in 2 .. Len(w) - 2, NEW v \in Int,
         GetAt(w, i - 1) < v, v < GetAt(w, i + 1)
  PROVE  /\ Sorted(SetAt(w, i, v))
         /\ v >= GetAt(w, i) => Toggles(w, SetAt(w, i, v), GetAt(w, i), v)
         /\ v <= GetAt(w, i) => Toggles(w, SetAt(w, i, v), v, GetAt(w, i))
<1> DEFINE n == Len(w)
           u == SetAt(w, i, v)
<1>1. /\ n \in Nat /\ n >= 4
      /\ \A k \in 0 .. n - 1 : GetAt(w, k) \in Nat
      /\ \A j, k \in 1 .. n - 1 : j < k => GetAt(w, j) < GetAt(w, k)
  BY WallFacts
<1>2. Sorted(u)
  BY SetAtSorted
<1>3. /\ w \in [1 .. n -> 0 .. MaxInt]
      /\ u \in Seq(0 .. MaxInt)
  BY <1>2, SortedFacts DEF Sorted
<1>4. Len(u) = n
  <2>1. DOMAIN u = 1 .. n
    BY <1>3 DEF SetAt
  <2>2. DOMAIN u = 1 .. Len(u) /\ Len(u) \in Nat
    BY <1>3, LenProperties
  <2> HIDE DEF u
  <2> QED BY <1>1, <2>1, <2>2
<1>5. \A k \in 0 .. n - 1 : GetAt(u, k) = IF k = i THEN v ELSE GetAt(w, k)
  BY <1>1, <1>3 DEF GetAt, SetAt
<1>6. i \in Int /\ 2 <= i /\ i <= n - 2 /\ GetAt(w, i - 1) < GetAt(w, i) /\ GetAt(w, i) < GetAt(w, i + 1)
      /\ GetAt(w, i) \in Nat /\ GetAt(w, i - 1) \in Nat /\ GetAt(w, i + 1) \in Nat
  BY <1>1
<1> HIDE DEF u, n
<1>7. ASSUME NEW p \in 0 .. MaxInt - 1,
             NEW R \in BOOLEAN,
             R = (IF v >= GetAt(w, i) THEN GetAt(w, i) <= p /\ p < v ELSE v <= p /\ p < GetAt(w, i))
      PROVE  FreeAt(u, p) <=> (FreeAt(w, p) <=> ~R)
  <2>1. p \in Int
    BY AllocatorAssumption DEF AllocatorAssumption
  <2>2. PICK j \in 1 .. n - 2 : Between(w, j, p)
    BY SomewhereBetween DEF n
  <2>3. j \in Int /\ j + 1 \in 0 .. n - 1 /\ j \in 0 .. n - 1
        /\ GetAt(w, j) \in Int /\ GetAt(w, j + 1) \in Int
    BY <1>1, <2>2
  <2>4. ASSUME NEW k \in 1 .. n - 2, Between(u, k, p), (j + k) % 2 = (IF R THEN 1 ELSE 0)
        PROVE  FreeAt(u, p) <=> (FreeAt(w, p) <=> ~R)
    BY <1>2, <1>4, <2>1, <2>2, <2>4, ToggledByParity DEF n
  <2>5. CASE j # i - 1 /\ j # i
    <3>1. GetAt(u, j) = GetAt(w, j) /\ GetAt(u, j + 1) = GetAt(w, j + 1)
      BY <1>5, <1>6, <2>3, <2>5
    <3>2. Between(u, j, p)
      BY <2>2, <3>1 DEF Between
    <3>3. ~R
      <4>1. j + 1 < i \/ i + 1 = j \/ i + 1 < j
        BY <1>6, <2>3, <2>5
      <4>2. CASE j + 1 < i
        <5>1. i \in 1 .. n - 1 /\ i - 1 \in 1 .. n - 1 /\ j + 1 \in 1 .. n - 1 /\ (j + 1 = i - 1 \/ j + 1 < i - 1)
          BY <1>1, <1>6, <2>2, <2>3, <4>2
        <5>2. GetAt(w, j + 1) <= GetAt(w, i - 1)
          BY <1>1, <1>6, <5>1
        <5> QED BY <1>6, <1>7, <2>1, <2>2, <2>3, <5>2 DEF Between
      <4>3. CASE i + 1 = j \/ i + 1 < j
        <5>1. i + 1 \in 1 .. n - 1 /\ j \in 1 .. n - 1
          BY <1>1, <1>6, <2>2, <2>3
        <5>2. GetAt(w, i + 1) <= GetAt(w, j)
          BY <1>1, <1>6, <2>3, <4>3, <5>1
        <5> QED BY <1>6, <1>7, <2>1, <2>2, <2>3, <5>2 DEF Between
      <4> QED BY <4>1, <4>2, <4>3
    <3>4. (j + j) % 2 = 0
      BY <2>3
    <3> QED BY <2>4, <3>2, <3>3, <3>4
  <2>6. CASE j = i - 1
    <3>1. GetAt(u, i - 1) = GetAt(w, i - 1) /\ GetAt(u, i) = v /\ GetAt(u, i + 1) = GetAt(w, i + 1)
      BY <1>1, <1>5, <1>6
    <3>2. GetAt(w, i - 1) <= p /\ p < GetAt(w, i)
      BY <1>6, <2>2, <2>6 DEF Between
    <3>3. CASE p < v
      <4>1. Between(u, j, p) /\ ~R
        BY <1>6, <1>7, <2>1, <2>6, <3>1, <3>2, <3>3 DEF Between
      <4>2. (j + j) % 2 = 0
        BY <2>3
      <4> QED BY <2>4, <4>1, <4>2
    <3>4. CASE ~(p < v)
      <4>1. Between(u, i, p) /\ R
        BY <1>6, <1>7, <2>1, <3>1, <3>2, <3>4 DEF Between
      <4>2. (j + i) % 2 = 1 /\ i \in 1 .. n - 2
        BY <1>1, <1>6, <2>6
      <4> QED BY <2>4, <4>1, <4>2
    <3> QED BY <3>3, <3>4
  <2>7. CASE j = i
    <3>1. GetAt(u, i - 1) = GetAt(w, i - 1) /\ GetAt(u, i) = v /\ GetAt(u, i + 1) = GetAt(w, i + 1)
      BY <1>1, <1>5, <1>6
    <3>2. GetAt(w, i) <= p /\ p < GetAt(w, i + 1)
      BY <1>6, <2>2, <2>7 DEF Between
    <3>3. CASE v <= p
      <4>1. Between(u, j, p) /\ ~R
        BY <1>6, <1>7, <2>1, <2>7, <3>1, <3>2, <3>3 DEF Between
      <4>2. (j + j) % 2 = 0
        BY <2>3
      <4> QED BY <2>4, <4>1, <4>2
    <3>4. CASE ~(v <= p)
      <4>1. Between(u, i - 1, p) /\ R
        BY <1>6, <1>7, <2>1, <3>1, <3>2, <3>4 DEF Between
      <4>2. (j + (i - 1)) % 2 = 1 /\ i - 1 \in 1 .. n - 2
        BY <1>1, <1>6, <2>7
      <4> QED BY <2>4, <4>1, <4>2
    <3> QED BY <3>3, <3>4
  <2> QED BY <2>5, <2>6, <2>7
<1>8. v >= GetAt(w, i) => Toggles(w, u, GetAt(w, i), v)
  BY <1>7 DEF Toggles
<1>9. v <= GetAt(w, i) => Toggles(w, u, v, GetAt(w, i))
  <2> SUFFICES ASSUME v <= GetAt(w, i), NEW p \in 0 .. MaxInt - 1
               PROVE  FreeAt(u, p) <=> (FreeAt(w, p) <=> ~(v <= p /\ p < GetAt(w, i)))
    BY DEF Toggles
  <2>1. p \in Int
    BY AllocatorAssumption DEF AllocatorAssumption
  <2>2. (v <= p /\ p < GetAt(w, i)) =
           (IF v >= GetAt(w, i) THEN GetAt(w, i) <= p /\ p < v ELSE v <= p /\ p < GetAt(w, i))
    BY <1>6, <2>1
  <2> QED BY <1>7, <2>2
<1> QED BY <1>2, <1>8, <1>9 DEF u

\* A pair is removed: the bytes between its walls.
LEMMA RemovePairToggles ==
  ASSUME NEW w, Sorted(w), NEW i \in 2 .. Len(w) - 3
  PROVE  /\ Sorted(RemovePair(w, i))
         /\ Toggles(w, RemovePair(w, i), GetAt(w, i), GetAt(w, i + 1))
<1> DEFINE n == Len(w)
           u == RemovePair(w, i)
<1>1. /\ n \in Nat /\ n >= 4
      /\ \A k \in 0 .. n - 1 : GetAt(w, k) \in Nat
      /\ \A j, k \in 1 .. n - 1 : j < k => GetAt(w, j) < GetAt(w, k)
  BY WallFacts
<1>2. Sorted(u)
  BY RemovePairSorted
<1>3. i \in Int /\ 2 <= i /\ i <= n - 3 /\ n - 2 \in Nat
  BY <1>1
<1>4. Len(u) = n - 2
  <2>1. DOMAIN u = 1 .. n - 2
    BY DEF RemovePair
  <2>2. DOMAIN u = 1 .. Len(u) /\ Len(u) \in Nat
    BY <1>2, SortedFacts
  <2> HIDE DEF u, n
  <2> QED BY <1>1, <1>3, <2>1, <2>2
<1>5. /\ \A k \in 0 .. i - 1 : GetAt(u, k) = GetAt(w, k)
      /\ \A k \in i .. n - 3 : GetAt(u, k) = GetAt(w, k + 2)
  <2>1. \A k \in 1 .. n - 2 : u[k] = IF k <= i THEN w[k] ELSE w[k + 2]
    BY DEF RemovePair
  <2> HIDE DEF u, n
  <2>2. ASSUME NEW k \in 0 .. i - 1 PROVE u[k + 1] = w[k + 1]
    <3>1. k + 1 \in 1 .. n - 2 /\ k + 1 <= i
      BY <1>1, <1>3
    <3> QED BY <2>1, <3>1
  <2>3. ASSUME NEW k \in i .. n - 3 PROVE u[k + 1] = w[k + 2 + 1]
    <3>1. k + 1 \in 1 .. n - 2 /\ ~(k + 1 <= i) /\ k + 1 + 2 = k + 2 + 1
      BY <1>1, <1>3
    <3> QED BY <2>1, <3>1
  <2> QED BY <2>2, <2>3 DEF GetAt
<1> HIDE DEF u, n
<1>6. ASSUME NEW p \in 0 .. MaxInt - 1
      PROVE  FreeAt(u, p) <=> (FreeAt(w, p) <=> ~(GetAt(w, i) <= p /\ p < GetAt(w, i + 1)))
  <2> DEFINE R == GetAt(w, i) <= p /\ p < GetAt(w, i + 1)
  <2>1. p \in Int
    BY AllocatorAssumption DEF AllocatorAssumption
  <2>2. PICK j \in 1 .. n - 2 : Between(w, j, p)
    BY SomewhereBetween DEF n
  <2>3. j \in Int /\ i \in 1 .. n - 2
    BY <1>1, <1>3, <2>2
  <2>4. R <=> j = i
    <3>1. R => j = i
      BY <2>1, <2>2, <2>3, NowhereElseBetween DEF Between, n
    <3> QED BY <2>2, <3>1 DEF Between
  <2> HIDE DEF R
  <2>5. ASSUME NEW k \in 1 .. n - 4, Between(u, k, p), (j + k) % 2 = (IF j = i THEN 1 ELSE 0)
        PROVE  FreeAt(u, p) <=> (FreeAt(w, p) <=> ~R)
    <3>1. k \in 1 .. Len(u) - 2 /\ j \in 1 .. Len(w) - 2
      BY <1>1, <1>4 DEF n
    <3>2. (j + k) % 2 = (IF R THEN 1 ELSE 0) /\ R \in BOOLEAN
      BY <2>4, <2>5 DEF R
    <3> QED BY <1>2, <2>1, <2>2, <2>5, <3>1, <3>2, ToggledByParity
  <2>6. CASE j < i - 1
    <3>1. GetAt(u, j) = GetAt(w, j) /\ GetAt(u, j + 1) = GetAt(w, j + 1)
      BY <1>1, <1>3, <1>5, <2>3, <2>6
    <3>2. Between(u, j, p) /\ j \in 1 .. n - 4 /\ (j + j) % 2 = 0 /\ j # i
      BY <1>1, <1>3, <2>2, <2>3, <2>6, <3>1 DEF Between
    <3> QED BY <2>5, <3>2 DEF R
  <2>7. CASE j > i + 1
    <3>1. j - 2 \in i .. n - 3 /\ j - 1 \in i .. n - 3 /\ j - 2 + 2 = j /\ j - 1 + 2 = j + 1 /\ j - 2 + 1 = j - 1
      BY <1>1, <1>3, <2>2, <2>3, <2>7
    <3>2. GetAt(u, j - 2) = GetAt(w, j) /\ GetAt(u, j - 1) = GetAt(w, j + 1)
      BY <1>5, <3>1
    <3>3. Between(u, j - 2, p)
      BY <2>2, <3>1, <3>2 DEF Between
    <3>4. j - 2 \in 1 .. n - 4 /\ (j + (j - 2)) % 2 = 0 /\ j # i
      BY <1>1, <1>3, <2>2, <2>3, <2>7
    <3> QED BY <2>5, <3>3, <3>4 DEF R
  <2>8. CASE j \in {i - 1, i, i + 1}
    <3>1. i - 1 \in 0 .. i - 1 /\ i \in i .. n - 3 /\ i - 1 + 1 = i
      BY <1>1, <1>3
    <3>2. GetAt(u, i - 1) = GetAt(w, i - 1) /\ GetAt(u, i) = GetAt(w, i + 2)
      BY <1>5, <3>1
    <3>3. GetAt(w, i - 1) < GetAt(w, i) /\ GetAt(w, i) < GetAt(w, i + 1) /\ GetAt(w, i + 1) < GetAt(w, i + 2)
          /\ GetAt(w, i - 1) \in Int /\ GetAt(w, i) \in Int /\ GetAt(w, i + 1) \in Int /\ GetAt(w, i + 2) \in Int
      BY <1>1, <1>3
    <3>4. GetAt(w, i - 1) <= p /\ p < GetAt(w, i + 2)
      BY <2>1, <2>2, <2>3, <2>8, <3>3 DEF Between
    <3>5. Between(u, i - 1, p)
      BY <3>1, <3>2, <3>4 DEF Between
    <3>6. i - 1 \in 1 .. n - 4 /\ (j + (i - 1)) % 2 = (IF j = i THEN 1 ELSE 0)
      BY <1>1, <1>3, <2>3, <2>8
    <3> QED BY <2>5, <3>5, <3>6 DEF R
  <2>9. j < i - 1 \/ j > i + 1 \/ j \in {i - 1, i, i + 1}
    BY <2>3
  <2> QED BY <2>6, <2>7, <2>8, <2>9 DEF R
<1> QED BY <1>2, <1>6 DEF Toggles, u

\* A pair is inserted: the bytes between its walls.
LEMMA PairInsertedToggles ==
  ASSUME NEW w, Sorted(w), NEW i \in 2 .. Len(w) - 1,
         NEW from \in Int, NEW to \in Int,
         GetAt(w, i - 1) < from, from < to, to < GetAt(w, i)
  PROVE  /\ Sorted(PairInserted(w, i, from, to))
         /\ Len(PairInserted(w, i, from, to)) = Len(w) + 2
         /\ Toggles(w, PairInserted(w, i, from, to), from, to)
<1> DEFINE n == Len(w)
           u == PairInserted(w, i, from, to)
<1>1. /\ n \in Nat /\ n >= 4
      /\ \A k \in 0 .. n - 1 : GetAt(w, k) \in Nat
      /\ \A j, k \in 1 .. n - 1 : j < k => GetAt(w, j) < GetAt(w, k)
  BY WallFacts
<1>2. Sorted(u)
  BY PairInsertedSorted
<1>3. i \in Int /\ 2 <= i /\ i <= n - 1 /\ n + 2 \in Nat
  BY <1>1
<1>4. Len(u) = n + 2
  <2>1. DOMAIN u = 1 .. n + 2
    BY DEF PairInserted
  <2>2. DOMAIN u = 1 .. Len(u) /\ Len(u) \in Nat
    BY <1>2, SortedFacts
  <2> HIDE DEF u, n
  <2> QED BY <1>1, <1>3, <2>1, <2>2
<1>5. /\ \A k \in 0 .. i - 1 : GetAt(u, k) = GetAt(w, k)
      /\ GetAt(u, i) = from /\ GetAt(u, i + 1) = to
      /\ \A k \in i + 2 .. n + 1 : GetAt(u, k) = GetAt(w, k - 2)
  <2>1. \A k \in 1 .. n + 2 : u[k] = CASE k <= i    -> w[k]
                                       [] k = i + 1 -> from
                                       [] k = i + 2 -> to
                                       [] OTHER     -> w[k - 2]
    BY DEF PairInserted
  <2> HIDE DEF u, n
  <2>2. ASSUME NEW k \in 0 .. i - 1 PROVE u[k + 1] = w[k + 1]
    <3>1. k + 1 \in 1 .. n + 2 /\ k + 1 <= i /\ k + 1 # i + 1 /\ k + 1 # i + 2
      BY <1>1, <1>3
    <3> QED BY <2>1, <3>1
  <2>3. u[i + 1] = from
    <3>1. i + 1 \in 1 .. n + 2 /\ ~(i + 1 <= i)
      BY <1>1, <1>3
    <3> QED BY <2>1, <3>1
  <2>4. u[i + 1 + 1] = to
    <3>1. i + 1 + 1 \in 1 .. n + 2 /\ ~(i + 1 + 1 <= i) /\ i + 1 + 1 # i + 1 /\ i + 1 + 1 = i + 2
      BY <1>1, <1>3
    <3> QED BY <2>1, <3>1
  <2>5. ASSUME NEW k \in i + 2 .. n + 1 PROVE u[k + 1] = w[k - 2 + 1]
    <3>1. k + 1 \in 1 .. n + 2 /\ ~(k + 1 <= i) /\ k + 1 # i + 1 /\ k + 1 # i + 2 /\ k + 1 - 2 = k - 2 + 1
      BY <1>1, <1>3
    <3>2. u[k + 1] = w[k + 1 - 2]
      BY <2>1, <3>1
    <3> QED BY <3>1, <3>2
  <2> QED BY <2>2, <2>3, <2>4, <2>5 DEF GetAt
<1> HIDE DEF u, n
<1>6. ASSUME NEW p \in 0 .. MaxInt - 1
      PROVE  FreeAt(u, p) <=> (FreeAt(w, p) <=> ~(from <= p /\ p < to))
  <2> DEFINE R == from <= p /\ p < to
  <2>1. p \in Int /\ R \in BOOLEAN
    BY AllocatorAssumption DEF AllocatorAssumption
  <2>2. PICK j \in 1 .. n - 2 : Between(w, j, p)
    BY SomewhereBetween DEF n
  <2>3. j \in Int /\ j \in 0 .. n - 1 /\ j + 1 \in 0 .. n - 1 /\ GetAt(w, j) \in Int /\ GetAt(w, j + 1) \in Int
    BY <1>1, <2>2
  <2>4. GetAt(w, i - 1) \in Int /\ GetAt(w, i) \in Int
    BY <1>1, <1>3
  <2>5. ASSUME NEW k \in 1 .. n, Between(u, k, p), (j + k) % 2 = (IF R THEN 1 ELSE 0)
        PROVE  FreeAt(u, p) <=> (FreeAt(w, p) <=> ~R)
    <3>1. k \in 1 .. Len(u) - 2 /\ j \in 1 .. Len(w) - 2
      BY <1>1, <1>4 DEF n
    <3> HIDE DEF R
    <3> QED BY <1>2, <2>1, <2>2, <2>5, <3>1, ToggledByParity
  <2>6. CASE j < i - 1
    <3>1. GetAt(u, j) = GetAt(w, j) /\ GetAt(u, j + 1) = GetAt(w, j + 1)
      BY <1>1, <1>3, <1>5, <2>3, <2>6
    <3>2. Between(u, j, p) /\ j \in 1 .. n /\ (j + j) % 2 = 0
      BY <1>1, <1>3, <2>2, <2>3, <2>6, <3>1 DEF Between
    <3>3. ~R
      <4>1. j + 1 \in 1 .. n - 1 /\ i - 1 \in 1 .. n - 1 /\ (j + 1 = i - 1 \/ j + 1 < i - 1)
        BY <1>1, <1>3, <2>2, <2>3, <2>6
      <4>2. GetAt(w, j + 1) <= GetAt(w, i - 1)
        BY <1>1, <2>4, <4>1
      <4> QED BY <2>1, <2>2, <2>3, <2>4, <4>2 DEF Between
    <3> QED BY <2>5, <3>2, <3>3
  <2>7. CASE j >= i
    <3>1. j + 2 \in i + 2 .. n + 1 /\ j + 2 + 1 \in i + 2 .. n + 1 /\ j + 2 - 2 = j /\ j + 2 + 1 - 2 = j + 1
      BY <1>1, <1>3, <2>2, <2>3, <2>7
    <3>2. GetAt(u, j + 2) = GetAt(w, j) /\ GetAt(u, j + 2 + 1) = GetAt(w, j + 1)
      BY <1>5, <3>1
    <3>3. Between(u, j + 2, p)
      BY <2>2, <3>2 DEF Between
    <3>4. j + 2 \in 1 .. n /\ (j + (j + 2)) % 2 = 0
      BY <1>1, <1>3, <2>2, <2>3, <2>7
    <3>5. ~R
      <4>1. j \in 1 .. n - 1 /\ i \in 1 .. n - 1 /\ (i = j \/ i < j)
        BY <1>1, <1>3, <2>2, <2>3, <2>7
      <4>2. GetAt(w, i) <= GetAt(w, j)
        BY <1>1, <2>4, <4>1
      <4> QED BY <2>1, <2>2, <2>3, <2>4, <4>2 DEF Between
    <3> QED BY <2>5, <3>3, <3>4, <3>5
  <2>8. CASE j = i - 1
    <3>1. i - 1 \in 0 .. i - 1 /\ i - 1 + 1 = i /\ i + 2 \in i + 2 .. n + 1 /\ i + 2 - 2 = i /\ i + 1 + 1 = i + 2
      BY <1>1, <1>3
    <3>2. GetAt(u, i - 1) = GetAt(w, i - 1) /\ GetAt(u, i) = from /\ GetAt(u, i + 1) = to /\ GetAt(u, i + 2) = GetAt(w, i)
      BY <1>5, <3>1
    <3>3. GetAt(w, i - 1) <= p /\ p < GetAt(w, i)
      BY <2>2, <2>8, <3>1 DEF Between
    <3>4. CASE p < from
      <4>1. Between(u, i - 1, p) /\ ~R
        BY <2>1, <3>1, <3>2, <3>3, <3>4 DEF Between
      <4>2. i - 1 \in 1 .. n /\ (j + (i - 1)) % 2 = 0
        BY <1>1, <1>3, <2>8
      <4> QED BY <2>5, <4>1, <4>2
    <3>5. CASE from <= p /\ p < to
      <4>1. Between(u, i, p)
        BY <3>2, <3>5 DEF Between
      <4>2. i \in 1 .. n /\ (j + i) % 2 = 1
        BY <1>1, <1>3, <2>8
      <4> QED BY <2>5, <3>5, <4>1, <4>2
    <3>6. CASE to <= p
      <4>1. Between(u, i + 1, p) /\ ~R
        BY <2>1, <3>1, <3>2, <3>3, <3>6 DEF Between
      <4>2. i + 1 \in 1 .. n /\ (j + (i + 1)) % 2 = 0
        BY <1>1, <1>3, <2>8
      <4> QED BY <2>5, <4>1, <4>2
    <3> QED BY <2>1, <3>4, <3>5, <3>6
  <2>9. j < i - 1 \/ j >= i \/ j = i - 1
    BY <1>3, <2>3
  <2> QED BY <2>6, <2>7, <2>8, <2>9
<1> QED BY <1>2, <1>4, <1>6 DEF Toggles, u, n

----------------------------------------------------------------------------
\* The operators of SpaceOps, each from what describes its value.

\* The end of a free area is where the first byte in use is, or the bound.
LEMMA FreeRunEndIs ==
  ASSUME NEW used, NEW p \in Int, NEW to \in Int, NEW e \in p .. to,
         \A b \in p .. e - 1 : b \notin used,
         e = to \/ e \in used
  PROVE  FreeRunEnd(used, p, to) = e
<1> DEFINE Ends(x) == /\ p .. x - 1 \cap used = {}
                      /\ x = to \/ x \in used
<1>1. Ends(e)
  OBVIOUS
<1>2. ASSUME NEW x \in p .. to, Ends(x) PROVE x = e
  <2>1. ~(x < e)
    <3>1. x < e => x # to /\ x \in p .. e - 1
      OBVIOUS
    <3> QED BY <1>2, <3>1
  <2>2. ~(e < x)
    <3>1. e < x => e # to /\ e \in p .. x - 1
      OBVIOUS
    <3> QED BY <1>2, <3>1
  <2> QED BY <2>1, <2>2
<1>3. (CHOOSE x \in p .. to : Ends(x)) = e
  <2> HIDE DEF Ends
  <2> QED BY <1>1, <1>2
<1> QED BY <1>3 DEF FreeRunEnd

\* The limit of the bytes in use is the first byte of the last free range.
LEMMA LimitIsLastRange ==
  ASSUME NEW w, Sorted(w)
  PROVE  Limit(UsedIn(w)) = AllocationLimit(w)
<1> DEFINE n == Len(w)
           L == AllocationLimit(w)
           U == UsedIn(w)
           Above(p) == \A b \in U : b < p
<1>1. /\ n \in Nat /\ n >= 4 /\ n % 2 = 0
      /\ \A k \in 0 .. n - 1 : GetAt(w, k) \in Nat
      /\ GetAt(w, 1) = 0
      /\ \A j, k \in 1 .. n - 1 : j < k => GetAt(w, j) < GetAt(w, k)
  BY WallFacts
<1>2. L = GetAt(w, n - 2) /\ L \in Nat /\ 1 <= L
  BY UsedFacts
<1>3. U \subseteq 1 .. L - 1
  BY DEF UsedIn
<1>4. L = 1 \/ L - 1 \in U
  <2> SUFFICES ASSUME L # 1 PROVE L - 1 \in U
    OBVIOUS
  <2>1. n - 3 \in 1 .. n - 2 /\ n - 3 + 1 = n - 2 /\ (n - 3) % 2 = 1
        /\ n - 3 \in 1 .. n - 1 /\ n - 2 \in 1 .. n - 1 /\ n - 3 < n - 2 /\ n - 3 \in 0 .. n - 1
    <3> HIDE DEF n
    <3>1. (n - 3) % 2 = 1
      BY <1>1
    <3> QED BY <1>1, <3>1
  <2>2. GetAt(w, n - 3) < GetAt(w, n - 2) /\ GetAt(w, n - 3) \in Nat
    BY <1>1, <2>1
  <2>3. Between(w, n - 3, L - 1)
    BY <1>2, <2>1, <2>2 DEF Between
  <2>4. L - 1 \in Int /\ 1 <= L - 1
    BY <1>2
  <2> QED BY <2>1, <2>3, <2>4, UsedByParity
<1> HIDE DEF L, U
<1>5. L \in {1} \cup {b + 1 : b \in U} /\ Above(L)
  <2>1. Above(L)
    BY <1>2, <1>3
  <2>2. L - 1 \in U => \E b \in U : L = b + 1
    BY <1>2
  <2> QED BY <1>4, <2>1, <2>2
<1>6. ASSUME NEW x \in {1} \cup {b + 1 : b \in U}, Above(x) PROVE x = L
  <2>1. x \in Int /\ x <= L
    BY <1>2, <1>3
  <2>2. L <= x
    BY <1>2, <1>4, <1>6, <1>3
  <2> QED BY <1>2, <2>1, <2>2
<1>7. (CHOOSE x \in {1} \cup {b + 1 : b \in U} : Above(x)) = L
  <2> HIDE DEF Above
  <2> QED BY <1>5, <1>6
<1> QED BY <1>7 DEF Limit, L, U

\* The first fit is the lowest position with enough free bytes.
LEMMA FirstFitIs ==
  ASSUME NEW used \in SUBSET Nat, NEW len \in Nat, NEW p \in Nat, p >= 1,
         0 \notin used, p = 1 \/ p - 1 \in used,
         \A b \in Bytes(p, len) : b \notin used,
         \A q \in 1 .. p - 1 : \E b \in Bytes(q, len) : b \in used
  PROVE  FirstFit(used, len) = p
<1> DEFINE Fit(x) == /\ Bytes(x, len) \cap used = {}
                     /\ \A q \in 1 .. x - 1 : Bytes(q, len) \cap used # {}
           Cand == {1} \cup {b + 1 : b \in used}
<1>1. p \in Cand /\ Fit(p)
  <2>1. p - 1 \in used => \E b \in used : p = b + 1
    OBVIOUS
  <2>2. p \in Cand
    BY <2>1
  <2>3. Fit(p)
    OBVIOUS
  <2> QED BY <2>2, <2>3
<1>2. ASSUME NEW x \in Cand, Fit(x) PROVE x = p
  <2>1. x \in Nat /\ x >= 1
    OBVIOUS
  <2>2. ~(x < p)
    <3>1. x < p => x \in 1 .. p - 1
      BY <2>1
    <3> QED BY <1>2, <3>1
  <2>3. ~(p < x)
    <3>1. p < x => p \in 1 .. x - 1
      BY <2>1
    <3> QED BY <1>1, <1>2, <3>1
  <2> QED BY <2>1, <2>2, <2>3
<1>3. (CHOOSE x \in Cand : Fit(x)) = p
  <2> HIDE DEF Fit, Cand
  <2> QED BY <1>1, <1>2
<1> QED BY <1>3 DEF FirstFit

----------------------------------------------------------------------------
\* What a toggled run does to the bytes in use.

\* It is added when it was free, and taken away when it was in use.
LEMMA ToggledRun ==
  ASSUME NEW w, Sorted(w), NEW u, Sorted(u), NEW a \in Int, NEW b \in Int,
         1 <= a, b <= MaxInt, Toggles(w, u, a, b)
  PROVE  /\ (\A p \in a .. b - 1 : p \notin UsedIn(w)) => UsedIn(u) = UsedIn(w) \cup (a .. b - 1)
         /\ (\A p \in a .. b - 1 : p \in UsedIn(w)) => UsedIn(u) = UsedIn(w) \ (a .. b - 1)
<1>1. /\ UsedIn(w) = {p \in 1 .. MaxInt - 1 : ~FreeAt(w, p)}
      /\ UsedIn(u) = {p \in 1 .. MaxInt - 1 : ~FreeAt(u, p)}
  BY UsedFacts
<1>2. MaxInt \in Nat
  BY AllocatorAssumption DEF AllocatorAssumption
<1>3. ASSUME NEW p \in 1 .. MaxInt - 1
      PROVE  /\ FreeAt(u, p) <=> (FreeAt(w, p) <=> ~(p \in a .. b - 1))
  <2>1. p \in 0 .. MaxInt - 1 /\ p \in Int
    BY <1>2
  <2>2. p \in a .. b - 1 <=> a <= p /\ p < b
    BY <2>1
  <2> QED BY <2>1, <2>2 DEF Toggles
<1>4. \A p \in a .. b - 1 : p \in 1 .. MaxInt - 1
  BY <1>2
<1>5. ASSUME \A p \in a .. b - 1 : p \notin UsedIn(w)
      PROVE  UsedIn(u) = UsedIn(w) \cup (a .. b - 1)
  BY <1>1, <1>3, <1>4, <1>5, Zenon
<1>6. ASSUME \A p \in a .. b - 1 : p \in UsedIn(w)
      PROVE  UsedIn(u) = UsedIn(w) \ (a .. b - 1)
  BY <1>1, <1>3, <1>4, <1>6, Zenon
<1> QED BY <1>5, <1>6

\* The bytes of a free range are not in use, those between two ranges are.
LEMMA RunByParity ==
  ASSUME NEW w, Sorted(w), NEW k \in 2 .. Len(w) - 2,
         NEW p \in GetAt(w, k) .. GetAt(w, k + 1) - 1
  PROVE  p \in Nat /\ 1 <= p /\ (p \in UsedIn(w) <=> k % 2 = 1)
<1> DEFINE n == Len(w)
<1>1. /\ n \in Nat /\ n >= 4
      /\ \A j \in 0 .. n - 1 : GetAt(w, j) \in Nat
      /\ GetAt(w, 1) = 0
      /\ \A i, j \in 1 .. n - 1 : i < j => GetAt(w, i) < GetAt(w, j)
  BY WallFacts
<1>2. k \in 1 .. n - 1 /\ 1 \in 1 .. n - 1 /\ 1 < k /\ k \in 0 .. n - 1 /\ k + 1 \in 0 .. n - 1 /\ k \in 1 .. n - 2
  BY <1>1
<1>3. GetAt(w, k) \in Nat /\ GetAt(w, k) > 0 /\ GetAt(w, k + 1) \in Nat
  BY <1>1, <1>2
<1>4. p \in Nat /\ 1 <= p /\ p \in Int
  BY <1>3
<1>5. Between(w, k, p)
  BY <1>3 DEF Between
<1>6. p \in UsedIn(w) <=> k % 2 = 1
  BY <1>2, <1>4, <1>5, UsedByParity
<1> QED BY <1>4, <1>6

\* The byte before a wall is on the other side of it, byte 0 counting as used.
LEMMA ByteBeforeWall ==
  ASSUME NEW w, Sorted(w), NEW k \in 2 .. Len(w) - 2
  PROVE  /\ k % 2 = 0 => GetAt(w, k) = 1 \/ GetAt(w, k) - 1 \in UsedIn(w)
         /\ k % 2 = 1 => GetAt(w, k) > 1 /\ GetAt(w, k) - 1 \notin UsedIn(w)
<1> DEFINE n == Len(w)
           p == GetAt(w, k) - 1
<1>1. /\ n \in Nat /\ n >= 4
      /\ \A j \in 0 .. n - 1 : GetAt(w, j) \in Nat
      /\ GetAt(w, 1) = 0
      /\ \A i, j \in 1 .. n - 1 : i < j => GetAt(w, i) < GetAt(w, j)
  BY WallFacts
<1>2. k - 1 \in 1 .. n - 1 /\ k \in 1 .. n - 1 /\ k - 1 \in 0 .. n - 1 /\ k \in 0 .. n - 1
      /\ k - 1 \in 1 .. n - 2 /\ k - 1 + 1 = k /\ k \in Int /\ k - 1 < k
  BY <1>1
<1>3. GetAt(w, k - 1) \in Nat /\ GetAt(w, k) \in Nat /\ GetAt(w, k - 1) < GetAt(w, k)
  BY <1>1, <1>2
<1>4. Between(w, k - 1, p) /\ p \in Int /\ p >= 0
  BY <1>2, <1>3 DEF Between
<1>5. ASSUME GetAt(w, k) # 1 PROVE p \in UsedIn(w) <=> k % 2 = 0
  <2>1. 1 <= p
    BY <1>3, <1>4, <1>5
  <2>2. p \in UsedIn(w) <=> (k - 1) % 2 = 1
    BY <1>2, <1>4, <2>1, UsedByParity
  <2>3. (k - 1) % 2 = 1 <=> k % 2 = 0
    BY <1>2
  <2> QED BY <2>2, <2>3
<1>6. ASSUME k % 2 = 1 PROVE GetAt(w, k) > 1
  <2>1. k # 2 /\ 2 \in 1 .. n - 1 /\ 2 < k /\ 2 \in 0 .. n - 1 /\ 1 \in 1 .. n - 1
    BY <1>1, <1>2, <1>6
  <2>2. GetAt(w, 2) > 0 /\ GetAt(w, 2) < GetAt(w, k) /\ GetAt(w, 2) \in Nat
    BY <1>1, <1>2, <2>1
  <2> QED BY <1>3, <2>2
<1>7. k % 2 = 1 => ~(k % 2 = 0)
  OBVIOUS
<1> QED BY <1>3, <1>5, <1>6, <1>7

----------------------------------------------------------------------------
\* ReduceFrags forgets gaps.

\* The run of the free range at index k.
RunAt(w, k) == GetAt(w, k) .. GetAt(w, k + 1) - 1

\* A free area that ends below the limit is the run of an inner range.
LEMMA GapsAreInnerRuns ==
  ASSUME NEW w, Sorted(w)
  PROVE  Gaps(UsedIn(w)) = {RunAt(w, k) : k \in InnerPairs(w)}
<1> DEFINE n == Len(w)
           U == UsedIn(w)
           L == AllocationLimit(w)
           Free == (1 .. L - 1) \ U
           Starts == {q \in Free : q = 1 \/ q - 1 \in U}
           Run(p) == p .. FreeRunEnd(U, p, L) - 1
<1>1. /\ n \in Nat /\ n >= 4 /\ n % 2 = 0
      /\ \A j \in 0 .. n - 1 : GetAt(w, j) \in Nat
      /\ GetAt(w, 1) = 0
      /\ \A i, j \in 1 .. n - 1 : i < j => GetAt(w, i) < GetAt(w, j)
  BY WallFacts
<1>2. L = GetAt(w, n - 2) /\ L \in Nat /\ 1 <= L
  BY UsedFacts
<1>3. Gaps(U) = {Run(p) : p \in Starts}
  BY LimitIsLastRange DEF Gaps
<1> HIDE DEF n, U, L
<1>4. ASSUME NEW k \in InnerPairs(w)
      PROVE  GetAt(w, k) \in Starts /\ Run(GetAt(w, k)) = RunAt(w, k)
  <2> DEFINE p == GetAt(w, k)
             e == GetAt(w, k + 1)
  <2>1. k \in 2 .. n - 3 /\ k % 2 = 0
    BY DEF InnerPairs, n
  <2>2. /\ k \in 1 .. n - 1 /\ k + 1 \in 1 .. n - 1 /\ n - 2 \in 1 .. n - 1 /\ 1 \in 1 .. n - 1
        /\ k \in 2 .. n - 2 /\ k + 1 \in 2 .. n - 2 /\ k < k + 1 /\ 1 < k
        /\ (k + 1 = n - 2 \/ k + 1 < n - 2)
        /\ k \in 0 .. n - 1 /\ k + 1 \in 0 .. n - 1
    BY <1>1, <2>1
  <2>3. p \in Nat /\ 0 < p /\ p < e /\ e \in Nat /\ e <= L
    BY <1>1, <1>2, <2>2
  <2>4. \A b \in p .. e - 1 : b \notin U
    BY <2>1, <2>2, RunByParity DEF n, U
  <2>5. p = 1 \/ p - 1 \in U
    BY <2>1, <2>2, ByteBeforeWall DEF n, U
  <2>6. e = L \/ e \in U
    <3> SUFFICES ASSUME e # L PROVE e \in U
      OBVIOUS
    <3>1. k + 1 # n - 2
      BY <1>2
    <3>2. k + 1 + 1 \in 1 .. n - 1 /\ k + 1 < k + 1 + 1 /\ (k + 1) % 2 = 1 /\ k + 1 + 1 \in 0 .. n - 1
      <4>1. (k + 1) % 2 = 1
        BY <2>1
      <4> QED BY <1>1, <2>2, <3>1, <4>1
    <3>3. e < GetAt(w, k + 1 + 1) /\ GetAt(w, k + 1 + 1) \in Nat
      BY <1>1, <2>2, <3>2
    <3>4. e \in GetAt(w, k + 1) .. GetAt(w, k + 1 + 1) - 1
      BY <2>3, <3>3
    <3> QED BY <2>2, <3>2, <3>4, RunByParity DEF n, U
  <2> HIDE DEF e, p
  <2>7. FreeRunEnd(U, p, L) = e
    <3>1. p \in Int /\ L \in Int /\ e \in p .. L
      BY <1>2, <2>3
    <3> QED BY <2>4, <2>6, <3>1, FreeRunEndIs
  <2>8. p \in Starts
    <3>1. p \in p .. e - 1 /\ p \in 1 .. L - 1
      BY <1>2, <2>3
    <3> QED BY <2>4, <2>5, <3>1
  <2> QED BY <2>7, <2>8 DEF RunAt, e, p
<1>5. ASSUME NEW p \in Starts PROVE \E k \in InnerPairs(w) : p = GetAt(w, k)
  <2>1. p \in Int /\ 1 <= p /\ p < L /\ p \notin U /\ (p = 1 \/ p - 1 \in U)
    BY <1>2
  <2>2. PICK k \in 1 .. n - 2 : Between(w, k, p)
    <3>1. p \in 0 .. MaxInt - 1
      BY <2>1, UsedFacts, AllocatorAssumption DEF AllocatorAssumption, L
    <3> QED BY <3>1, SomewhereBetween DEF n
  <2>3. k % 2 = 0 /\ k \in Int
    <3>1. ~(k % 2 = 1)
      BY <2>1, <2>2, UsedByParity DEF n, U
    <3> QED BY <1>1, <2>2, <3>1
  <2>4. k # n - 2
    BY <1>2, <2>1, <2>2 DEF Between
  <2>5. k \in InnerPairs(w)
    <3>1. k \in 2 .. n - 3
      BY <1>1, <2>2, <2>3, <2>4
    <3> QED BY <2>3, <3>1 DEF InnerPairs, n
  <2>6. p = GetAt(w, k)
    <3> SUFFICES ASSUME p # GetAt(w, k) PROVE FALSE
      OBVIOUS
    <3>1. GetAt(w, k) \in Nat /\ GetAt(w, k) > 0
      <4>1. k \in 1 .. n - 1 /\ k \in 0 .. n - 1 /\ 1 \in 1 .. n - 1 /\ 1 < k
        BY <1>1, <2>2, <2>3
      <4> QED BY <1>1, <4>1
    <3>2. Between(w, k, p - 1) /\ p # 1 /\ p - 1 \in Int /\ 1 <= p - 1
      <4>1. GetAt(w, k + 1) \in Int
        BY <1>1, <2>2
      <4> QED BY <2>1, <2>2, <3>1, <4>1 DEF Between
    <3>3. p - 1 \in U
      BY <2>1, <3>2
    <3>4. p - 1 \in U <=> k % 2 = 1
      BY <2>2, <3>2, UsedByParity DEF n, U
    <3> QED BY <2>3, <3>3, <3>4
  <2> QED BY <2>5, <2>6
<1> HIDE DEF Starts, Run
<1> QED BY <1>3, <1>4, <1>5 DEF U

\* There are as many as pairs between the first and the last.
LEMMA GapsCounted ==
  ASSUME NEW w, Sorted(w)
  PROVE  Cardinality(Gaps(UsedIn(w))) = (Len(w) - 4) \div 2
<1> DEFINE n == Len(w)
           c == (n - 4) \div 2
           G == Gaps(UsedIn(w))
           f == [a \in 1 .. c |-> RunAt(w, 2 * a)]
<1>1. /\ n \in Nat /\ n >= 4 /\ n % 2 = 0
      /\ \A j \in 0 .. n - 1 : GetAt(w, j) \in Nat
      /\ \A i, j \in 1 .. n - 1 : i < j => GetAt(w, i) < GetAt(w, j)
  BY WallFacts
<1> HIDE DEF n
<1>2. c \in Nat /\ n = 2 * c + 4
  BY <1>1
<1>3. InnerPairs(w) = {k \in 2 .. n - 3 : k % 2 = 0}
  BY DEF InnerPairs, n
<1> HIDE DEF c
<1>4. ASSUME NEW a \in 1 .. c PROVE 2 * a \in InnerPairs(w)
  BY <1>2, <1>3
<1>5. ASSUME NEW k \in InnerPairs(w) PROVE \E a \in 1 .. c : k = 2 * a
  <2>1. k \in 2 .. n - 3 /\ k % 2 = 0
    BY <1>3
  <2>2. k \div 2 \in 1 .. c /\ k = 2 * (k \div 2)
    BY <1>2, <2>1
  <2> QED BY <2>2
<1>6. G = {RunAt(w, k) : k \in InnerPairs(w)}
  BY GapsAreInnerRuns
<1> HIDE DEF G
<1>7. f \in [1 .. c -> G]
  BY <1>4, <1>6
<1>8. \A g \in G : \E a \in 1 .. c : f[a] = g
  BY <1>5, <1>6
<1>9. ASSUME NEW a \in 1 .. c, NEW b \in 1 .. c, f[a] = f[b] PROVE a = b
  <2> DEFINE lo(x) == GetAt(w, 2 * x)
             hi(x) == GetAt(w, 2 * x + 1)
  <2>1. ASSUME NEW x \in 1 .. c PROVE lo(x) \in Int /\ hi(x) \in Int /\ lo(x) < hi(x)
    <3>1. /\ 2 * x \in 0 .. n - 1 /\ 2 * x + 1 \in 0 .. n - 1
          /\ 2 * x \in 1 .. n - 1 /\ 2 * x + 1 \in 1 .. n - 1 /\ 2 * x < 2 * x + 1
      BY <1>2
    <3> QED BY <1>1, <3>1
  <2>2. ASSUME NEW x \in 1 .. c, NEW y \in 1 .. c, x < y PROVE lo(x) < lo(y)
    <3>1. 2 * x \in 1 .. n - 1 /\ 2 * y \in 1 .. n - 1 /\ 2 * x < 2 * y
      BY <1>2, <2>2
    <3> QED BY <1>1, <3>1
  <2>3. lo(a) .. hi(a) - 1 = lo(b) .. hi(b) - 1
    BY <1>9 DEF RunAt
  <2> HIDE DEF lo, hi
  <2>4. lo(a) = lo(b)
    <3>1. lo(a) \in lo(b) .. hi(b) - 1
      BY <2>1, <2>3
    <3>2. lo(b) \in lo(a) .. hi(a) - 1
      BY <2>1, <2>3
    <3> QED BY <2>1, <3>1, <3>2
  <2>5. a \in Int /\ b \in Int
    OBVIOUS
  <2> QED BY <2>1, <2>2, <2>4, <2>5
<1>10. f \in Bijection(1 .. c, G)
  <2> HIDE DEF f
  <2> QED BY <1>7, <1>8, <1>9 DEF Bijection, Injection, Surjection, IsInjective
<1>11. ExistsBijection(1 .. c, G)
  BY <1>10 DEF ExistsBijection
<1>12. Cardinality(G) = c
  BY <1>2, <1>11, FS_CountingElements
<1> QED BY <1>12 DEF c, n, G

\* What is free after ReduceFrags: the last range and the inner ones it keeps.
LEMMA ReducedFree ==
  ASSUME NEW w, Sorted(w), NEW v \in ReduceFrags(w)
  PROVE  \E K \in SUBSET InnerPairs(w) :
           \A p \in Nat : FreeAt(v, p) <=> \E k \in K \cup {Len(w) - 2} : Between(w, k, p)
<1> DEFINE n == Len(w)
           S == Kept(w)
           c == Cardinality(S)
           m == 2 * c + 4
<1>1. PICK f \in Increasing(S) : v = Compacted(w, f, c)
  BY DEF ReduceFrags
<1>2. c \in Nat /\ n \in Nat /\ n >= 4 /\ S \subseteq InnerPairs(w)
  BY KeptIsInner, WallFacts
<1>3. f \in [1 .. c -> S]
  BY <1>1 DEF Increasing
<1>4. v = [k \in 1 .. m |->
             CASE k <= 2     -> w[k]
               [] k > m - 2  -> w[n - m + k]
               [] OTHER      -> w[f[(k - 1) \div 2] + 1 + ((k + 1) % 2)]]
  BY <1>1, <1>2 DEF Compacted
<1>5. Sorted(v)
  BY ReduceFragsSorted
<1> HIDE DEF n, S, c
<1>6. m \in Nat /\ m >= 4
  BY <1>2
<1>7. Len(v) = m
  <2>1. DOMAIN v = 1 .. m
    BY <1>4
  <2>2. DOMAIN v = 1 .. Len(v) /\ Len(v) \in Nat
    BY <1>5, SortedFacts
  <2> HIDE DEF m
  <2> QED BY <1>6, <2>1, <2>2
<1>8. /\ \A k \in 1 .. m : k <= 2 => v[k] = w[k]
      /\ \A k \in 1 .. m : k > m - 2 => v[k] = w[n - m + k]
      /\ \A k \in 1 .. m : 2 < k /\ k <= m - 2 => v[k] = w[f[(k - 1) \div 2] + 1 + ((k + 1) % 2)]
  <2> HIDE DEF m
  <2> QED BY <1>4, <1>6
<1>9. GetAt(v, m - 2) = GetAt(w, n - 2) /\ GetAt(v, m - 2 + 1) = GetAt(w, n - 2 + 1)
  <2>1. m - 2 + 1 \in 1 .. m /\ m - 2 + 1 > m - 2 /\ n - m + (m - 2 + 1) = n - 2 + 1
        /\ m - 2 + 1 + 1 \in 1 .. m /\ m - 2 + 1 + 1 > m - 2 /\ n - m + (m - 2 + 1 + 1) = n - 2 + 1 + 1
    BY <1>2, <1>6
  <2> HIDE DEF m
  <2>2. v[m - 2 + 1] = w[n - m + (m - 2 + 1)] /\ v[m - 2 + 1 + 1] = w[n - m + (m - 2 + 1 + 1)]
    BY <1>8, <2>1
  <2> QED BY <2>1, <2>2 DEF GetAt
<1>10. ASSUME NEW a \in 1 .. c
       PROVE  GetAt(v, 2 * a) = GetAt(w, f[a]) /\ GetAt(v, 2 * a + 1) = GetAt(w, f[a] + 1)
  <2>1. /\ 2 * a + 1 \in 1 .. m /\ 2 < 2 * a + 1 /\ 2 * a + 1 <= m - 2
        /\ (2 * a + 1 - 1) \div 2 = a /\ (2 * a + 1 + 1) % 2 = 0
        /\ 2 * a + 1 + 1 \in 1 .. m /\ 2 < 2 * a + 1 + 1 /\ 2 * a + 1 + 1 <= m - 2
        /\ (2 * a + 1 + 1 - 1) \div 2 = a /\ (2 * a + 1 + 1 + 1) % 2 = 1
    BY <1>2
  <2>2. f[a] \in Int
    <3>1. f[a] \in InnerPairs(w) /\ n - 3 \in Int
      BY <1>2, <1>3
    <3> QED BY <3>1 DEF InnerPairs, n
  <2> HIDE DEF m
  <2>3. v[2 * a + 1] = w[f[a] + 1 + 0]
    BY <1>8, <2>1
  <2>4. v[2 * a + 1 + 1] = w[f[a] + 1 + 1]
    BY <1>8, <2>1
  <2> QED BY <2>2, <2>3, <2>4 DEF GetAt
<1>11. GetAt(v, 0) = 0 /\ GetAt(v, 1) = 0
  BY <1>5, WallFacts
<1> DEFINE K == {f[a] : a \in 1 .. c}
<1>12. K \in SUBSET InnerPairs(w)
  BY <1>2, <1>3
<1>13. ASSUME NEW p \in Nat, FreeAt(v, p)
       PROVE  \E k \in K \cup {n - 2} : Between(w, k, p)
  <2>1. PICK i \in 0 .. m - 2 : i % 2 = 0 /\ GetAt(v, i) <= p /\ p < GetAt(v, i + 1)
    BY <1>7, <1>13 DEF FreeAt
  <2>2. i # 0
    BY <1>11, <2>1
  <2>3. CASE i = m - 2
    BY <1>9, <2>1, <2>3 DEF Between
  <2>4. CASE i # m - 2
    <3> DEFINE a == i \div 2
    <3>1. a \in 1 .. c /\ i = 2 * a
      BY <1>2, <2>1, <2>2, <2>4
    <3> HIDE DEF a
    <3>2. Between(w, f[a], p)
      BY <1>10, <2>1, <3>1 DEF Between
    <3> QED BY <3>1, <3>2
  <2> QED BY <2>3, <2>4
<1>14. ASSUME NEW p \in Nat, NEW k \in K \cup {n - 2}, Between(w, k, p)
       PROVE  FreeAt(v, p)
  <2>1. CASE k = n - 2
    <3>1. m - 2 \in 0 .. Len(v) - 2 /\ (m - 2) % 2 = 0
      BY <1>2, <1>7
    <3> HIDE DEF m
    <3> QED BY <1>9, <1>14, <2>1, <3>1 DEF FreeAt, Between
  <2>2. CASE k \in K
    <3>1. PICK a \in 1 .. c : k = f[a]
      BY <2>2
    <3>2. 2 * a \in 0 .. Len(v) - 2 /\ (2 * a) % 2 = 0
      BY <1>2, <1>7
    <3> QED BY <1>10, <1>14, <3>1, <3>2 DEF FreeAt, Between
  <2> QED BY <2>1, <2>2
<1>15. \A p \in Nat : FreeAt(v, p) <=> \E k \in K \cup {n - 2} : Between(w, k, p)
  <2> HIDE DEF K
  <2> QED BY <1>13, <1>14
<1> HIDE DEF K
<1> QED BY <1>12, <1>15 DEF n

\* The abstract operator for the space that may be lost, in the terms used here.
LEMMA ForgettingIs ==
  ASSUME NEW U
  PROVE  Space!Forgetting(U) =
           {U} \cup IF Cardinality(Gaps(U)) > (FragLimit - 4) \div 2
                    THEN {U \cup UNION lost : lost \in SUBSET Gaps(U)} ELSE {}
<1>1. Space!Gaps(U) = Gaps(U)
  BY DEF Space!Gaps, Space!Limit, Space!FreeRunEnd, Gaps, Limit, FreeRunEnd
<1>2. Space!Cardinality(Gaps(U)) = Cardinality(Gaps(U))
  BY DEF Space!Cardinality, Cardinality
<1> QED BY <1>1, <1>2 DEF Space!Forgetting

\* ReduceFrags loses whole gaps only, and runs when there are too many of them.
LEMMA ReduceForgets ==
  ASSUME NEW w, Sorted(w), Len(w) > FragLimit, NEW v \in ReduceFrags(w)
  PROVE  UsedIn(v) \in Space!Forgetting(UsedIn(w))
<1> DEFINE n == Len(w)
           U == UsedIn(w)
<1>1. /\ n \in Nat /\ n >= 4 /\ n % 2 = 0 /\ GetAt(w, 0) = 0 /\ GetAt(w, 1) = 0
  BY WallFacts
<1>2. Cardinality(Gaps(U)) > (FragLimit - 4) \div 2
  <2>1. Cardinality(Gaps(U)) = (n - 4) \div 2
    BY GapsCounted
  <2>2. FragLimit \in Nat
    BY AllocatorAssumption DEF AllocatorAssumption
  <2> HIDE DEF n, U
  <2>3. n > FragLimit
    BY DEF n
  <2> QED BY <1>1, <2>1, <2>2, <2>3
<1>3. PICK K \in SUBSET InnerPairs(w) :
        \A p \in Nat : FreeAt(v, p) <=> \E k \in K \cup {n - 2} : Between(w, k, p)
  BY ReducedFree
<1> DEFINE lost == {RunAt(w, k) : k \in InnerPairs(w) \ K}
<1>4. lost \in SUBSET Gaps(U)
  BY GapsAreInnerRuns
<1>5. /\ U = {p \in 1 .. MaxInt - 1 : ~FreeAt(w, p)}
      /\ UsedIn(v) = {p \in 1 .. MaxInt - 1 : ~FreeAt(v, p)}
  BY ReduceFragsSorted, UsedFacts
<1>6. ASSUME NEW p \in 1 .. MaxInt - 1
      PROVE  ~FreeAt(v, p) <=> ~FreeAt(w, p) \/ \E k \in InnerPairs(w) \ K : p \in RunAt(w, k)
  <2>1. p \in Nat /\ p \in Int /\ p \in 0 .. MaxInt - 1
    BY AllocatorAssumption DEF AllocatorAssumption
  <2>2. PICK j \in 1 .. n - 2 : Between(w, j, p)
    BY <2>1, SomewhereBetween
  <2>3. FreeAt(w, p) <=> j % 2 = 0
    BY <2>1, <2>2, FreeByParity
  <2>4. \A k \in InnerPairs(w) : k \in 1 .. n - 2 /\ k % 2 = 0 /\ k # n - 2 /\ k \in Int
    <3> HIDE DEF n
    <3> QED BY <1>1 DEF InnerPairs, n
  <2>5. n - 2 \in 1 .. n - 2 /\ (n - 2) % 2 = 0 /\ j \in Int
    BY <1>1, <2>2
  <2>6. \A k \in InnerPairs(w) \cup {n - 2} : Between(w, k, p) <=> k = j
    BY <2>1, <2>2, <2>4, <2>5, NowhereElseBetween
  <2>7. ASSUME NEW k \in InnerPairs(w) PROVE p \in RunAt(w, k) <=> Between(w, k, p)
    <3>1. k \in 0 .. n - 1 /\ k + 1 \in 0 .. n - 1
      BY <1>1, <2>4
    <3>2. GetAt(w, k) \in Int /\ GetAt(w, k + 1) \in Int
      BY <3>1, WallFacts
    <3> QED BY <2>1, <3>2 DEF RunAt, Between
  <2>8. j % 2 = 0 => j \in InnerPairs(w) \cup {n - 2}
    <3> SUFFICES ASSUME j % 2 = 0, j # n - 2 PROVE j \in InnerPairs(w)
      OBVIOUS
    <3>1. j \in 2 .. n - 3
      BY <1>1, <2>2, <2>5
    <3> QED BY <3>1 DEF InnerPairs
  <2>9. FreeAt(v, p) <=> j \in K \cup {n - 2}
    BY <1>3, <2>1, <2>6
  <2>10. (\E k \in InnerPairs(w) \ K : p \in RunAt(w, k)) <=> j \in InnerPairs(w) \ K
    BY <2>6, <2>7
  <2>11. FreeAt(w, p) <=> j \in InnerPairs(w) \cup {n - 2}
    BY <2>3, <2>4, <2>5, <2>8
  <2>12. n - 2 \notin InnerPairs(w)
    BY <2>4
  <2> HIDE DEF n
  <2> QED BY <2>9, <2>10, <2>11, <2>12
<1>7. \A k \in InnerPairs(w) : RunAt(w, k) \subseteq 1 .. MaxInt - 1
  <2> SUFFICES ASSUME NEW k \in InnerPairs(w), NEW p \in RunAt(w, k)
               PROVE  p \in 1 .. MaxInt - 1
    OBVIOUS
  <2>1. k \in 2 .. n - 2 /\ k + 1 \in 0 .. n - 1
    BY <1>1 DEF InnerPairs
  <2>2. p \in Nat /\ 1 <= p
    BY <2>1, RunByParity DEF RunAt
  <2>3. GetAt(w, k + 1) \in Nat /\ GetAt(w, k + 1) <= MaxInt /\ MaxInt \in Nat
    BY <2>1, WallFacts, AllocatorAssumption DEF AllocatorAssumption
  <2>4. p < GetAt(w, k + 1)
    <3>1. k \in 0 .. n - 1
      BY <1>1, <2>1
    <3>2. GetAt(w, k) \in Nat
      BY <3>1, WallFacts
    <3> QED BY <2>3, <3>2 DEF RunAt
  <2> QED BY <2>2, <2>3, <2>4
<1>8. UsedIn(v) = U \cup UNION lost
  <2> HIDE DEF n, U
  <2>1. \A x : x \in UNION lost <=> \E k \in InnerPairs(w) \ K : x \in RunAt(w, k)
    BY Zenon
  <2> HIDE DEF lost
  <2>2. \A x : x \in UNION lost => x \in 1 .. MaxInt - 1
    BY <1>7, <2>1, Zenon
  <2>3. \A x : x \in UsedIn(v) <=> x \in U \/ x \in UNION lost
    BY <1>5, <1>6, <2>1, <2>2, Zenon
  <2> QED BY <2>3, Zenon
<1> HIDE DEF lost, U
<1>9. UsedIn(v) \in {U \cup UNION l : l \in SUBSET Gaps(U)}
  BY <1>4, <1>8
<1> QED BY <1>2, <1>9, ForgettingIs DEF U

----------------------------------------------------------------------------
\* The operations.

\* A block taken from the front of a free range: what the range has of it.
LEMMA FrontTakenUsed ==
  ASSUME NEW w, Sorted(w), NEW i \in 2 .. Len(w) - 2, i % 2 = 0,
         NEW to \in Int, GetAt(w, i) < to, to < MaxInt,
         NEW e, e = IF GetAt(w, i + 1) > to THEN to ELSE GetAt(w, i + 1)
  PROVE  /\ e \in Int /\ GetAt(w, i) < e /\ e <= to
         /\ UsedIn(FrontTaken(w, i, to)) = UsedIn(w) \cup (GetAt(w, i) .. e - 1)
<1> DEFINE n == Len(w)
           a == GetAt(w, i)
           b == GetAt(w, i + 1)
           u == FrontTaken(w, i, to)
<1>1. /\ n \in Nat /\ n >= 4
      /\ \A k \in 0 .. n - 1 : GetAt(w, k) \in Nat /\ GetAt(w, k) <= MaxInt
      /\ GetAt(w, 1) = 0 /\ GetAt(w, n - 1) = MaxInt
      /\ \A j, k \in 1 .. n - 1 : j < k => GetAt(w, j) < GetAt(w, k)
  BY WallFacts
<1>2. /\ i \in 1 .. n - 1 /\ i + 1 \in 1 .. n - 1 /\ i - 1 \in 1 .. n - 1 /\ 1 \in 1 .. n - 1 /\ 1 < i
      /\ i - 1 < i /\ i < i + 1 /\ i \in 0 .. n - 1 /\ i + 1 \in 0 .. n - 1 /\ i - 1 \in 0 .. n - 1
  BY <1>1
<1>3. a \in Nat /\ 0 < a /\ a < b /\ b \in Nat /\ b <= MaxInt /\ MaxInt \in Nat
      /\ GetAt(w, i - 1) < a /\ GetAt(w, i - 1) \in Nat
  BY <1>1, <1>2, AllocatorAssumption DEF AllocatorAssumption
<1>4. e \in Int /\ a < e /\ e <= to /\ e <= b
  BY <1>3
<1>5. Sorted(u) /\ Toggles(w, u, a, e)
  <2>1. CASE b > to
    <3>1. GetAt(w, i - 1) < to /\ to < b /\ to >= a
      BY <1>3, <2>1
    <3>2. u = SetAt(w, i, to) /\ e = to
      BY <2>1 DEF FrontTaken
    <3> QED BY <3>1, <3>2, SetAtToggles
  <2>2. CASE ~(b > to)
    <3>1. u = RemovePair(w, i) /\ e = b
      BY <2>2 DEF FrontTaken
    <3>2. i # n - 2
      <4> SUFFICES ASSUME i = n - 2 PROVE FALSE
        OBVIOUS
      <4>1. i + 1 = n - 1
        BY <1>1
      <4> QED BY <1>1, <1>3, <2>2, <4>1
    <3>3. i \in 2 .. n - 3
      <4> HIDE DEF n
      <4>1. i \in 2 .. n - 2
        BY DEF n
      <4> QED BY <1>1, <3>2, <4>1
    <3> QED BY <3>1, <3>3, RemovePairToggles
  <2> QED BY <2>1, <2>2
<1>6. \A p \in a .. e - 1 : p \notin UsedIn(w)
  <2> SUFFICES ASSUME NEW p \in a .. e - 1 PROVE p \notin UsedIn(w)
    OBVIOUS
  <2>1. p \in a .. b - 1
    BY <1>3, <1>4
  <2> QED BY <2>1, RunByParity
<1>7. UsedIn(u) = UsedIn(w) \cup (a .. e - 1)
  <2>1. a \in Int /\ 1 <= a /\ e <= MaxInt
    BY <1>3, <1>4
  <2> HIDE DEF a, u
  <2> QED BY <1>4, <1>5, <1>6, <2>1, ToggledRun
<1> QED BY <1>4, <1>7

\* Allocate hands out the first fit.
LEMMA AllocatedUsed ==
  ASSUME NEW w, Sorted(w), NEW len \in Nat \ {0}, AllocationLimit(w) + len < MaxInt
  PROVE  UsedIn(Allocated(w, len)) = UsedIn(w) \cup Bytes(FirstFit(UsedIn(w), len), len)
<1> DEFINE n == Len(w)
           i == FitIndex(w, len)
           p == GetAt(w, i)
           U == UsedIn(w)
<1>1. /\ n \in Nat /\ n >= 4
      /\ \A k \in 0 .. n - 1 : GetAt(w, k) \in Nat /\ GetAt(w, k) <= MaxInt
      /\ GetAt(w, 1) = 0
      /\ \A j, k \in 1 .. n - 1 : j < k => GetAt(w, j) < GetAt(w, k)
  BY WallFacts
<1>2. /\ i \in 2 .. n - 2 /\ i % 2 = 0 /\ p + len <= GetAt(w, i + 1)
      /\ \A j \in 2 .. i - 1 : j % 2 = 0 => GetAt(w, j + 1) < GetAt(w, j) + len
  BY FitIndexFacts
<1> HIDE DEF i
<1>3. /\ i \in Int /\ i \in 1 .. n - 1 /\ i + 1 \in 1 .. n - 1 /\ n - 2 \in 1 .. n - 1 /\ 1 < i /\ 1 \in 1 .. n - 1
      /\ i \in 0 .. n - 1 /\ i + 1 \in 0 .. n - 1 /\ n - 2 \in 0 .. n - 1 /\ (i = n - 2 \/ i < n - 2)
  BY <1>1, <1>2
<1>4. p \in Nat /\ 1 <= p /\ GetAt(w, i + 1) \in Nat
  BY <1>1, <1>3
<1>5. p + len < MaxInt
  <2>1. AllocationLimit(w) = GetAt(w, n - 2)
    BY UsedFacts
  <2>2. p <= GetAt(w, n - 2)
    BY <1>1, <1>3
  <2>3. GetAt(w, n - 2) \in Nat /\ MaxInt \in Nat
    BY <1>1, <1>3, AllocatorAssumption DEF AllocatorAssumption
  <2> QED BY <1>4, <2>1, <2>2, <2>3
<1>6. UsedIn(FrontTaken(w, i, p + len)) = U \cup (p .. p + len - 1)
  <2> DEFINE to == p + len
  <2>1. to = IF GetAt(w, i + 1) > to THEN to ELSE GetAt(w, i + 1)
    BY <1>2, <1>4
  <2>2. to \in Int /\ GetAt(w, i) < to /\ to < MaxInt
    BY <1>4, <1>5
  <2> HIDE DEF to
  <2>3. UsedIn(FrontTaken(w, i, to)) = UsedIn(w) \cup (GetAt(w, i) .. to - 1)
    BY <1>2, <2>1, <2>2, FrontTakenUsed
  <2> QED BY <1>4, <2>2, <2>3 DEF to
<1>7. \A b \in p .. p + len - 1 : b \notin U
  <2> SUFFICES ASSUME NEW b \in p .. p + len - 1 PROVE b \notin U
    OBVIOUS
  <2>1. b \in p .. GetAt(w, i + 1) - 1
    BY <1>2, <1>4
  <2> QED BY <1>2, <2>1, RunByParity
<1>8. ASSUME NEW q \in 1 .. p - 1 PROVE \E b \in q .. q + len - 1 : b \in U
  <2>1. q \in Int /\ 1 <= q /\ q < p /\ q \in 0 .. MaxInt - 1
    BY <1>4, <1>5, AllocatorAssumption DEF AllocatorAssumption
  <2>2. PICK k \in 1 .. n - 2 : Between(w, k, q)
    BY <2>1, SomewhereBetween
  <2>3. k \in Int /\ k \in 1 .. n - 1 /\ k \in 0 .. n - 1 /\ k + 1 \in 0 .. n - 1
        /\ GetAt(w, k) \in Nat /\ GetAt(w, k + 1) \in Nat
    BY <1>1, <2>2
  <2>4. k < i
    <3> SUFFICES ASSUME k >= i PROVE FALSE
      BY <1>3, <2>3
    <3>1. GetAt(w, i) <= GetAt(w, k)
      <4>1. i = k \/ i < k
        BY <1>3, <2>3
      <4> QED BY <1>1, <1>3, <1>4, <2>3, <4>1
    <3> QED BY <1>4, <2>1, <2>2, <2>3, <3>1 DEF Between
  <2>5. CASE k % 2 = 1
    <3>1. q \in U
      BY <2>1, <2>2, <2>5, UsedByParity
    <3> QED BY <2>1, <3>1
  <2>6. CASE k % 2 = 0
    <3> DEFINE b == GetAt(w, k + 1)
    <3>1. k \in 2 .. i - 1
      BY <1>3, <2>2, <2>3, <2>4, <2>6
    <3>2. b < GetAt(w, k) + len /\ GetAt(w, k) <= q /\ q < b
      BY <1>2, <2>2, <2>6, <3>1 DEF Between
    <3>3. b \in q .. q + len - 1
      BY <2>1, <2>3, <3>2
    <3>4. b \in U
      <4>1. k + 1 \in 2 .. n - 2 /\ (k + 1) % 2 = 1
        <5>1. (k + 1) % 2 = 1
          BY <2>3, <2>6
        <5> QED BY <1>1, <1>2, <2>3, <2>4, <3>1, <5>1
      <4>2. b \in GetAt(w, k + 1) .. GetAt(w, k + 1 + 1) - 1
        <5>1. k + 1 \in 1 .. n - 1 /\ k + 1 + 1 \in 1 .. n - 1 /\ k + 1 < k + 1 + 1 /\ k + 1 + 1 \in 0 .. n - 1
          BY <1>1, <4>1, <2>3
        <5>2. b < GetAt(w, k + 1 + 1) /\ GetAt(w, k + 1 + 1) \in Nat
          BY <1>1, <5>1
        <5> QED BY <2>3, <5>2
      <4> QED BY <4>1, <4>2, RunByParity
    <3> QED BY <3>3, <3>4
  <2>7. k % 2 = 0 \/ k % 2 = 1
    BY <2>3
  <2> QED BY <2>5, <2>6, <2>7
<1>9. p = 1 \/ p - 1 \in U
  BY <1>2, ByteBeforeWall
<1>10. U \in SUBSET Nat /\ 0 \notin U
  BY UsedFacts, AllocatorAssumption DEF AllocatorAssumption
<1>11. FirstFit(U, len) = p
  <2> HIDE DEF p, U
  <2> QED BY <1>4, <1>7, <1>8, <1>9, <1>10, FirstFitIs DEF Bytes
<1>12. Allocated(w, len) = FrontTaken(w, i, p + len)
  BY DEF Allocated, i
<1> QED BY <1>6, <1>11, <1>12 DEF Bytes

\* InsertPair toggles the run it is given, unless it reaches the next wall; in
\* the end gaps may be forgotten.
LEMMA InsertPairUsed ==
  ASSUME NEW w, Sorted(w), NEW i \in 2 .. Len(w) - 1,
         NEW from \in Int, NEW to \in Int, GetAt(w, i - 1) < from, from < to,
         NEW v \in InsertPair(w, i, from, to)
  PROVE  /\ to >= GetAt(w, i) => v = w
         /\ to < GetAt(w, i) =>
              \E u : /\ Sorted(u) /\ Toggles(w, u, from, to)
                     /\ UsedIn(v) \in Space!Forgetting(UsedIn(u))
<1>1. GetAt(w, i) \in Int
  BY WallFacts
<1>2. ASSUME to >= GetAt(w, i) PROVE v = w
  BY <1>1, <1>2 DEF InsertPair
<1>3. ASSUME to < GetAt(w, i)
      PROVE  \E u : /\ Sorted(u) /\ Toggles(w, u, from, to)
                    /\ UsedIn(v) \in Space!Forgetting(UsedIn(u))
  <2> DEFINE u == PairInserted(w, i, from, to)
  <2>1. Sorted(u) /\ Toggles(w, u, from, to)
    BY <1>3, PairInsertedToggles
  <2>2. (Len(u) > FragLimit /\ v \in ReduceFrags(u)) \/ v = u
    BY <1>1, <1>3 DEF InsertPair
  <2> HIDE DEF u
  <2>3. UsedIn(v) \in Space!Forgetting(UsedIn(u))
    <3>1. CASE Len(u) > FragLimit /\ v \in ReduceFrags(u)
      BY <2>1, <3>1, ReduceForgets
    <3>2. CASE v = u
      BY <3>2, ForgettingIs
    <3> QED BY <2>2, <3>1, <3>2
  <2> QED BY <2>1, <2>3
<1> QED BY <1>2, <1>3

\* Occupy: where the block starts decides, as in SpaceOps.
LEMMA OccupiedUsed ==
  ASSUME NEW w, Sorted(w), NEW pos \in Nat \ {0}, NEW len \in Nat \ {0},
         pos + len < MaxInt, NEW v \in OccupiedWalls(w, pos, len)
  PROVE  UsedIn(v) \in Space!Forgetting(Occupied(UsedIn(w), pos, len))
<1> DEFINE n == Len(w)
           i == Locate(w, pos)
           U == UsedIn(w)
           e == FreeRunEnd(U, pos, pos + len)
           run == Bytes(pos, e - pos)
<1>1. /\ n \in Nat /\ n >= 4 /\ n % 2 = 0
      /\ \A k \in 0 .. n - 1 : GetAt(w, k) \in Nat /\ GetAt(w, k) <= MaxInt
      /\ GetAt(w, 1) = 0 /\ GetAt(w, n - 1) = MaxInt
      /\ \A j, k \in 1 .. n - 1 : j < k => GetAt(w, j) < GetAt(w, k)
  BY WallFacts
<1>2. MaxInt \in Nat /\ pos \in Int /\ len \in Int /\ pos >= 1 /\ len >= 1
  BY AllocatorAssumption DEF AllocatorAssumption
<1>3. i \in 2 .. n - 1 /\ pos <= GetAt(w, i) /\ GetAt(w, i - 1) < pos
  <2>1. pos \in 1 .. MaxInt
    BY <1>2
  <2> QED BY <2>1, LocateFacts
<1>4. v \in CASE i % 2 = 1 /\ GetAt(w, i) = pos + len -> {SetAt(w, i, pos)}
              [] i % 2 = 1 /\ GetAt(w, i) # pos + len -> InsertPair(w, i, pos, pos + len)
              [] i % 2 = 0 /\ GetAt(w, i) = pos       -> {FrontTaken(w, i, pos + len)}
              [] OTHER                               -> {w}
  BY DEF OccupiedWalls
<1>5. /\ pos \in U => Occupied(U, pos, len) = U
      /\ pos \notin U /\ (pos = 1 \/ pos - 1 \in U) => Occupied(U, pos, len) = U \cup run
      /\ pos \notin U /\ ~(pos = 1 \/ pos - 1 \in U) /\ run = Bytes(pos, len) =>
            Occupied(U, pos, len) = U \cup run
      /\ pos \notin U /\ ~(pos = 1 \/ pos - 1 \in U) /\ run # Bytes(pos, len) =>
            Occupied(U, pos, len) = U
  <2> HIDE DEF U
  <2> QED BY DEF Occupied
<1> HIDE DEF i, n
<1>6. /\ i \in Int /\ i - 1 \in 1 .. n - 2 /\ i - 1 + 1 = i /\ i \in 0 .. n - 1 /\ i - 1 \in 0 .. n - 1
      /\ GetAt(w, i) \in Nat /\ GetAt(w, i - 1) \in Nat
  BY <1>1, <1>3
<1>7. pos < GetAt(w, i) => (pos \in U <=> i % 2 = 0)
  <2> SUFFICES ASSUME pos < GetAt(w, i) PROVE pos \in U <=> i % 2 = 0
    OBVIOUS
  <2>1. Between(w, i - 1, pos)
    BY <1>2, <1>3, <1>6 DEF Between
  <2>2. pos \in U <=> (i - 1) % 2 = 1
    BY <1>2, <1>6, <2>1, UsedByParity DEF n
  <2>3. (i - 1) % 2 = 1 <=> i % 2 = 0
    BY <1>6
  <2> QED BY <2>2, <2>3
<1>9. CASE i % 2 = 1 /\ pos = GetAt(w, i)
  <2>1. pos \in U
    <3>1. i # n - 1
      BY <1>1, <1>2, <1>9
    <3>2. i \in 2 .. n - 2 /\ i \in 1 .. n - 1 /\ i + 1 \in 1 .. n - 1 /\ i < i + 1 /\ i + 1 \in 0 .. n - 1
      BY <1>1, <1>3, <1>6, <3>1
    <3>3. pos \in GetAt(w, i) .. GetAt(w, i + 1) - 1
      BY <1>1, <1>9, <3>2
    <3> QED BY <1>9, <3>2, <3>3, RunByParity DEF n
  <2>2. v = w
    <3>1. v \in InsertPair(w, i, pos, pos + len)
      <4>1. GetAt(w, i) # pos + len
        BY <1>2, <1>9
      <4> QED BY <1>4, <1>9, <4>1
    <3>2. pos + len >= GetAt(w, i) /\ pos < pos + len /\ pos + len \in Int
      BY <1>2, <1>9
    <3> QED BY <1>2, <1>3, <3>1, <3>2, InsertPairUsed DEF n
  <2> QED BY <1>5, <2>1, <2>2, ForgettingIs
<1>10. CASE i % 2 = 1 /\ pos < GetAt(w, i)
  <2>1. pos \notin U
    BY <1>7, <1>10
  <2>2. i - 1 \in 2 .. n - 2 /\ (i - 1) % 2 = 0
    <3>1. (i - 1) % 2 = 0 /\ i # 2
      BY <1>6, <1>10
    <3> QED BY <1>1, <1>3, <1>6, <3>1
  <2>3. ASSUME NEW b \in GetAt(w, i - 1) .. GetAt(w, i) - 1 PROVE b \notin U
    BY <1>6, <2>2, <2>3, RunByParity DEF n
  <2>4. ~(pos = 1 \/ pos - 1 \in U)
    <3>1. pos - 1 \in GetAt(w, i - 1) .. GetAt(w, i) - 1
      BY <1>2, <1>3, <1>6
    <3>2. pos - 1 >= 1
      BY <1>6, <2>2, <3>1, RunByParity DEF n
    <3> QED BY <1>2, <2>3, <3>1, <3>2
  <2>5. CASE pos + len <= GetAt(w, i)
    <3>1. e = pos + len
      <4>1. \A b \in pos .. pos + len - 1 : b \notin U
        <5> SUFFICES ASSUME NEW b \in pos .. pos + len - 1 PROVE b \notin U
          OBVIOUS
        <5>1. b \in GetAt(w, i - 1) .. GetAt(w, i) - 1
          BY <1>2, <1>3, <1>6, <2>5
        <5> QED BY <2>3, <5>1
      <4>2. pos + len \in pos .. pos + len /\ pos + len \in Int
        BY <1>2
      <4> QED BY <1>2, <4>1, <4>2, FreeRunEndIs
    <3>2. run = pos .. pos + len - 1 /\ run = Bytes(pos, len)
      BY <1>2, <3>1 DEF Bytes
    <3> HIDE DEF e, run
    <3>3. Occupied(U, pos, len) = U \cup (pos .. pos + len - 1)
      BY <1>5, <2>1, <2>4, <3>2
    <3>4. \A b \in pos .. pos + len - 1 : b \notin U
      <4> SUFFICES ASSUME NEW b \in pos .. pos + len - 1 PROVE b \notin U
        OBVIOUS
      <4>1. b \in GetAt(w, i - 1) .. GetAt(w, i) - 1
        BY <1>2, <1>3, <1>6, <2>5
      <4> QED BY <2>3, <4>1
    <3>5. \E u : /\ Sorted(u) /\ Toggles(w, u, pos, pos + len)
                 /\ UsedIn(v) \in Space!Forgetting(UsedIn(u))
      <4>1. CASE GetAt(w, i) = pos + len
        <5>1. v = SetAt(w, i, pos)
          BY <1>4, <1>10, <4>1
        <5>2. i # n - 1
          BY <1>1, <1>2, <4>1
        <5>3. i \in 2 .. n - 2 /\ i \in 1 .. n - 1 /\ i + 1 \in 1 .. n - 1 /\ i < i + 1 /\ i + 1 \in 0 .. n - 1
          BY <1>1, <1>3, <1>6, <5>2
        <5>4. pos < GetAt(w, i + 1) /\ pos <= GetAt(w, i)
          BY <1>1, <1>2, <1>3, <1>6, <5>3
        <5>5. Sorted(v) /\ Toggles(w, v, pos, pos + len)
          BY <1>2, <1>3, <4>1, <5>1, <5>3, <5>4, SetAtToggles DEF n
        <5> QED BY <5>5, ForgettingIs
      <4>2. CASE GetAt(w, i) # pos + len
        <5>1. v \in InsertPair(w, i, pos, pos + len)
          BY <1>4, <1>10, <4>2
        <5>2. pos + len < GetAt(w, i) /\ pos < pos + len /\ pos + len \in Int
          BY <1>2, <1>6, <2>5, <4>2
        <5> QED BY <1>2, <1>3, <5>1, <5>2, InsertPairUsed DEF n
      <4> QED BY <4>1, <4>2
    <3>6. PICK u : /\ Sorted(u) /\ Toggles(w, u, pos, pos + len)
                   /\ UsedIn(v) \in Space!Forgetting(UsedIn(u))
      BY <3>5
    <3>7. UsedIn(u) = U \cup (pos .. pos + len - 1)
      <4> DEFINE to == pos + len
      <4>1. to \in Int /\ to <= MaxInt
        BY <1>2
      <4>2. Toggles(w, u, pos, to) /\ \A b \in pos .. to - 1 : b \notin UsedIn(w)
        BY <3>4, <3>6
      <4> HIDE DEF to
      <4>3. UsedIn(u) = UsedIn(w) \cup (pos .. to - 1)
        BY <1>2, <3>6, <4>1, <4>2, ToggledRun
      <4> QED BY <1>2, <4>1, <4>3 DEF to
    <3> HIDE DEF U
    <3>8. Occupied(U, pos, len) = UsedIn(u)
      BY <3>3, <3>7
    <3> QED BY <3>6, <3>8 DEF U
  <2>6. CASE pos + len > GetAt(w, i)
    <3>1. v = w
      <4>1. v \in InsertPair(w, i, pos, pos + len)
        <5>1. GetAt(w, i) # pos + len
          BY <1>2, <1>6, <2>6
        <5> QED BY <1>4, <1>10, <5>1
      <4>2. pos + len >= GetAt(w, i) /\ pos < pos + len /\ pos + len \in Int
        BY <1>2, <1>6, <2>6
      <4> QED BY <1>2, <1>3, <4>1, <4>2, InsertPairUsed DEF n
    <3>2. GetAt(w, i) \in U
      <4>1. i # n - 1
        BY <1>1, <1>2, <2>6
      <4>2. i \in 2 .. n - 2 /\ i \in 1 .. n - 1 /\ i + 1 \in 1 .. n - 1 /\ i < i + 1 /\ i + 1 \in 0 .. n - 1
        BY <1>1, <1>3, <1>6, <4>1
      <4>3. GetAt(w, i) \in GetAt(w, i) .. GetAt(w, i + 1) - 1
        BY <1>1, <1>6, <4>2
      <4> QED BY <1>10, <4>2, <4>3, RunByParity DEF n
    <3>3. e = GetAt(w, i)
      <4>1. \A b \in pos .. GetAt(w, i) - 1 : b \notin U
        <5> SUFFICES ASSUME NEW b \in pos .. GetAt(w, i) - 1 PROVE b \notin U
          OBVIOUS
        <5>1. b \in GetAt(w, i - 1) .. GetAt(w, i) - 1
          BY <1>2, <1>3, <1>6
        <5> QED BY <2>3, <5>1
      <4>2. GetAt(w, i) \in pos .. pos + len /\ pos + len \in Int
        BY <1>2, <1>3, <1>6, <2>6
      <4> QED BY <1>2, <3>2, <4>1, <4>2, FreeRunEndIs
    <3>4. run # Bytes(pos, len)
      <4>1. pos + len - 1 \in Bytes(pos, len)
        BY <1>2 DEF Bytes
      <4>2. pos + len - 1 \notin run
        <5>1. run = pos .. pos + (GetAt(w, i) - pos) - 1
          BY <3>3 DEF Bytes
        <5> HIDE DEF run
        <5> QED BY <1>2, <1>6, <2>6, <5>1
      <4> QED BY <4>1, <4>2
    <3>5. Occupied(U, pos, len) = U
      <4> HIDE DEF U, e, run
      <4> QED BY <1>5, <2>1, <2>4, <3>4
    <3> QED BY <3>1, <3>5, ForgettingIs
  <2>7. pos + len <= GetAt(w, i) \/ pos + len > GetAt(w, i)
    BY <1>2, <1>6
  <2> QED BY <2>5, <2>6, <2>7
<1>11. CASE i % 2 = 0 /\ pos = GetAt(w, i)
  <2>1. i \in 2 .. n - 2 /\ i \in 1 .. n - 1 /\ i + 1 \in 1 .. n - 1 /\ i < i + 1 /\ i + 1 \in 0 .. n - 1
    <3>1. i # n - 1
      BY <1>1, <1>2, <1>11
    <3> QED BY <1>1, <1>3, <1>6, <3>1
  <2>2. v = FrontTaken(w, i, pos + len)
    BY <1>4, <1>11
  <2> DEFINE to == pos + len
             x == IF GetAt(w, i + 1) > to THEN to ELSE GetAt(w, i + 1)
  <2>3. to \in Int /\ pos < to /\ to < MaxInt
    BY <1>2
  <2> HIDE DEF to
  <2>4. /\ x \in Int /\ pos < x /\ x <= to
        /\ UsedIn(v) = U \cup (pos .. x - 1)
    BY <1>11, <2>1, <2>2, <2>3, FrontTakenUsed DEF n, to
  <2>5. GetAt(w, i + 1) \in Nat
    BY <1>1, <2>1
  <2>6. \A b \in pos .. x - 1 : b \notin U
    <3> SUFFICES ASSUME NEW b \in pos .. x - 1 PROVE b \notin U
      OBVIOUS
    <3>1. b \in GetAt(w, i) .. GetAt(w, i + 1) - 1
      BY <1>2, <1>11, <2>3, <2>5
    <3> QED BY <1>11, <2>1, <3>1, RunByParity DEF n
  <2>7. x = to \/ x \in U
    <3> SUFFICES ASSUME GetAt(w, i + 1) <= to, GetAt(w, i + 1) # to PROVE GetAt(w, i + 1) \in U
      BY <2>3, <2>5
    <3>1. i + 1 # n - 1
      BY <1>1, <1>2, <2>3, <2>5
    <3>2. i + 1 \in 2 .. n - 2 /\ i + 1 + 1 \in 1 .. n - 1 /\ i + 1 < i + 1 + 1 /\ i + 1 + 1 \in 0 .. n - 1
      BY <1>1, <1>6, <2>1, <3>1
    <3>3. (i + 1) % 2 = 1
      BY <1>6, <1>11
    <3>4. GetAt(w, i + 1) \in GetAt(w, i + 1) .. GetAt(w, i + 1 + 1) - 1
      BY <1>1, <2>1, <2>5, <3>2
    <3> QED BY <3>2, <3>3, <3>4, RunByParity DEF n
  <2> HIDE DEF x
  <2>8. FreeRunEnd(U, pos, to) = x
    <3>1. x \in pos .. to
      BY <1>2, <2>3, <2>4
    <3> QED BY <1>2, <2>3, <2>6, <2>7, <3>1, FreeRunEndIs
  <2>9. run = pos .. x - 1
    <3>1. run = pos .. pos + (x - pos) - 1
      BY <2>8 DEF Bytes, to
    <3>2. pos + (x - pos) - 1 = x - 1
      BY <1>2, <2>4
    <3> HIDE DEF run
    <3> QED BY <3>1, <3>2
  <2>10. pos \notin U
    <3>1. pos \in pos .. x - 1
      BY <1>2, <2>4
    <3> QED BY <2>6, <3>1
  <2>11. pos = 1 \/ pos - 1 \in U
    BY <1>11, <2>1, ByteBeforeWall DEF n
  <2> HIDE DEF U, run
  <2>12. Occupied(U, pos, len) = U \cup (pos .. x - 1)
    BY <1>5, <2>9, <2>10, <2>11
  <2>13. Occupied(U, pos, len) = UsedIn(v)
    BY <2>4, <2>12
  <2> QED BY <2>13, ForgettingIs DEF U
<1>12. CASE i % 2 = 0 /\ pos < GetAt(w, i)
  <2>1. GetAt(w, i) # pos
    BY <1>2, <1>12
  <2>2. v = w
    BY <1>4, <1>12, <2>1
  <2>3. pos \in U
    BY <1>7, <1>12
  <2> QED BY <1>5, <2>2, <2>3, ForgettingIs
<1>13. (i % 2 = 0 \/ i % 2 = 1) /\ (pos = GetAt(w, i) \/ pos < GetAt(w, i))
  BY <1>2, <1>3, <1>6
<1> QED BY <1>9, <1>10, <1>11, <1>12, <1>13

\* A block that Release may be given lies in one area in use, which the wall that
\* Locate finds ends.
LEMMA ReleasedRange ==
  ASSUME NEW w, Sorted(w), NEW pos \in Nat \ {0}, NEW len \in Nat \ {0},
         Releasable(w, pos, len), NEW i, i = Locate(w, pos + len)
  PROVE  /\ pos + len < MaxInt
         /\ i \in 2 .. Len(w) - 2 /\ i % 2 = 0
         /\ GetAt(w, i - 1) <= pos /\ pos + len <= GetAt(w, i)
         /\ \A b \in pos .. pos + len - 1 : b \in UsedIn(w)
<1> DEFINE n == Len(w)
<1>1. /\ n \in Nat /\ n >= 4 /\ n % 2 = 0
      /\ \A k \in 0 .. n - 1 : GetAt(w, k) \in Nat
      /\ GetAt(w, 1) = 0
      /\ \A j, k \in 1 .. n - 1 : j < k => GetAt(w, j) < GetAt(w, k)
  BY WallFacts
<1>2. MaxInt \in Nat /\ pos \in Int /\ len \in Int /\ pos >= 1 /\ len >= 1
  BY AllocatorAssumption DEF AllocatorAssumption
<1>3. pos + len <= GetAt(w, n - 2) /\ pos + len < MaxInt
  <2>1. pos + len <= AllocationLimit(w)
    BY DEF Releasable
  <2> QED BY <1>2, <2>1, UsedFacts
<1>4. i \in 2 .. n - 1 /\ pos + len <= GetAt(w, i) /\ GetAt(w, i - 1) < pos + len
  <2>1. pos + len \in 1 .. MaxInt
    BY <1>2, <1>3
  <2> QED BY <2>1, LocateFacts
<1>5. \A b \in pos .. pos + len - 1 : ~FreeAt(w, b)
  BY DEF Releasable, Bytes
<1>6. \A b \in pos .. pos + len - 1 : b \in UsedIn(w)
  <2> SUFFICES ASSUME NEW b \in pos .. pos + len - 1 PROVE b \in UsedIn(w)
    OBVIOUS
  <2>1. b \in 1 .. MaxInt - 1
    BY <1>2, <1>3
  <2> QED BY <1>5, <2>1, UsedFacts
<1>7. i # n - 1
  <2> SUFFICES ASSUME i = n - 1 PROVE FALSE
    OBVIOUS
  <2>1. i - 1 = n - 2 /\ n - 2 \in 0 .. n - 1
    BY <1>1
  <2> QED BY <1>1, <1>2, <1>3, <1>4, <2>1
<1> HIDE DEF n
<1>8. /\ i \in 2 .. n - 2 /\ i \in Int /\ i - 1 \in 1 .. n - 2
      /\ i \in 0 .. n - 1 /\ i - 1 \in 0 .. n - 1 /\ (i - 1) + 1 = i
  BY <1>1, <1>4, <1>7
<1>9. i % 2 = 0
  <2>1. Between(w, i - 1, pos + len - 1)
    BY <1>1, <1>2, <1>4, <1>8 DEF Between
  <2>2. pos + len - 1 \in pos .. pos + len - 1 /\ pos + len - 1 \in Int
    BY <1>2
  <2>3. ~((i - 1) % 2 = 0)
    BY <1>5, <1>8, <2>1, <2>2, FreeByParity DEF n
  <2> QED BY <1>8, <2>3
<1>10. GetAt(w, i - 1) <= pos
  <2> SUFFICES ASSUME pos < GetAt(w, i - 1) PROVE FALSE
    BY <1>1, <1>2, <1>8
  <2>1. i # 2
    BY <1>1, <1>2
  <2>2. i - 2 \in 1 .. n - 2 /\ i - 2 \in 1 .. n - 1 /\ i - 1 \in 1 .. n - 1 /\ i - 2 < i - 1
        /\ i - 2 \in 0 .. n - 1 /\ (i - 2) + 1 = i - 1
    BY <1>1, <1>8, <2>1
  <2> DEFINE b == GetAt(w, i - 1) - 1
  <2>3. Between(w, i - 2, b) /\ b \in Int
    BY <1>1, <1>8, <2>2 DEF Between
  <2>4. b \in pos .. pos + len - 1
    BY <1>1, <1>2, <1>4, <1>8
  <2>5. (i - 2) % 2 = 0
    BY <1>8, <1>9
  <2> HIDE DEF b
  <2> QED BY <1>5, <2>2, <2>3, <2>4, <2>5, FreeByParity DEF n
<1> QED BY <1>3, <1>4, <1>6, <1>8, <1>9, <1>10 DEF n

\* Release frees exactly the bytes of the block, or none when the block is the
\* tail of an area in use; as an Occupy, it may make ReduceFrags forget gaps.
LEMMA ReleasedUsed ==
  ASSUME NEW w, Sorted(w), NEW pos \in Nat \ {0}, NEW len \in Nat \ {0},
         Releasable(w, pos, len), NEW v \in ReleasedWalls(w, pos, len)
  PROVE  /\ Bytes(pos, len) \subseteq UsedIn(w)
         /\ UsedIn(v) \in Space!Forgetting(Released(UsedIn(w), pos, len))
<1> DEFINE n == Len(w)
           U == UsedIn(w)
           i == Locate(w, pos + len)
           to == pos + len
<1>1. /\ n \in Nat /\ n >= 4
      /\ \A k \in 0 .. n - 1 : GetAt(w, k) \in Nat
      /\ GetAt(w, 1) = 0
      /\ \A j, k \in 1 .. n - 1 : j < k => GetAt(w, j) < GetAt(w, k)
  BY WallFacts
<1>2. MaxInt \in Nat /\ pos \in Int /\ to \in Int /\ pos >= 1 /\ pos < to
  BY AllocatorAssumption DEF AllocatorAssumption
<1>3. /\ to < MaxInt /\ i \in 2 .. n - 2 /\ i % 2 = 0
      /\ GetAt(w, i - 1) <= pos /\ to <= GetAt(w, i)
      /\ \A b \in pos .. to - 1 : b \in U
  BY ReleasedRange
<1>4. v \in CASE GetAt(w, i - 1) = pos /\ GetAt(w, i) = to -> {RemovePair(SetAt(w, i - 1, to), i - 1)}
              [] GetAt(w, i - 1) = pos /\ GetAt(w, i) # to -> {SetAt(w, i - 1, to)}
              [] OTHER -> InsertPair(w, i, pos, to)
  BY DEF ReleasedWalls
<1>5. Released(U, pos, len) = IF (pos > 1 /\ pos - 1 \notin U) \/ to \in U
                              THEN U \ (pos .. to - 1) ELSE U
  BY DEF Released, Bytes
<1>6. Bytes(pos, len) \subseteq U
  BY <1>3 DEF Bytes
<1> HIDE DEF i, to, n
<1>7. /\ i \in Int /\ i - 1 \in 1 .. n - 2 /\ i \in 1 .. n - 1 /\ i - 1 \in 0 .. n - 1
      /\ i \in 0 .. n - 1 /\ (i - 1) + 1 = i /\ i - 1 < i /\ i - 1 \in 1 .. n - 1
      /\ i \in 1 .. n - 2 /\ i + 1 \in 1 .. n - 1 /\ i < i + 1 /\ i \in 2 .. n - 1
      /\ i + 1 \in 0 .. n - 1
  BY <1>1, <1>3
<1>8. (i - 1) % 2 = 1
  BY <1>3, <1>7
<1>9. /\ GetAt(w, i - 1) \in Int /\ GetAt(w, i) \in Int /\ GetAt(w, i + 1) \in Int
      /\ GetAt(w, i) < GetAt(w, i + 1)
  BY <1>1, <1>7
<1>10. ASSUME GetAt(w, i - 1) = pos
       PROVE  i - 1 \in 2 .. n - 3 /\ Released(U, pos, len) = U \ (pos .. to - 1)
  <2>1. i # 2
    BY <1>1, <1>2, <1>10
  <2>2. i - 1 \in 2 .. n - 3 /\ i - 1 \in 2 .. n - 2
    BY <1>1, <1>3, <2>1
  <2>3. pos > 1 /\ pos - 1 \notin U
    BY <1>8, <1>10, <2>2, ByteBeforeWall DEF n
  <2> HIDE DEF U
  <2> QED BY <1>5, <2>2, <2>3
<1>11. ASSUME NEW u, Sorted(u), Toggles(w, u, pos, to)
       PROVE  UsedIn(u) = U \ (pos .. to - 1)
  BY <1>2, <1>3, <1>11, ToggledRun
<1>12. CASE GetAt(w, i - 1) = pos /\ GetAt(w, i) = to
  <2>1. v = RemovePair(w, i - 1)
    <3>1. v = RemovePair(SetAt(w, i - 1, to), i - 1)
      BY <1>4, <1>12
    <3> QED BY <1>2, <1>7, <3>1, RemovedAfterMove DEF n
  <2>2. Sorted(v) /\ Toggles(w, v, pos, to)
    BY <1>7, <1>10, <1>12, <2>1, RemovePairToggles DEF n
  <2>3. UsedIn(v) = Released(U, pos, len)
    BY <1>10, <1>11, <1>12, <2>2
  <2> QED BY <1>6, <2>3, ForgettingIs
<1>13. CASE GetAt(w, i - 1) = pos /\ GetAt(w, i) # to
  <2>1. v = SetAt(w, i - 1, to)
    BY <1>4, <1>13
  <2>2. to < GetAt(w, (i - 1) + 1) /\ to >= GetAt(w, i - 1)
    BY <1>2, <1>3, <1>7, <1>9, <1>13
  <2>3. GetAt(w, (i - 1) - 1) < to
    <3>1. i - 2 \in 1 .. n - 1 /\ i - 2 < i - 1 /\ (i - 1) - 1 = i - 2 /\ i - 2 \in 0 .. n - 1
      BY <1>1, <1>7, <1>10, <1>13
    <3> QED BY <1>1, <1>2, <1>7, <1>13, <3>1
  <2>4. i - 1 \in 2 .. n - 2
    BY <1>1, <1>10, <1>13
  <2>5. Sorted(v) /\ Toggles(w, v, pos, to)
    BY <1>2, <1>13, <2>1, <2>2, <2>3, <2>4, SetAtToggles DEF n
  <2>6. UsedIn(v) = Released(U, pos, len)
    BY <1>10, <1>11, <1>13, <2>5
  <2> QED BY <1>6, <2>6, ForgettingIs
<1>14. CASE GetAt(w, i - 1) # pos
  <2>1. v \in InsertPair(w, i, pos, to)
    BY <1>4, <1>14
  <2>2. GetAt(w, i - 1) < pos /\ GetAt(w, i - 1) \in Nat /\ pos - 1 \in Int
    <3>1. GetAt(w, i - 1) \in Nat
      BY <1>1, <1>7
    <3>2. GetAt(w, i - 1) <= pos
      BY <1>3
    <3>3. GetAt(w, i - 1) < pos
      BY <1>2, <1>14, <3>1, <3>2
    <3> QED BY <1>2, <3>1, <3>3
  <2>3. ~(pos > 1 /\ pos - 1 \notin U)
    <3> SUFFICES ASSUME pos > 1 PROVE pos - 1 \in U
      OBVIOUS
    <3>1. Between(w, i - 1, pos - 1)
      BY <1>2, <1>3, <1>7, <1>9, <2>2 DEF Between
    <3>2. 1 <= pos - 1
      BY <1>2
    <3> QED BY <1>7, <1>8, <2>2, <3>1, <3>2, UsedByParity DEF n
  <2>4. CASE GetAt(w, i) = to
    <3>1. v = w
      BY <1>2, <1>7, <1>9, <2>1, <2>2, <2>4, InsertPairUsed DEF n
    <3>2. to \notin U
      <4>1. Between(w, i, to)
        BY <1>9, <2>4 DEF Between
      <4>2. 1 <= to /\ ~(i % 2 = 1)
        BY <1>2, <1>3
      <4> QED BY <1>2, <1>7, <4>1, <4>2, UsedByParity DEF n
    <3> HIDE DEF U
    <3>3. Released(U, pos, len) = U
      BY <1>5, <2>3, <3>2
    <3> QED BY <1>6, <3>1, <3>3, ForgettingIs DEF U
  <2>5. CASE GetAt(w, i) # to
    <3>1. to < GetAt(w, i)
      BY <1>2, <1>3, <1>9, <2>5
    <3>2. PICK u : /\ Sorted(u) /\ Toggles(w, u, pos, to)
                   /\ UsedIn(v) \in Space!Forgetting(UsedIn(u))
      BY <1>2, <1>7, <2>1, <2>2, <3>1, InsertPairUsed DEF n
    <3>3. to \in U
      <4>1. Between(w, i - 1, to)
        BY <1>2, <1>3, <1>7, <1>9, <3>1 DEF Between
      <4>2. 1 <= to
        BY <1>2
      <4> QED BY <1>2, <1>7, <1>8, <4>1, <4>2, UsedByParity DEF n
    <3>4. UsedIn(u) = U \ (pos .. to - 1)
      BY <1>11, <3>2
    <3> HIDE DEF U
    <3>5. Released(U, pos, len) = UsedIn(u)
      BY <1>5, <3>3, <3>4
    <3> QED BY <1>6, <3>2, <3>5 DEF U
  <2> QED BY <2>4, <2>5
<1> QED BY <1>12, <1>13, <1>14

----------------------------------------------------------------------------
\* The refinement.

\* The operators of the abstract specification, under the mapping, are the ones
\* the lemmas above are about.
LEMMA SpaceOpsAgree ==
  /\ \A U, pos, len : /\ Space!Bytes(pos, len) = Bytes(pos, len)
                      /\ Space!Occupied(U, pos, len) = Occupied(U, pos, len)
                      /\ Space!Released(U, pos, len) = Released(U, pos, len)
  /\ \A U, len : Space!FirstFit(U, len) = FirstFit(U, len)
BY DEF Space!Bytes, Bytes, Space!Occupied, Occupied, Space!Released, Released,
       Space!FirstFit, FirstFit, Space!FreeRunEnd, FreeRunEnd

\* A new allocator has no byte in use.
LEMMA NothingUsedAtFirst == Init => Space!Init
<1> SUFFICES ASSUME Init PROVE Used = {}
  BY DEF Space!Init
<1>1. Len(walls) = 4 /\ walls[3] = 1
  BY DEF Init
<1>2. AllocationLimit(walls) = 1
  BY <1>1 DEF AllocationLimit, GetAt
<1> QED BY <1>2 DEF Used

\* What a step of the allocator does to the bytes in use.
Abstracted ==
  \A len \in Lens :
     /\ Allocate(len) => Space!Allocate(len)
     /\ \A pos \in 1 .. MaxPos :
           /\ Occupy(pos, len) => Space!Occupy(pos, len)
           /\ Release(pos, len) => Space!Release(pos, len)

\* Each operation on a sorted vector is the abstract operation of that name.
LEMMA OperationsAbstracted == WallsSorted => Abstracted
<1> SUFFICES ASSUME WallsSorted, NEW len \in Lens
             PROVE  /\ Allocate(len) => Space!Allocate(len)
                    /\ \A pos \in 1 .. MaxPos :
                          /\ Occupy(pos, len) => Space!Occupy(pos, len)
                          /\ Release(pos, len) => Space!Release(pos, len)
  BY DEF Abstracted
<1>1. Sorted(walls)
  BY DEF WallsSorted
<1>2. /\ MaxInt \in Nat /\ MaxPos \in Nat /\ MaxPos + 1 < MaxInt
      /\ len \in Nat \ {0}
  BY AllocatorAssumption DEF AllocatorAssumption
<1>3. Used = UsedIn(walls) /\ Used' = UsedIn(walls')
  BY DEF Used, UsedIn
<1>4. ASSUME Allocate(len) PROVE Space!Allocate(len)
  <2>1. AllocationLimit(walls) \in Nat
    BY <1>1, UsedFacts
  <2>2. AllocationLimit(walls) + len < MaxInt
    BY <1>2, <1>4, <2>1 DEF Allocate
  <2>3. Used' = Used \cup Bytes(FirstFit(Used, len), len)
    BY <1>1, <1>2, <1>3, <1>4, <2>2, AllocatedUsed DEF Allocate
  <2> QED BY <2>3, SpaceOpsAgree DEF Space!Allocate
<1>5. ASSUME NEW pos \in 1 .. MaxPos, Occupy(pos, len) PROVE Space!Occupy(pos, len)
  <2>1. pos \in Nat \ {0} /\ pos + len < MaxInt
    BY <1>2, <1>5 DEF Occupy
  <2>2. Used' \in Space!Forgetting(Occupied(Used, pos, len))
    BY <1>1, <1>2, <1>3, <1>5, <2>1, OccupiedUsed DEF Occupy
  <2> QED BY <2>2, SpaceOpsAgree DEF Space!Occupy
<1>6. ASSUME NEW pos \in 1 .. MaxPos, Release(pos, len) PROVE Space!Release(pos, len)
  <2>1. pos \in Nat \ {0}
    BY <1>2
  <2>2. /\ Bytes(pos, len) \subseteq Used
        /\ Used' \in Space!Forgetting(Released(Used, pos, len))
    BY <1>1, <1>2, <1>3, <1>6, <2>1, ReleasedUsed DEF Release
  <2> QED BY <2>2, SpaceOpsAgree DEF Space!Release
<1> QED BY <1>4, <1>5, <1>6

\* The vector of walls implements the set of bytes in use, operation by operation:
\* Allocate returns the lowest free block that is long enough, Occupy and Release
\* change exactly the bytes SpaceOps says, and what ReduceFrags forgets is a set of
\* whole free gaps, never a byte in use - for every size of the file, every set of
\* block lengths and every limit on fragmentation.
THEOREM WallsImplementByteSpace == Spec => ImplementsByteSpace
<1>1. Init => Space!Init
  BY NothingUsedAtFirst
<1>2. WallsSorted /\ [Next]_walls => [Abstracted]_walls
  BY OperationsAbstracted
<1>3. Spec => Space!Init /\ [][Abstracted]_walls
  BY <1>1, <1>2, WallsStaySorted, PTL DEF Spec
<1> QED BY <1>3 DEF ImplementsByteSpace, Abstracted

\* So the behaviours of the allocator are behaviours of the abstract specification.
THEOREM SpaceRefined == Spec => Space!Spec
<1>1. Init => Space!Init
  BY NothingUsedAtFirst
<1>2. WallsSorted /\ [Next]_walls => [Space!Next]_Used
  <2> SUFFICES ASSUME WallsSorted, [Next]_walls PROVE [Space!Next]_Used
    OBVIOUS
  <2>1. Abstracted
    BY OperationsAbstracted
  <2>2. CASE Next
    BY <2>1, <2>2 DEF Abstracted, Next, Space!Next
  <2>3. CASE UNCHANGED walls
    BY <2>3 DEF Used, AllocationLimit, GetAt, FreeAt
  <2> QED BY <2>2, <2>3
<1> QED BY <1>1, <1>2, WallsStaySorted, PTL DEF Spec, Space!Spec
=============================================================================
