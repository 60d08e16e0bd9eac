-------------------------- MODULE BlockedViewProofs -------------------------
(***************************************************************************)
(* Proofs about c4_BlockedViewer, for every kLimit of at least three, every *)
(* set of rows and every size of the view.                                 *)
(*                                                                         *)
(* A view shows a sequence f of rows when f has the row of each block, and  *)
(* between each two of them, where the offsets say it is.  Of each step of  *)
(* an operation it is shown that the parts of the view still fit together,  *)
(* which blocks have the lengths they should have, that what is remembered  *)
(* is right, and what is shown after it when f was shown before.           *)
(***************************************************************************)
EXTENDS BlockedView, SequenceTheorems, Recursion

\* A function on 1 .. n is a sequence of length n.
LEMMA FunctionIsSeq ==
  ASSUME NEW R, NEW n \in Nat, NEW f \in [1 .. n -> R]
  PROVE  f \in Seq(R) /\ Len(f) = n /\ DOMAIN f = 1 .. n
<1>1. f \in Seq(R)
  BY SeqDef
<1> QED BY <1>1, LenProperties

\* The first rows of a sequence, and those after them.
LEMMA UptoFacts ==
  ASSUME NEW R, NEW s \in Seq(R), NEW n \in 0 .. Len(s)
  PROVE  /\ Upto(s, n) \in Seq(R)
         /\ Len(Upto(s, n)) = n
         /\ \A i \in 1 .. n : Upto(s, n)[i] = s[i]
<1>1. Len(s) \in Nat /\ \A i \in 1 .. n : s[i] \in R
  BY LenProperties, ElementOfSeq
<1>2. 1 \in Int /\ n \in Int
  BY <1>1
<1>3. /\ SubSeq(s, 1, n) \in Seq(R)
      /\ Len(SubSeq(s, 1, n)) = IF 1 <= n THEN n - 1 + 1 ELSE 0
      /\ \A i \in 1 .. n - 1 + 1 : SubSeq(s, 1, n)[i] = s[1 + i - 1]
  BY <1>1, <1>2, SubSeqProperties
<1>4. \A i \in 1 .. n : i \in 1 .. n - 1 + 1 /\ 1 + i - 1 = i
  BY <1>1
<1> QED BY <1>1, <1>3, <1>4 DEF Upto

\* The rows after the first n, entry by entry.
LEMMA AfterFacts ==
  ASSUME NEW R, NEW s \in Seq(R), NEW n \in 0 .. Len(s)
  PROVE  /\ After(s, n) \in Seq(R)
         /\ Len(After(s, n)) = Len(s) - n
         /\ \A i \in 1 .. Len(s) - n : After(s, n)[i] = s[n + i]
<1>1. Len(s) \in Nat /\ \A i \in n + 1 .. Len(s) : s[i] \in R
  BY LenProperties, ElementOfSeq
<1>2. n + 1 \in Int /\ Len(s) \in Int
  BY <1>1
<1>3. /\ SubSeq(s, n + 1, Len(s)) \in Seq(R)
      /\ Len(SubSeq(s, n + 1, Len(s))) = IF n + 1 <= Len(s) THEN Len(s) - (n + 1) + 1 ELSE 0
      /\ \A i \in 1 .. Len(s) - (n + 1) + 1 : SubSeq(s, n + 1, Len(s))[i] = s[n + 1 + i - 1]
  BY <1>1, <1>2, SubSeqProperties
<1>4. \A i \in 1 .. Len(s) - n : i \in 1 .. Len(s) - (n + 1) + 1 /\ n + 1 + i - 1 = n + i
  BY <1>1
<1> QED BY <1>1, <1>3, <1>4 DEF After

\* Two sequences one after the other, entry by entry.
LEMMA ConcatFacts ==
  ASSUME NEW R, NEW s \in Seq(R), NEW t \in Seq(R)
  PROVE  /\ s \o t \in Seq(R)
         /\ Len(s \o t) = Len(s) + Len(t)
         /\ \A i \in 1 .. Len(s) : (s \o t)[i] = s[i]
         /\ \A i \in 1 .. Len(t) : (s \o t)[Len(s) + i] = t[i]
<1>1. Len(s) \in Nat /\ Len(t) \in Nat
  BY LenProperties
<1>2. /\ s \o t \in Seq(R)
      /\ Len(s \o t) = Len(s) + Len(t)
      /\ \A i \in 1 .. Len(s) + Len(t) : (s \o t)[i] = IF i <= Len(s) THEN s[i] ELSE t[i - Len(s)]
  BY ConcatProperties
<1>3. \A i \in 1 .. Len(s) : i \in 1 .. Len(s) + Len(t) /\ i <= Len(s)
  BY <1>1
<1>4. \A i \in 1 .. Len(t) : /\ Len(s) + i \in 1 .. Len(s) + Len(t)
                             /\ ~(Len(s) + i <= Len(s)) /\ Len(s) + i - Len(s) = i
  BY <1>1
<1> QED BY <1>2, <1>3, <1>4

\* One entry put in, one taken out.
LEMMA InsertAtFacts ==
  ASSUME NEW R, NEW s \in Seq(R), NEW k \in 1 .. Len(s) + 1, NEW e \in R
  PROVE  /\ InsertAt(s, k, e) \in Seq(R)
         /\ Len(InsertAt(s, k, e)) = Len(s) + 1
         /\ \A i \in 1 .. k - 1 : InsertAt(s, k, e)[i] = s[i]
         /\ InsertAt(s, k, e)[k] = e
         /\ \A i \in k .. Len(s) : InsertAt(s, k, e)[i + 1] = s[i]
<1> DEFINE a == Upto(s, k - 1)
           b == After(s, k - 1)
           c == a \o <<e>>
<1>1. Len(s) \in Nat /\ k - 1 \in 0 .. Len(s) /\ k \in Int /\ k - 1 + 1 = k
  BY LenProperties
<1>2. a \in Seq(R) /\ Len(a) = k - 1 /\ \A i \in 1 .. k - 1 : a[i] = s[i]
  BY <1>1, UptoFacts
<1>3. b \in Seq(R) /\ Len(b) = Len(s) - (k - 1) /\ \A i \in 1 .. Len(s) - (k - 1) : b[i] = s[k - 1 + i]
  BY <1>1, AfterFacts
<1>4. InsertAt(s, k, e) = c \o b
  BY <1>1 DEF InsertAt, Upto, After
<1> HIDE DEF a, b
<1>5. <<e>> \in Seq(R) /\ Len(<<e>>) = 1 /\ <<e>>[1] = e
  OBVIOUS
<1>6. /\ c \in Seq(R) /\ Len(c) = k
      /\ \A i \in 1 .. k - 1 : c[i] = s[i]
      /\ c[k] = e
  <2>0. a \in Seq(R) /\ <<e>> \in Seq(R)
    BY <1>2, <1>5
  <2>1. /\ c \in Seq(R) /\ Len(c) = Len(a) + Len(<<e>>)
        /\ \A i \in 1 .. Len(a) : c[i] = a[i]
        /\ \A i \in 1 .. Len(<<e>>) : c[Len(a) + i] = <<e>>[i]
    BY <2>0, ConcatFacts
  <2>2. c[Len(a) + 1] = e
    BY <1>5, <2>1
  <2> HIDE DEF c
  <2> QED BY <1>1, <1>2, <2>1, <2>2
<1> HIDE DEF c
<1>7. /\ c \o b \in Seq(R) /\ Len(c \o b) = Len(c) + Len(b)
      /\ \A i \in 1 .. Len(c) : (c \o b)[i] = c[i]
      /\ \A i \in 1 .. Len(b) : (c \o b)[Len(c) + i] = b[i]
  BY <1>3, <1>6, ConcatFacts
<1>8. ASSUME NEW i \in k .. Len(s) PROVE (c \o b)[i + 1] = s[i]
  <2>1. i - k + 1 \in 1 .. Len(s) - (k - 1) /\ k + (i - k + 1) = i + 1 /\ k - 1 + (i - k + 1) = i
    BY <1>1
  <2> QED BY <1>3, <1>6, <1>7, <2>1
<1>9. /\ \A i \in 1 .. k : i \in 1 .. Len(c)
      /\ \A i \in 1 .. k - 1 : i \in 1 .. k
      /\ k \in 1 .. k
  BY <1>1, <1>6
<1> QED BY <1>1, <1>3, <1>4, <1>6, <1>7, <1>8, <1>9

\* A sequence without its entry k: those after it have moved down by one.
LEMMA RemoveAtFacts ==
  ASSUME NEW R, NEW s \in Seq(R), NEW k \in 1 .. Len(s)
  PROVE  /\ RemoveAt(s, k) \in Seq(R)
         /\ Len(RemoveAt(s, k)) = Len(s) - 1
         /\ \A i \in 1 .. k - 1 : RemoveAt(s, k)[i] = s[i]
         /\ \A i \in k .. Len(s) - 1 : RemoveAt(s, k)[i] = s[i + 1]
<1> DEFINE a == Upto(s, k - 1)
           b == After(s, k)
<1>1. Len(s) \in Nat /\ k - 1 \in 0 .. Len(s) /\ k \in 0 .. Len(s) /\ k \in Int
  BY LenProperties
<1>2. a \in Seq(R) /\ Len(a) = k - 1 /\ \A i \in 1 .. k - 1 : a[i] = s[i]
  BY <1>1, UptoFacts
<1>3. b \in Seq(R) /\ Len(b) = Len(s) - k /\ \A i \in 1 .. Len(s) - k : b[i] = s[k + i]
  BY <1>1, AfterFacts
<1>4. RemoveAt(s, k) = a \o b
  BY DEF RemoveAt, Upto, After
<1> HIDE DEF a, b
<1>5. /\ a \o b \in Seq(R) /\ Len(a \o b) = Len(a) + Len(b)
      /\ \A i \in 1 .. Len(a) : (a \o b)[i] = a[i]
      /\ \A i \in 1 .. Len(b) : (a \o b)[Len(a) + i] = b[i]
  <2>1. a \in Seq(R) /\ b \in Seq(R)
    BY <1>2, <1>3
  <2> QED BY <2>1, ConcatFacts
<1>6. ASSUME NEW i \in k .. Len(s) - 1 PROVE (a \o b)[i] = s[i + 1]
  <2>1. i - k + 1 \in 1 .. Len(s) - k /\ k - 1 + (i - k + 1) = i /\ k + (i - k + 1) = i + 1
    BY <1>1
  <2>2. (a \o b)[k - 1 + (i - k + 1)] = b[i - k + 1]
    BY <1>2, <1>3, <1>5, <2>1
  <2> QED BY <1>3, <2>1, <2>2
<1> QED BY <1>1, <1>2, <1>3, <1>4, <1>5, <1>6

\* Rows repeated, and offsets moved.
LEMMA RepeatFacts ==
  ASSUME NEW R, NEW r \in R, NEW count \in Nat
  PROVE  /\ Repeat(r, count) \in Seq(R) /\ Len(Repeat(r, count)) = count
         /\ \A i \in 1 .. count : Repeat(r, count)[i] = r
<1>1. Repeat(r, count) \in [1 .. count -> R] /\ \A i \in 1 .. count : Repeat(r, count)[i] = r
  BY DEF Repeat
<1> QED BY <1>1, FunctionIsSeq

\* Offsets from k on are more by d, the others are as they were.
LEMMA ShiftedFacts ==
  ASSUME NEW o \in Seq(Int), NEW k \in Int, NEW d \in Int
  PROVE  /\ Shifted(o, k, d) \in Seq(Int) /\ Len(Shifted(o, k, d)) = Len(o)
         /\ \A i \in 1 .. Len(o) : Shifted(o, k, d)[i] = IF i >= k THEN o[i] + d ELSE o[i]
<1>1. Len(o) \in Nat /\ o \in [1 .. Len(o) -> Int] /\ DOMAIN o = 1 .. Len(o)
  BY LenProperties
<1>2. /\ Shifted(o, k, d) \in [1 .. Len(o) -> Int]
      /\ \A i \in 1 .. Len(o) : Shifted(o, k, d)[i] = IF i >= k THEN o[i] + d ELSE o[i]
  BY <1>1 DEF Shifted
<1> QED BY <1>1, <1>2, FunctionIsSeq

----------------------------------------------------------------------------
\* Views whose parts fit together: the blocks, a row between each two of them,
\* and offsets that say how many rows there are before the end of each block.
Views(R) == [blocks : Seq(Seq(R)), seps : Seq(R), offsets : Seq(Int),
             last : [base : Int, limit : Int, slot : Int]]

Fits(v) ==
  /\ Len(v.blocks) >= 1 /\ Len(v.seps) = Len(v.blocks) - 1 /\ Len(v.offsets) = Len(v.blocks)
  /\ v.offsets[1] = Len(v.blocks[1])
  /\ \A k \in 2 .. Len(v.blocks) : v.offsets[k] = v.offsets[k - 1] + 1 + Len(v.blocks[k])

Shape(R, v) == v \in Views(R) /\ Fits(v)

\* The number of the first row of a block.
Start(v, k) == v.offsets[k] - Len(v.blocks[k])

\* What the parts of such a view are.
LEMMA ShapeFacts ==
  ASSUME NEW R, NEW v, Shape(R, v)
  PROVE  /\ Len(v.blocks) \in Nat /\ Len(v.blocks) >= 1
         /\ Len(v.seps) = Len(v.blocks) - 1 /\ Len(v.offsets) = Len(v.blocks)
         /\ v.blocks \in Seq(Seq(R)) /\ v.seps \in Seq(R) /\ v.offsets \in Seq(Int)
         /\ v.last \in [base : Int, limit : Int, slot : Int]
         /\ \A k \in 1 .. Len(v.blocks) : /\ v.blocks[k] \in Seq(R)
                                          /\ Len(v.blocks[k]) \in Nat
                                          /\ v.offsets[k] \in Int
                                          /\ Start(v, k) \in Int
         /\ \A k \in 1 .. Len(v.blocks) - 1 : v.seps[k] \in R
         /\ v.offsets[1] = Len(v.blocks[1]) /\ Start(v, 1) = 0
         /\ \A k \in 2 .. Len(v.blocks) : /\ v.offsets[k] = v.offsets[k - 1] + 1 + Len(v.blocks[k])
                                          /\ Start(v, k) = v.offsets[k - 1] + 1
<1>1. v \in Views(R) /\ Fits(v)
  BY DEF Shape
<1>2. /\ v.blocks \in Seq(Seq(R)) /\ v.seps \in Seq(R) /\ v.offsets \in Seq(Int)
      /\ v.last \in [base : Int, limit : Int, slot : Int]
  BY <1>1 DEF Views
<1> DEFINE n == Len(v.blocks)
<1>3. /\ n \in Nat /\ n >= 1 /\ Len(v.seps) = n - 1 /\ Len(v.offsets) = n
      /\ v.offsets[1] = Len(v.blocks[1])
      /\ \A k \in 2 .. n : v.offsets[k] = v.offsets[k - 1] + 1 + Len(v.blocks[k])
  BY <1>1, <1>2, LenProperties DEF Fits
<1>4. \A k \in 1 .. n : v.blocks[k] \in Seq(R)
  BY <1>2, ElementOfSeq
<1>5. \A k \in 1 .. n : Len(v.blocks[k]) \in Nat
  BY <1>4, LenProperties
<1>6. \A k \in 1 .. n : v.offsets[k] \in Int
  BY <1>2, <1>3, ElementOfSeq
<1>7. \A k \in 1 .. n - 1 : v.seps[k] \in R
  BY <1>2, <1>3, ElementOfSeq
<1> HIDE DEF n
<1>8. \A k \in 1 .. n : Start(v, k) \in Int
  BY <1>5, <1>6 DEF Start
<1>9. Start(v, 1) = 0
  BY <1>3, <1>5 DEF Start
<1>10. ASSUME NEW k \in 2 .. n PROVE Start(v, k) = v.offsets[k - 1] + 1
  <2>1. k \in 1 .. n /\ k - 1 \in 1 .. n
    BY <1>3
  <2> QED BY <1>3, <1>5, <1>6, <2>1 DEF Start
<1> QED BY <1>2, <1>3, <1>4, <1>5, <1>6, <1>7, <1>8, <1>9, <1>10 DEF n

\* And what shows that a view is one.
LEMMA ShapeIntro ==
  ASSUME NEW R, NEW v \in Views(R), Fits(v)
  PROVE  Shape(R, v)
BY DEF Shape

\* Each offset is after all rows of the blocks before.
LEMMA OffsetsGrow ==
  ASSUME NEW R, NEW v, Shape(R, v)
  PROVE  /\ \A k \in 1 .. Len(v.blocks) :
              /\ 0 <= Start(v, k) /\ Start(v, k) <= v.offsets[k]
              /\ v.offsets[k] = Start(v, k) + Len(v.blocks[k])
         /\ \A j, k \in 1 .. Len(v.blocks) : j < k => v.offsets[j] < Start(v, k)
         /\ \A j, k \in 1 .. Len(v.blocks) : j < k => v.offsets[j] < v.offsets[k]
<1> DEFINE n == Len(v.blocks)
           o == v.offsets
<1>1. n \in Nat /\ n >= 1
  BY ShapeFacts
<1>2. \A k \in 1 .. n : Len(v.blocks[k]) \in Nat /\ o[k] \in Int /\ Start(v, k) \in Int
  BY ShapeFacts
<1>3. o[1] = Len(v.blocks[1]) /\ Start(v, 1) = 0
  BY ShapeFacts
<1>4. \A k \in 2 .. n : o[k] = o[k - 1] + 1 + Len(v.blocks[k]) /\ Start(v, k) = o[k - 1] + 1
  BY ShapeFacts
<1>5. \A k \in 1 .. n : o[k] = Start(v, k) + Len(v.blocks[k])
  BY <1>2 DEF Start
<1> HIDE DEF n, o
<1>6. \A k \in 0 .. n - 1 : o[k + 1] >= 0
  <2> DEFINE T == {k \in 0 .. n - 1 : o[k + 1] >= 0}
  <2>1. 0 \in T
    BY <1>1, <1>2, <1>3
  <2>2. ASSUME NEW k \in 1 .. n - 1, k - 1 \in T PROVE k \in T
    <3>1. k + 1 \in 2 .. n /\ k - 1 + 1 = k /\ k + 1 - 1 = k /\ k \in 1 .. n /\ k + 1 \in 1 .. n
      BY <1>1
    <3>2. o[k] >= 0 /\ o[k + 1] = o[k] + 1 + Len(v.blocks[k + 1])
      BY <1>4, <2>2, <3>1
    <3> QED BY <1>2, <3>1, <3>2
  <2> HIDE DEF T
  <2>3. n - 1 \in Nat
    BY <1>1
  <2>4. \A k \in 0 .. n - 1 : k \in T
    BY <2>1, <2>2, <2>3, CountingUp
  <2> QED BY <2>4 DEF T
<1>7. ASSUME NEW k \in 1 .. n PROVE o[k] >= 0
  <2>1. k - 1 \in 0 .. n - 1 /\ k - 1 + 1 = k
    BY <1>1
  <2> QED BY <1>6, <2>1
<1>8. ASSUME NEW k \in 1 .. n PROVE 0 <= Start(v, k) /\ Start(v, k) <= o[k]
  <2>1. CASE k = 1
    BY <1>2, <1>3, <1>5, <2>1
  <2>2. CASE k # 1
    <3>1. k \in 2 .. n /\ k - 1 \in 1 .. n
      BY <1>1, <2>2
    <3> QED BY <1>2, <1>4, <1>5, <1>7, <3>1
  <2> QED BY <2>1, <2>2
<1>12. ASSUME NEW k \in 2 .. n PROVE o[k] > o[k - 1]
  <2>1. k \in 1 .. n /\ k - 1 \in 1 .. n
    BY <1>1
  <2>2. o[k] = o[k - 1] + 1 + Len(v.blocks[k])
    BY <1>4
  <2>3. Len(v.blocks[k]) \in Nat /\ o[k - 1] \in Int
    BY <1>2, <2>1
  <2> QED BY <2>2, <2>3
<1>9. ASSUME NEW j \in 1 .. n PROVE \A d \in 0 .. n - j : d >= 1 => o[j] < o[j + d]
  <2> DEFINE T == {d \in 0 .. n - j : d >= 1 => o[j] < o[j + d]}
  <2>1. 0 \in T
    BY <1>1
  <2>2. ASSUME NEW d \in 1 .. n - j, d - 1 \in T PROVE d \in T
    <3>1. /\ j + d \in 2 .. n /\ j + d - 1 = j + (d - 1) /\ j + d - 1 \in 1 .. n
          /\ j + d \in 1 .. n
      BY <1>1
    <3>2. o[j + d] > o[j + (d - 1)]
      BY <1>12, <3>1
    <3>3. CASE d = 1
      <4>1. j + (d - 1) = j
        BY <3>3
      <4> QED BY <3>2, <3>3, <4>1
    <3>4. CASE d # 1
      <4>1. o[j] < o[j + (d - 1)]
        BY <2>2, <3>4
      <4> QED BY <1>2, <3>1, <3>2, <4>1
    <3> QED BY <3>3, <3>4
  <2> HIDE DEF T
  <2>3. n - j \in Nat
    BY <1>1
  <2>4. \A d \in 0 .. n - j : d \in T
    BY <2>1, <2>2, <2>3, CountingUp
  <2> QED BY <2>4 DEF T
<1>10. ASSUME NEW j \in 1 .. n, NEW k \in 1 .. n, j < k PROVE o[j] < o[k]
  <2>1. k - j \in 0 .. n - j /\ k - j >= 1 /\ j + (k - j) = k
    BY <1>1, <1>10
  <2> QED BY <1>9, <2>1
<1>11. ASSUME NEW j \in 1 .. n, NEW k \in 1 .. n, j < k PROVE o[j] < Start(v, k)
  <2>1. k \in 2 .. n /\ k - 1 \in 1 .. n /\ j <= k - 1
    BY <1>1, <1>11
  <2>2. o[j] <= o[k - 1]
    BY <1>2, <1>10, <2>1
  <2> QED BY <1>2, <1>4, <2>1, <2>2
<1> QED BY <1>5, <1>8, <1>10, <1>11 DEF n, o

\* The rows of a view one after the other: f has them where they are.
Shown(v, f) ==
  /\ Len(f) = v.offsets[Len(v.blocks)]
  /\ \A k \in 1 .. Len(v.blocks) : \A i \in 1 .. Len(v.blocks[k]) :
       f[Start(v, k) + i] = v.blocks[k][i]
  /\ \A k \in 1 .. Len(v.blocks) - 1 : f[v.offsets[k] + 1] = v.seps[k]

\* Every position is in a block or between two: the block that the row with
\* this number is found in by Slot.
LEMMA InOneBlock ==
  ASSUME NEW R, NEW v, Shape(R, v), NEW row \in 0 .. v.offsets[Len(v.blocks)]
  PROVE  \E k \in 1 .. Len(v.blocks) :
           /\ Start(v, k) <= row /\ row <= v.offsets[k]
           /\ \A j \in 1 .. Len(v.blocks) : v.offsets[j] >= row <=> j >= k
<1> DEFINE n == Len(v.blocks)
           o == v.offsets
           S == {k \in 1 .. n : row <= o[k]}
<1>1. n \in Nat /\ n >= 1 /\ row \in Int
  BY ShapeFacts
<1>2. \A k \in 1 .. n : o[k] \in Int /\ Start(v, k) \in Int
  BY ShapeFacts
<1>3. Start(v, 1) = 0 /\ \A k \in 2 .. n : Start(v, k) = o[k - 1] + 1
  BY ShapeFacts
<1>4. \A j, k \in 1 .. n : j < k => o[j] < o[k]
  BY OffsetsGrow
<1>5. S \in SUBSET Nat /\ n \in S
  BY <1>1, <1>2
<1>6. PICK k \in S : \A j \in S : k <= j
  <2> HIDE DEF S
  <2> QED BY <1>5, LeastNatural
<1> HIDE DEF n, o
<1>7. k \in 1 .. n /\ row <= o[k]
  BY <1>6
<1>8. \A j \in 1 .. n : o[j] >= row <=> j >= k
  BY <1>1, <1>2, <1>4, <1>6, <1>7
<1>9. Start(v, k) <= row
  <2>1. CASE k = 1
    BY <1>1, <1>3, <2>1 DEF n, o
  <2>2. CASE k # 1
    <3>1. k \in 2 .. n /\ k - 1 \in 1 .. n /\ ~(k - 1 >= k)
      BY <1>1, <1>7, <2>2
    <3>2. o[k - 1] < row
      BY <1>1, <1>2, <1>8, <3>1
    <3> QED BY <1>1, <1>2, <1>3, <3>1, <3>2
  <2> QED BY <2>1, <2>2
<1> QED BY <1>7, <1>8, <1>9 DEF n, o

\* So a view shows one sequence of rows only.
LEMMA ShownOnce ==
  ASSUME NEW R, NEW v, Shape(R, v), NEW f \in Seq(R), NEW g \in Seq(R),
         Shown(v, f), Shown(v, g)
  PROVE  f = g
<1> DEFINE n == Len(v.blocks)
           o == v.offsets
<1>1. n \in Nat /\ n >= 1
  BY ShapeFacts
<1>2. \A k \in 1 .. n : o[k] \in Int /\ Start(v, k) \in Int /\ Len(v.blocks[k]) \in Nat
  BY ShapeFacts
<1>3. \A k \in 1 .. n : o[k] = Start(v, k) + Len(v.blocks[k])
  BY OffsetsGrow
<1>4. /\ Len(f) = o[n] /\ Len(g) = o[n]
      /\ \A k \in 1 .. n : \A i \in 1 .. Len(v.blocks[k]) : f[Start(v, k) + i] = g[Start(v, k) + i]
      /\ \A k \in 1 .. n - 1 : f[o[k] + 1] = g[o[k] + 1]
  BY DEF Shown
<1>5. ASSUME NEW p \in 1 .. Len(f) PROVE f[p] = g[p]
  <2>1. o[n] \in Int /\ p - 1 \in 0 .. o[n] /\ p - 1 < o[n] /\ p \in Int
    BY <1>1, <1>2, <1>4
  <2>2. PICK k \in 1 .. n : /\ Start(v, k) <= p - 1 /\ p - 1 <= o[k]
                            /\ \A j \in 1 .. n : o[j] >= p - 1 <=> j >= k
    BY <2>1, InOneBlock
  <2> HIDE DEF n, o
  <2>3. CASE p - 1 = o[k]
    <3>1. k # n
      BY <2>1, <2>3
    <3>2. k \in 1 .. n - 1 /\ o[k] + 1 = p
      BY <1>1, <1>2, <2>1, <2>3, <3>1
    <3>3. f[o[k] + 1] = g[o[k] + 1]
      BY <1>4, <3>2
    <3> QED BY <3>2, <3>3
  <2>4. CASE p - 1 # o[k]
    <3> DEFINE i == p - Start(v, k)
    <3>1. i \in 1 .. Len(v.blocks[k]) /\ Start(v, k) + i = p
      BY <1>2, <1>3, <2>1, <2>2, <2>4
    <3> HIDE DEF i
    <3>2. f[Start(v, k) + i] = g[Start(v, k) + i]
      BY <1>4, <3>1
    <3> QED BY <3>1, <3>2
  <2> QED BY <2>3, <2>4
<1> QED BY <1>4, <1>5, SeqEqual

----------------------------------------------------------------------------
\* The rows as one sequence, Flat.

\* What the recursive function in FlatOf is defined to be.
Gathers(v, u) ==
  u = [k \in 1 .. Len(v.blocks) |->
        IF k = 1 THEN v.blocks[1]
        ELSE Append(u[k - 1], v.seps[k - 1]) \o v.blocks[k]]

\* There is such a function.
LEMMA GathersExists ==
  ASSUME NEW R, NEW v, Shape(R, v)
  PROVE  \E u : Gathers(v, u)
<1> DEFINE n == Len(v.blocks)
           G == [i \in 1 .. n - 1 |->
                  [x \in Seq(R) |-> Append(x, v.seps[i]) \o v.blocks[i + 1]]]
<1>1. n \in Nat /\ n >= 1 /\ n - 1 \in Nat
  BY ShapeFacts
<1>2. /\ \A k \in 1 .. n : v.blocks[k] \in Seq(R)
      /\ \A k \in 1 .. n - 1 : v.seps[k] \in R
  BY ShapeFacts
<1> HIDE DEF n
<1>3. ASSUME NEW i \in 1 .. n - 1, NEW x \in Seq(R)
      PROVE  Append(x, v.seps[i]) \o v.blocks[i + 1] \in Seq(R)
  <2>1. i + 1 \in 1 .. n
    BY <1>1
  <2>2. Append(x, v.seps[i]) \in Seq(R) /\ v.blocks[i + 1] \in Seq(R)
    BY <1>2, <2>1, AppendProperties
  <2> QED BY <2>2, ConcatFacts
<1>4. G \in [1 .. n - 1 -> [Seq(R) -> Seq(R)]]
  BY <1>3
<1>5. v.blocks[1] \in Seq(R)
  BY <1>1, <1>2
<1>6. \A i \in 1 .. n - 1 : \A x \in Seq(R) : G[i][x] = Append(x, v.seps[i]) \o v.blocks[i + 1]
  OBVIOUS
<1> HIDE DEF G
<1>7. PICK f \in [0 .. n - 1 -> Seq(R)] :
         f[0] = v.blocks[1] /\ \A i \in 1 .. n - 1 : f[i] = G[i][f[i - 1]]
  <2>1. Stepwise(n - 1, Seq(R), v.blocks[1], G)
    BY <1>1, <1>4, <1>5 DEF Stepwise
  <2> QED BY <2>1, StepwiseFunction
<1> DEFINE u == [k \in 1 .. n |-> f[k - 1]]
           Next1(k) == IF k = 1 THEN v.blocks[1]
                       ELSE Append(u[k - 1], v.seps[k - 1]) \o v.blocks[k]
<1>8. ASSUME NEW k \in 1 .. n PROVE f[k - 1] = Next1(k)
  <2>1. CASE k = 1
    BY <1>7, <2>1
  <2>2. CASE k # 1
    <3>1. k - 1 \in 1 .. n - 1 /\ k - 1 \in 1 .. n /\ k - 1 - 1 \in 0 .. n - 1 /\ k - 1 + 1 = k
      BY <1>1, <2>2
    <3>2. u[k - 1] = f[k - 1 - 1] /\ f[k - 1 - 1] \in Seq(R)
      BY <1>7, <3>1
    <3>3. f[k - 1] = G[k - 1][f[k - 1 - 1]]
      BY <1>7, <3>1
    <3>4. f[k - 1] = Append(f[k - 1 - 1], v.seps[k - 1]) \o v.blocks[k]
      BY <1>6, <3>1, <3>2, <3>3
    <3> HIDE DEF u
    <3> QED BY <2>2, <3>2, <3>4
  <2> QED BY <2>1, <2>2
<1>9. u = [k \in 1 .. n |-> Next1(k)]
  <2> HIDE DEF Next1
  <2> QED BY <1>8
<1>10. Gathers(v, u)
  BY <1>9, Zenon DEF Gathers, n
<1> QED BY <1>10

\* What it has gathered after the first blocks: their rows, where they are.
LEMMA GathersBlocks ==
  ASSUME NEW R, NEW v, Shape(R, v), NEW u, Gathers(v, u)
  PROVE  \A k \in 1 .. Len(v.blocks) :
           /\ u[k] \in Seq(R) /\ Len(u[k]) = v.offsets[k]
           /\ \A j \in 1 .. k : \A i \in 1 .. Len(v.blocks[j]) : u[k][Start(v, j) + i] = v.blocks[j][i]
           /\ \A j \in 1 .. k - 1 : u[k][v.offsets[j] + 1] = v.seps[j]
<1> DEFINE n == Len(v.blocks)
           o == v.offsets
           b == v.blocks
           Good(k) == /\ u[k] \in Seq(R) /\ Len(u[k]) = o[k]
                      /\ \A j \in 1 .. k : \A i \in 1 .. Len(b[j]) : u[k][Start(v, j) + i] = b[j][i]
                      /\ \A j \in 1 .. k - 1 : u[k][o[j] + 1] = v.seps[j]
           T == {k \in 0 .. n - 1 : Good(k + 1)}
<1>1. n \in Nat /\ n >= 1 /\ n - 1 \in Nat
  BY ShapeFacts
<1>2. \A k \in 1 .. n : b[k] \in Seq(R) /\ Len(b[k]) \in Nat /\ o[k] \in Int /\ Start(v, k) \in Int
  BY ShapeFacts
<1>3. o[1] = Len(b[1]) /\ Start(v, 1) = 0 /\ \A k \in 1 .. n - 1 : v.seps[k] \in R
  BY ShapeFacts
<1>4. \A k \in 2 .. n : o[k] = o[k - 1] + 1 + Len(b[k]) /\ Start(v, k) = o[k - 1] + 1
  BY ShapeFacts
<1>5. /\ \A k \in 1 .. n : 0 <= Start(v, k) /\ o[k] = Start(v, k) + Len(b[k])
      /\ \A j, k \in 1 .. n : j < k => o[j] < o[k]
  BY OffsetsGrow
<1>6. \A k \in 1 .. n : u[k] = IF k = 1 THEN b[1] ELSE Append(u[k - 1], v.seps[k - 1]) \o b[k]
  BY DEF Gathers
<1> HIDE DEF n, o, b
<1>7. 0 \in T
  <2>1. u[1] = b[1] /\ 1 \in 1 .. n
    BY <1>1, <1>6
  <2>2. \A j \in 1 .. 1 : \A i \in 1 .. Len(b[j]) : u[1][Start(v, j) + i] = b[j][i]
    <3> SUFFICES ASSUME NEW i \in 1 .. Len(b[1]) PROVE u[1][Start(v, 1) + i] = b[1][i]
      OBVIOUS
    <3>1. Start(v, 1) + i = i
      BY <1>2, <1>3, <2>1
    <3> QED BY <2>1, <3>1
  <2>3. Good(1)
    BY <1>2, <1>3, <2>1, <2>2
  <2> HIDE DEF Good
  <2> QED BY <1>1, <2>3
<1>8. ASSUME NEW m \in 1 .. n - 1, m - 1 \in T PROVE m \in T
  <2> DEFINE a == Append(u[m], v.seps[m])
             k == m + 1
  <2>1. m - 1 + 1 = m /\ m \in 1 .. n /\ k \in 2 .. n /\ k \in 1 .. n /\ k - 1 = m /\ k # 1
    BY <1>1
  <2>2. Good(m)
    <3> HIDE DEF Good
    <3> QED BY <1>8, <2>1
  <2>3. u[k] = a \o b[k] /\ v.seps[m] \in R /\ b[k] \in Seq(R)
    BY <1>2, <1>3, <1>6, <2>1
  <2>4. /\ a \in Seq(R) /\ Len(a) = Len(u[m]) + 1
        /\ \A i \in 1 .. Len(u[m]) : a[i] = u[m][i]
        /\ a[Len(u[m]) + 1] = v.seps[m]
    BY <2>2, <2>3, AppendProperties
  <2>5. o[k] = o[m] + 1 + Len(b[k]) /\ Start(v, k) = o[m] + 1 /\ Len(u[m]) = o[m] /\ o[m] \in Int
    BY <1>2, <1>4, <2>1, <2>2
  <2> HIDE DEF a, k
  <2>6. /\ u[k] \in Seq(R) /\ Len(u[k]) = Len(a) + Len(b[k])
        /\ \A i \in 1 .. Len(a) : u[k][i] = a[i]
        /\ \A i \in 1 .. Len(b[k]) : u[k][Len(a) + i] = b[k][i]
    <3>1. a \in Seq(R) /\ b[k] \in Seq(R)
      BY <2>3, <2>4
    <3> QED BY <2>3, <3>1, ConcatFacts
  <2>7. Len(u[k]) = o[k]
    BY <1>2, <2>1, <2>4, <2>5, <2>6
  <2>8. ASSUME NEW p \in 1 .. o[m] PROVE u[k][p] = u[m][p]
    <3>1. p \in 1 .. Len(u[m]) /\ p \in 1 .. Len(a)
      BY <1>2, <2>4, <2>5
    <3> QED BY <2>4, <2>6, <3>1
  <2>9. ASSUME NEW j \in 1 .. k, NEW i \in 1 .. Len(b[j]) PROVE u[k][Start(v, j) + i] = b[j][i]
    <3>1. CASE j = k
      BY <2>4, <2>5, <2>6, <3>1
    <3>2. CASE j # k
      <4>1. j \in 1 .. m /\ j \in 1 .. n
        BY <1>1, <2>1, <3>2
      <4>2. o[j] <= o[m]
        BY <1>2, <1>5, <2>1, <4>1
      <4>3. Start(v, j) + i \in 1 .. o[m]
        BY <1>2, <1>5, <2>1, <4>1, <4>2
      <4>4. u[m][Start(v, j) + i] = b[j][i]
        BY <2>2, <4>1
      <4> QED BY <2>8, <4>3, <4>4
    <3> QED BY <3>1, <3>2
  <2>10. ASSUME NEW j \in 1 .. k - 1 PROVE u[k][o[j] + 1] = v.seps[j]
    <3>1. CASE j = m
      <4>1. o[m] + 1 \in 1 .. Len(a)
        BY <1>2, <1>5, <2>1, <2>4, <2>5
      <4> QED BY <2>4, <2>5, <2>6, <3>1, <4>1
    <3>2. CASE j # m
      <4>1. j \in 1 .. m - 1 /\ j \in 1 .. n /\ j < m
        BY <1>1, <2>1, <3>2
      <4>2. o[j] + 1 \in 1 .. o[m]
        BY <1>2, <1>5, <2>1, <4>1, SMTT(30)
      <4>3. u[m][o[j] + 1] = v.seps[j]
        BY <2>2, <4>1
      <4> QED BY <2>8, <4>2, <4>3
    <3> QED BY <3>1, <3>2
  <2>11. Good(k)
    BY <2>6, <2>7, <2>9, <2>10
  <2> HIDE DEF Good
  <2>12. m + 1 = k /\ m \in 0 .. n - 1
    BY <1>1 DEF k
  <2> QED BY <2>11, <2>12
<1> HIDE DEF T, Good
<1>9. \A k \in 0 .. n - 1 : k \in T
  BY <1>1, <1>7, <1>8, CountingUp
<1>10. ASSUME NEW k \in 1 .. n PROVE Good(k)
  <2>1. k - 1 \in 0 .. n - 1 /\ k - 1 + 1 = k
    BY <1>1
  <2>2. k - 1 \in T
    BY <1>9, <2>1
  <2> QED BY <2>1, <2>2 DEF T
<1> QED BY <1>10 DEF Good, n, o, b

\* The rows of a view are those that it shows.
LEMMA FlatShown ==
  ASSUME NEW R, NEW v, Shape(R, v)
  PROVE  FlatOf(v) \in Seq(R) /\ Shown(v, FlatOf(v))
<1> DEFINE u == CHOOSE u : Gathers(v, u)
           n == Len(v.blocks)
<1>1. FlatOf(v) = u[n]
  BY Zenon DEF FlatOf, Gathers
<1>2. Gathers(v, u)
  BY GathersExists, Zenon
<1> HIDE DEF u
<1>3. n \in 1 .. n /\ n \in Nat
  BY ShapeFacts
<1>4. /\ u[n] \in Seq(R) /\ Len(u[n]) = v.offsets[n]
      /\ \A j \in 1 .. n : \A i \in 1 .. Len(v.blocks[j]) : u[n][Start(v, j) + i] = v.blocks[j][i]
      /\ \A j \in 1 .. n - 1 : u[n][v.offsets[j] + 1] = v.seps[j]
  BY <1>2, <1>3, GathersBlocks
<1> QED BY <1>1, <1>4 DEF Shown

\* And Flat is what a view is shown to show.
LEMMA FlatIs ==
  ASSUME NEW R, NEW v, Shape(R, v), NEW f \in Seq(R), Shown(v, f)
  PROVE  FlatOf(v) = f
<1>1. FlatOf(v) \in Seq(R) /\ Shown(v, FlatOf(v))
  BY FlatShown
<1> QED BY <1>1, ShownOnce

----------------------------------------------------------------------------
\* The binary search of Slot.

\* What the recursive function in Slot is defined to be.
Halves(f, o, row) ==
  f = [b \in (1 .. Len(o)) \X (1 .. Len(o)) |->
        IF b[1] >= b[2] THEN b[2]
        ELSE LET m == b[1] + (b[2] - b[1]) \div 2
             IN  IF o[m] < row THEN f[<<m + 1, b[2]>>] ELSE f[<<b[1], m>>]]

\* Block s is the first one whose offset is not before the row.
FirstAt(s, o, row) ==
  s \in 1 .. Len(o) /\ \A j \in 1 .. Len(o) : o[j] >= row <=> j >= s

\* What is found between l and h, without recursion: s, or the bound next to it.
Between(s, l, h) == IF l >= h THEN h ELSE IF s < l THEN l ELSE IF s > h THEN h ELSE s

\* Halving the bounds does not change what is found, and brings them closer.
LEMMA HalvingKeepsSlot ==
  ASSUME NEW o \in Seq(Int), NEW row \in Int, NEW s, FirstAt(s, o, row),
         NEW l \in 1 .. Len(o), NEW h \in 1 .. Len(o), l < h,
         NEW m, m = l + (h - l) \div 2
  PROVE  /\ m \in 1 .. Len(o) /\ m + 1 \in 1 .. Len(o) /\ l <= m /\ m < h
         /\ o[m] < row => Between(s, m + 1, h) = Between(s, l, h)
         /\ ~(o[m] < row) => Between(s, l, m) = Between(s, l, h)
<1>1. Len(o) \in Nat /\ l \in Int /\ h \in Int
  BY LenProperties
<1>2. m \in Int /\ l <= m /\ m < h
  BY <1>1
<1>3. m \in 1 .. Len(o) /\ m + 1 \in 1 .. Len(o)
  BY <1>1, <1>2
<1>4. s \in Int /\ o[m] \in Int /\ (o[m] >= row <=> m >= s)
  BY <1>1, <1>3, ElementOfSeq DEF FirstAt
<1>5. o[m] < row => m < s
  BY <1>2, <1>4
<1>6. ~(o[m] < row) => m >= s
  BY <1>4
<1>7. m < s => Between(s, m + 1, h) = Between(s, l, h)
  BY <1>1, <1>2, <1>4 DEF Between
<1>8. m >= s => Between(s, l, m) = Between(s, l, h)
  BY <1>1, <1>2, <1>4 DEF Between
<1> QED BY <1>2, <1>3, <1>5, <1>6, <1>7, <1>8

\* A function of what is found is such a function.
LEMMA HalvesExists ==
  ASSUME NEW o \in Seq(Int), NEW row \in Int, NEW s, FirstAt(s, o, row)
  PROVE  \E f : Halves(f, o, row)
<1> DEFINE D == (1 .. Len(o)) \X (1 .. Len(o))
           f == [b \in D |-> Between(s, b[1], b[2])]
           Step(b) == IF b[1] >= b[2] THEN b[2]
                      ELSE LET m == b[1] + (b[2] - b[1]) \div 2
                           IN  IF o[m] < row THEN f[<<m + 1, b[2]>>] ELSE f[<<b[1], m>>]
<1>1. \A l, h \in 1 .. Len(o) : f[<<l, h>>] = Between(s, l, h)
  OBVIOUS
<1>2. ASSUME NEW l \in 1 .. Len(o), NEW h \in 1 .. Len(o)
      PROVE  Between(s, l, h) = Step(<<l, h>>)
  <2> DEFINE m == l + (h - l) \div 2
  <2>1. Step(<<l, h>>) = IF l >= h THEN h
                         ELSE IF o[m] < row THEN f[<<m + 1, h>>] ELSE f[<<l, m>>]
    OBVIOUS
  <2>2. Len(o) \in Nat /\ l \in Int /\ h \in Int
    BY LenProperties
  <2> HIDE DEF Step, f
  <2>3. CASE l >= h
    BY <2>1, <2>2, <2>3 DEF Between
  <2>4. CASE l < h
    <3>1. /\ m \in 1 .. Len(o) /\ m + 1 \in 1 .. Len(o)
          /\ o[m] < row => Between(s, m + 1, h) = Between(s, l, h)
          /\ ~(o[m] < row) => Between(s, l, m) = Between(s, l, h)
      BY <2>4, HalvingKeepsSlot
    <3> HIDE DEF m
    <3> QED BY <1>1, <2>1, <2>2, <2>4, <3>1
  <2> QED BY <2>2, <2>3, <2>4
<1>3. \A b \in D : Between(s, b[1], b[2]) = Step(b)
  <2> HIDE DEF Step, f
  <2> QED BY <1>2
<1>4. f = [b \in D |-> Step(b)]
  <2> HIDE DEF Step
  <2> QED BY <1>3
<1>5. Halves(f, o, row)
  BY <1>4, Zenon DEF Halves
<1> QED BY <1>5

\* And every such function finds it: there is no least distance of the bounds
\* at which it finds something else.
LEMMA HalvesFinds ==
  ASSUME NEW o \in Seq(Int), NEW row \in Int, NEW s, FirstAt(s, o, row),
         NEW f, Halves(f, o, row), NEW l \in 1 .. Len(o), NEW h \in 1 .. Len(o)
  PROVE  f[<<l, h>>] = Between(s, l, h)
<1> DEFINE n == Len(o)
           Wrong(a, b) == f[<<a, b>>] # Between(s, a, b)
           S == {d \in Nat : \E a, b \in 1 .. n : Wrong(a, b) /\ d = b - a + n}
<1>1. n \in Nat
  BY LenProperties
<1>2. ASSUME NEW a \in 1 .. n, NEW b \in 1 .. n
      PROVE  f[<<a, b>>] =
               IF a >= b THEN b
               ELSE LET m == a + (b - a) \div 2
                    IN  IF o[m] < row THEN f[<<m + 1, b>>] ELSE f[<<a, m>>]
  BY DEF Halves
<1>3. ASSUME NEW a \in 1 .. n, NEW b \in 1 .. n, Wrong(a, b)
      PROVE  \E c, d \in 1 .. n : Wrong(c, d) /\ d - c < b - a
  <2> DEFINE m == a + (b - a) \div 2
  <2>1. a \in Int /\ b \in Int
    BY <1>1
  <2>2. f[<<a, b>>] = IF a >= b THEN b
                      ELSE IF o[m] < row THEN f[<<m + 1, b>>] ELSE f[<<a, m>>]
    BY <1>2
  <2>3. a < b
    <3>1. SUFFICES ASSUME a >= b PROVE FALSE
      BY <2>1
    <3>2. f[<<a, b>>] = b
      <4> HIDE DEF m
      <4> QED BY <2>1, <2>2, <3>1
    <3>3. Between(s, a, b) = b
      BY <3>1 DEF Between
    <3> QED BY <1>3, <3>2, <3>3
  <2>4. /\ m \in 1 .. n /\ m + 1 \in 1 .. n /\ a <= m /\ m < b
        /\ o[m] < row => Between(s, m + 1, b) = Between(s, a, b)
        /\ ~(o[m] < row) => Between(s, a, m) = Between(s, a, b)
    BY <2>3, HalvingKeepsSlot
  <2> HIDE DEF m, n
  <2>5. m \in Int
    BY <1>1, <2>4
  <2>6. CASE o[m] < row
    <3>1. f[<<a, b>>] = f[<<m + 1, b>>]
      BY <2>1, <2>2, <2>3, <2>6
    <3>2. Wrong(m + 1, b) /\ m + 1 \in 1 .. n /\ b - (m + 1) < b - a
      BY <1>3, <2>1, <2>4, <2>5, <2>6, <3>1
    <3> HIDE DEF Wrong
    <3> QED BY <3>2
  <2>7. CASE ~(o[m] < row)
    <3>1. f[<<a, b>>] = f[<<a, m>>]
      BY <2>1, <2>2, <2>3, <2>7
    <3>2. Wrong(a, m) /\ m \in 1 .. n /\ m - a < b - a
      BY <1>3, <2>1, <2>4, <2>5, <2>7, <3>1
    <3> HIDE DEF Wrong
    <3> QED BY <3>2
  <2> HIDE DEF Wrong
  <2> QED BY <2>6, <2>7
<1> HIDE DEF Wrong
<1>4. ASSUME S # {} PROVE FALSE
  <2>1. PICK d \in S : \A e \in S : d <= e
    <3>1. S \in SUBSET Nat
      OBVIOUS
    <3> HIDE DEF S
    <3> QED BY <1>4, <3>1, LeastNatural
  <2>2. PICK a \in 1 .. n, b \in 1 .. n : Wrong(a, b) /\ d = b - a + n
    BY <2>1
  <2>3. PICK a1 \in 1 .. n, b1 \in 1 .. n : Wrong(a1, b1) /\ b1 - a1 < b - a
    BY <1>3, <2>2
  <2> DEFINE e == b1 - a1 + n
  <2>4. e \in Nat /\ e < d
    BY <1>1, <2>2, <2>3, SMTT(30)
  <2>5. e \in S
    BY <2>3, <2>4
  <2>6. d \in Nat
    OBVIOUS
  <2> HIDE DEF S, e
  <2> QED BY <2>1, <2>4, <2>5, <2>6
<1>5. ASSUME Wrong(l, h) PROVE FALSE
  <2> DEFINE d == h - l + n
  <2>1. d \in Nat
    BY <1>1
  <2>2. d \in S
    BY <1>5, <2>1
  <2> QED BY <1>4, <2>2
<1> QED BY <1>5 DEF Wrong

\* Slot finds the first block whose offset is not before the row.
LEMMA SlotFinds ==
  ASSUME NEW o \in Seq(Int), NEW row \in Int, NEW s, FirstAt(s, o, row)
  PROVE  Slot(o, row) = s
<1> DEFINE f == CHOOSE g : Halves(g, o, row)
           n == Len(o)
<1>1. Slot(o, row) = f[<<1, n>>]
  BY Zenon DEF Slot, Halves
<1>2. Halves(f, o, row)
  BY HalvesExists
<1>3. n \in Nat /\ s \in 1 .. n /\ 1 \in 1 .. n /\ n \in 1 .. n
  BY LenProperties DEF FirstAt
<1> HIDE DEF f
<1>4. f[<<1, n>>] = Between(s, 1, n)
  BY <1>2, <1>3, HalvesFinds
<1>5. Between(s, 1, n) = s
  <2> HIDE DEF n
  <2> QED BY <1>3 DEF Between
<1> QED BY <1>1, <1>4, <1>5

\* So a row is looked up where it is.
LEMMA SlotFacts ==
  ASSUME NEW R, NEW v, Shape(R, v), NEW row \in 0 .. v.offsets[Len(v.blocks)]
  PROVE  /\ Slot(v.offsets, row) \in 1 .. Len(v.blocks)
         /\ Start(v, Slot(v.offsets, row)) <= row /\ row <= v.offsets[Slot(v.offsets, row)]
         /\ InSlot(v.offsets, row) = row - Start(v, Slot(v.offsets, row))
         /\ InSlot(v.offsets, row) \in 0 .. Len(v.blocks[Slot(v.offsets, row)])
<1> DEFINE n == Len(v.blocks)
           o == v.offsets
<1>1. PICK k \in 1 .. n : /\ Start(v, k) <= row /\ row <= o[k]
                          /\ \A j \in 1 .. n : o[j] >= row <=> j >= k
  BY InOneBlock
<1>2. o \in Seq(Int) /\ Len(o) = n /\ n \in Nat /\ n >= 1 /\ row \in Int
  BY ShapeFacts
<1>3. Slot(o, row) = k
  <2>1. FirstAt(k, o, row)
    BY <1>1, <1>2 DEF FirstAt
  <2> QED BY <1>2, <2>1, SlotFinds
<1>4. /\ o[k] \in Int /\ Start(v, k) \in Int /\ Len(v.blocks[k]) \in Nat
      /\ Start(v, 1) = 0 /\ \A j \in 2 .. n : Start(v, j) = o[j - 1] + 1 /\ o[j - 1] \in Int
  <2>1. \A j \in 2 .. n : j - 1 \in 1 .. n
    BY <1>2
  <2> QED BY <2>1, ShapeFacts
<1>5. o[k] = Start(v, k) + Len(v.blocks[k])
  BY OffsetsGrow
<1>6. InSlot(o, row) = IF k > 1 THEN row - o[k - 1] - 1 ELSE row
  BY <1>3, Zenon DEF InSlot
<1> HIDE DEF n, o
<1>7. InSlot(o, row) = row - Start(v, k)
  <2>1. CASE k > 1
    <3>1. k \in 2 .. n
      BY <1>2, <2>1
    <3> QED BY <1>2, <1>4, <1>6, <2>1, <3>1
  <2>2. CASE ~(k > 1)
    BY <1>2, <1>4, <1>6, <2>2
  <2> QED BY <2>1, <2>2
<1>8. row - Start(v, k) \in 0 .. Len(v.blocks[k])
  BY <1>1, <1>2, <1>4, <1>5
<1> QED BY <1>1, <1>3, <1>7, <1>8 DEF n, o

----------------------------------------------------------------------------
\* Changes of one or two blocks.

\* Blocks k .. kv of v have become blocks k .. kw of w, with d rows more; all
\* other blocks, and the rows between them, are as they were.
Edited(v, w, k, kv, kw, d) ==
  /\ Len(w.blocks) = Len(v.blocks) + kw - kv
  /\ Len(w.seps) = Len(w.blocks) - 1 /\ Len(w.offsets) = Len(w.blocks)
  /\ \A i \in 1 .. k - 1 : /\ w.blocks[i] = v.blocks[i] /\ w.offsets[i] = v.offsets[i]
                           /\ w.seps[i] = v.seps[i]
  /\ \A i \in kv + 1 .. Len(v.blocks) : /\ w.blocks[i + kw - kv] = v.blocks[i]
                                        /\ w.offsets[i + kw - kv] = v.offsets[i] + d
  /\ \A i \in kv .. Len(v.blocks) - 1 : w.seps[i + kw - kv] = v.seps[i]
  /\ Start(w, k) = Start(v, k)
  /\ \A i \in k + 1 .. kw : Start(w, i) = w.offsets[i - 1] + 1
  /\ w.offsets[kw] = v.offsets[kv] + d

\* The parts of w then fit together.
LEMMA EditedFits ==
  ASSUME NEW R, NEW v, Shape(R, v), NEW w \in Views(R), NEW k \in 1 .. Len(v.blocks),
         NEW kv \in k .. Len(v.blocks), NEW kw \in Int, kw >= k, NEW d \in Int,
         Edited(v, w, k, kv, kw, d)
  PROVE  /\ Shape(R, w)
         /\ \A i \in 1 .. k : Start(w, i) = Start(v, i)
         /\ \A i \in kv + 1 .. Len(v.blocks) : Start(w, i + kw - kv) = Start(v, i) + d
<1> DEFINE n == Len(v.blocks)
           m == Len(w.blocks)
<1>1. n \in Nat /\ n >= 1 /\ k \in Int /\ kv \in Int
  BY ShapeFacts
<1>2. \A i \in 1 .. n : v.offsets[i] \in Int /\ Start(v, i) \in Int /\ Len(v.blocks[i]) \in Nat
  BY ShapeFacts
<1>3. Start(v, 1) = 0 /\ \A i \in 2 .. n : Start(v, i) = v.offsets[i - 1] + 1
  BY ShapeFacts
<1>4. /\ m = n + kw - kv /\ Len(w.seps) = m - 1 /\ Len(w.offsets) = m
      /\ \A i \in 1 .. k - 1 : w.blocks[i] = v.blocks[i] /\ w.offsets[i] = v.offsets[i]
      /\ \A i \in kv + 1 .. n : /\ w.blocks[i + kw - kv] = v.blocks[i]
                                /\ w.offsets[i + kw - kv] = v.offsets[i] + d
      /\ Start(w, k) = Start(v, k)
      /\ \A i \in k + 1 .. kw : Start(w, i) = w.offsets[i - 1] + 1
      /\ w.offsets[kw] = v.offsets[kv] + d
  BY DEF Edited
<1>5. w.blocks \in Seq(Seq(R)) /\ w.offsets \in Seq(Int)
  BY DEF Views
<1> HIDE DEF n, m
<1>6. m \in Nat /\ m >= 1 /\ kw \in 1 .. m /\ k \in 1 .. m
  BY <1>1, <1>4 DEF n
<1>7. \A i \in 1 .. m : w.offsets[i] \in Int /\ w.blocks[i] \in Seq(R)
  BY <1>4, <1>5, ElementOfSeq DEF m
<1>8. \A i \in 1 .. m : Len(w.blocks[i]) \in Nat
  BY <1>7, LenProperties
<1>9. \A i \in 1 .. m : Start(w, i) = w.offsets[i] - Len(w.blocks[i])
  BY DEF Start
<1>10. \A i \in 1 .. n : Start(v, i) = v.offsets[i] - Len(v.blocks[i])
  BY DEF Start
<1>11. ASSUME NEW i \in 1 .. k PROVE Start(w, i) = Start(v, i)
  <2>1. CASE i = k
    BY <1>4, <2>1
  <2>2. CASE i # k
    <3>1. i \in 1 .. k - 1 /\ i \in 1 .. n /\ i \in 1 .. m
      BY <1>1, <1>6, <2>2 DEF n
    <3> QED BY <1>4, <1>9, <1>10, <3>1
  <2> QED BY <2>1, <2>2
<1>12. ASSUME NEW i \in kv + 1 .. n PROVE Start(w, i + kw - kv) = Start(v, i) + d
  <2>1. i \in 1 .. n /\ i + kw - kv \in 1 .. m
    BY <1>1, <1>4 DEF n
  <2>2. w.offsets[i + kw - kv] = v.offsets[i] + d /\ w.blocks[i + kw - kv] = v.blocks[i]
    BY <1>4
  <2>3. /\ Start(w, i + kw - kv) = w.offsets[i + kw - kv] - Len(w.blocks[i + kw - kv])
        /\ Start(v, i) = v.offsets[i] - Len(v.blocks[i])
        /\ v.offsets[i] \in Int /\ Len(v.blocks[i]) \in Nat
    BY <1>2, <1>9, <1>10, <2>1
  <2>4. \A a, b, c \in Int : (a + c) - b = (a - b) + c
    OBVIOUS
  <2> QED BY <2>2, <2>3, <2>4, SMTT(30)
<1>13. Start(w, 1) = 0
  BY <1>1, <1>3, <1>11 DEF n
<1>14. ASSUME NEW i \in 2 .. m PROVE Start(w, i) = w.offsets[i - 1] + 1
  <2>1. CASE i <= k
    <3>1. i \in 1 .. k /\ i \in 2 .. n /\ i - 1 \in 1 .. k - 1
      BY <1>1, <1>6, <2>1 DEF n
    <3> QED BY <1>3, <1>4, <1>11, <3>1
  <2>2. CASE i > k /\ i <= kw
    <3>1. i \in k + 1 .. kw
      BY <1>1, <2>2
    <3> QED BY <1>4, <3>1
  <2>3. CASE i > kw
    <3> DEFINE j == i - kw + kv
    <3>1. j \in kv + 1 .. n /\ j \in 2 .. n /\ j + kw - kv = i /\ j - 1 + kw - kv = i - 1 /\ j - 1 \in kv .. n
      BY <1>1, <1>4, <1>6, <2>3 DEF n
    <3> HIDE DEF j
    <3>2. Start(w, i) = Start(v, j) + d /\ Start(v, j) = v.offsets[j - 1] + 1
      BY <1>3, <1>12, <3>1
    <3>3. w.offsets[i - 1] = v.offsets[j - 1] + d
      <4>1. CASE j - 1 = kv
        <5>1. i - 1 = kw
          BY <1>1, <3>1, <4>1
        <5> QED BY <1>4, <4>1, <5>1
      <4>2. CASE j - 1 # kv
        <5>1. j - 1 \in kv + 1 .. n
          BY <1>1, <3>1, <4>2
        <5> QED BY <1>4, <3>1, <5>1
      <4> QED BY <4>1, <4>2
    <3>4. v.offsets[j - 1] \in Int
      <4>1. j - 1 \in 1 .. n
        BY <1>1, <3>1 DEF n
      <4> QED BY <1>2, <4>1
    <3> QED BY <3>2, <3>3, <3>4
  <2> QED BY <1>1, <2>1, <2>2, <2>3
<1>15. w.offsets[1] = Len(w.blocks[1])
  <2>1. 1 \in 1 .. m
    BY <1>6
  <2> QED BY <1>7, <1>8, <1>9, <1>13, <2>1
<1>16. ASSUME NEW i \in 2 .. m PROVE w.offsets[i] = w.offsets[i - 1] + 1 + Len(w.blocks[i])
  <2>1. i \in 1 .. m /\ i - 1 \in 1 .. m
    BY <1>6
  <2>2. w.offsets[i] \in Int /\ w.offsets[i - 1] \in Int /\ Len(w.blocks[i]) \in Nat
    BY <1>7, <1>8, <2>1
  <2>3. Start(w, i) = w.offsets[i] - Len(w.blocks[i]) /\ Start(w, i) = w.offsets[i - 1] + 1
    BY <1>9, <1>14, <2>1
  <2>4. \A a, b \in Int : \A c \in Nat : a - c = b + 1 => a = b + 1 + c
    OBVIOUS
  <2> QED BY <2>2, <2>3, <2>4
<1>17. Shape(R, w)
  BY <1>4, <1>6, <1>15, <1>16, ShapeIntro DEF Fits, m
<1> QED BY <1>11, <1>12, <1>17 DEF n

\* Where the rows of other blocks are.
LEMMA RowsAround ==
  ASSUME NEW R, NEW v, Shape(R, v), NEW i \in 1 .. Len(v.blocks), NEW k \in 1 .. Len(v.blocks),
         i < k
  PROVE  /\ \A j \in 1 .. Len(v.blocks[i]) : Start(v, i) + j \in 1 .. Start(v, k)
         /\ v.offsets[i] + 1 \in 1 .. Start(v, k)
         /\ \A j \in 1 .. Len(v.blocks[k]) :
              Start(v, k) + j \in v.offsets[i] + 1 .. v.offsets[Len(v.blocks)]
         /\ v.offsets[i] + 1 \in 1 .. v.offsets[Len(v.blocks)]
<1> DEFINE n == Len(v.blocks)
<1>1. n \in Nat /\ n \in 1 .. n /\ i \in 1 .. n /\ k \in 1 .. n /\ i \in Int /\ k \in Int
  BY ShapeFacts
<1>2. /\ v.offsets[i] \in Int /\ Start(v, i) \in Int /\ Len(v.blocks[i]) \in Nat
      /\ v.offsets[k] \in Int /\ Start(v, k) \in Int /\ Len(v.blocks[k]) \in Nat
      /\ v.offsets[n] \in Int
  BY <1>1, ShapeFacts
<1>3. /\ 0 <= Start(v, i) /\ v.offsets[i] = Start(v, i) + Len(v.blocks[i])
      /\ v.offsets[k] = Start(v, k) + Len(v.blocks[k])
  BY OffsetsGrow
<1>4. v.offsets[i] < Start(v, k) /\ (k < n => v.offsets[k] < v.offsets[n])
  BY <1>1, OffsetsGrow
<1>5. v.offsets[k] <= v.offsets[n]
  BY <1>1, <1>2, <1>4
<1> DEFINE si == Start(v, i)
           sk == Start(v, k)
           oi == v.offsets[i]
           ok == v.offsets[k]
           on == v.offsets[n]
           li == Len(v.blocks[i])
           lk == Len(v.blocks[k])
<1>6. /\ si \in Int /\ sk \in Int /\ oi \in Int /\ ok \in Int /\ on \in Int /\ li \in Nat /\ lk \in Nat
      /\ 0 <= si /\ oi = si + li /\ oi < sk /\ ok = sk + lk /\ ok <= on
  BY <1>2, <1>3, <1>4, <1>5
<1> HIDE DEF si, sk, oi, ok, on, li, lk, n
<1>7. oi + 1 \in 1 .. sk /\ oi + 1 \in 1 .. on
  BY <1>6
<1>8. \A j \in 1 .. li : si + j \in 1 .. sk
  BY <1>6
<1>9. \A j \in 1 .. lk : sk + j \in oi + 1 .. on
  BY <1>6
<1> QED BY <1>7, <1>8, <1>9 DEF si, sk, oi, on, li, lk, n

\* g has the rows of f before and after those blocks, and theirs as w has them.
Patches(v, w, k, kv, kw, d, f, g) ==
  /\ Len(g) = Len(f) + d
  /\ \A p \in 1 .. Start(v, k) : g[p] = f[p]
  /\ \A p \in v.offsets[kv] + 1 .. Len(f) : g[p + d] = f[p]
  /\ \A i \in k .. kw : \A j \in 1 .. Len(w.blocks[i]) : g[Start(w, i) + j] = w.blocks[i][j]
  /\ \A i \in k .. kw - 1 : g[w.offsets[i] + 1] = w.seps[i]

\* Then w shows g when v shows f.
LEMMA EditedShows ==
  ASSUME NEW R, NEW v, Shape(R, v), NEW w \in Views(R), NEW k \in 1 .. Len(v.blocks),
         NEW kv \in k .. Len(v.blocks), NEW kw \in Int, kw >= k, NEW d \in Int,
         Edited(v, w, k, kv, kw, d),
         NEW f \in Seq(R), Shown(v, f), NEW g, Patches(v, w, k, kv, kw, d, f, g)
  PROVE  Shown(w, g)
<1> DEFINE n == Len(v.blocks)
           m == Len(w.blocks)
<1>1. n \in Nat /\ n >= 1 /\ k \in Int /\ kv \in Int /\ k \in 1 .. n /\ kv \in 1 .. n /\ k <= kv
  BY ShapeFacts
<1>2. \A i \in 1 .. n : v.offsets[i] \in Int /\ Start(v, i) \in Int /\ Len(v.blocks[i]) \in Nat
  BY ShapeFacts
<1>3. m = n + kw - kv /\ w.offsets[kw] = v.offsets[kv] + d
  BY DEF Edited
<1>4. ASSUME NEW i \in 1 .. k - 1
      PROVE  /\ w.blocks[i] = v.blocks[i] /\ w.offsets[i] = v.offsets[i]
             /\ w.seps[i] = v.seps[i] /\ Start(w, i) = Start(v, i)
  <2>1. i \in 1 .. k
    BY <1>1
  <2>2. \A j \in 1 .. k : Start(w, j) = Start(v, j)
    BY EditedFits
  <2>3. \A j \in 1 .. k - 1 : /\ w.blocks[j] = v.blocks[j] /\ w.offsets[j] = v.offsets[j]
                              /\ w.seps[j] = v.seps[j]
    BY DEF Edited
  <2> QED BY <2>1, <2>2, <2>3
<1>5. ASSUME NEW i \in kv + 1 .. n
      PROVE  /\ w.blocks[i + kw - kv] = v.blocks[i]
             /\ w.offsets[i + kw - kv] = v.offsets[i] + d
             /\ Start(w, i + kw - kv) = Start(v, i) + d
  <2>1. \A j \in kv + 1 .. n : Start(w, j + kw - kv) = Start(v, j) + d
    BY EditedFits
  <2>2. \A j \in kv + 1 .. n : /\ w.blocks[j + kw - kv] = v.blocks[j]
                               /\ w.offsets[j + kw - kv] = v.offsets[j] + d
    BY DEF Edited
  <2> QED BY <2>1, <2>2
<1>6. \A i \in kv .. n - 1 : w.seps[i + kw - kv] = v.seps[i]
  BY DEF Edited
<1>7. /\ Len(f) = v.offsets[n]
      /\ \A i \in 1 .. n : \A j \in 1 .. Len(v.blocks[i]) : f[Start(v, i) + j] = v.blocks[i][j]
      /\ \A i \in 1 .. n - 1 : f[v.offsets[i] + 1] = v.seps[i]
  BY DEF Shown
<1> HIDE DEF n, m
<1>8. Len(g) = w.offsets[m]
  <2>1. Len(g) = Len(f) + d
    BY DEF Patches
  <2>2. CASE kv = n
    <3>1. m = kw
      BY <1>1, <1>3, <2>2
    <3> QED BY <1>3, <1>7, <2>1, <2>2, <3>1
  <2>3. CASE kv # n
    <3>1. n \in kv + 1 .. n /\ n + kw - kv = m
      BY <1>1, <1>3, <2>3
    <3>2. w.offsets[m] = v.offsets[n] + d
      BY <1>5, <3>1
    <3> QED BY <1>7, <2>1, <3>2
  <2> QED BY <2>2, <2>3
<1>9. ASSUME NEW i \in 1 .. m, NEW j \in 1 .. Len(w.blocks[i]) PROVE g[Start(w, i) + j] = w.blocks[i][j]
  <2>1. CASE i < k
    <3>1. i \in 1 .. k - 1 /\ i \in 1 .. n
      BY <1>1, <2>1
    <3>2. w.blocks[i] = v.blocks[i] /\ Start(w, i) = Start(v, i)
      BY <1>4, <3>1
    <3>3. Start(v, i) + j \in 1 .. Start(v, k)
      BY <2>1, <3>1, <3>2, RowsAround DEF n
    <3>4. g[Start(v, i) + j] = f[Start(v, i) + j]
      BY <3>3 DEF Patches
    <3> QED BY <1>7, <3>1, <3>2, <3>4
  <2>2. CASE i >= k /\ i <= kw
    <3>1. i \in k .. kw
      BY <1>1, <2>2
    <3> QED BY <3>1 DEF Patches
  <2>3. CASE i > kw
    <3> DEFINE h == i - kw + kv
    <3>1. h \in kv + 1 .. n /\ h \in 1 .. n /\ h + kw - kv = i /\ kv < h
      BY <1>1, <1>3, <2>3
    <3> HIDE DEF h
    <3>2. w.blocks[i] = v.blocks[h] /\ Start(w, i) = Start(v, h) + d
      BY <1>5, <3>1
    <3>3. Start(v, h) + j \in v.offsets[kv] + 1 .. Len(f)
      BY <1>1, <1>7, <3>1, <3>2, RowsAround DEF n
    <3>4. g[Start(v, h) + j + d] = f[Start(v, h) + j]
      BY <3>3 DEF Patches
    <3>5. Start(v, h) \in Int
      BY <1>2, <3>1
    <3>6. Start(v, h) + j + d = Start(w, i) + j
      BY <3>2, <3>5
    <3> QED BY <1>7, <3>1, <3>2, <3>4, <3>6
  <2>4. i < k \/ (i >= k /\ i <= kw) \/ i > kw
    BY <1>1, <1>3
  <2> QED BY <2>1, <2>2, <2>3, <2>4
<1>10. ASSUME NEW i \in 1 .. m - 1 PROVE g[w.offsets[i] + 1] = w.seps[i]
  <2>1. CASE i < k
    <3>1. i \in 1 .. k - 1 /\ i \in 1 .. n - 1 /\ i \in 1 .. n
      BY <1>1, <2>1
    <3>2. v.offsets[i] + 1 \in 1 .. Start(v, k)
      BY <2>1, <3>1, RowsAround DEF n
    <3>3. g[v.offsets[i] + 1] = f[v.offsets[i] + 1]
      BY <3>2 DEF Patches
    <3> QED BY <1>4, <1>7, <3>1, <3>3
  <2>2. CASE i >= k /\ i < kw
    <3>1. i \in k .. kw - 1
      BY <1>1, <2>2
    <3> QED BY <3>1 DEF Patches
  <2>3. CASE i >= kw
    <3> DEFINE h == i - kw + kv
    <3>1. /\ h \in kv .. n - 1 /\ h \in 1 .. n /\ h + kw - kv = i
          /\ h \in 1 .. n - 1 /\ n \in 1 .. n /\ h < n
      BY <1>1, <1>3, <2>3
    <3> HIDE DEF h
    <3>2. w.offsets[i] = v.offsets[h] + d
      <4>1. CASE h = kv
        <5>1. i = kw
          BY <1>1, <3>1, <4>1
        <5> QED BY <1>3, <4>1, <5>1
      <4>2. CASE h # kv
        <5>1. h \in kv + 1 .. n
          BY <1>1, <3>1, <4>2
        <5> QED BY <1>5, <3>1, <5>1
      <4> QED BY <4>1, <4>2
    <3>3. v.offsets[h] + 1 \in v.offsets[kv] + 1 .. Len(f)
      <4>1. v.offsets[h] + 1 \in 1 .. v.offsets[n]
        BY <3>1, RowsAround DEF n
      <4>2. h = kv \/ v.offsets[kv] < v.offsets[h]
        <5>1. h = kv \/ kv < h
          BY <1>1, <3>1
        <5> QED BY <1>1, <3>1, <5>1, OffsetsGrow DEF n
      <4>3. v.offsets[h] \in Int /\ v.offsets[kv] \in Int /\ v.offsets[n] \in Int
        BY <1>1, <1>2, <3>1
      <4> QED BY <1>7, <4>1, <4>2, <4>3
    <3>4. g[v.offsets[h] + 1 + d] = f[v.offsets[h] + 1]
      BY <3>3 DEF Patches
    <3>5. v.offsets[h] \in Int
      BY <1>2, <3>1
    <3>6. v.offsets[h] + 1 + d = w.offsets[i] + 1
      BY <3>2, <3>5
    <3> QED BY <1>6, <1>7, <3>1, <3>4, <3>6
  <2>4. i < k \/ (i >= k /\ i < kw) \/ i >= kw
    BY <1>1, <1>3
  <2> QED BY <2>1, <2>2, <2>3, <2>4
<1> QED BY <1>8, <1>9, <1>10 DEF Shown, m

----------------------------------------------------------------------------
\* The steps of the operations, one by one.

\* Forgetting a block leaves a record of a block.
LEMMA ClearedFacts ==
  ASSUME NEW l \in [base : Int, limit : Int, slot : Int], NEW k \in Int
  PROVE  /\ Cleared(l, k) \in [base : Int, limit : Int, slot : Int]
         /\ Cleared(l, k).limit > 0 => Cleared(l, k) = l /\ l.slot < k
<1>1. CASE l.slot >= k
  <2>1. Cleared(l, k) = [l EXCEPT !.limit = -1, !.slot = 0]
    BY <1>1 DEF Cleared
  <2> DEFINE m == [l EXCEPT !.limit = -1]
  <2>2. m \in [base : Int, limit : Int, slot : Int] /\ m.limit = -1
    OBVIOUS
  <2>3. Cleared(l, k) = [m EXCEPT !.slot = 0]
    BY <2>1
  <2> HIDE DEF m
  <2>4. [m EXCEPT !.slot = 0] \in [base : Int, limit : Int, slot : Int]
    BY <2>2
  <2>5. [m EXCEPT !.slot = 0].limit = m.limit
    BY <2>2
  <2> QED BY <2>2, <2>3, <2>4, <2>5
<1>2. CASE ~(l.slot >= k)
  <2>1. Cleared(l, k) = l
    BY <1>2 DEF Cleared
  <2>2. l.slot < k
    BY <1>2
  <2> QED BY <2>1, <2>2
<1> QED BY <1>1, <1>2

\* Splitting a block takes one row of it out, to be the row between its parts.
LEMMA SplitEdits ==
  ASSUME NEW R, NEW v, Shape(R, v), NEW k \in 1 .. Len(v.blocks),
         NEW at \in 0 .. Len(v.blocks[k]) - 1
  PROVE  LET w == Split(v, k, at)
         IN  /\ w \in Views(R) /\ Edited(v, w, k, k, k + 1, 0)
             /\ w.blocks[k] = Upto(v.blocks[k], at)
             /\ w.blocks[k + 1] = After(v.blocks[k], at + 1)
             /\ w.seps[k] = v.blocks[k][at + 1]
             /\ w.offsets[k] = Start(v, k) + at
             /\ w.last = Cleared(v.last, k)
<1> DEFINE w == Split(v, k, at)
           n == Len(v.blocks)
           b == v.blocks[k]
           x == Upto(b, at)
           y == After(b, at + 1)
           o == v.offsets[k] - Len(b) + at
           c == [v.blocks EXCEPT ![k] = x]
           bs == InsertAt(c, k + 1, y)
           ss == InsertAt(v.seps, k, b[at + 1])
           os == InsertAt(v.offsets, k, o)
<1>0. /\ v.blocks \in Seq(Seq(R)) /\ v.seps \in Seq(R) /\ v.offsets \in Seq(Int)
      /\ v.last \in [base : Int, limit : Int, slot : Int] /\ b \in Seq(R)
  BY ShapeFacts
<1>1. /\ n \in Nat /\ k \in Int /\ k \in 1 .. n
      /\ Len(v.seps) = n - 1 /\ Len(v.offsets) = n
      /\ Len(b) \in Nat /\ v.offsets[k] \in Int
  BY ShapeFacts
<1>2. /\ at \in 0 .. Len(b) /\ at + 1 \in 0 .. Len(b) /\ at + 1 \in 1 .. Len(b)
      /\ at \in Int /\ at + 1 - 1 = at
  BY <1>1
<1>3. x \in Seq(R) /\ Len(x) = at
  BY <1>0, <1>2, UptoFacts
<1>4. y \in Seq(R) /\ Len(y) = Len(b) - (at + 1)
  BY <1>0, <1>2, AfterFacts
<1>5. b[at + 1] \in R
  BY <1>0, <1>2, ElementOfSeq
<1>6. w = [blocks |-> bs, seps |-> ss, offsets |-> os, last |-> Cleared(v.last, k)]
  BY DEF Split
<1> HIDE DEF w
<1>7. o = Start(v, k) + at /\ o \in Int
  BY <1>1, <1>2 DEF Start
<1> HIDE DEF x, y, o
<1>8. c \in Seq(Seq(R)) /\ Len(c) = n /\ c[k] = x /\ \A i \in 1 .. n : i # k => c[i] = v.blocks[i]
  BY <1>0, <1>1, <1>3, ExceptSeq, SMTT(30)
<1> HIDE DEF n, c
<1>9. /\ bs \in Seq(Seq(R)) /\ Len(bs) = n + 1
      /\ \A i \in 1 .. k : bs[i] = c[i]
      /\ bs[k + 1] = y
      /\ \A i \in k + 1 .. n : bs[i + 1] = c[i]
  <2> DEFINE S == Seq(R)
             j == k + 1
  <2>1. c \in Seq(S) /\ j \in 1 .. Len(c) + 1 /\ y \in S /\ bs = InsertAt(c, j, y)
    BY <1>1, <1>4, <1>8
  <2>2. j - 1 = k /\ j = k + 1 /\ Len(c) = n
    BY <1>1, <1>8
  <2> HIDE DEF S, j, bs
  <2>3. /\ bs \in Seq(S) /\ Len(bs) = Len(c) + 1
        /\ \A i \in 1 .. j - 1 : bs[i] = c[i]
        /\ bs[j] = y
        /\ \A i \in j .. Len(c) : bs[i + 1] = c[i]
    BY <2>1, InsertAtFacts
  <2> QED BY <2>2, <2>3 DEF S
<1>10. /\ ss \in Seq(R) /\ Len(ss) = n
       /\ \A i \in 1 .. k - 1 : ss[i] = v.seps[i]
       /\ ss[k] = b[at + 1]
       /\ \A i \in k .. n - 1 : ss[i + 1] = v.seps[i]
  <2>1. v.seps \in Seq(R) /\ k \in 1 .. Len(v.seps) + 1 /\ b[at + 1] \in R
    BY <1>0, <1>1, <1>5
  <2>2. /\ ss \in Seq(R) /\ Len(ss) = Len(v.seps) + 1
        /\ \A i \in 1 .. k - 1 : ss[i] = v.seps[i]
        /\ ss[k] = b[at + 1]
        /\ \A i \in k .. Len(v.seps) : ss[i + 1] = v.seps[i]
    BY <2>1, InsertAtFacts, SMTT(30)
  <2>3. Len(v.seps) + 1 = n /\ Len(v.seps) = n - 1
    BY <1>1
  <2> HIDE DEF ss
  <2> QED BY <2>2, <2>3
<1>11. /\ os \in Seq(Int) /\ Len(os) = n + 1
       /\ \A i \in 1 .. k - 1 : os[i] = v.offsets[i]
       /\ os[k] = o
       /\ \A i \in k .. n : os[i + 1] = v.offsets[i]
  <2> DEFINE S == Int
  <2>1. v.offsets \in Seq(S) /\ k \in 1 .. Len(v.offsets) + 1 /\ o \in S
    BY <1>0, <1>1, <1>7
  <2> HIDE DEF S
  <2>2. /\ os \in Seq(S) /\ Len(os) = Len(v.offsets) + 1
        /\ \A i \in 1 .. k - 1 : os[i] = v.offsets[i]
        /\ os[k] = o
        /\ \A i \in k .. Len(v.offsets) : os[i + 1] = v.offsets[i]
    BY <2>1, InsertAtFacts
  <2>3. Len(v.offsets) = n
    BY <1>1
  <2> HIDE DEF os
  <2> QED BY <2>2, <2>3 DEF S
<1> HIDE DEF bs, ss, os
<1>12. w.blocks = bs /\ w.seps = ss /\ w.offsets = os /\ w.last = Cleared(v.last, k)
  BY <1>6
<1>12a. w \in Views(R)
  <2>1. Cleared(v.last, k) \in [base : Int, limit : Int, slot : Int]
    BY <1>0, <1>1, ClearedFacts
  <2>2. bs \in Seq(Seq(R)) /\ ss \in Seq(R) /\ os \in Seq(Int)
    BY <1>9, <1>10, <1>11
  <2> QED BY <1>6, <2>1, <2>2 DEF Views
<1>13. bs[k] = x
  <2>1. k \in 1 .. k
    BY <1>1
  <2> QED BY <1>8, <1>9, <2>1
<1>14. Start(w, k) = Start(v, k)
  <2>1. Start(w, k) = o - at
    BY <1>3, <1>11, <1>12, <1>13 DEF Start
  <2>2. Start(v, k) \in Int
    BY <1>1 DEF Start
  <2> QED BY <1>2, <1>7, <2>1, <2>2
<1>15. os[k + 1] = v.offsets[k]
  BY <1>1, <1>11
<1>16. Start(w, k + 1) = os[k] + 1
  <2>1. Start(w, k + 1) = v.offsets[k] - (Len(b) - (at + 1))
    BY <1>4, <1>9, <1>12, <1>15 DEF Start
  <2>2. os[k] = v.offsets[k] - Len(b) + at
    BY <1>11 DEF o
  <2>3. \A p, q, r \in Int : p - (q - (r + 1)) = p - q + r + 1
    OBVIOUS
  <2> QED BY <1>1, <1>2, <2>1, <2>2, <2>3
<1>17. ASSUME NEW i \in 1 .. k - 1
       PROVE  bs[i] = v.blocks[i] /\ os[i] = v.offsets[i] /\ ss[i] = v.seps[i]
  <2>1. i \in 1 .. k /\ i \in 1 .. n /\ i # k
    BY <1>1
  <2> QED BY <1>8, <1>9, <1>10, <1>11, <2>1
<1>18. ASSUME NEW i \in k + 1 .. n PROVE bs[i + 1] = v.blocks[i] /\ os[i + 1] = v.offsets[i]
  <2>1. i \in k .. n /\ i \in 1 .. n /\ i # k
    BY <1>1
  <2> QED BY <1>8, <1>9, <1>11, <2>1
<1>19. /\ \A i \in Int : i + (k + 1) - k = i + 1
       /\ n + (k + 1) - k = n + 1
       /\ \A i \in k + 1 .. k + 1 : i = k + 1 /\ i - 1 = k
       /\ \A i \in k + 1 .. n : i \in Int /\ v.offsets[i] \in Int
       /\ \A i \in k .. n - 1 : i \in Int
       /\ n + 1 - 1 = n
  <2>1. \A i \in k + 1 .. n : i \in 1 .. n
    BY <1>1
  <2>2. \A i \in 1 .. n : v.offsets[i] \in Int
    BY <1>0, <1>1, ElementOfSeq
  <2>3. \A i \in k + 1 .. n : v.offsets[i] \in Int
    BY <2>1, <2>2
  <2> QED BY <1>1, <2>3
<1>20. ASSUME NEW i \in k + 1 .. n
       PROVE  /\ w.blocks[i + (k + 1) - k] = v.blocks[i]
              /\ w.offsets[i + (k + 1) - k] = v.offsets[i] + 0
  <2>1. i + (k + 1) - k = i + 1 /\ v.offsets[i] + 0 = v.offsets[i]
    BY <1>19
  <2> QED BY <1>12, <1>18, <2>1
<1>20a. ASSUME NEW i \in k .. n - 1 PROVE w.seps[i + (k + 1) - k] = v.seps[i]
  <2>1. i + (k + 1) - k = i + 1
    BY <1>19
  <2> QED BY <1>10, <1>12, <2>1
<1>21. w.offsets[k + 1] = v.offsets[k] + 0
  BY <1>1, <1>12, <1>15
<1>22. \A i \in k + 1 .. k + 1 : Start(w, i) = w.offsets[i - 1] + 1
  BY <1>12, <1>16, <1>19
<1>23. /\ Len(w.blocks) = n + (k + 1) - k
       /\ Len(w.seps) = Len(w.blocks) - 1 /\ Len(w.offsets) = Len(w.blocks)
  BY <1>9, <1>10, <1>11, <1>12, <1>19, SMTT(30)
<1>24. Edited(v, w, k, k, k + 1, 0)
  BY <1>12, <1>14, <1>17, <1>20, <1>20a, <1>21, <1>22, <1>23 DEF Edited, n
<1> QED BY <1>7, <1>9, <1>10, <1>11, <1>12, <1>12a, <1>13, <1>24 DEF w, x, y

\* The same for offsets and for blocks: one taken out, one replaced.
LEMMA OffsetOut ==
  ASSUME NEW o \in Seq(Int), NEW k \in 1 .. Len(o)
  PROVE  /\ RemoveAt(o, k) \in Seq(Int)
         /\ Len(RemoveAt(o, k)) = Len(o) - 1
         /\ \A i \in 1 .. k - 1 : RemoveAt(o, k)[i] = o[i]
         /\ \A i \in k .. Len(o) - 1 : RemoveAt(o, k)[i] = o[i + 1]
<1> DEFINE S == Int
<1>1. o \in Seq(S) /\ k \in 1 .. Len(o)
  OBVIOUS
<1> HIDE DEF S
<1>2. /\ RemoveAt(o, k) \in Seq(S)
      /\ Len(RemoveAt(o, k)) = Len(o) - 1
      /\ \A i \in 1 .. k - 1 : RemoveAt(o, k)[i] = o[i]
      /\ \A i \in k .. Len(o) - 1 : RemoveAt(o, k)[i] = o[i + 1]
  BY <1>1, RemoveAtFacts
<1> QED BY <1>2 DEF S

\* One block taken out of the sequence of blocks.
LEMMA BlockOut ==
  ASSUME NEW R, NEW c \in Seq(Seq(R)), NEW k \in 1 .. Len(c)
  PROVE  /\ RemoveAt(c, k) \in Seq(Seq(R))
         /\ Len(RemoveAt(c, k)) = Len(c) - 1
         /\ \A i \in 1 .. k - 1 : RemoveAt(c, k)[i] = c[i]
         /\ \A i \in k .. Len(c) - 1 : RemoveAt(c, k)[i] = c[i + 1]
<1> DEFINE S == Seq(R)
<1>1. c \in Seq(S) /\ k \in 1 .. Len(c)
  OBVIOUS
<1> HIDE DEF S
<1>2. /\ RemoveAt(c, k) \in Seq(S)
      /\ Len(RemoveAt(c, k)) = Len(c) - 1
      /\ \A i \in 1 .. k - 1 : RemoveAt(c, k)[i] = c[i]
      /\ \A i \in k .. Len(c) - 1 : RemoveAt(c, k)[i] = c[i + 1]
  BY <1>1, RemoveAtFacts
<1> QED BY <1>2 DEF S

\* One block replaced by other rows, x.
LEMMA BlockReplaced ==
  ASSUME NEW R, NEW c \in Seq(Seq(R)), NEW k \in 1 .. Len(c), NEW x \in Seq(R)
  PROVE  /\ [c EXCEPT ![k] = x] \in Seq(Seq(R))
         /\ Len([c EXCEPT ![k] = x]) = Len(c)
         /\ [c EXCEPT ![k] = x][k] = x
         /\ \A i \in 1 .. Len(c) : i # k => [c EXCEPT ![k] = x][i] = c[i]
<1> DEFINE S == Seq(R)
<1>1. c \in Seq(S) /\ k \in 1 .. Len(c) /\ x \in S
  OBVIOUS
<1> HIDE DEF S
<1>2. /\ [c EXCEPT ![k] = x] \in Seq(S)
      /\ Len([c EXCEPT ![k] = x]) = Len(c)
      /\ \A j \in 1 .. Len(c) : [c EXCEPT ![k] = x][j] = IF j = k THEN x ELSE c[j]
  BY <1>1, ExceptSeq
<1> QED BY <1>1, <1>2 DEF S

\* If only one block changes, and perhaps rows between it and block k, then the
\* offsets from that block on move by as much as its length does.
OnlyBlock(v, w, k, q, d) ==
  /\ Len(w.blocks) = Len(v.blocks) /\ Len(w.seps) = Len(v.seps)
  /\ Len(w.offsets) = Len(v.offsets) /\ Len(w.blocks[q]) = Len(v.blocks[q]) + d
  /\ \A i \in 1 .. Len(v.blocks) : i # q => w.blocks[i] = v.blocks[i]
  /\ \A i \in 1 .. Len(v.blocks) : w.offsets[i] = IF i >= q THEN v.offsets[i] + d ELSE v.offsets[i]
  /\ \A i \in 1 .. Len(v.seps) : i < k \/ i >= q => w.seps[i] = v.seps[i]

\* Such a view is one in which blocks k .. q have become as many others.
LEMMA EditedOnly ==
  ASSUME NEW R, NEW v, Shape(R, v), NEW q \in 1 .. Len(v.blocks), NEW k \in 1 .. q,
         NEW d \in Int, NEW w, OnlyBlock(v, w, k, q, d)
  PROVE  Edited(v, w, k, q, q, d) /\ Start(w, q) = Start(v, q)
<1> DEFINE n == Len(v.blocks)
<1>0. /\ Len(w.blocks) = Len(v.blocks) /\ Len(w.seps) = Len(v.seps)
      /\ Len(w.offsets) = Len(v.offsets) /\ Len(w.blocks[q]) = Len(v.blocks[q]) + d
      /\ \A i \in 1 .. Len(v.blocks) : i # q => w.blocks[i] = v.blocks[i]
      /\ \A i \in 1 .. Len(v.blocks) :
           w.offsets[i] = IF i >= q THEN v.offsets[i] + d ELSE v.offsets[i]
      /\ \A i \in 1 .. Len(v.seps) : i < k \/ i >= q => w.seps[i] = v.seps[i]
  BY DEF OnlyBlock
<1> USE <1>0
<1>1. /\ n \in Nat /\ q \in 1 .. n /\ q \in Int /\ k \in Int
      /\ Len(v.seps) = n - 1 /\ Len(v.offsets) = n
  BY ShapeFacts
<1>2. Len(v.blocks[q]) \in Nat /\ v.offsets[q] \in Int
  BY ShapeFacts
<1>3. Len(w.blocks) = n
  OBVIOUS
<1>4. \A i \in 1 .. n : w.offsets[i] = IF i >= q THEN v.offsets[i] + d ELSE v.offsets[i]
  OBVIOUS
<1>5. \A i \in 1 .. n : i # q => w.blocks[i] = v.blocks[i]
  OBVIOUS
<1> HIDE DEF n
<1>6. w.offsets[q] = v.offsets[q] + d
  BY <1>1, <1>4
<1>7. Start(w, q) = Start(v, q)
  <2>1. Start(w, q) = w.offsets[q] - Len(w.blocks[q]) /\ Start(v, q) = v.offsets[q] - Len(v.blocks[q])
    BY DEF Start
  <2>2. \A a, b, c \in Int : a + c - (b + c) = a - b
    OBVIOUS
  <2> QED BY <1>2, <1>6, <2>1, <2>2
<1>8. ASSUME NEW i \in 1 .. k - 1
      PROVE  w.blocks[i] = v.blocks[i] /\ w.offsets[i] = v.offsets[i] /\ w.seps[i] = v.seps[i]
  <2>1. i \in 1 .. n /\ i # q /\ ~(i >= q) /\ i < k /\ i \in 1 .. Len(v.seps)
    BY <1>1
  <2> QED BY <1>4, <1>5, <2>1
<1>9. ASSUME NEW i \in q + 1 .. n
      PROVE  w.blocks[i + q - q] = v.blocks[i] /\ w.offsets[i + q - q] = v.offsets[i] + d
  <2>1. i \in 1 .. n /\ i # q /\ i >= q /\ i + q - q = i
    BY <1>1
  <2> QED BY <1>4, <1>5, <2>1
<1>10. ASSUME NEW i \in q .. n - 1 PROVE w.seps[i + q - q] = v.seps[i]
  <2>1. i \in 1 .. Len(v.seps) /\ i >= q /\ i + q - q = i
    BY <1>1
  <2> QED BY <2>1
<1>11. Start(w, k) = Start(v, k)
  <2>1. CASE k = q
    BY <1>7, <2>1
  <2>2. CASE k # q
    <3>1. k \in 1 .. n /\ ~(k >= q)
      BY <1>1, <2>2
    <3>2. w.blocks[k] = v.blocks[k] /\ w.offsets[k] = v.offsets[k]
      BY <1>4, <1>5, <2>2, <3>1
    <3> QED BY <3>2 DEF Start
  <2> QED BY <2>1, <2>2
<1>12. ASSUME NEW i \in k + 1 .. q PROVE Start(w, i) = w.offsets[i - 1] + 1
  <2>1. i \in 2 .. n /\ i - 1 \in 1 .. n /\ ~(i - 1 >= q) /\ i \in 1 .. n
    BY <1>1
  <2>2. w.offsets[i - 1] = v.offsets[i - 1]
    BY <1>4, <2>1
  <2>3. Start(v, i) = v.offsets[i - 1] + 1
    BY <2>1, ShapeFacts DEF n
  <2>4. Start(w, i) = Start(v, i)
    <3>1. CASE i = q
      BY <1>7, <3>1
    <3>2. CASE i # q
      <4>1. ~(i >= q)
        BY <1>1, <3>2
      <4>2. w.blocks[i] = v.blocks[i] /\ w.offsets[i] = v.offsets[i]
        BY <1>4, <1>5, <2>1, <3>2, <4>1
      <4> QED BY <4>2 DEF Start
    <3> QED BY <3>1, <3>2
  <2> QED BY <2>2, <2>3, <2>4
<1>13. Len(w.blocks) = n + q - q /\ Len(w.seps) = Len(w.blocks) - 1 /\ Len(w.offsets) = Len(w.blocks)
  <2>1. Len(w.blocks) = n /\ Len(w.offsets) = n /\ Len(w.seps) = n - 1
    BY <1>1, <1>3
  <2>2. n + q - q = n
    BY <1>1
  <2> QED BY <2>1, <2>2
<1>14. Edited(v, w, k, q, q, d)
  BY <1>6, <1>8, <1>9, <1>10, <1>11, <1>12, <1>13 DEF Edited, n
<1> QED BY <1>7, <1>14

\* If block k + 1 goes away then all after it move.
LEMMA EditedLess ==
  ASSUME NEW R, NEW v, Shape(R, v), NEW k \in 1 .. Len(v.blocks) - 1, NEW d \in Int,
         NEW w, Len(w.blocks) = Len(v.blocks) - 1,
         Len(w.seps) = Len(w.blocks) - 1, Len(w.offsets) = Len(w.blocks),
         \A i \in 1 .. k - 1 : w.blocks[i] = v.blocks[i],
         \A i \in 1 .. k - 1 : w.offsets[i] = v.offsets[i],
         \A i \in 1 .. k - 1 : w.seps[i] = v.seps[i],
         \A i \in k + 1 .. Len(v.blocks) - 1 : w.blocks[i] = v.blocks[i + 1],
         \A i \in k .. Len(v.blocks) - 1 : w.offsets[i] = v.offsets[i + 1] + d,
         \A i \in k .. Len(v.blocks) - 2 : w.seps[i] = v.seps[i + 1],
         Start(w, k) = Start(v, k)
  PROVE  Edited(v, w, k, k + 1, k, d)
<1> DEFINE n == Len(v.blocks)
<1>1. n \in Nat /\ k \in Int /\ k \in 1 .. n - 1
  BY ShapeFacts
<1>2. Len(w.blocks) = n - 1
  OBVIOUS
<1> HIDE DEF n
<1>3. Len(w.blocks) = n + k - (k + 1)
  BY <1>1, <1>2
<1>4. ASSUME NEW i \in k + 1 + 1 .. n
      PROVE  /\ w.blocks[i + k - (k + 1)] = v.blocks[i]
             /\ w.offsets[i + k - (k + 1)] = v.offsets[i] + d
  <2>1. i - 1 \in k + 1 .. n - 1 /\ i - 1 \in k .. n - 1 /\ i - 1 + 1 = i /\ i + k - (k + 1) = i - 1
    BY <1>1
  <2> QED BY <2>1 DEF n
<1>5. ASSUME NEW i \in k + 1 .. n - 1 PROVE w.seps[i + k - (k + 1)] = v.seps[i]
  <2>1. i - 1 \in k .. n - 2 /\ i - 1 + 1 = i /\ i + k - (k + 1) = i - 1
    BY <1>1
  <2> QED BY <2>1 DEF n
<1>6. w.offsets[k] = v.offsets[k + 1] + d
  <2>1. k \in k .. n - 1
    BY <1>1
  <2> QED BY <2>1 DEF n
<1>7. ~\E i \in k + 1 .. k : TRUE
  BY <1>1
<1> QED BY <1>3, <1>4, <1>5, <1>6, <1>7 DEF Edited, n

\* In g there are the rows new in place of a number of rows of f.
Spliced(f, g, pos, cut, new) ==
  /\ Len(g) = Len(f) - cut + Len(new)
  /\ \A p \in 1 .. pos : g[p] = f[p]
  /\ \A i \in 1 .. Len(new) : g[pos + i] = new[i]
  /\ \A p \in pos + cut + 1 .. Len(f) : g[p - cut + Len(new)] = f[p]

\* This is what sequences are for which it is written.
LEMMA SplicedIs ==
  ASSUME NEW R, NEW f \in Seq(R), NEW pos \in Nat, NEW cut \in Nat, pos + cut <= Len(f),
         NEW new \in Seq(R)
  PROVE  /\ Upto(f, pos) \o new \o After(f, pos + cut) \in Seq(R)
         /\ Spliced(f, Upto(f, pos) \o new \o After(f, pos + cut), pos, cut, new)
<1> DEFINE a == Upto(f, pos)
           b == After(f, pos + cut)
           c == a \o new
           g == c \o b
           ln == Len(new)
           lf == Len(f)
<1>1. ln \in Nat /\ lf \in Nat /\ pos \in 0 .. Len(f) /\ pos + cut \in 0 .. Len(f)
  BY LenProperties
<1>2. a \in Seq(R) /\ Len(a) = pos /\ \A i \in 1 .. pos : a[i] = f[i]
  BY <1>1, UptoFacts
<1>3. b \in Seq(R) /\ Len(b) = lf - (pos + cut) /\ \A i \in 1 .. lf - (pos + cut) : b[i] = f[pos + cut + i]
  BY <1>1, AfterFacts
<1> HIDE DEF a, b
<1>4. /\ c \in Seq(R) /\ Len(c) = pos + ln
      /\ \A i \in 1 .. pos : c[i] = f[i]
      /\ \A i \in 1 .. ln : c[pos + i] = new[i]
  <2>1. a \in Seq(R) /\ new \in Seq(R)
    BY <1>2
  <2>2. /\ c \in Seq(R) /\ Len(c) = Len(a) + Len(new)
        /\ \A i \in 1 .. Len(a) : c[i] = a[i]
        /\ \A i \in 1 .. Len(new) : c[Len(a) + i] = new[i]
    BY <2>1, ConcatFacts
  <2> HIDE DEF c
  <2> QED BY <1>2, <2>2
<1> HIDE DEF c
<1>5. /\ g \in Seq(R) /\ Len(g) = Len(c) + Len(b)
      /\ \A i \in 1 .. Len(c) : g[i] = c[i]
      /\ \A i \in 1 .. Len(b) : g[Len(c) + i] = b[i]
  <2>1. c \in Seq(R) /\ b \in Seq(R)
    BY <1>3, <1>4
  <2> QED BY <2>1, ConcatFacts
<1> HIDE DEF g, ln, lf
<1>6. Len(c) = pos + ln /\ Len(b) = lf - (pos + cut)
  BY <1>3, <1>4
<1>7. Len(g) = lf - cut + ln
  BY <1>1, <1>5, <1>6, SMTT(30)
<1>8. ASSUME NEW p \in 1 .. pos PROVE g[p] = f[p]
  <2>1. p \in 1 .. Len(c)
    BY <1>1, <1>6
  <2> QED BY <1>4, <1>5, <2>1
<1>9. ASSUME NEW i \in 1 .. ln PROVE g[pos + i] = new[i]
  <2>1. pos + i \in 1 .. Len(c)
    BY <1>1, <1>6
  <2> QED BY <1>4, <1>5, <2>1
<1>10. ASSUME NEW p \in pos + cut + 1 .. lf PROVE g[p - cut + ln] = f[p]
  <2> DEFINE i == p - (pos + cut)
  <2>1. i \in 1 .. lf - (pos + cut) /\ pos + cut + i = p /\ pos + ln + i = p - cut + ln
    BY <1>1
  <2> HIDE DEF i
  <2>2. b[i] = f[p]
    BY <1>3, <2>1
  <2>3. g[Len(c) + i] = b[i]
    BY <1>5, <1>6, <2>1
  <2> QED BY <1>6, <2>1, <2>2, <2>3
<1>11. Spliced(f, g, pos, cut, new)
  BY <1>7, <1>8, <1>9, <1>10 DEF Spliced, ln, lf
<1> QED BY <1>5, <1>11 DEF a, b, c, g

\* When rows of one block are replaced, they are replaced in the view.
LEMMA BlockSpliced ==
  ASSUME NEW R, NEW v, Shape(R, v), NEW q \in 1 .. Len(v.blocks),
         NEW at \in Nat, NEW cut \in Nat, at + cut <= Len(v.blocks[q]), NEW new \in Seq(R),
         NEW w \in Views(R), Edited(v, w, q, q, q, Len(new) - cut),
         Spliced(v.blocks[q], w.blocks[q], at, cut, new),
         NEW f \in Seq(R), Shown(v, f), NEW g, Spliced(f, g, Start(v, q) + at, cut, new)
  PROVE  Shown(w, g)
<1> DEFINE n == Len(v.blocks)
           b == v.blocks[q]
           x == w.blocks[q]
           S == Start(v, q)
           ln == Len(new)
           lb == Len(b)
           lf == Len(f)
           d == ln - cut
<1>1. ln \in Nat /\ lf \in Nat /\ lb \in Nat /\ S \in Nat /\ d \in Int
  <2>1. S \in Int /\ lb \in Nat
    BY ShapeFacts
  <2>2. 0 <= S
    BY OffsetsGrow
  <2>3. ln \in Nat /\ lf \in Nat
    BY LenProperties
  <2>4. d \in Int
    BY <2>3
  <2> QED BY <2>1, <2>2, <2>3, <2>4
<1>2. v.offsets[q] = S + lb /\ S + lb <= lf
  <2>1. v.offsets[q] = S + lb
    BY OffsetsGrow
  <2>2. lf = v.offsets[n]
    BY DEF Shown
  <2>3. n \in 1 .. n /\ q \in Int /\ n \in Int /\ q <= n /\ v.offsets[n] \in Int
    BY ShapeFacts
  <2>4. q = n \/ v.offsets[q] < v.offsets[n]
    <3>1. q = n \/ q < n
      BY <2>3
    <3> QED BY <2>3, <3>1, OffsetsGrow
  <2>5. v.offsets[q] \in Int
    BY <1>1, <2>1
  <2> QED BY <2>1, <2>2, <2>3, <2>4, <2>5
<1>3. \A j \in 1 .. lb : f[S + j] = b[j]
  BY DEF Shown
<1>4. at + cut <= lb
  OBVIOUS
<1>5. /\ Len(x) = lb - cut + ln
      /\ \A p \in 1 .. at : x[p] = b[p]
      /\ \A i \in 1 .. ln : x[at + i] = new[i]
      /\ \A p \in at + cut + 1 .. lb : x[p - cut + ln] = b[p]
  BY DEF Spliced
<1>6. /\ Len(g) = lf - cut + ln
      /\ \A p \in 1 .. S + at : g[p] = f[p]
      /\ \A i \in 1 .. ln : g[S + at + i] = new[i]
      /\ \A p \in S + at + cut + 1 .. lf : g[p - cut + ln] = f[p]
  BY DEF Spliced
<1>7. Start(w, q) = S
  BY DEF Edited
<1> HIDE DEF n, b, x, S, ln, lb, lf
<1>8. Len(g) = lf + d
  BY <1>1, <1>6
<1>9. ASSUME NEW p \in 1 .. S PROVE g[p] = f[p]
  <2>1. p \in 1 .. S + at
    BY <1>1
  <2> QED BY <1>6, <2>1
<1>10. ASSUME NEW p \in S + lb + 1 .. lf PROVE g[p + d] = f[p]
  <2>1. p \in S + at + cut + 1 .. lf
    BY <1>1, <1>4
  <2>2. p - cut + ln = p + d
    BY <1>1
  <2>3. g[p - cut + ln] = f[p]
    BY <1>6, <2>1
  <2> QED BY <2>2, <2>3
<1>11. ASSUME NEW j \in 1 .. Len(x) PROVE g[S + j] = x[j]
  <2>0. j \in Int /\ j <= lb - cut + ln /\ j >= 1
    BY <1>1, <1>5
  <2>1. CASE j <= at
    <3>1. j \in 1 .. at /\ j \in 1 .. lb /\ S + j \in 1 .. S + at
      BY <1>1, <1>4, <2>0, <2>1
    <3> QED BY <1>3, <1>5, <1>6, <3>1
  <2>2. CASE j > at /\ j <= at + ln
    <3>1. j - at \in 1 .. ln /\ at + (j - at) = j /\ S + at + (j - at) = S + j
      BY <1>1, <2>0, <2>2
    <3>2. x[j] = new[j - at]
      BY <1>5, <3>1
    <3>3. g[S + j] = new[j - at]
      BY <1>6, <3>1
    <3> QED BY <3>2, <3>3
  <2>3. CASE j > at + ln
    <3> DEFINE p == j - ln + cut
    <3>1. /\ p \in at + cut + 1 .. lb /\ p \in 1 .. lb /\ p - cut + ln = j
          /\ S + p \in S + at + cut + 1 .. lf /\ (S + p) - cut + ln = S + j
      BY <1>1, <1>2, <1>4, <2>0, <2>3
    <3> HIDE DEF p
    <3>2. x[j] = b[p]
      BY <1>5, <3>1
    <3> DEFINE z == S + p
    <3>3. z \in S + at + cut + 1 .. lf /\ z - cut + ln = S + j
      BY <3>1
    <3>4. f[z] = b[p]
      BY <1>3, <3>1
    <3> HIDE DEF z
    <3>5. g[z - cut + ln] = f[z]
      BY <1>6, <3>3
    <3> QED BY <3>2, <3>3, <3>4, <3>5
  <2>4. j <= at \/ (j > at /\ j <= at + ln) \/ j > at + ln
    BY <1>1, <2>0, SMTT(30)
  <2> QED BY <2>1, <2>2, <2>3, <2>4
<1>12. q \in Int /\ (\A i \in q .. q : i = q) /\ ~\E i \in q .. q - 1 : TRUE
  <2>1. q \in Int
    BY ShapeFacts
  <2> QED BY <2>1
<1>13. Patches(v, w, q, q, q, d, f, g)
  BY <1>2, <1>7, <1>8, <1>9, <1>10, <1>11, <1>12 DEF Patches, S, x, lf
<1>14. /\ q \in q .. Len(v.blocks) /\ q \in Int /\ q >= q
       /\ Edited(v, w, q, q, q, d)
  BY <1>12 DEF ln
<1> HIDE DEF d
<1> QED BY <1>1, <1>13, <1>14, EditedShows

\* What is remembered of a block before block m is where that block is.
Recalls(v, m) ==
  v.last.limit > 0 =>
    /\ v.last.slot \in 1 .. m - 1
    /\ v.last.base = Start(v, v.last.slot)
    /\ v.last.limit = v.offsets[v.last.slot]

\* What is right of blocks before k is right of blocks before any later one.
LEMMA RecallsMore ==
  ASSUME NEW v, NEW k \in Int, NEW m \in Int, k <= m, Recalls(v, k)
  PROVE  Recalls(v, m)
<1>1. \A s : s \in 1 .. k - 1 => s \in 1 .. m - 1
  OBVIOUS
<1> QED BY <1>1 DEF Recalls

\* It still is when blocks from k on change and those from k on are forgotten.
LEMMA RecallsKept ==
  ASSUME NEW R, NEW v, Shape(R, v), NEW w \in Views(R), NEW k \in 1 .. Len(v.blocks),
         NEW kv \in k .. Len(v.blocks), NEW kw \in Int, kw >= k, NEW d \in Int,
         Edited(v, w, k, kv, kw, d), NEW m, Recalls(v, m),
         w.last.limit > 0 => w.last = v.last /\ w.last.slot < k
  PROVE  Recalls(w, k)
<1> SUFFICES ASSUME w.last.limit > 0
             PROVE  /\ w.last.slot \in 1 .. k - 1
                    /\ w.last.base = Start(w, w.last.slot)
                    /\ w.last.limit = w.offsets[w.last.slot]
  BY DEF Recalls
<1> DEFINE s == v.last.slot
<1>1. w.last = v.last /\ s < k /\ v.last.limit > 0
  OBVIOUS
<1>2. s \in 1 .. m - 1 /\ v.last.base = Start(v, s) /\ v.last.limit = v.offsets[s]
  BY <1>1 DEF Recalls
<1> HIDE DEF s
<1>3. k \in Int
  BY ShapeFacts
<1>4. s \in 1 .. k - 1 /\ s \in 1 .. k
  BY <1>1, <1>2, <1>3
<1>5. Start(w, s) = Start(v, s)
  BY <1>4, EditedFits
<1>6. w.offsets[s] = v.offsets[s]
  BY <1>4 DEF Edited
<1> QED BY <1>1, <1>2, <1>4, <1>5, <1>6 DEF s

\* A block has a length that it should have.
Sound(len, k) == (k = 1 \/ len >= 1) /\ len <= Limit + 1

\* So have all blocks but blocks k .. kv.
Settled(v, k, kv) ==
  \A i \in 1 .. Len(v.blocks) : i < k \/ i > kv => Sound(Len(v.blocks[i]), i)

\* Those that do not change keep theirs.
LEMMA SettledKept ==
  ASSUME NEW R, NEW v, Shape(R, v), NEW w, NEW k \in 1 .. Len(v.blocks),
         NEW kv \in k .. Len(v.blocks), NEW kw \in Int, kw >= k, NEW d \in Int,
         Edited(v, w, k, kv, kw, d), Settled(v, k, kv)
  PROVE  Settled(w, k, kw)
<1> SUFFICES ASSUME NEW i \in 1 .. Len(w.blocks), i < k \/ i > kw
             PROVE  Sound(Len(w.blocks[i]), i)
  BY DEF Settled
<1> DEFINE n == Len(v.blocks)
<1>1. n \in Nat /\ k \in 1 .. n /\ kv \in k .. n /\ k \in Int /\ kv \in Int
  BY ShapeFacts
<1>2. Len(w.blocks) = n + kw - kv
  BY DEF Edited
<1> HIDE DEF n
<1>3. CASE i < k
  <2>1. i \in 1 .. k - 1 /\ i \in 1 .. n
    BY <1>1, <1>2, <1>3
  <2>2. w.blocks[i] = v.blocks[i]
    BY <2>1 DEF Edited
  <2> QED BY <1>3, <2>1, <2>2 DEF Settled, n
<1>4. CASE i > kw
  <2> DEFINE h == i - kw + kv
  <2>1. h \in kv + 1 .. n /\ h \in 1 .. n /\ h > kv /\ h + kw - kv = i /\ h # 1
    BY <1>1, <1>2, <1>4
  <2> HIDE DEF h
  <2>2. w.blocks[i] = v.blocks[h]
    BY <2>1 DEF Edited, n
  <2>3. Sound(Len(v.blocks[h]), h)
    BY <2>1 DEF Settled, n
  <2> QED BY <2>1, <2>2, <2>3 DEF Sound
<1> QED BY <1>3, <1>4

\* All of this for a block that is split.
LEMMA SplitFacts ==
  ASSUME NEW R, NEW v, Shape(R, v), NEW k \in 1 .. Len(v.blocks),
         NEW at \in 0 .. Len(v.blocks[k]) - 1, NEW m, Recalls(v, m), Settled(v, k, k)
  PROVE  LET w == Split(v, k, at)
         IN  /\ Shape(R, w) /\ Recalls(w, k) /\ Settled(w, k, k + 1)
             /\ Len(w.blocks) = Len(v.blocks) + 1
             /\ Len(w.blocks[k]) = at /\ Len(w.blocks[k + 1]) = Len(v.blocks[k]) - at - 1
             /\ w.offsets[Len(w.blocks)] = v.offsets[Len(v.blocks)]
             /\ \A f \in Seq(R) : Shown(v, f) => Shown(w, f)
<1> DEFINE w == Split(v, k, at)
           n == Len(v.blocks)
           b == v.blocks[k]
           S == Start(v, k)
<1>1. /\ w \in Views(R) /\ Edited(v, w, k, k, k + 1, 0)
      /\ w.blocks[k] = Upto(b, at)
      /\ w.blocks[k + 1] = After(b, at + 1)
      /\ w.seps[k] = b[at + 1]
      /\ w.offsets[k] = S + at
      /\ w.last = Cleared(v.last, k)
  BY SplitEdits
<1> HIDE DEF w
<1>2. n \in Nat /\ k \in Int /\ k \in 1 .. n /\ Len(b) \in Nat /\ S \in Int /\ at \in Int
  BY ShapeFacts
<1>3. b \in Seq(R) /\ v.last \in [base : Int, limit : Int, slot : Int]
  BY ShapeFacts
<1>4. at \in 0 .. Len(b) /\ at + 1 \in 0 .. Len(b)
  BY <1>2
<1>5. Len(w.blocks[k]) = at /\ \A i \in 1 .. at : w.blocks[k][i] = b[i]
  BY <1>1, <1>3, <1>4, UptoFacts
<1>6. /\ Len(w.blocks[k + 1]) = Len(b) - (at + 1)
      /\ \A i \in 1 .. Len(b) - (at + 1) : w.blocks[k + 1][i] = b[at + 1 + i]
  <2> DEFINE c == at + 1
  <2>1. b \in Seq(R) /\ c \in 0 .. Len(b)
    BY <1>3, <1>4
  <2>2. w.blocks[k + 1] = After(b, c)
    BY <1>1
  <2> HIDE DEF b, c
  <2>3. /\ Len(After(b, c)) = Len(b) - c
        /\ \A i \in 1 .. Len(b) - c : After(b, c)[i] = b[c + i]
    BY <2>1, AfterFacts
  <2>4. /\ Len(w.blocks[k + 1]) = Len(b) - c
        /\ \A i \in 1 .. Len(b) - c : w.blocks[k + 1][i] = b[c + i]
    BY <2>2, <2>3
  <2> QED BY <2>4 DEF c
<1>7. k \in k .. Len(v.blocks) /\ k + 1 \in Int /\ k + 1 >= k /\ 0 \in Int
  BY <1>2
<1>8. Shape(R, w) /\ \A i \in 1 .. k : Start(w, i) = Start(v, i)
  BY <1>1, <1>7, EditedFits
<1>9. Recalls(w, k)
  <2>1. w.last.limit > 0 => w.last = v.last /\ w.last.slot < k
    BY <1>1, <1>2, <1>3, ClearedFacts
  <2> QED BY <1>1, <1>7, <2>1, RecallsKept
<1>10. Settled(w, k, k + 1)
  BY <1>1, <1>7, SettledKept
<1>11. Len(w.blocks) = n + 1 /\ w.offsets[n + 1] = v.offsets[n]
  <2>1. Len(w.blocks) = n + (k + 1) - k
    BY <1>1 DEF Edited
  <2>2. n + (k + 1) - k = n + 1
    BY <1>2
  <2>3. CASE k = n
    <3>1. w.offsets[k + 1] = v.offsets[k] + 0 /\ v.offsets[k] \in Int
      BY <1>1, ShapeFacts DEF Edited
    <3> QED BY <2>1, <2>2, <2>3, <3>1
  <2>4. CASE k # n
    <3>1. n \in k + 1 .. n /\ n \in 1 .. n
      BY <1>2, <2>4
    <3>2. w.offsets[n + (k + 1) - k] = v.offsets[n] + 0
      BY <1>1, <3>1 DEF Edited
    <3>3. v.offsets[n] \in Int
      BY <3>1, ShapeFacts
    <3> QED BY <2>1, <2>2, <3>2, <3>3
  <2> QED BY <2>3, <2>4
<1>12. ASSUME NEW f \in Seq(R), Shown(v, f) PROVE Shown(w, f)
  <2>1. \A j \in 1 .. Len(b) : f[S + j] = b[j]
    BY <1>12 DEF Shown
  <2>2. Start(w, k) = S /\ Start(w, k + 1) = w.offsets[k] + 1
    <3>1. Start(w, k) = S
      BY <1>1 DEF Edited
    <3>2. k + 1 \in k + 1 .. k + 1 /\ k + 1 - 1 = k
      BY <1>2
    <3>3. Start(w, k + 1) = w.offsets[k + 1 - 1] + 1
      BY <1>1, <3>2 DEF Edited
    <3> QED BY <3>1, <3>2, <3>3
  <2>3. Len(f) \in Nat /\ v.offsets[k] \in Int
    BY ShapeFacts, LenProperties
  <2> HIDE DEF n, b, S
  <2>4. ASSUME NEW j \in 1 .. Len(w.blocks[k]) PROVE f[Start(w, k) + j] = w.blocks[k][j]
    <3>1. j \in 1 .. at /\ j \in 1 .. Len(b)
      BY <1>2, <1>4, <1>5
    <3> QED BY <1>5, <2>1, <2>2, <3>1
  <2>5. ASSUME NEW j \in 1 .. Len(w.blocks[k + 1])
        PROVE  f[Start(w, k + 1) + j] = w.blocks[k + 1][j]
    <3>1. j \in 1 .. Len(b) - (at + 1) /\ at + 1 + j \in 1 .. Len(b)
      BY <1>2, <1>4, <1>6
    <3>2. Start(w, k + 1) + j = S + (at + 1 + j)
      BY <1>1, <1>2, <2>2
    <3>3. w.blocks[k + 1][j] = b[at + 1 + j]
      BY <1>6, <3>1
    <3> QED BY <2>1, <3>1, <3>2, <3>3
  <2>6. f[w.offsets[k] + 1] = w.seps[k]
    <3>1. at + 1 \in 1 .. Len(b) /\ w.offsets[k] + 1 = S + (at + 1)
      BY <1>1, <1>2, <1>4
    <3> QED BY <1>1, <2>1, <3>1
  <2>7. \A i \in k .. k + 1 : i = k \/ i = k + 1
    BY <1>2
  <2>8. \A i \in k .. k + 1 - 1 : i = k
    BY <1>2
  <2>9. Len(f) = Len(f) + 0 /\ \A p \in v.offsets[k] + 1 .. Len(f) : p + 0 = p
    BY <2>3
  <2>10. Patches(v, w, k, k, k + 1, 0, f, f)
    BY <2>4, <2>5, <2>6, <2>7, <2>8, <2>9 DEF Patches
  <2> QED BY <1>1, <1>7, <1>12, <2>10, EditedShows
<1>13. Len(b) - (at + 1) = Len(b) - at - 1
  BY <1>2
<1> QED BY <1>5, <1>6, <1>8, <1>9, <1>10, <1>11, <1>12, <1>13 DEF w

\* The last offset after blocks k .. kv have become blocks k .. kw.
LEMMA EditedEnd ==
  ASSUME NEW R, NEW v, Shape(R, v), NEW w, NEW k \in 1 .. Len(v.blocks),
         NEW kv \in k .. Len(v.blocks), NEW kw \in Int, NEW d \in Int,
         Edited(v, w, k, kv, kw, d)
  PROVE  /\ w.offsets[Len(w.blocks)] = v.offsets[Len(v.blocks)] + d
         /\ v.offsets[Len(v.blocks)] \in Nat
<1> DEFINE n == Len(v.blocks)
<1>1. n \in Nat /\ n \in 1 .. n /\ kv \in Int /\ v.offsets[n] \in Int
  BY ShapeFacts
<1>2. Len(w.blocks) = n + kw - kv /\ w.offsets[kw] = v.offsets[kv] + d
  BY DEF Edited
<1>3. v.offsets[n] \in Nat
  <2>1. 0 <= Start(v, n) /\ Start(v, n) <= v.offsets[n]
    BY <1>1, OffsetsGrow
  <2>2. Start(v, n) \in Int
    BY <1>1, ShapeFacts
  <2> QED BY <1>1, <2>1, <2>2
<1> HIDE DEF n
<1>4. CASE kv = n
  <2>1. Len(w.blocks) = kw
    BY <1>1, <1>2, <1>4
  <2> QED BY <1>2, <1>3, <1>4, <2>1 DEF n
<1>5. CASE kv # n
  <2>1. n \in kv + 1 .. n
    BY <1>1, <1>5 DEF n
  <2>2. w.offsets[n + kw - kv] = v.offsets[n] + d
    BY <2>1 DEF Edited, n
  <2> QED BY <1>2, <1>3, <2>2 DEF n
<1> QED BY <1>4, <1>5

\* Merging keeps the rows as well.
LEMMA MergeEdits ==
  ASSUME NEW R, NEW v, Shape(R, v), NEW k \in 1 .. Len(v.blocks) - 1
  PROVE  LET w == Merge(v, k)
         IN  /\ w \in Views(R) /\ Edited(v, w, k, k + 1, k, 0)
             /\ w.blocks[k] = Append(v.blocks[k], v.seps[k]) \o v.blocks[k + 1]
             /\ w.blocks[k] \in Seq(R)
             /\ Len(w.blocks[k]) = Len(v.blocks[k]) + 1 + Len(v.blocks[k + 1])
             /\ w.last = Cleared(v.last, k)
<1> DEFINE w == Merge(v, k)
           n == Len(v.blocks)
           b == v.blocks[k]
           a == v.blocks[k + 1]
           e == Append(b, v.seps[k])
           x == e \o a
           c == [v.blocks EXCEPT ![k] = x]
           bs == RemoveAt(c, k + 1)
           ss == RemoveAt(v.seps, k)
           os == RemoveAt(v.offsets, k)
<1>0. /\ v.blocks \in Seq(Seq(R)) /\ v.seps \in Seq(R) /\ v.offsets \in Seq(Int)
      /\ v.last \in [base : Int, limit : Int, slot : Int]
  BY ShapeFacts
<1>1. /\ n \in Nat /\ k \in Int /\ k \in 1 .. n - 1 /\ k \in 1 .. n /\ k + 1 \in 1 .. n
      /\ k + 1 \in 2 .. n /\ k + 1 - 1 = k
      /\ Len(v.seps) = n - 1 /\ Len(v.offsets) = n
  BY ShapeFacts
<1>2. b \in Seq(R) /\ a \in Seq(R) /\ v.seps[k] \in R
  BY <1>1, ShapeFacts
<1>3. /\ Len(b) \in Nat /\ Len(a) \in Nat /\ v.offsets[k] \in Int /\ v.offsets[k + 1] \in Int
      /\ v.offsets[k + 1] = v.offsets[k] + 1 + Len(a)
  <2>1. Len(b) \in Nat /\ Len(a) \in Nat /\ v.offsets[k] \in Int /\ v.offsets[k + 1] \in Int
    BY <1>1, ShapeFacts
  <2>2. \A j \in 2 .. n : v.offsets[j] = v.offsets[j - 1] + 1 + Len(v.blocks[j])
    BY ShapeFacts
  <2>3. v.offsets[k + 1] = v.offsets[k + 1 - 1] + 1 + Len(v.blocks[k + 1])
    BY <1>1, <2>2
  <2> QED BY <1>1, <2>1, <2>3
<1>4. e \in Seq(R) /\ Len(e) = Len(b) + 1
  BY <1>2, AppendProperties
<1> HIDE DEF e
<1>5. x \in Seq(R) /\ Len(x) = Len(b) + 1 + Len(a)
  <2>1. x \in Seq(R) /\ Len(x) = Len(e) + Len(a)
    BY <1>2, <1>4, ConcatFacts
  <2> QED BY <1>4, <2>1
<1>6. w = [blocks |-> bs, seps |-> ss, offsets |-> os, last |-> Cleared(v.last, k)]
  BY DEF Merge, e
<1> HIDE DEF w, x
<1>7. c \in Seq(Seq(R)) /\ Len(c) = n /\ c[k] = x /\ \A i \in 1 .. n : i # k => c[i] = v.blocks[i]
  BY <1>0, <1>1, <1>5, BlockReplaced, SMTT(30)
<1> HIDE DEF n, c
<1>8. /\ bs \in Seq(Seq(R)) /\ Len(bs) = n - 1
      /\ \A i \in 1 .. k : bs[i] = c[i]
      /\ \A i \in k + 1 .. n - 1 : bs[i] = c[i + 1]
  <2> DEFINE q == k + 1
  <2>1. c \in Seq(Seq(R)) /\ q \in 1 .. Len(c) /\ q - 1 = k /\ Len(c) = n
    BY <1>1, <1>7
  <2> HIDE DEF q
  <2>2. /\ RemoveAt(c, q) \in Seq(Seq(R))
        /\ Len(RemoveAt(c, q)) = Len(c) - 1
        /\ \A i \in 1 .. q - 1 : RemoveAt(c, q)[i] = c[i]
        /\ \A i \in q .. Len(c) - 1 : RemoveAt(c, q)[i] = c[i + 1]
    BY <2>1, BlockOut
  <2> QED BY <2>1, <2>2 DEF q
<1>9. /\ ss \in Seq(R) /\ Len(ss) = n - 2
      /\ \A i \in 1 .. k - 1 : ss[i] = v.seps[i]
      /\ \A i \in k .. n - 2 : ss[i] = v.seps[i + 1]
  <2>1. v.seps \in Seq(R) /\ k \in 1 .. Len(v.seps) /\ Len(v.seps) - 1 = n - 2
    BY <1>0, <1>1
  <2>2. /\ ss \in Seq(R) /\ Len(ss) = Len(v.seps) - 1
        /\ \A i \in 1 .. k - 1 : ss[i] = v.seps[i]
        /\ \A i \in k .. Len(v.seps) - 1 : ss[i] = v.seps[i + 1]
    BY <2>1, RemoveAtFacts
  <2> HIDE DEF ss
  <2> QED BY <2>1, <2>2
<1>10. /\ os \in Seq(Int) /\ Len(os) = n - 1
       /\ \A i \in 1 .. k - 1 : os[i] = v.offsets[i]
       /\ \A i \in k .. n - 1 : os[i] = v.offsets[i + 1]
  <2>1. v.offsets \in Seq(Int) /\ k \in 1 .. Len(v.offsets) /\ Len(v.offsets) = n
    BY <1>0, <1>1
  <2>2. /\ os \in Seq(Int) /\ Len(os) = Len(v.offsets) - 1
        /\ \A i \in 1 .. k - 1 : os[i] = v.offsets[i]
        /\ \A i \in k .. Len(v.offsets) - 1 : os[i] = v.offsets[i + 1]
    BY <2>1, OffsetOut
  <2> HIDE DEF os
  <2> QED BY <2>1, <2>2
<1> HIDE DEF bs, ss, os
<1>11. w.blocks = bs /\ w.seps = ss /\ w.offsets = os /\ w.last = Cleared(v.last, k)
  BY <1>6
<1>12. w \in Views(R)
  <2>1. Cleared(v.last, k) \in [base : Int, limit : Int, slot : Int]
    BY <1>0, <1>1, ClearedFacts
  <2>2. bs \in Seq(Seq(R)) /\ ss \in Seq(R) /\ os \in Seq(Int)
    BY <1>8, <1>9, <1>10
  <2> QED BY <1>6, <2>1, <2>2 DEF Views
<1>13. bs[k] = x /\ os[k] = v.offsets[k + 1]
  <2>1. k \in 1 .. k /\ k \in k .. n - 1
    BY <1>1
  <2> QED BY <1>7, <1>8, <1>10, <2>1
<1>14. Start(w, k) = Start(v, k)
  <2>1. Start(w, k) = v.offsets[k + 1] - Len(x)
    BY <1>11, <1>13 DEF Start
  <2>2. Start(v, k) = v.offsets[k] - Len(b)
    BY DEF Start
  <2> DEFINE p == v.offsets[k]
             q == Len(a)
             r == Len(b)
  <2>3. p \in Int /\ q \in Int /\ r \in Int
    BY <1>3
  <2>4. Start(w, k) = (p + 1 + q) - (r + 1 + q)
    BY <1>3, <1>5, <2>1
  <2> HIDE DEF p, q, r
  <2>5. (p + 1 + q) - (r + 1 + q) = p - r
    BY <2>3
  <2> QED BY <2>2, <2>4, <2>5 DEF p, r
<1>15. ASSUME NEW i \in 1 .. k - 1
       PROVE  bs[i] = v.blocks[i] /\ os[i] = v.offsets[i] /\ ss[i] = v.seps[i]
  <2>1. i \in 1 .. k /\ i \in 1 .. n /\ i # k
    BY <1>1
  <2> QED BY <1>7, <1>8, <1>9, <1>10, <2>1
<1>16. ASSUME NEW i \in k + 1 .. n - 1 PROVE bs[i] = v.blocks[i + 1]
  <2>1. i + 1 \in 1 .. n /\ i + 1 # k
    BY <1>1
  <2> QED BY <1>7, <1>8, <2>1
<1>17. ASSUME NEW i \in k .. n - 1 PROVE os[i] = v.offsets[i + 1] + 0
  <2>1. i + 1 \in 1 .. n
    BY <1>1
  <2>2. v.offsets[i + 1] \in Int
    BY <2>1, ShapeFacts DEF n
  <2> QED BY <1>10, <2>2
<1>18. Len(bs) = n - 1 /\ Len(ss) = Len(bs) - 1 /\ Len(os) = Len(bs)
  BY <1>1, <1>8, <1>9, <1>10
<1>19. Edited(v, w, k, k + 1, k, 0)
  <2>1. /\ Len(w.blocks) = Len(v.blocks) - 1
        /\ Len(w.seps) = Len(w.blocks) - 1 /\ Len(w.offsets) = Len(w.blocks)
        /\ \A i \in 1 .. k - 1 : w.blocks[i] = v.blocks[i]
        /\ \A i \in 1 .. k - 1 : w.offsets[i] = v.offsets[i]
        /\ \A i \in 1 .. k - 1 : w.seps[i] = v.seps[i]
    BY <1>11, <1>15, <1>18 DEF n
  <2>2. /\ \A i \in k + 1 .. Len(v.blocks) - 1 : w.blocks[i] = v.blocks[i + 1]
        /\ \A i \in k .. Len(v.blocks) - 1 : w.offsets[i] = v.offsets[i + 1] + 0
        /\ \A i \in k .. Len(v.blocks) - 2 : w.seps[i] = v.seps[i + 1]
    BY <1>9, <1>11, <1>16, <1>17 DEF n
  <2>3. 0 \in Int
    OBVIOUS
  <2> QED BY <1>14, <2>1, <2>2, <2>3, EditedLess
<1> QED BY <1>5, <1>11, <1>12, <1>13, <1>19 DEF w, x, e

\* All of this for two blocks that are merged.
LEMMA MergeFacts ==
  ASSUME NEW R, NEW v, Shape(R, v), NEW k \in 1 .. Len(v.blocks) - 1,
         NEW m, Recalls(v, m), Settled(v, k, k + 1)
  PROVE  LET w == Merge(v, k)
         IN  /\ Shape(R, w) /\ Recalls(w, k) /\ Settled(w, k, k)
             /\ Len(w.blocks) = Len(v.blocks) - 1
             /\ Len(w.blocks[k]) = Len(v.blocks[k]) + 1 + Len(v.blocks[k + 1])
             /\ Start(w, k) = Start(v, k)
             /\ w.offsets[Len(w.blocks)] = v.offsets[Len(v.blocks)]
             /\ \A f \in Seq(R) : Shown(v, f) => Shown(w, f)
<1> DEFINE w == Merge(v, k)
           n == Len(v.blocks)
           b == v.blocks[k]
           a == v.blocks[k + 1]
           e == Append(b, v.seps[k])
           x == w.blocks[k]
           S == Start(v, k)
           lb == Len(b)
           la == Len(a)
<1>1. /\ w \in Views(R) /\ Edited(v, w, k, k + 1, k, 0)
      /\ x = e \o a /\ Len(x) = lb + 1 + la
      /\ w.last = Cleared(v.last, k)
  BY MergeEdits
<1> HIDE DEF w
<1>2. n \in Nat /\ k \in Int /\ k \in 1 .. n - 1 /\ k \in 1 .. n /\ k + 1 \in 1 .. n /\ k + 1 \in 2 .. n
  BY ShapeFacts
<1>3. /\ b \in Seq(R) /\ a \in Seq(R) /\ v.seps[k] \in R
      /\ v.last \in [base : Int, limit : Int, slot : Int]
  BY <1>2, ShapeFacts
<1>4. lb \in Nat /\ la \in Nat /\ S \in Int /\ v.offsets[k] \in Int
  BY <1>2, ShapeFacts
<1>5. /\ k \in 1 .. Len(v.blocks) /\ k + 1 \in k .. Len(v.blocks) /\ k \in Int /\ k >= k /\ 0 \in Int
      /\ k + 1 - 1 = k
  BY <1>2
<1>6. Shape(R, w) /\ \A i \in 1 .. k : Start(w, i) = Start(v, i)
  BY <1>1, <1>5, EditedFits
<1>7. Start(w, k) = S
  BY <1>1 DEF Edited
<1>8. Recalls(w, k)
  <2>1. w.last.limit > 0 => w.last = v.last /\ w.last.slot < k
    BY <1>1, <1>2, <1>3, ClearedFacts
  <2> QED BY <1>1, <1>5, <2>1, RecallsKept
<1>9. Settled(w, k, k)
  BY <1>1, <1>5, SettledKept
<1>10. Len(w.blocks) = n - 1
  <2>1. Len(w.blocks) = n + k - (k + 1)
    BY <1>1 DEF Edited
  <2>2. n + k - (k + 1) = n - 1
    BY <1>2
  <2> QED BY <2>1, <2>2
<1>11. w.offsets[Len(w.blocks)] = v.offsets[n]
  <2>1. w.offsets[Len(w.blocks)] = v.offsets[n] + 0 /\ v.offsets[n] \in Nat
    BY <1>1, <1>5, EditedEnd
  <2> QED BY <2>1
<1>12. /\ \A j \in 1 .. lb : x[j] = b[j]
       /\ x[lb + 1] = v.seps[k]
       /\ \A j \in 1 .. la : x[lb + 1 + j] = a[j]
  <2>1. /\ e \in Seq(R) /\ Len(e) = lb + 1
        /\ \A j \in 1 .. lb : e[j] = b[j]
        /\ e[lb + 1] = v.seps[k]
    BY <1>3, AppendProperties
  <2> HIDE DEF e, x, lb, la, b, a
  <2>2. e \in Seq(R) /\ a \in Seq(R)
    BY <1>3, <2>1
  <2>3. /\ \A i \in 1 .. Len(e) : (e \o a)[i] = e[i]
        /\ \A i \in 1 .. Len(a) : (e \o a)[Len(e) + i] = a[i]
    BY <2>2, ConcatFacts
  <2>4. \A j \in 1 .. lb : j \in 1 .. lb + 1
    BY <1>4
  <2>5. lb + 1 \in 1 .. lb + 1
    BY <1>4
  <2>6. \A i \in 1 .. lb + 1 : x[i] = e[i]
    BY <1>1, <2>1, <2>3
  <2>7. \A j \in 1 .. la : x[lb + 1 + j] = a[j]
    BY <1>1, <2>1, <2>3 DEF la
  <2> QED BY <2>1, <2>4, <2>5, <2>6, <2>7
<1>13. ASSUME NEW f \in Seq(R), Shown(v, f) PROVE Shown(w, f)
  <2>1. /\ \A j \in 1 .. lb : f[S + j] = b[j]
        /\ \A j \in 1 .. la : f[Start(v, k + 1) + j] = a[j]
        /\ f[v.offsets[k] + 1] = v.seps[k]
    BY <1>2, <1>13 DEF Shown
  <2>2. v.offsets[k] = S + lb /\ Start(v, k + 1) = S + lb + 1
    <3>1. v.offsets[k] = S + lb
      BY <1>2, OffsetsGrow
    <3>2. \A j \in 2 .. n : Start(v, j) = v.offsets[j - 1] + 1
      BY ShapeFacts
    <3>3. Start(v, k + 1) = v.offsets[k + 1 - 1] + 1
      BY <1>2, <3>2
    <3> QED BY <1>5, <3>1, <3>3
  <2>3. Len(f) \in Nat
    BY LenProperties
  <2> HIDE DEF n, b, a, e, x, S, lb, la
  <2>4. ASSUME NEW j \in 1 .. Len(x) PROVE f[S + j] = x[j]
    <3>0. j \in Int /\ j >= 1 /\ j <= lb + 1 + la
      BY <1>1, <1>4
    <3>1. CASE j <= lb
      <4>1. j \in 1 .. lb
        BY <1>4, <3>0, <3>1
      <4> QED BY <1>12, <2>1, <4>1
    <3>2. CASE j = lb + 1
      <4>1. v.offsets[k] + 1 = S + j
        BY <1>4, <2>2, <3>2
      <4> QED BY <1>12, <2>1, <3>2, <4>1
    <3>3. CASE j > lb + 1
      <4> DEFINE i == j - (lb + 1)
      <4>1. i \in 1 .. la /\ lb + 1 + i = j /\ Start(v, k + 1) + i = S + j
        BY <1>4, <2>2, <3>0, <3>3
      <4> HIDE DEF i
      <4>2. x[j] = a[i]
        BY <1>12, <4>1
      <4>3. f[S + j] = a[i]
        BY <2>1, <4>1
      <4> QED BY <4>2, <4>3
    <3> QED BY <1>4, <3>0, <3>1, <3>2, <3>3
  <2>5. (\A i \in k .. k : i = k) /\ ~\E i \in k .. k - 1 : TRUE
    BY <1>2
  <2>6. Len(f) = Len(f) + 0 /\ \A p \in v.offsets[k + 1] + 1 .. Len(f) : p + 0 = p
    <3>1. v.offsets[k + 1] \in Int
      BY <1>2, ShapeFacts DEF n
    <3> QED BY <2>3, <3>1
  <2>7. Patches(v, w, k, k + 1, k, 0, f, f)
    BY <1>7, <2>4, <2>5, <2>6 DEF Patches, x
  <2> QED BY <1>1, <1>5, <1>13, <2>7, EditedShows
<1> QED BY <1>1, <1>6, <1>7, <1>8, <1>9, <1>10, <1>11, <1>13 DEF w

\* A view with other rows in block q, d more of them.
WithBlock(v, q, x, d) ==
  [blocks  |-> [v.blocks EXCEPT ![q] = x], seps |-> v.seps,
   offsets |-> Shifted(v.offsets, q, d), last |-> v.last]

\* x is block q with the rows new in place of a number of its rows; only blocks
\* before block k, which is that one or one before it, are remembered.
Refill(R, v, q, k, at, cut, new, x) ==
  /\ Shape(R, v) /\ Recalls(v, k) /\ q \in 1 .. Len(v.blocks) /\ k \in 1 .. q
  /\ at \in Nat /\ cut \in Nat /\ at + cut <= Len(v.blocks[q])
  /\ new \in Seq(R) /\ x \in Seq(R) /\ Spliced(v.blocks[q], x, at, cut, new)

\* The view with those rows in the block fits together, and shows them.
LEMMA WithBlockFacts ==
  ASSUME NEW R, NEW v, NEW q, NEW k, NEW at, NEW cut, NEW new, NEW x,
         Refill(R, v, q, k, at, cut, new, x)
  PROVE  LET w == WithBlock(v, q, x, Len(new) - cut)
         IN  /\ Shape(R, w) /\ Recalls(w, k)
             /\ Len(w.blocks) = Len(v.blocks) /\ w.blocks[q] = x
             /\ \A i \in 1 .. Len(v.blocks) : i # q => w.blocks[i] = v.blocks[i]
             /\ \A i \in 1 .. q : Start(w, i) = Start(v, i)
             /\ w.offsets[Len(w.blocks)] = v.offsets[Len(v.blocks)] + (Len(new) - cut)
             /\ \A f \in Seq(R) : \A g :
                  Shown(v, f) /\ Spliced(f, g, Start(v, q) + at, cut, new) => Shown(w, g)
<1> SUFFICES ASSUME Shape(R, v), q \in 1 .. Len(v.blocks), k \in 1 .. q,
                    at \in Nat, cut \in Nat, at + cut <= Len(v.blocks[q]), new \in Seq(R),
                    x \in Seq(R), Spliced(v.blocks[q], x, at, cut, new), Recalls(v, k),
                    NEW d, d = Len(new) - cut
             PROVE  LET w == WithBlock(v, q, x, d)
                    IN  /\ Shape(R, w) /\ Recalls(w, k)
                        /\ Len(w.blocks) = Len(v.blocks) /\ w.blocks[q] = x
                        /\ \A i \in 1 .. Len(v.blocks) : i # q => w.blocks[i] = v.blocks[i]
                        /\ \A i \in 1 .. q : Start(w, i) = Start(v, i)
                        /\ w.offsets[Len(w.blocks)] = v.offsets[Len(v.blocks)] + d
                        /\ \A f \in Seq(R) : \A g :
                             Shown(v, f) /\ Spliced(f, g, Start(v, q) + at, cut, new) => Shown(w, g)
  BY DEF Refill
<1> DEFINE w == WithBlock(v, q, x, d)
           n == Len(v.blocks)
<1>0. /\ v.blocks \in Seq(Seq(R)) /\ v.seps \in Seq(R) /\ v.offsets \in Seq(Int)
      /\ v.last \in [base : Int, limit : Int, slot : Int]
  BY ShapeFacts
<1>1. /\ n \in Nat /\ q \in 1 .. n /\ q \in Int /\ k \in Int /\ k \in 1 .. n /\ q \in k .. n /\ q >= k
      /\ Len(v.seps) = n - 1 /\ Len(v.offsets) = n
  BY ShapeFacts
<1>2. d \in Int /\ Len(new) - cut = d
  <2>1. Len(new) \in Nat
    BY LenProperties
  <2> QED BY <2>1
<1>3. Len(x) = Len(v.blocks[q]) + d
  <2>1. Len(x) = Len(v.blocks[q]) - cut + Len(new)
    BY DEF Spliced
  <2>2. Len(v.blocks[q]) \in Nat /\ Len(new) \in Nat
    BY ShapeFacts, LenProperties
  <2> QED BY <1>2, <2>1, <2>2
<1>4. /\ w.blocks = [v.blocks EXCEPT ![q] = x] /\ w.seps = v.seps
      /\ w.offsets = Shifted(v.offsets, q, d) /\ w.last = v.last
  BY DEF WithBlock
<1>5. /\ w.blocks \in Seq(Seq(R)) /\ Len(w.blocks) = n /\ w.blocks[q] = x
      /\ \A i \in 1 .. n : i # q => w.blocks[i] = v.blocks[i]
  <2>1. v.blocks \in Seq(Seq(R)) /\ q \in 1 .. Len(v.blocks) /\ x \in Seq(R)
    BY <1>0
  <2> DEFINE c == [v.blocks EXCEPT ![q] = x]
  <2>2. /\ c \in Seq(Seq(R)) /\ Len(c) = Len(v.blocks) /\ c[q] = x
        /\ \A i \in 1 .. Len(v.blocks) : i # q => c[i] = v.blocks[i]
    BY <2>1, BlockReplaced
  <2>3. w.blocks = c
    BY <1>4
  <2> HIDE DEF c, w
  <2> QED BY <2>2, <2>3
<1>6. /\ w.offsets \in Seq(Int) /\ Len(w.offsets) = n
      /\ \A i \in 1 .. n : w.offsets[i] = IF i >= q THEN v.offsets[i] + d ELSE v.offsets[i]
  <2>1. v.offsets \in Seq(Int) /\ q \in Int /\ d \in Int
    BY <1>0, <1>1, <1>2
  <2>2. /\ Shifted(v.offsets, q, d) \in Seq(Int) /\ Len(Shifted(v.offsets, q, d)) = Len(v.offsets)
        /\ \A i \in 1 .. Len(v.offsets) :
             Shifted(v.offsets, q, d)[i] = IF i >= q THEN v.offsets[i] + d ELSE v.offsets[i]
    BY <2>1, ShiftedFacts, SMTT(30)
  <2> QED BY <1>1, <1>4, <2>2
<1>7. w \in Views(R)
  <2>1. w = [blocks |-> w.blocks, seps |-> w.seps, offsets |-> w.offsets, last |-> w.last]
    BY <1>4 DEF WithBlock
  <2> HIDE DEF w
  <2>2. w.seps \in Seq(R) /\ w.last \in [base : Int, limit : Int, slot : Int]
    BY <1>0, <1>4
  <2> QED BY <1>5, <1>6, <2>1, <2>2 DEF Views
<1> HIDE DEF w
<1>8. ASSUME NEW j \in 1 .. q PROVE Edited(v, w, j, q, q, d) /\ Start(w, q) = Start(v, q)
  <2>1. Len(w.blocks) = Len(v.blocks) /\ Len(w.offsets) = Len(v.offsets) /\ w.seps = v.seps
    BY <1>1, <1>4, <1>5, <1>6
  <2>2. Len(w.blocks[q]) = Len(v.blocks[q]) + d
    BY <1>3, <1>5
  <2>3. \A i \in 1 .. Len(v.blocks) : i # q => w.blocks[i] = v.blocks[i]
    BY <1>5
  <2>4. \A i \in 1 .. Len(v.blocks) : w.offsets[i] = IF i >= q THEN v.offsets[i] + d ELSE v.offsets[i]
    BY <1>6
  <2>5. OnlyBlock(v, w, j, q, d)
    BY <2>1, <2>2, <2>3, <2>4 DEF OnlyBlock
  <2> QED BY <1>2, <2>5, EditedOnly
<1>9. Edited(v, w, k, q, q, d) /\ Edited(v, w, q, q, q, d)
  <2>1. k \in 1 .. q /\ q \in 1 .. q
    BY <1>1
  <2> QED BY <1>8, <2>1
<1>10. q \in q .. Len(v.blocks) /\ q \in Int /\ q >= q /\ q \in 1 .. Len(v.blocks)
  BY <1>1
<1>11. Shape(R, w) /\ \A i \in 1 .. q : Start(w, i) = Start(v, i)
  BY <1>2, <1>7, <1>9, <1>10, EditedFits
<1>12. Recalls(w, k)
  <2>1. w.last.limit > 0 => w.last = v.last /\ w.last.slot < k
    <3>1. w.last.limit > 0 => w.last.slot \in 1 .. k - 1
      BY <1>4 DEF Recalls
    <3> QED BY <1>1, <1>4, <3>1
  <2> QED BY <1>1, <1>2, <1>7, <1>9, <2>1, RecallsKept
<1>13. w.offsets[Len(w.blocks)] = v.offsets[n] + d
  BY <1>2, <1>9, <1>10, EditedEnd
<1>14. ASSUME NEW f \in Seq(R), NEW g, Shown(v, f), Spliced(f, g, Start(v, q) + at, cut, new)
       PROVE  Shown(w, g)
  <2>1. Edited(v, w, q, q, q, Len(new) - cut) /\ Spliced(v.blocks[q], w.blocks[q], at, cut, new)
    BY <1>2, <1>5, <1>9
  <2> QED BY <1>7, <1>14, <2>1, BlockSpliced
<1> QED BY <1>5, <1>11, <1>12, <1>13, <1>14 DEF w

\* All blocks have a length that they should have.
Sized(v) == \A i \in 1 .. Len(v.blocks) : Sound(Len(v.blocks[i]), i)

\* That all lengths are right, by blocks k .. kv and all others.
LEMMA SizedParts ==
  ASSUME NEW R, NEW v, Shape(R, v), NEW k \in 1 .. Len(v.blocks)
  PROVE  /\ Sized(v) <=> Settled(v, k, k) /\ Sound(Len(v.blocks[k]), k)
         /\ \A j \in k .. Len(v.blocks) : Sized(v) => Settled(v, k, j)
         /\ k < Len(v.blocks) =>
              (Settled(v, k, k) <=> Settled(v, k, k + 1) /\ Sound(Len(v.blocks[k + 1]), k + 1))
<1> DEFINE n == Len(v.blocks)
<1>1. n \in Nat /\ k \in Int /\ k \in 1 .. n
  BY ShapeFacts
<1>2. \A i \in 1 .. n : i = k \/ i < k \/ i > k
  BY <1>1
<1>3. \A i \in 1 .. n : i > k <=> i = k + 1 \/ i > k + 1
  BY <1>1
<1>4. k < n => k + 1 \in 1 .. n
  BY <1>1
<1>5. ~(k < k) /\ ~(k > k) /\ ~(k + 1 < k) /\ k + 1 > k
  BY <1>1
<1> HIDE DEF n
<1>6. Sized(v) <=> Settled(v, k, k) /\ Sound(Len(v.blocks[k]), k)
  BY <1>1, <1>2, <1>5 DEF Sized, Settled, n
<1>7. \A j \in k .. n : Sized(v) => Settled(v, k, j)
  BY DEF Sized, Settled, n
<1>8. k < n => (Settled(v, k, k) <=> Settled(v, k, k + 1) /\ Sound(Len(v.blocks[k + 1]), k + 1))
  BY <1>3, <1>4, <1>5 DEF Settled, n
<1> QED BY <1>6, <1>7, <1>8 DEF n

\* Forgetting a block that is to change.
LEMMA TouchedFacts ==
  ASSUME NEW R, NEW v, Shape(R, v), NEW k \in 1 .. Len(v.blocks), NEW m, Recalls(v, m)
  PROVE  LET w == Touched(v, k)
         IN  /\ Shape(R, w) /\ Recalls(w, k)
             /\ w.blocks = v.blocks /\ w.seps = v.seps /\ w.offsets = v.offsets
<1> DEFINE w == Touched(v, k)
<1>1. v \in Views(R) /\ v.last \in [base : Int, limit : Int, slot : Int] /\ k \in Int
  BY ShapeFacts DEF Shape
<1>2. Cleared(v.last, k) \in [base : Int, limit : Int, slot : Int]
  BY <1>1, ClearedFacts
<1>3. w = [v EXCEPT !.last = Cleared(v.last, k)]
  BY DEF Touched
<1> HIDE DEF w
<1>4. /\ w \in Views(R) /\ w.last = Cleared(v.last, k)
      /\ w.blocks = v.blocks /\ w.seps = v.seps /\ w.offsets = v.offsets
  BY <1>1, <1>2, <1>3 DEF Views
<1>5. Fits(v)
  BY DEF Shape
<1>6. Fits(w)
  BY <1>4, <1>5 DEF Fits
<1>7. Shape(R, w)
  BY <1>4, <1>6, ShapeIntro
<1>8. \A i : Start(w, i) = Start(v, i)
  BY <1>4 DEF Start
<1>9. w.last.limit > 0 => w.last = v.last /\ v.last.slot < k
  BY <1>1, <1>4, ClearedFacts
<1>10. \A s : s \in 1 .. m - 1 /\ s < k => s \in 1 .. k - 1
  BY <1>1
<1>11. Recalls(w, k)
  BY <1>4, <1>8, <1>9, <1>10 DEF Recalls
<1> QED BY <1>4, <1>7, <1>11 DEF w

\* A view with other blocks and other offsets, as a record.
LEMMA ViewSet ==
  ASSUME NEW R, NEW v \in Views(R), NEW bs, NEW os
  PROVE  [v EXCEPT !.blocks = bs, !.offsets = os] =
           [blocks |-> bs, seps |-> v.seps, offsets |-> os, last |-> v.last]
<1> DEFINE u == [v EXCEPT !.blocks = bs]
<1>1. u = [blocks |-> bs, seps |-> v.seps, offsets |-> v.offsets, last |-> v.last]
  BY DEF Views
<1>2. [v EXCEPT !.blocks = bs, !.offsets = os] = [u EXCEPT !.offsets = os]
  OBVIOUS
<1> HIDE DEF u
<1>3. [u EXCEPT !.offsets = os] = [blocks |-> bs, seps |-> v.seps, offsets |-> os, last |-> v.last]
  BY <1>1
<1> QED BY <1>2, <1>3

\* Rows added to a block.
LEMMA AddedFacts ==
  ASSUME NEW R, NEW v, Shape(R, v), NEW k \in 1 .. Len(v.blocks), Recalls(v, k), Settled(v, k, k),
         NEW at \in 0 .. Len(v.blocks[k]), NEW new \in Seq(R)
  PROVE  LET w == Added(v, k, at, new)
         IN  /\ Shape(R, w) /\ Recalls(w, k) /\ Settled(w, k, k)
             /\ Len(w.blocks) = Len(v.blocks)
             /\ Len(w.blocks[k]) = Len(v.blocks[k]) + Len(new)
             /\ \A f \in Seq(R) : \A g :
                  Shown(v, f) /\ Spliced(f, g, Start(v, k) + at, 0, new) => Shown(w, g)
<1> DEFINE b == v.blocks[k]
           x == Upto(b, at) \o new \o After(b, at)
           w == Added(v, k, at, new)
<1>1. b \in Seq(R) /\ Len(b) \in Nat /\ Len(v.blocks) \in Nat /\ k \in Int /\ k \in 1 .. k
  BY ShapeFacts
<1>2. Len(new) \in Nat /\ Len(new) = Len(new) - 0 /\ at \in Nat /\ at + 0 = at /\ 0 \in Nat /\ at <= Len(b)
  BY <1>1, LenProperties
<1>3. x \in Seq(R) /\ Spliced(b, x, at, 0, new)
  BY <1>1, <1>2, SplicedIs
<1>4. v \in Views(R)
  BY DEF Shape
<1>5. w = WithBlock(v, k, x, Len(new))
  <2> DEFINE bs == [v.blocks EXCEPT ![k] = x]
             os == Shifted(v.offsets, k, Len(new))
  <2>1. w = [v EXCEPT !.blocks = bs, !.offsets = os]
    BY <1>4 DEF Added, Views
  <2> HIDE DEF x, bs, os, w
  <2>2. w = [blocks |-> bs, seps |-> v.seps, offsets |-> os, last |-> v.last]
    BY <1>4, <2>1, ViewSet
  <2> QED BY <2>2 DEF WithBlock, bs, os
<1> HIDE DEF x, w
<1>6. /\ Shape(R, w) /\ Recalls(w, k)
      /\ Len(w.blocks) = Len(v.blocks) /\ w.blocks[k] = x
      /\ \A i \in 1 .. Len(v.blocks) : i # k => w.blocks[i] = v.blocks[i]
      /\ \A f \in Seq(R) : \A g :
           Shown(v, f) /\ Spliced(f, g, Start(v, k) + at, 0, new) => Shown(w, g)
  <2>1. Refill(R, v, k, k, at, 0, new, x)
    BY <1>1, <1>2, <1>3 DEF Refill
  <2>2. w = WithBlock(v, k, x, Len(new) - 0)
    BY <1>2, <1>5
  <2> QED BY <2>1, <2>2, WithBlockFacts
<1>7. Len(x) = Len(b) + Len(new)
  <2>1. Len(x) = Len(b) - 0 + Len(new)
    BY <1>3 DEF Spliced
  <2> QED BY <1>1, <1>2, <2>1
<1>8. \A i : i < k \/ i > k => i # k
  BY <1>1
<1>9. Settled(w, k, k)
  BY <1>6, <1>8 DEF Settled
<1> QED BY <1>6, <1>7, <1>9 DEF w

----------------------------------------------------------------------------
\* InsertRows.

\* The views that show what v does, in which only block k may be too long.
Divided(R, v, k) ==
  {u \in Views(R) : /\ Shape(R, u) /\ k \in 1 .. Len(u.blocks)
                    /\ Recalls(u, k) /\ Settled(u, k, k)
                    /\ k = 1 \/ Len(u.blocks[k]) >= 1
                    /\ \A f \in Seq(R) : Shown(v, f) => Shown(u, f)}

\* A split leaves such a view if it leaves parts of the right lengths.
LEMMA SplitDivides ==
  ASSUME NEW R, NEW v, NEW k, NEW u \in Divided(R, v, k), NEW at \in Nat, k = 1 \/ at >= 1,
         Len(u.blocks[k]) - at - 1 >= 1, Len(u.blocks[k]) - at - 1 <= Limit + 1
  PROVE  Split(u, k, at) \in Divided(R, v, k) /\ Len(Split(u, k, at).blocks[k]) = at
<1> DEFINE w == Split(u, k, at)
           b == u.blocks[k]
<1>1. /\ Shape(R, u) /\ k \in 1 .. Len(u.blocks) /\ Recalls(u, k) /\ Settled(u, k, k)
      /\ \A f \in Seq(R) : Shown(v, f) => Shown(u, f)
  BY DEF Divided
<1>2. Len(b) \in Nat /\ Len(u.blocks) \in Nat /\ k \in Int
  BY <1>1, ShapeFacts
<1>3. at \in 0 .. Len(b) - 1
  BY <1>2
<1>4. /\ Shape(R, w) /\ Recalls(w, k) /\ Settled(w, k, k + 1)
      /\ Len(w.blocks) = Len(u.blocks) + 1
      /\ Len(w.blocks[k]) = at /\ Len(w.blocks[k + 1]) = Len(b) - at - 1
      /\ \A f \in Seq(R) : Shown(u, f) => Shown(w, f)
  BY <1>1, <1>3, SplitFacts
<1> HIDE DEF w
<1>5. k \in 1 .. Len(w.blocks) /\ k < Len(w.blocks)
  BY <1>1, <1>2, <1>4
<1>6. Sound(Len(w.blocks[k + 1]), k + 1)
  BY <1>4 DEF Sound
<1>7. Settled(w, k, k)
  BY <1>4, <1>5, <1>6, SizedParts
<1>8. w \in Divided(R, v, k)
  BY <1>1, <1>4, <1>5, <1>7 DEF Divided, Shape
<1> QED BY <1>4, <1>8 DEF w

\* What the recursive function in SplitOff is defined to be.
Splits(off, v, k) ==
  off = [j \in 0 .. Len(v.blocks[k]) |->
          IF j = 0 THEN v
          ELSE LET u == off[j - 1]
               IN  IF Len(u.blocks[k]) >= 2 * Limit
                   THEN Split(u, k, Len(u.blocks[k]) - Limit - 2) ELSE u]

\* The loop leaves a block that is less than twice too long.
LEMMA SplitsFacts ==
  ASSUME NEW R, NEW v, NEW k, v \in Divided(R, v, k)
  PROVE  /\ \E off : Splits(off, v, k)
         /\ \A off : Splits(off, v, k) =>
              /\ off[Len(v.blocks[k])] \in Divided(R, v, k)
              /\ Len(off[Len(v.blocks[k])].blocks[k]) < 2 * Limit
<1> DEFINE n == Len(v.blocks[k])
           S == Divided(R, v, k)
           Step(u) == IF Len(u.blocks[k]) >= 2 * Limit
                      THEN Split(u, k, Len(u.blocks[k]) - Limit - 2) ELSE u
           G == [u \in S |-> Step(u)]
           M == [u \in S |-> Len(u.blocks[k])]
<1>0. Limit \in Nat /\ Limit >= 3
  BY BlockedViewAssumption
<1>1. \A u \in S : Len(u.blocks[k]) \in Nat
  BY ShapeFacts DEF Divided
<1>2. ASSUME NEW u \in S
      PROVE  /\ Step(u) \in S
             /\ Len(u.blocks[k]) >= 2 * Limit => Len(Step(u).blocks[k]) < Len(u.blocks[k])
  <2>1. CASE Len(u.blocks[k]) >= 2 * Limit
    <3> DEFINE len == Len(u.blocks[k])
               at == len - Limit - 2
    <3>1. len \in Nat /\ len >= 2 * Limit
      BY <1>1, <2>1
    <3>2. Step(u) = Split(u, k, at)
      BY <2>1
    <3>3. at \in Nat /\ at >= 1 /\ len - at - 1 >= 1 /\ len - at - 1 <= Limit + 1 /\ at < len
      <4>1. \A n1, c \in Nat : c >= 3 /\ n1 >= 2 * c =>
              /\ n1 - c - 2 \in Nat /\ n1 - c - 2 >= 1 /\ n1 - (n1 - c - 2) - 1 >= 1
              /\ n1 - (n1 - c - 2) - 1 <= c + 1 /\ n1 - c - 2 < n1
        OBVIOUS
      <4> HIDE DEF S, Step, G, M, n, len
      <4> QED BY <1>0, <3>1, <4>1
    <3> HIDE DEF S, Step, at
    <3>4. Split(u, k, at) \in S /\ Len(Split(u, k, at).blocks[k]) = at
      BY <3>3, SplitDivides DEF S
    <3> QED BY <3>2, <3>3, <3>4
  <2>2. CASE ~(Len(u.blocks[k]) >= 2 * Limit)
    BY <2>2
  <2> QED BY <2>1, <2>2
<1>3. v \in S /\ n \in Nat
  BY <1>1
<1> HIDE DEF S, Step
<1>4. G \in [S -> S] /\ M \in [S -> Nat] /\ M[v] <= n
  BY <1>1, <1>2, <1>3
<1>5. ASSUME NEW u \in S PROVE G[u] = u \/ M[G[u]] < M[u]
  <2>1. G[u] = Step(u) /\ M[u] = Len(u.blocks[k]) /\ M[Step(u)] = Len(Step(u).blocks[k])
    BY <1>2
  <2>2. Step(u) = u \/ Len(u.blocks[k]) >= 2 * Limit
    BY DEF Step
  <2> QED BY <1>2, <2>1, <2>2
<1>6. Repeats(n, S, v, G, M)
  BY <1>3, <1>4, <1>5 DEF Repeats
<1>7. \A u \in S : G[u] = Step(u)
  OBVIOUS
<1>8. ASSUME NEW u \in S, G[u] = u PROVE Len(u.blocks[k]) < 2 * Limit
  <2>1. Step(u) = u
    BY <1>7, <1>8
  <2>2. ~(Len(u.blocks[k]) >= 2 * Limit)
    <3>1. ~(Len(u.blocks[k]) < Len(u.blocks[k]))
      BY <1>1
    <3> QED BY <1>2, <2>1, <3>1
  <2> QED BY <1>0, <1>1, <2>2
<1> HIDE DEF G, M, n
<1>9. \E off : Splits(off, v, k)
  <2>1. PICK f \in [0 .. n -> S] : f[0] = v /\ \A i \in 1 .. n : f[i] = G[f[i - 1]]
    BY <1>6, RepeatedFunction
  <2>2. ASSUME NEW j \in 0 .. n PROVE f[j] = IF j = 0 THEN v ELSE Step(f[j - 1])
    <3>1. CASE j = 0
      BY <2>1, <3>1
    <3>2. CASE j # 0
      <4>1. j \in 1 .. n /\ j - 1 \in 0 .. n
        BY <1>3, <3>2
      <4>2. f[j] = G[f[j - 1]] /\ f[j - 1] \in S
        BY <2>1, <4>1
      <4> QED BY <1>7, <3>2, <4>2
    <3> QED BY <3>1, <3>2
  <2>3. f = [j \in 0 .. n |-> IF j = 0 THEN v ELSE Step(f[j - 1])]
    BY <2>1, <2>2
  <2> QED BY <2>3 DEF Splits, Step, n
<1>10. ASSUME NEW off, Splits(off, v, k)
       PROVE  off[n] \in S /\ Len(off[n].blocks[k]) < 2 * Limit
  <2>1. off = [j \in 0 .. n |-> IF j = 0 THEN v ELSE Step(off[j - 1])]
    BY <1>10 DEF Splits, Step, n
  <2>2. \A j \in 0 .. n : off[j] = IF j = 0 THEN v ELSE Step(off[j - 1])
    BY <2>1
  <2>3. off[0] = v
    BY <1>3, <2>2
  <2>4. \A j \in 1 .. n : off[j] = Step(off[j - 1])
    <3>1. \A j \in 1 .. n : j \in 0 .. n /\ j # 0
      BY <1>3
    <3> QED BY <2>2, <3>1
  <2>5. \A j \in 0 .. n : off[j] \in S
    <3> DEFINE T == {j \in 0 .. n : off[j] \in S}
    <3>1. 0 \in T
      BY <1>3, <2>3
    <3>2. ASSUME NEW j \in 1 .. n, j - 1 \in T PROVE j \in T
      <4>1. j \in 0 .. n /\ off[j - 1] \in S
        BY <1>3, <3>2
      <4> QED BY <1>2, <2>4, <4>1
    <3> HIDE DEF T
    <3>3. \A j \in 0 .. n : j \in T
      BY <1>3, <3>1, <3>2, CountingUp
    <3> QED BY <3>3 DEF T
  <2>6. \A j \in 1 .. n : off[j] = G[off[j - 1]]
    <3>1. \A j \in 1 .. n : j - 1 \in 0 .. n
      BY <1>3
    <3> QED BY <1>7, <2>4, <2>5, <3>1
  <2>7. off[n] \in S /\ G[off[n]] = off[n]
    BY <1>6, <2>3, <2>6, RepeatedEnds
  <2> QED BY <1>8, <2>7
<1> QED BY <1>9, <1>10 DEF S, n

\* Such a view has blocks of the right lengths if block k has.
LEMMA DividedSized ==
  ASSUME NEW R, NEW v, NEW k, NEW u \in Divided(R, v, k), Len(u.blocks[k]) <= Limit + 1
  PROVE  /\ Shape(R, u) /\ Sized(u) /\ Recalls(u, Len(u.blocks) + 1)
         /\ \A f \in Seq(R) : Shown(v, f) => Shown(u, f)
<1>1. /\ Shape(R, u) /\ k \in 1 .. Len(u.blocks) /\ Recalls(u, k) /\ Settled(u, k, k)
      /\ k = 1 \/ Len(u.blocks[k]) >= 1
      /\ \A f \in Seq(R) : Shown(v, f) => Shown(u, f)
  BY DEF Divided
<1>2. Sized(u)
  <2>1. Sound(Len(u.blocks[k]), k)
    BY <1>1 DEF Sound
  <2> QED BY <1>1, <2>1, SizedParts
<1>3. Recalls(u, Len(u.blocks) + 1)
  <2>1. Len(u.blocks) + 1 \in Int /\ k \in Int /\ k <= Len(u.blocks) + 1
    BY <1>1, ShapeFacts
  <2> QED BY <1>1, <2>1, RecallsMore
<1> QED BY <1>1, <1>2, <1>3

\* A block that has become too long is split until its parts are short enough.
LEMMA SplitOffFacts ==
  ASSUME NEW R, NEW v, NEW k, v \in Divided(R, v, k), NEW atEnd
  PROVE  LET w == SplitOff(v, k, atEnd)
         IN  /\ Shape(R, w) /\ Sized(w) /\ Recalls(w, Len(w.blocks) + 1)
             /\ \A f \in Seq(R) : Shown(v, f) => Shown(w, f)
<1> DEFINE off == CHOOSE g : Splits(g, v, k)
           u == off[Len(v.blocks[k])]
           len == Len(u.blocks[k])
           at == IF atEnd THEN Limit - 1 ELSE len \div 2
           w == IF len > Limit THEN Split(u, k, at) ELSE u
<1>0. Limit \in Nat /\ Limit >= 3
  BY BlockedViewAssumption
<1>1. Splits(off, v, k)
  BY SplitsFacts, Zenon
<1>2. SplitOff(v, k, atEnd) = w
  BY Zenon DEF SplitOff, Splits
<1> HIDE DEF off
<1>3. u \in Divided(R, v, k) /\ len < 2 * Limit
  BY <1>1, SplitsFacts
<1> HIDE DEF u
<1>4. len \in Nat
  BY <1>3, ShapeFacts DEF Divided
<1>5. w \in Divided(R, v, k) /\ Len(w.blocks[k]) <= Limit + 1
  <2>1. CASE len > Limit
    <3>1. /\ at \in Nat /\ at >= 1 /\ at <= Limit
          /\ len - at - 1 >= 1 /\ len - at - 1 <= Limit + 1
      <4>1. \A n, c \in Nat : c >= 3 /\ n > c /\ n < 2 * c =>
              /\ c - 1 \in Nat /\ c - 1 >= 1 /\ n - (c - 1) - 1 >= 1 /\ n - (c - 1) - 1 <= c + 1
              /\ n \div 2 \in Nat /\ n \div 2 >= 1 /\ n \div 2 <= c
              /\ n - n \div 2 - 1 >= 1 /\ n - n \div 2 - 1 <= c + 1
        OBVIOUS
      <4> HIDE DEF len
      <4>2. CASE atEnd
        BY <1>0, <1>3, <1>4, <2>1, <4>1, <4>2
      <4>3. CASE ~atEnd
        BY <1>0, <1>3, <1>4, <2>1, <4>1, <4>3
      <4> QED BY <4>2, <4>3
    <3>2. w = Split(u, k, at)
      BY <2>1
    <3> HIDE DEF w, at
    <3>3. Split(u, k, at) \in Divided(R, v, k) /\ Len(Split(u, k, at).blocks[k]) = at
      BY <1>3, <3>1, SplitDivides
    <3>4. at <= Limit + 1
      BY <1>0, <3>1
    <3> QED BY <3>2, <3>3, <3>4
  <2>2. CASE ~(len > Limit)
    <3>1. w = u
      BY <2>2
    <3>2. len <= Limit + 1
      <4> HIDE DEF len
      <4> QED BY <1>0, <1>4, <2>2
    <3> QED BY <1>3, <3>1, <3>2
  <2> QED BY <2>1, <2>2
<1> HIDE DEF w
<1> QED BY <1>2, <1>5, DividedSized

\* What holds of a view between two calls: its parts fit together, its blocks have
\* the lengths they should have, and what is remembered is right.
Kept(R, v) == Shape(R, v) /\ Sized(v) /\ Recalls(v, Len(v.blocks) + 1)

\* InsertRows as a whole, into a view of any rows: they are put in where they are
\* to be, the other rows stay in their order, and all that holds again.
LEMMA InsertedFacts ==
  ASSUME NEW R, NEW v, Kept(R, v), NEW pos \in 0 .. v.offsets[Len(v.offsets)],
         NEW new \in Seq(R), Len(new) >= 1
  PROVE  LET w == Inserted(v, pos, new)
         IN  /\ Kept(R, w)
             /\ \A f \in Seq(R) : Shown(v, f) => Shown(w, Upto(f, pos) \o new \o After(f, pos))
<1> DEFINE k == Slot(v.offsets, pos)
           at == InSlot(v.offsets, pos)
           atEnd == pos = v.offsets[Len(v.offsets)]
           t == Touched(v, k)
           u == Added(t, k, at, new)
           w == SplitOff(u, k, atEnd)
<1>0. Inserted(v, pos, new) = w
  BY Zenon DEF Inserted
<1>1. Shape(R, v) /\ Sized(v) /\ Recalls(v, Len(v.blocks) + 1)
  BY DEF Kept
<1>2. Len(v.offsets) = Len(v.blocks)
  BY <1>1, ShapeFacts
<1>3. /\ k \in 1 .. Len(v.blocks)
      /\ at = pos - Start(v, k) /\ at \in 0 .. Len(v.blocks[k])
  BY <1>1, <1>2, SlotFacts
<1> HIDE DEF k, at, atEnd
<1>4. /\ Shape(R, t) /\ Recalls(t, k)
      /\ t.blocks = v.blocks /\ t.seps = v.seps /\ t.offsets = v.offsets
  BY <1>1, <1>3, TouchedFacts
<1>5. Settled(v, k, k)
  BY <1>1, <1>3, SizedParts
<1>6. Settled(t, k, k)
  BY <1>4, <1>5 DEF Settled
<1>7. \A f : Shown(v, f) => Shown(t, f)
  BY <1>4, ZenonT(40) DEF Shown, Start
<1> HIDE DEF t
<1>8. /\ Shape(R, u) /\ Recalls(u, k) /\ Settled(u, k, k)
      /\ Len(u.blocks) = Len(t.blocks)
      /\ Len(u.blocks[k]) = Len(t.blocks[k]) + Len(new)
      /\ \A f \in Seq(R) : \A g :
           Shown(t, f) /\ Spliced(f, g, Start(t, k) + at, 0, new) => Shown(u, g)
  <2>1. k \in 1 .. Len(t.blocks) /\ at \in 0 .. Len(t.blocks[k])
    BY <1>3, <1>4
  <2> HIDE DEF w
  <2> QED BY <1>4, <1>6, <2>1, AddedFacts
<1> HIDE DEF u
<1>9. u \in Divided(R, u, k)
  <2>1. Len(t.blocks[k]) \in Nat /\ Len(new) \in Nat
    BY <1>3, <1>4, ShapeFacts, LenProperties
  <2>2. Len(u.blocks[k]) >= 1
    BY <1>8, <2>1
  <2> QED BY <1>3, <1>4, <1>8, <2>2 DEF Divided, Shape
<1>10. /\ Shape(R, w) /\ Sized(w) /\ Recalls(w, Len(w.blocks) + 1)
       /\ \A f \in Seq(R) : Shown(u, f) => Shown(w, f)
  BY <1>9, SplitOffFacts
<1>11. ASSUME NEW f \in Seq(R), Shown(v, f)
       PROVE  Shown(w, Upto(f, pos) \o new \o After(f, pos))
  <2> DEFINE g == Upto(f, pos) \o new \o After(f, pos)
             zero == 0
  <2>1. pos \in Nat /\ zero \in Nat /\ pos + zero = pos /\ pos <= Len(f)
    BY <1>1, <1>2, <1>11, OffsetsGrow, ShapeFacts DEF Shown
  <2>2. Start(t, k) + at = pos
    <3>1. Start(t, k) = Start(v, k)
      BY <1>4 DEF Start
    <3>2. Start(v, k) \in Int
      BY <1>1, <1>3, ShapeFacts
    <3> QED BY <1>3, <2>1, <3>1, <3>2
  <2>3. g \in Seq(R) /\ Spliced(f, g, pos, zero, new)
    <3> HIDE DEF zero
    <3>1. /\ Upto(f, pos) \o new \o After(f, pos + zero) \in Seq(R)
          /\ Spliced(f, Upto(f, pos) \o new \o After(f, pos + zero), pos, zero, new)
      BY <2>1, SplicedIs
    <3> QED BY <2>1, <3>1
  <2> HIDE DEF g, w
  <2>4. Spliced(f, g, Start(t, k) + at, 0, new)
    BY <2>2, <2>3
  <2>5. Shown(u, g)
    BY <1>7, <1>8, <1>11, <2>4
  <2> QED BY <1>10, <2>3, <2>5 DEF g
<1> QED BY <1>0, <1>10, <1>11 DEF Kept

----------------------------------------------------------------------------
\* RemoveRows.

\* A sequence without a number of its rows.
LEMMA CutIs ==
  ASSUME NEW R, NEW f \in Seq(R), NEW pos \in Nat, NEW cut \in Nat, pos + cut <= Len(f)
  PROVE  LET g == Upto(f, pos) \o After(f, pos + cut)
         IN  g \in Seq(R) /\ Spliced(f, g, pos, cut, <<>>)
<1> DEFINE g == Upto(f, pos) \o After(f, pos + cut)
           none == <<>>
<1>0. none \in Seq(R) /\ Len(none) = 0
  OBVIOUS
<1>1. pos \in 0 .. Len(f)
  OBVIOUS
<1>2. Upto(f, pos) \in Seq(R) /\ Upto(f, pos) \o none = Upto(f, pos)
  BY <1>1, UptoFacts
<1> HIDE DEF none
<1>3. /\ Upto(f, pos) \o none \o After(f, pos + cut) \in Seq(R)
      /\ Spliced(f, Upto(f, pos) \o none \o After(f, pos + cut), pos, cut, none)
  BY <1>0, SplicedIs
<1> QED BY <1>2, <1>3 DEF none

\* When some of the rows to remove are removed then the others remain.
LEMMA CutWithin ==
  ASSUME NEW f, Len(f) \in Nat, NEW g, NEW h, NEW pos \in Nat, NEW todo \in Nat,
         pos + todo <= Len(f), NEW q \in Nat, NEW s \in Nat, pos <= q, q + s <= pos + todo,
         Spliced(f, h, pos, todo, <<>>), Spliced(f, g, q, s, <<>>)
  PROVE  todo - s \in Nat /\ Len(g) = Len(f) - s /\ Spliced(g, h, pos, todo - s, <<>>)
<1>0. Len(<<>>) = 0
  OBVIOUS
<1>1. /\ Len(h) = Len(f) - todo /\ Len(g) = Len(f) - s
      /\ \A p \in 1 .. pos : h[p] = f[p]
      /\ \A p \in 1 .. q : g[p] = f[p]
      /\ \A p \in pos + todo + 1 .. Len(f) : h[p - todo + 0] = f[p]
      /\ \A p \in q + s + 1 .. Len(f) : g[p - s + 0] = f[p]
  BY <1>0 DEF Spliced
<1>2. todo - s \in Nat /\ Len(h) = Len(g) - (todo - s) + 0
  BY <1>1
<1>3. \A p \in 1 .. pos : h[p] = g[p]
  BY <1>1
<1>4. ASSUME NEW p \in pos + (todo - s) + 1 .. Len(g) PROVE h[p - (todo - s) + 0] = g[p]
  <2>1. /\ p + s \in pos + todo + 1 .. Len(f) /\ p + s \in q + s + 1 .. Len(f)
        /\ (p + s) - todo + 0 = p - (todo - s) + 0 /\ (p + s) - s + 0 = p
    BY <1>1
  <2>2. h[(p + s) - todo + 0] = f[p + s] /\ g[(p + s) - s + 0] = f[p + s]
    BY <1>1, <2>1
  <2> QED BY <2>1, <2>2
<1>5. \A i \in 1 .. Len(<<>>) : h[pos + i] = <<>>[i]
  BY <1>0
<1> QED BY <1>0, <1>1, <1>2, <1>3, <1>4, <1>5 DEF Spliced

\* The view shows rows that are those of h when todo of them are removed.
Leaves(R, v, pos, todo, h) ==
  \E f \in Seq(R) : /\ Shown(v, f) /\ pos + todo <= Len(f)
                    /\ Spliced(f, h, pos, todo, <<>>)

\* One step of a removal: rows go at q, all of them rows to remove.
LEMMA LeavesLess ==
  ASSUME NEW R, NEW v, NEW w, NEW pos \in Nat, NEW todo \in Nat, NEW q \in Nat, NEW s \in Nat,
         pos <= q, q + s <= pos + todo, NEW h, Leaves(R, v, pos, todo, h),
         \A f \in Seq(R) : \A g \in Seq(R) : Shown(v, f) /\ Spliced(f, g, q, s, <<>>) => Shown(w, g)
  PROVE  Leaves(R, w, pos, todo - s, h)
<1>1. PICK f \in Seq(R) : /\ Shown(v, f) /\ pos + todo <= Len(f)
                          /\ Spliced(f, h, pos, todo, <<>>)
  BY DEF Leaves
<1> DEFINE g == Upto(f, q) \o After(f, q + s)
<1>2. Len(f) \in Nat /\ q + s <= Len(f)
  BY <1>1
<1>3. g \in Seq(R) /\ Spliced(f, g, q, s, <<>>)
  BY <1>2, CutIs
<1> HIDE DEF g
<1>4. todo - s \in Nat /\ Len(g) = Len(f) - s /\ Spliced(g, h, pos, todo - s, <<>>)
  BY <1>1, <1>2, <1>3, CutWithin
<1>5. Shown(w, g) /\ pos + (todo - s) <= Len(g)
  BY <1>1, <1>2, <1>3, <1>4
<1> QED BY <1>3, <1>4, <1>5 DEF Leaves

\* What a removal can have come to: block k is where its first row is; all other
\* blocks have the length they should have; at most "reach" rows of block k and
\* after it are still to be removed.
Removing(R, v, pos, count, k, at) ==
  {d \in [v : Views(R), todo : Nat, over : Int] :
     /\ Shape(R, d.v) /\ k \in 1 .. Len(d.v.blocks)
     /\ Recalls(d.v, k) /\ Settled(d.v, k, k)
     /\ at \in 0 .. Len(d.v.blocks[k]) /\ pos = Start(d.v, k) + at
     /\ pos + d.todo <= d.v.offsets[Len(d.v.blocks)]
     /\ \A h : Leaves(R, v, pos, count, h) => Leaves(R, d.v, pos, d.todo, h)}

\* The first phase, in which "over" says how far the removal goes past block k.
Dropping(R, v, pos, count, k, at) ==
  {d \in Removing(R, v, pos, count, k, at) :
     /\ d.over = at + d.todo - Len(d.v.blocks[k])
     /\ Len(d.v.blocks[k]) <= Limit + 1}

\* In it, if rows past the block are to be removed then there is a next block.
LEMMA DroppingFacts ==
  ASSUME NEW R, NEW v, NEW pos, NEW count, NEW k, NEW at,
         NEW d \in Dropping(R, v, pos, count, k, at)
  PROVE  /\ k \in Nat /\ k >= 1 /\ at \in Nat /\ pos \in Nat
         /\ Len(d.v.blocks) \in Nat /\ Len(d.v.blocks[k]) \in Nat /\ d.todo \in Nat /\ d.over \in Int
         /\ d.v.offsets[k] \in Nat /\ Start(d.v, k) \in Nat
         /\ d.v.offsets[k] = Start(d.v, k) + Len(d.v.blocks[k])
         /\ at <= Len(d.v.blocks[k]) /\ pos <= d.v.offsets[k]
         /\ pos + d.todo = d.v.offsets[k] + d.over
         /\ d.over > 0 => k < Len(d.v.blocks)
         /\ k < Len(d.v.blocks) =>
              /\ Len(d.v.blocks[k + 1]) \in Nat /\ Len(d.v.blocks[k + 1]) >= 1
              /\ Start(d.v, k + 1) = d.v.offsets[k] + 1
              /\ d.v.offsets[k + 1] = d.v.offsets[k] + 1 + Len(d.v.blocks[k + 1])
              /\ NextSize(d.v, k) = 1 + Len(d.v.blocks[k + 1])
<1> DEFINE u == d.v
           n == Len(u.blocks)
           len == Len(u.blocks[k])
<1>1. /\ Shape(R, u) /\ k \in 1 .. n /\ Recalls(u, k) /\ Settled(u, k, k)
      /\ at \in 0 .. len /\ pos = Start(u, k) + at
      /\ pos + d.todo <= u.offsets[n]
      /\ d.over = at + d.todo - len
      /\ d.todo \in Nat /\ d.over \in Int
  BY DEF Removing, Dropping
<1>2. /\ n \in Nat /\ len \in Nat /\ u.offsets[k] \in Int /\ Start(u, k) \in Int
      /\ 0 <= Start(u, k) /\ u.offsets[k] = Start(u, k) + len
  <2> HIDE DEF u
  <2>1. Shape(R, u) /\ k \in 1 .. Len(u.blocks)
    BY <1>1
  <2>2. n \in Nat /\ len \in Nat /\ u.offsets[k] \in Int /\ Start(u, k) \in Int
    BY <2>1, ShapeFacts
  <2>3. 0 <= Start(u, k) /\ u.offsets[k] = Start(u, k) + len
    BY <2>1, OffsetsGrow
  <2> QED BY <2>2, <2>3
<1>3. k < n => /\ k + 1 \in 2 .. n /\ k + 1 \in 1 .. n
               /\ Len(u.blocks[k + 1]) \in Nat /\ u.offsets[k + 1] \in Int
               /\ Start(u, k + 1) = u.offsets[k] + 1
               /\ u.offsets[k + 1] = u.offsets[k] + 1 + Len(u.blocks[k + 1])
  <2> SUFFICES ASSUME k < n PROVE
               /\ k + 1 \in 2 .. n /\ k + 1 \in 1 .. n
               /\ Len(u.blocks[k + 1]) \in Nat /\ u.offsets[k + 1] \in Int
               /\ Start(u, k + 1) = u.offsets[k] + 1
               /\ u.offsets[k + 1] = u.offsets[k] + 1 + Len(u.blocks[k + 1])
    OBVIOUS
  <2> DEFINE j == k + 1
  <2>1. j \in 2 .. n /\ j \in 1 .. n /\ j - 1 = k
    BY <1>1, <1>2
  <2> HIDE DEF j, u
  <2>2. Shape(R, u) /\ j \in 1 .. Len(u.blocks) /\ j \in 2 .. Len(u.blocks)
    BY <1>1, <2>1
  <2>2a. /\ \A i \in 1 .. Len(u.blocks) : Len(u.blocks[i]) \in Nat /\ u.offsets[i] \in Int
         /\ \A i \in 2 .. Len(u.blocks) : /\ Start(u, i) = u.offsets[i - 1] + 1
                                         /\ u.offsets[i] = u.offsets[i - 1] + 1 + Len(u.blocks[i])
    BY <2>2, ShapeFacts, SMTT(30)
  <2>2b. /\ Len(u.blocks[j]) \in Nat /\ u.offsets[j] \in Int
         /\ Start(u, j) = u.offsets[j - 1] + 1
         /\ u.offsets[j] = u.offsets[j - 1] + 1 + Len(u.blocks[j])
    <3> HIDE DEF n, len
    <3> QED BY <2>2, <2>2a, ZenonT(20)
  <2> QED BY <2>1, <2>2b DEF j
<1>4. k < n => Len(u.blocks[k + 1]) >= 1
  <2> HIDE DEF u
  <2> QED BY <1>1, <1>3 DEF Settled, Sound
<1>5. k = n => d.over <= 0
  <2> DEFINE o == u.offsets[k]
             s == Start(u, k)
  <2> HIDE DEF u, o, s, len
  <2>1. k = n => pos + d.todo <= o
    BY <1>1 DEF o
  <2>2. o = s + len /\ pos = s + at /\ o \in Int /\ s \in Int
    BY <1>1, <1>2 DEF o, s
  <2>3. at \in Int /\ len \in Int /\ d.todo \in Int
    BY <1>1, <1>2
  <2> QED BY <1>1, <2>1, <2>2, <2>3
<1> HIDE DEF u
<1>6. NextSize(u, k) = u.offsets[k + 1] - u.offsets[k]
  BY DEF NextSize
<1>7. k < n => NextSize(u, k) = 1 + Len(u.blocks[k + 1])
  BY <1>2, <1>3, <1>6, SMTT(30)
<1>8. /\ u.offsets[k] \in Nat /\ Start(u, k) \in Nat
      /\ pos \in Nat /\ pos <= u.offsets[k] /\ pos + d.todo = u.offsets[k] + d.over
  <2> DEFINE o == u.offsets[k]
             s == Start(u, k)
  <2> HIDE DEF o, s, len
  <2>1. o = s + len /\ pos = s + at /\ o \in Int /\ s \in Int /\ 0 <= s
    BY <1>1, <1>2 DEF o, s
  <2>2. at \in Nat /\ at <= len /\ len \in Nat /\ d.todo \in Nat /\ d.over = at + d.todo - len
    BY <1>1, <1>2
  <2>3. \A x, y, p, a, l, c, r \in Int :
          x = y + l /\ p = y + a /\ 0 <= y /\ 0 <= a /\ a <= l /\ 0 <= c /\ r = a + c - l =>
            x >= 0 /\ p >= 0 /\ p <= x /\ p + c = x + r
    OBVIOUS
  <2>4. d.over \in Int /\ pos \in Int
    BY <1>1, <2>1, <2>2
  <2> QED BY <2>1, <2>2, <2>3, <2>4 DEF o, s
<1>9. k \in Nat /\ k >= 1 /\ at \in Nat /\ at <= len /\ (d.over > 0 => k < n)
  BY <1>1, <1>2, <1>5
<1> QED BY <1>1, <1>2, <1>3, <1>4, <1>7, <1>8, <1>9 DEF u

\* The same with other separators.
LEMMA ViewSeps ==
  ASSUME NEW R, NEW v \in Views(R), NEW ss
  PROVE  [v EXCEPT !.seps = ss] =
           [blocks |-> v.blocks, seps |-> ss, offsets |-> v.offsets, last |-> v.last]
  BY DEF Views

\* A view with other blocks, separators and offsets, as a record.
LEMMA ViewSetAll ==
  ASSUME NEW R, NEW v \in Views(R), NEW bs, NEW ss, NEW os
  PROVE  [v EXCEPT !.blocks = bs, !.seps = ss, !.offsets = os] =
           [blocks |-> bs, seps |-> ss, offsets |-> os, last |-> v.last]
<1> DEFINE x == [v EXCEPT !.blocks = bs]
           y == [x EXCEPT !.seps = ss]
<1>1. x = [blocks |-> bs, seps |-> v.seps, offsets |-> v.offsets, last |-> v.last]
  BY DEF Views
<1>2. y = [blocks |-> bs, seps |-> ss, offsets |-> v.offsets, last |-> v.last]
  <2> HIDE DEF x
  <2> QED BY <1>1
<1>3. [y EXCEPT !.offsets = os] = [blocks |-> bs, seps |-> ss, offsets |-> os, last |-> v.last]
  <2> HIDE DEF y
  <2> QED BY <1>2
<1> QED BY <1>3

\* The next block is dropped, and the row before it.
LEMMA DropNextEdits ==
  ASSUME NEW R, NEW v, Shape(R, v), NEW k \in 1 .. Len(v.blocks) - 1,
         NEW todo, NEW over
  PROVE  LET size == NextSize(v, k)
             e == DropNext(Doing(v, todo, over), k)
         IN  /\ e.v \in Views(R) /\ Edited(v, e.v, k, k + 1, k, -size)
             /\ e.v.last = v.last /\ e.v.blocks[k] = v.blocks[k]
             /\ e.v.offsets[k] = v.offsets[k]
             /\ e.todo = todo - size /\ e.over = over - size
             /\ e = [v |-> e.v, todo |-> e.todo, over |-> e.over]
<1> DEFINE d == Doing(v, todo, over)
           size == NextSize(v, k)
           e == DropNext(d, k)
           j == k + 1
           n == Len(v.blocks)
           z == Shifted(v.offsets, j, -size)
           bs == RemoveAt(v.blocks, j)
           ss == RemoveAt(v.seps, k)
           os == RemoveAt(z, j)
           w == [blocks |-> bs, seps |-> ss, offsets |-> os, last |-> v.last]
<1>1. /\ n \in Nat /\ v.blocks \in Seq(Seq(R)) /\ v.seps \in Seq(R) /\ v.offsets \in Seq(Int)
      /\ Len(v.seps) = n - 1 /\ Len(v.offsets) = n
      /\ v.last \in [base : Int, limit : Int, slot : Int]
      /\ \A i \in 1 .. n : v.offsets[i] \in Int /\ v.blocks[i] \in Seq(R)
  BY ShapeFacts
<1>2. j \in 1 .. n /\ k \in 1 .. n - 1 /\ k \in 1 .. n /\ j - 1 = k /\ j \in Int /\ n - 1 \in Nat
  BY <1>1
<1>3. size \in Int /\ -size \in Int
  <2> HIDE DEF z, bs, ss, os, e, n
  <2>1. v.offsets[k + 1] \in Int /\ v.offsets[k] \in Int
    BY <1>1, <1>2
  <2>2. size = v.offsets[k + 1] - v.offsets[k]
    BY DEF NextSize
  <2> QED BY <2>1, <2>2
<1>4. e = Doing(w, todo - size, over - size)
  <2>1. v \in Views(R)
    BY DEF Shape
  <2>2. [v EXCEPT !.blocks = bs, !.seps = ss, !.offsets = os] = w
    <3> HIDE DEF bs, ss, os
    <3> QED BY <2>1, ViewSetAll
  <2>3. e = Doing([v EXCEPT !.blocks = bs, !.seps = ss, !.offsets = os], todo - size, over - size)
    BY DEF DropNext, Doing
  <2> HIDE DEF w, e
  <2> QED BY <2>2, <2>3
<1>5. e.v = w /\ e.todo = todo - size /\ e.over = over - size
  BY <1>4 DEF Doing
<1> HIDE DEF j, size, e
<1>6. /\ bs \in Seq(Seq(R)) /\ Len(bs) = n - 1
      /\ \A i \in 1 .. j - 1 : bs[i] = v.blocks[i]
      /\ \A i \in j .. n - 1 : bs[i] = v.blocks[i + 1]
  BY <1>1, <1>2, BlockOut
<1>7. /\ ss \in Seq(R) /\ Len(ss) = n - 1 - 1
      /\ \A i \in 1 .. k - 1 : ss[i] = v.seps[i]
      /\ \A i \in k .. n - 1 - 1 : ss[i] = v.seps[i + 1]
  <2> HIDE DEF n
  <2>1. k \in 1 .. Len(v.seps)
    BY <1>1, <1>2
  <2> QED BY <1>1, <2>1, RemoveAtFacts
<1>8. /\ z \in Seq(Int) /\ Len(z) = n
      /\ \A i \in 1 .. n : z[i] = IF i >= j THEN v.offsets[i] + (-size) ELSE v.offsets[i]
  <2> DEFINE m == -size
             o == v.offsets
  <2>1. m \in Int /\ o \in Seq(Int) /\ Len(o) = n
    BY <1>1, <1>3
  <2> HIDE DEF n, m, o
  <2>2. /\ Shifted(o, j, m) \in Seq(Int) /\ Len(Shifted(o, j, m)) = Len(o)
        /\ \A i \in 1 .. Len(o) : Shifted(o, j, m)[i] = IF i >= j THEN o[i] + m ELSE o[i]
    BY <1>2, <2>1, ShiftedFacts
  <2>3. z = Shifted(o, j, m)
    BY DEF m, o
  <2> HIDE DEF z
  <2>4. /\ z \in Seq(Int) /\ Len(z) = n
        /\ \A i \in 1 .. n : z[i] = IF i >= j THEN o[i] + m ELSE o[i]
    BY <2>1, <2>2, <2>3
  <2> QED BY <2>4 DEF m, o
<1> HIDE DEF z
<1>9. /\ os \in Seq(Int) /\ Len(os) = n - 1
      /\ \A i \in 1 .. j - 1 : os[i] = z[i]
      /\ \A i \in j .. n - 1 : os[i] = z[i + 1]
  <2> HIDE DEF n, w, bs, ss
  <2>1. j \in 1 .. Len(z)
    BY <1>2, <1>8
  <2> QED BY <1>8, <2>1, OffsetOut
<1> HIDE DEF bs, ss, os, n
<1>10. w \in Views(R)
  BY <1>1, <1>6, <1>7, <1>9 DEF Views
<1>11. os[k] = v.offsets[k] /\ bs[k] = v.blocks[k]
  <2>1. k \in 1 .. j - 1 /\ k \in 1 .. n /\ ~(k >= j)
    BY <1>2
  <2>2. z[k] = v.offsets[k] /\ os[k] = z[k] /\ bs[k] = v.blocks[k]
    BY <1>6, <1>8, <1>9, <2>1
  <2> QED BY <2>2
<1>12. v.offsets[k + 1] - size = v.offsets[k]
  <2>1. v.offsets[k + 1] \in Int /\ v.offsets[k] \in Int
    BY <1>1, <1>2 DEF j
  <2> QED BY <2>1 DEF size, NextSize
<1>13. Edited(v, w, k, k + 1, k, -size)
  <2>1. /\ Len(w.blocks) = n - 1 /\ Len(w.seps) = Len(w.blocks) - 1
        /\ Len(w.offsets) = Len(w.blocks)
    BY <1>6, <1>7, <1>9
  <2>2. \A i \in 1 .. k - 1 : w.blocks[i] = v.blocks[i]
    BY <1>2, <1>6
  <2>3. \A i \in 1 .. k - 1 : w.offsets[i] = v.offsets[i]
    <3>1. \A i \in 1 .. k - 1 : i \in 1 .. j - 1 /\ i \in 1 .. n /\ ~(i >= j)
      BY <1>1, <1>2
    <3>2. \A i \in 1 .. k - 1 : z[i] = v.offsets[i] /\ os[i] = z[i]
      BY <1>8, <1>9, <3>1
    <3> QED BY <3>2
  <2>4. \A i \in 1 .. k - 1 : w.seps[i] = v.seps[i]
    BY <1>7
  <2>5. \A i \in k + 1 .. n - 1 : w.blocks[i] = v.blocks[i + 1]
    BY <1>6 DEF j
  <2>6. ASSUME NEW i \in k .. n - 1 PROVE w.offsets[i] = v.offsets[i + 1] + (-size)
    <3>1. CASE i = k
      <4>1. v.offsets[k + 1] \in Int /\ size \in Int
        BY <1>1, <1>2, <1>3 DEF j
      <4> QED BY <1>11, <1>12, <3>1, <4>1
    <3>2. CASE i # k
      <4>1. i \in j .. n - 1 /\ i + 1 \in 1 .. n /\ i + 1 >= j
        BY <1>1, <1>2, <3>2
      <4> QED BY <1>8, <1>9, <4>1
    <3> QED BY <3>1, <3>2
  <2>7. \A i \in k .. n - 2 : w.seps[i] = v.seps[i + 1]
    BY <1>1, <1>7
  <2>8. Start(w, k) = Start(v, k)
    BY <1>11 DEF Start
  <2> HIDE DEF w
  <2>9. k \in 1 .. Len(v.blocks) - 1
    OBVIOUS
  <2> QED BY <1>3, <2>1, <2>2, <2>3, <2>4, <2>5, <2>6, <2>7, <2>8, <2>9, EditedLess DEF n
<1>14. e = [v |-> e.v, todo |-> e.todo, over |-> e.over]
  BY <1>4, <1>5 DEF Doing
<1>15. w.last = v.last /\ w.blocks[k] = v.blocks[k] /\ w.offsets[k] = v.offsets[k]
  BY <1>11
<1> HIDE DEF w, e
<1> QED BY <1>5, <1>10, <1>13, <1>14, <1>15 DEF size, d, e

\* What it shows is then without the rows of the block and the row before it.
LEMMA DropNextShows ==
  ASSUME NEW R, NEW v, Shape(R, v), NEW k \in 1 .. Len(v.blocks) - 1,
         NEW w \in Views(R), NEW size \in Nat, size = NextSize(v, k),
         Edited(v, w, k, k + 1, k, -size), w.blocks[k] = v.blocks[k],
         NEW f \in Seq(R), NEW g, Shown(v, f), Spliced(f, g, v.offsets[k], size, <<>>)
  PROVE  Shown(w, g)
<1> DEFINE o == v.offsets[k]
           s == Start(v, k)
           len == Len(v.blocks[k])
           j == k + 1
           m == -size
<1>1. /\ k \in 1 .. Len(v.blocks) /\ j \in k .. Len(v.blocks) /\ j \in 1 .. Len(v.blocks)
      /\ k \in Int /\ k >= k /\ m \in Int /\ Len(v.blocks) \in Nat
  BY ShapeFacts
<1>2. /\ o \in Int /\ s \in Int /\ len \in Nat /\ o = s + len /\ v.offsets[j] \in Int
      /\ v.blocks[k] \in Seq(R)
  <2> HIDE DEF j, m
  <2>1. o \in Int /\ s \in Int /\ len \in Nat /\ v.blocks[k] \in Seq(R) /\ v.offsets[j] \in Int
    BY <1>1, ShapeFacts
  <2>2. o = s + len
    BY <1>1, OffsetsGrow
  <2> QED BY <2>1, <2>2
<1>3. v.offsets[j] = o + size
  <2>1. size = v.offsets[j] - o
    BY DEF NextSize
  <2> HIDE DEF o, j
  <2> QED BY <1>2, <2>1, SMTT(30)
<1>4. Len(<<>>) = 0
  OBVIOUS
<1>5. /\ Len(g) = Len(f) - size + 0
      /\ \A p \in 1 .. o : g[p] = f[p]
      /\ \A p \in o + size + 1 .. Len(f) : g[p - size + 0] = f[p]
  BY <1>4 DEF Spliced
<1>6. Len(f) \in Nat
  OBVIOUS
<1>7. Start(w, k) = s
  BY DEF Edited
<1>8. \A i \in 1 .. len : g[s + i] = v.blocks[k][i]
  <2>1. \A i \in 1 .. len : f[s + i] = v.blocks[k][i]
    BY <1>1 DEF Shown
  <2>2. \A i \in 1 .. len : s + i \in 1 .. o
    <3>1. s >= 0
      BY <1>1, OffsetsGrow
    <3> HIDE DEF s, o, len
    <3> QED BY <1>2, <3>1
  <2> HIDE DEF s, o, len
  <2> QED BY <1>5, <2>1, <2>2
<1>9. Patches(v, w, k, j, k, m, f, g)
  <2>1. Len(g) = Len(f) + m
    BY <1>5, <1>6
  <2>2. \A p \in 1 .. Start(v, k) : g[p] = f[p]
    <3>1. \A p \in 1 .. s : p \in 1 .. o
      <4> HIDE DEF s, o, len
      <4> QED BY <1>2
    <3> QED BY <1>5, <3>1
  <2>3. ASSUME NEW p \in v.offsets[j] + 1 .. Len(f) PROVE g[p + m] = f[p]
    <3> HIDE DEF o, j
    <3>1. p \in o + size + 1 .. Len(f) /\ p - size + 0 = p + m
      BY <1>2, <1>3, <1>6
    <3> QED BY <1>5, <3>1
  <2>4. \A i \in k .. k : \A q \in 1 .. Len(w.blocks[i]) : g[Start(w, i) + q] = w.blocks[i][q]
    <3>1. \A i \in k .. k : i = k
      BY <1>1
    <3> QED BY <1>7, <1>8, <3>1
  <2>5. \A i \in k .. k - 1 : g[w.offsets[i] + 1] = w.seps[i]
    BY <1>1
  <2> HIDE DEF j, m
  <2> QED BY <2>1, <2>2, <2>3, <2>4, <2>5 DEF Patches
<1>10. Edited(v, w, k, j, k, m)
  OBVIOUS
<1> HIDE DEF j, m
<1> QED BY <1>1, <1>9, <1>10, EditedShows

\* So a removal can go on from there.
LEMMA DropNextFacts ==
  ASSUME NEW R, NEW v, NEW pos, NEW count, NEW k, NEW at,
         NEW d \in Dropping(R, v, pos, count, k, at),
         k < Len(d.v.blocks), d.over >= NextSize(d.v, k)
  PROVE  LET e == DropNext(d, k)
         IN  /\ e \in Dropping(R, v, pos, count, k, at)
             /\ Len(e.v.blocks) = Len(d.v.blocks) - 1
<1> DEFINE u == d.v
           e == DropNext(d, k)
           w == e.v
           n == Len(u.blocks)
           size == NextSize(u, k)
           o == u.offsets[k]
           m == -size
           j == k + 1
<1>1. /\ k \in Nat /\ k >= 1 /\ at \in Nat /\ pos \in Nat
      /\ n \in Nat /\ d.todo \in Nat /\ d.over \in Int
      /\ o \in Nat /\ pos <= o /\ pos + d.todo = o + d.over
      /\ Len(u.blocks[k]) \in Nat /\ Len(u.blocks[k + 1]) \in Nat
      /\ size = 1 + Len(u.blocks[k + 1])
  BY DroppingFacts
<1>2. /\ Shape(R, u) /\ k \in 1 .. n /\ Recalls(u, k) /\ Settled(u, k, k)
      /\ at \in 0 .. Len(u.blocks[k]) /\ pos = Start(u, k) + at
      /\ pos + d.todo <= u.offsets[n]
      /\ d.over = at + d.todo - Len(u.blocks[k]) /\ Len(u.blocks[k]) <= Limit + 1
      /\ \A h : Leaves(R, v, pos, count, h) => Leaves(R, u, pos, d.todo, h)
      /\ d = Doing(u, d.todo, d.over)
  BY DEF Removing, Dropping, Doing
<1> HIDE DEF Dropping, Removing
<1>3. /\ k \in 1 .. n - 1 /\ j \in k .. n /\ k \in Int /\ k >= k
      /\ size \in Nat /\ m \in Int /\ d.over >= size
  <2>1. k < n /\ d.over >= size
    OBVIOUS
  <2> DEFINE l == Len(u.blocks[k + 1])
  <2>2. l \in Nat /\ size = 1 + l
    BY <1>1
  <2> HIDE DEF size, u, n, l
  <2> QED BY <1>1, <2>1, <2>2, SMTT(30)
<1>4. /\ w \in Views(R) /\ Edited(u, w, k, k + 1, k, -size)
      /\ w.last = u.last /\ w.blocks[k] = u.blocks[k] /\ w.offsets[k] = u.offsets[k]
      /\ e.todo = d.todo - size /\ e.over = d.over - size
      /\ e = [v |-> w, todo |-> e.todo, over |-> e.over]
  <2> DEFINE a == d.todo
             b == d.over
             x == Doing(u, a, b)
  <2> HIDE DEF u, n, a, b
  <2>1. LET y == DropNext(x, k)
        IN  /\ y.v \in Views(R) /\ Edited(u, y.v, k, k + 1, k, -NextSize(u, k))
            /\ y.v.last = u.last /\ y.v.blocks[k] = u.blocks[k]
            /\ y.v.offsets[k] = u.offsets[k]
            /\ y.todo = a - NextSize(u, k) /\ y.over = b - NextSize(u, k)
            /\ y = [v |-> y.v, todo |-> y.todo, over |-> y.over]
    BY <1>2, <1>3, DropNextEdits DEF n
  <2>2. x = d
    BY <1>2 DEF a, b
  <2> HIDE DEF x
  <2> QED BY <2>1, <2>2 DEF a, b
<1>5. Edited(u, w, k, j, k, m)
  BY <1>4
<1> HIDE DEF u, e, w, n, size, o, m, j
<1>6. Shape(R, w) /\ w.offsets[Len(w.blocks)] = u.offsets[n] + m /\ u.offsets[n] \in Nat
  BY <1>2, <1>3, <1>4, <1>5, EditedFits, EditedEnd DEF n
<1>7. Recalls(w, k)
  <2>1. w.last.limit > 0 => w.last = u.last /\ w.last.slot < k
    BY <1>1, <1>2, <1>4 DEF Recalls
  <2> QED BY <1>2, <1>3, <1>4, <1>5, <2>1, RecallsKept DEF n
<1>8. Settled(w, k, k)
  <2>1. Settled(u, k, j)
    BY <1>1, <1>2, <1>3 DEF Settled, j
  <2> QED BY <1>2, <1>3, <1>5, <2>1, SettledKept DEF n
<1>9. Len(w.blocks) = n - 1 /\ Start(w, k) = Start(u, k)
  <2>1. Len(w.blocks) = Len(u.blocks) + k - j /\ Start(w, k) = Start(u, k)
    BY <1>5 DEF Edited
  <2> QED BY <1>1, <2>1 DEF n, j
<1>10. e.todo \in Nat /\ e.over \in Int
  <2> DEFINE a == d.todo
             b == d.over
  <2>1. a \in Nat /\ b \in Int /\ pos + a = o + b /\ b >= size
    BY <1>1, <1>3
  <2>2. e.todo = a - size /\ e.over = b - size
    BY <1>4
  <2> HIDE DEF a, b
  <2>3. a - size \in Nat /\ b - size \in Int
    BY <1>1, <1>3, <2>1
  <2> QED BY <2>2, <2>3
<1>11. /\ pos + e.todo <= w.offsets[Len(w.blocks)]
       /\ e.over = at + e.todo - Len(w.blocks[k])
  <2> DEFINE len == Len(u.blocks[k])
             last1 == u.offsets[n]
             a == d.todo
             b == d.over
  <2>1. /\ len \in Nat /\ last1 \in Nat /\ pos + a <= last1 /\ b = at + a - len
        /\ a \in Int /\ b \in Int
    BY <1>1, <1>2, <1>6
  <2>2. w.offsets[Len(w.blocks)] = last1 - size
    BY <1>3, <1>6 DEF m
  <2>3. e.todo = a - size /\ e.over = b - size /\ Len(w.blocks[k]) = len
    BY <1>4
  <2> HIDE DEF len, last1, a, b
  <2>4. pos + (a - size) <= last1 - size /\ b - size = at + (a - size) - len
    BY <1>1, <1>3, <2>1
  <2> QED BY <2>2, <2>3, <2>4
<1>12. ASSUME NEW h, Leaves(R, v, pos, count, h) PROVE Leaves(R, w, pos, e.todo, h)
  <2>1. Leaves(R, u, pos, d.todo, h)
    BY <1>2, <1>12
  <2>2. \A f \in Seq(R) : \A g \in Seq(R) :
          Shown(u, f) /\ Spliced(f, g, o, size, <<>>) => Shown(w, g)
    <3>1. size = NextSize(u, k) /\ Edited(u, w, k, k + 1, k, -size)
      BY <1>4 DEF size
    <3> QED BY <1>2, <1>3, <1>4, <3>1, DropNextShows DEF n, o
  <2>3. o \in Nat /\ pos <= o /\ o + size <= pos + d.todo
    BY <1>1, <1>3, SMTT(30)
  <2> DEFINE a == d.todo
  <2>4. a \in Nat /\ pos \in Nat /\ size \in Nat /\ e.todo = a - size
    BY <1>1, <1>3, <1>4
  <2>5. Leaves(R, u, pos, a, h) /\ o + size <= pos + a
    BY <2>1, <2>3
  <2> HIDE DEF a
  <2>6. Leaves(R, w, pos, a - size, h)
    BY <2>2, <2>3, <2>4, <2>5, LeavesLess
  <2> QED BY <2>4, <2>6
<1>13. e \in Removing(R, v, pos, count, k, at)
  <2>1. k \in 1 .. Len(w.blocks)
    BY <1>1, <1>3, <1>9
  <2>2. e \in [v : Views(R), todo : Nat, over : Int]
    BY <1>4, <1>10
  <2>3. e.v = w /\ at \in 0 .. Len(w.blocks[k]) /\ pos = Start(w, k) + at
    BY <1>2, <1>4, <1>9 DEF w
  <2> QED BY <1>6, <1>7, <1>8, <1>11, <1>12, <2>1, <2>2, <2>3 DEF Removing
<1>14. e \in Dropping(R, v, pos, count, k, at)
  BY <1>2, <1>4, <1>11, <1>13 DEF Dropping, w
<1> QED BY <1>9, <1>14 DEF e, w, n, u

\* What the recursive function in Dropped is defined to be.
Drops(drop, d, k) ==
  drop = [j \in 0 .. Len(d.v.blocks) - k |->
           IF j = 0 THEN d
           ELSE LET e == drop[j - 1]
                IN  IF k < Len(e.v.blocks) /\ e.over >= NextSize(e.v, k)
                    THEN DropNext(e, k) ELSE e]

\* The loop leaves a removal that does not reach past the next block.
LEMMA DropsFacts ==
  ASSUME NEW R, NEW v, NEW pos, NEW count, NEW k, NEW at,
         NEW d \in Dropping(R, v, pos, count, k, at)
  PROVE  /\ \E drop : Drops(drop, d, k)
         /\ \A drop : Drops(drop, d, k) =>
              LET e == drop[Len(d.v.blocks) - k]
              IN  /\ e \in Dropping(R, v, pos, count, k, at)
                  /\ k < Len(e.v.blocks) => ~(e.over >= NextSize(e.v, k))
<1> DEFINE n == Len(d.v.blocks) - k
           S == Dropping(R, v, pos, count, k, at)
           More(e) == k < Len(e.v.blocks) /\ e.over >= NextSize(e.v, k)
           Step(e) == IF More(e) THEN DropNext(e, k) ELSE e
           G == [e \in S |-> Step(e)]
           M == [e \in S |-> Len(e.v.blocks) - k]
<1>1. \A e \in S : Len(e.v.blocks) \in Nat /\ k \in Nat /\ k <= Len(e.v.blocks)
  <2>1. \A e \in S : Len(e.v.blocks) \in Nat /\ k \in Nat
    BY DroppingFacts
  <2>2. \A e \in S : k \in 1 .. Len(e.v.blocks)
    BY DEF Dropping, Removing
  <2> QED BY <2>1, <2>2
<1>2. ASSUME NEW e \in S
      PROVE  Step(e) \in S /\ (More(e) => Len(Step(e).v.blocks) = Len(e.v.blocks) - 1)
  <2>1. CASE More(e)
    <3>1. Step(e) = DropNext(e, k)
      BY <2>1
    <3>2. DropNext(e, k) \in S /\ Len(DropNext(e, k).v.blocks) = Len(e.v.blocks) - 1
      BY <2>1, DropNextFacts
    <3> QED BY <3>1, <3>2
  <2>2. CASE ~More(e)
    BY <2>2
  <2> QED BY <2>1, <2>2
<1> HIDE DEF S, Step, More
<1>3. d \in S /\ n \in Nat
  <2>1. d \in S
    BY DEF S
  <2> QED BY <1>1, <2>1
<1>4. G \in [S -> S] /\ M \in [S -> Nat] /\ M[d] <= n
  <2>1. \A e \in S : Len(e.v.blocks) - k \in Nat
    BY <1>1
  <2>2. M[d] = n
    BY <1>3
  <2> QED BY <1>2, <1>3, <2>1, <2>2
<1>5. ASSUME NEW e \in S PROVE G[e] = e \/ M[G[e]] < M[e]
  <2>1. G[e] = Step(e) /\ M[e] = Len(e.v.blocks) - k /\ M[Step(e)] = Len(Step(e).v.blocks) - k
    BY <1>2
  <2>2. Step(e) = e \/ More(e)
    BY DEF Step
  <2>3. More(e) => Len(Step(e).v.blocks) - k < Len(e.v.blocks) - k
    <3>1. k \in Int /\ Len(e.v.blocks) \in Int
      BY <1>1
    <3> QED BY <1>2, <3>1
  <2> QED BY <2>1, <2>2, <2>3
<1>6. Repeats(n, S, d, G, M)
  BY <1>3, <1>4, <1>5 DEF Repeats
<1>7. \A e \in S : G[e] = Step(e)
  OBVIOUS
<1>8. ASSUME NEW e \in S, G[e] = e PROVE ~More(e)
  <2>1. Step(e) = e
    BY <1>7, <1>8
  <2>2. Len(e.v.blocks) # Len(e.v.blocks) - 1
    BY <1>1
  <2> QED BY <1>2, <2>1, <2>2
<1> HIDE DEF G, M, n
<1>9. \E drop : Drops(drop, d, k)
  <2>1. PICK f \in [0 .. n -> S] : f[0] = d /\ \A i \in 1 .. n : f[i] = G[f[i - 1]]
    BY <1>6, RepeatedFunction
  <2>2. ASSUME NEW j \in 0 .. n PROVE f[j] = IF j = 0 THEN d ELSE Step(f[j - 1])
    <3>1. CASE j = 0
      BY <2>1, <3>1
    <3>2. CASE j # 0
      <4>1. j \in 1 .. n /\ j - 1 \in 0 .. n
        BY <1>3, <3>2
      <4>2. f[j] = G[f[j - 1]] /\ f[j - 1] \in S
        BY <2>1, <4>1
      <4> QED BY <1>7, <3>2, <4>2
    <3> QED BY <3>1, <3>2
  <2>3. f = [j \in 0 .. n |-> IF j = 0 THEN d ELSE Step(f[j - 1])]
    BY <2>1, <2>2
  <2> QED BY <2>3 DEF Drops, Step, More, n
<1>10. ASSUME NEW drop, Drops(drop, d, k)
       PROVE  drop[n] \in S /\ ~More(drop[n])
  <2>1. drop = [j \in 0 .. n |-> IF j = 0 THEN d ELSE Step(drop[j - 1])]
    BY <1>10 DEF Drops, Step, More, n
  <2>2. \A j \in 0 .. n : drop[j] = IF j = 0 THEN d ELSE Step(drop[j - 1])
    BY <2>1
  <2>3. drop[0] = d
    BY <1>3, <2>2
  <2>4. \A j \in 1 .. n : drop[j] = Step(drop[j - 1])
    <3>1. \A j \in 1 .. n : j \in 0 .. n /\ j # 0
      BY <1>3
    <3> QED BY <2>2, <3>1
  <2>5. \A j \in 0 .. n : drop[j] \in S
    <3> DEFINE T == {j \in 0 .. n : drop[j] \in S}
    <3>1. 0 \in T
      BY <1>3, <2>3
    <3>2. ASSUME NEW j \in 1 .. n, j - 1 \in T PROVE j \in T
      <4>1. j \in 0 .. n /\ drop[j - 1] \in S
        BY <1>3, <3>2
      <4> QED BY <1>2, <2>4, <4>1
    <3> HIDE DEF T
    <3>3. \A j \in 0 .. n : j \in T
      BY <1>3, <3>1, <3>2, CountingUp
    <3> QED BY <3>3 DEF T
  <2>6. \A j \in 1 .. n : drop[j] = G[drop[j - 1]]
    <3>1. \A j \in 1 .. n : j - 1 \in 0 .. n
      BY <1>3
    <3> QED BY <1>7, <2>4, <2>5, <3>1
  <2>7. drop[n] \in S /\ G[drop[n]] = drop[n]
    BY <1>6, <2>3, <2>6, RepeatedEnds
  <2> QED BY <1>8, <2>7
<1> QED BY <1>9, <1>10 DEF S, n, More

\* Dropped as a whole.
LEMMA DroppedFacts ==
  ASSUME NEW R, NEW v, NEW pos, NEW count, NEW k, NEW at,
         NEW d \in Dropping(R, v, pos, count, k, at)
  PROVE  LET e == Dropped(d, k)
         IN  /\ e \in Dropping(R, v, pos, count, k, at)
             /\ k < Len(e.v.blocks) => e.over - 1 < Len(e.v.blocks[k + 1])
<1> DEFINE drop == CHOOSE f : Drops(f, d, k)
           x == drop[Len(d.v.blocks) - k]
           e == IF d.over > 0 THEN x ELSE d
<1>1. Drops(drop, d, k)
  BY DropsFacts, Zenon
<1>2. Dropped(d, k) = e
  BY Zenon DEF Dropped, Drops
<1> HIDE DEF drop
<1>3. /\ x \in Dropping(R, v, pos, count, k, at)
      /\ k < Len(x.v.blocks) => ~(x.over >= NextSize(x.v, k))
  BY <1>1, DropsFacts
<1> HIDE DEF x
<1>4. /\ e \in Dropping(R, v, pos, count, k, at)
      /\ e.over <= 0 \/ (k < Len(e.v.blocks) => ~(e.over >= NextSize(e.v, k)))
  <2>1. CASE d.over > 0
    BY <1>3, <2>1
  <2>2. CASE ~(d.over > 0)
    <3>1. e = d /\ d.over \in Int
      BY <2>2, DroppingFacts
    <3> QED BY <2>2, <3>1
  <2> QED BY <2>1, <2>2
<1> HIDE DEF e
<1>5. ASSUME k < Len(e.v.blocks) PROVE e.over - 1 < Len(e.v.blocks[k + 1])
  <2> DEFINE len == Len(e.v.blocks[k + 1])
             over == e.over
             size == NextSize(e.v, k)
  <2>1. /\ over \in Int /\ len \in Nat /\ len >= 1 /\ size = 1 + len
    BY <1>4, <1>5, DroppingFacts
  <2>2. over <= 0 \/ ~(over >= size)
    BY <1>4, <1>5
  <2> HIDE DEF len, over, size
  <2>3. over - 1 < len
    BY <2>1, <2>2
  <2> QED BY <2>3 DEF len, over
<1> QED BY <1>2, <1>4, <1>5

\* Rows cut out of a block.
CutOut(R, v, q, k, at, cut, x) ==
  /\ Shape(R, v) /\ Recalls(v, k) /\ q \in 1 .. Len(v.blocks) /\ k \in 1 .. q
  /\ at \in Nat /\ cut \in Nat /\ at + cut <= Len(v.blocks[q])
  /\ x \in Seq(R) /\ Spliced(v.blocks[q], x, at, cut, <<>>)

\* The view without those rows fits together, and no longer shows them.
LEMMA CutFacts ==
  ASSUME NEW R, NEW v, NEW q, NEW k, NEW at, NEW cut, NEW x, CutOut(R, v, q, k, at, cut, x)
  PROVE  LET w == WithBlock(v, q, x, -cut)
         IN  /\ Shape(R, w) /\ Recalls(w, k)
             /\ Len(w.blocks) = Len(v.blocks) /\ w.blocks[q] = x
             /\ Len(x) = Len(v.blocks[q]) - cut
             /\ \A i \in 1 .. Len(v.blocks) : i # q => w.blocks[i] = v.blocks[i]
             /\ \A i \in 1 .. q : Start(w, i) = Start(v, i)
             /\ w.offsets[Len(w.blocks)] = v.offsets[Len(v.blocks)] - cut
             /\ \A f \in Seq(R) : \A g :
                  Shown(v, f) /\ Spliced(f, g, Start(v, q) + at, cut, <<>>) => Shown(w, g)
<1> DEFINE new == <<>>
           w == WithBlock(v, q, x, Len(new) - cut)
<1>0. /\ Shape(R, v) /\ Recalls(v, k) /\ q \in 1 .. Len(v.blocks) /\ k \in 1 .. q
      /\ at \in Nat /\ cut \in Nat /\ at + cut <= Len(v.blocks[q])
      /\ x \in Seq(R) /\ Spliced(v.blocks[q], x, at, cut, <<>>)
  BY DEF CutOut
<1>1. Len(<<>>) = 0 /\ <<>> \in Seq(R) /\ 0 - cut = -cut
  BY <1>0
<1>2. Refill(R, v, q, k, at, cut, new, x)
  BY <1>0, <1>1 DEF Refill
<1>3. Len(new) - cut = -cut
  BY <1>1
<1>4. Len(x) = Len(v.blocks[q]) - cut
  <2>1. Len(x) = Len(v.blocks[q]) - cut + 0
    BY <1>0, <1>1 DEF Spliced
  <2>2. Len(v.blocks[q]) \in Nat
    BY <1>0, ShapeFacts
  <2> QED BY <1>0, <2>1, <2>2
<1>5. v.offsets[Len(v.blocks)] \in Int
  BY <1>0, ShapeFacts
<1> HIDE DEF new
<1>6. /\ Shape(R, w) /\ Recalls(w, k)
      /\ Len(w.blocks) = Len(v.blocks) /\ w.blocks[q] = x
      /\ \A i \in 1 .. Len(v.blocks) : i # q => w.blocks[i] = v.blocks[i]
      /\ \A i \in 1 .. q : Start(w, i) = Start(v, i)
      /\ w.offsets[Len(w.blocks)] = v.offsets[Len(v.blocks)] + (Len(new) - cut)
      /\ \A f \in Seq(R) : \A g :
           Shown(v, f) /\ Spliced(f, g, Start(v, q) + at, cut, new) => Shown(w, g)
  BY <1>2, WithBlockFacts
<1>7. w.offsets[Len(w.blocks)] = v.offsets[Len(v.blocks)] - cut
  <2> DEFINE o == v.offsets[Len(v.blocks)]
  <2> HIDE DEF w, o
  <2>1. w.offsets[Len(w.blocks)] = o + (-cut) /\ o \in Int
    BY <1>3, <1>5, <1>6 DEF o
  <2> QED BY <1>0, <2>1 DEF o
<1>8. w = WithBlock(v, q, x, -cut)
  BY <1>3
<1> HIDE DEF w
<1> QED BY <1>4, <1>6, <1>7, <1>8 DEF new

\* The second phase: what is still to be removed reaches to the row after the
\* block at most.
Reaching(R, v, pos, count, k, at) ==
  {d \in Removing(R, v, pos, count, k, at) :
     /\ at + d.todo <= Len(d.v.blocks[k]) + 1
     /\ at + d.todo > Len(d.v.blocks[k]) => k < Len(d.v.blocks)
     /\ Len(d.v.blocks[k]) <= Limit + 1}

\* Rows at the front of the next block are cut off.
FrontCut(d, k) ==
  LET n == d.over - 1
  IN  Doing([d.v EXCEPT !.blocks[k + 1] = After(@, n),
                        !.offsets       = Shifted(@, k + 1, -n)],
            d.todo - n, d.over)

\* After that what is still to be removed ends with the row after block k.
LEMMA FrontFacts ==
  ASSUME NEW R, NEW v, NEW pos, NEW count, NEW k, NEW at,
         NEW d \in Dropping(R, v, pos, count, k, at),
         k < Len(d.v.blocks), d.over - 1 > 0, d.over - 1 < Len(d.v.blocks[k + 1])
  PROVE  LET e == FrontCut(d, k)
         IN  /\ e \in Reaching(R, v, pos, count, k, at)
             /\ k < Len(e.v.blocks) /\ at + e.todo = Len(e.v.blocks[k]) + 1
<1> DEFINE u == d.v
           j == k + 1
           n == d.over - 1
           b == u.blocks[j]
           x == After(b, n)
           w == WithBlock(u, j, x, -n)
           todo == d.todo
           over == d.over
           len == Len(u.blocks[k])
           o == u.offsets[k]
           e == Doing(w, todo - n, over)
<1>1. /\ k \in Nat /\ k >= 1 /\ at \in Nat /\ pos \in Nat
      /\ Len(u.blocks) \in Nat /\ todo \in Nat /\ over \in Int
      /\ o \in Nat /\ pos <= o /\ pos + todo = o + over
      /\ len \in Nat /\ Len(b) \in Nat /\ at <= len
      /\ Start(u, j) = o + 1
  BY DroppingFacts
<1>2. /\ Shape(R, u) /\ k \in 1 .. Len(u.blocks) /\ Recalls(u, k) /\ Settled(u, k, k)
      /\ at \in 0 .. len /\ pos = Start(u, k) + at
      /\ pos + todo <= u.offsets[Len(u.blocks)]
      /\ over = at + todo - len /\ len <= Limit + 1
      /\ \A h : Leaves(R, v, pos, count, h) => Leaves(R, u, pos, todo, h)
      /\ u \in Views(R)
  BY DEF Removing, Dropping
<1> HIDE DEF Dropping, Removing
<1>3. k < Len(u.blocks) /\ n > 0 /\ n < Len(b)
  OBVIOUS
<1>4. Doing([u EXCEPT !.blocks[j] = After(@, n), !.offsets = Shifted(@, j, -n)], todo - n, over) = e
  <2> DEFINE bs == [u.blocks EXCEPT ![j] = x]
             os == Shifted(u.offsets, j, -n)
  <2>1. [u EXCEPT !.blocks[j] = After(@, n), !.offsets = Shifted(@, j, -n)]
          = [u EXCEPT !.blocks = bs, !.offsets = os]
    <3> HIDE DEF u, j, n
    <3> QED BY <1>2 DEF Views
  <2> HIDE DEF x, bs, os
  <2>2. [u EXCEPT !.blocks = bs, !.offsets = os]
          = [blocks |-> bs, seps |-> u.seps, offsets |-> os, last |-> u.last]
    BY <1>2, ViewSet
  <2>3. [blocks |-> bs, seps |-> u.seps, offsets |-> os, last |-> u.last] = w
    BY DEF WithBlock, bs, os
  <2> HIDE DEF w
  <2> QED BY <2>1, <2>2, <2>3
<1>5. j \in 1 .. Len(u.blocks) /\ k \in 1 .. j /\ j # k /\ n \in Nat /\ n + 1 = over
  <2>1. n = over - 1
    OBVIOUS
  <2> HIDE DEF u, over, n
  <2> QED BY <1>1, <1>3, <2>1
<1> HIDE DEF u, j, n, b, todo, over, len, o
<1>6. b \in Seq(R) /\ Len(b) \in Nat /\ 0 + n <= Len(b) /\ n \in 0 .. Len(b) /\ 0 \in Nat
  <2>1. b \in Seq(R)
    BY <1>2, <1>5, ShapeFacts DEF b
  <2> QED BY <1>1, <1>3, <1>5, <2>1
<1>7. x \in Seq(R) /\ Spliced(b, x, 0, n, <<>>) /\ Len(x) = Len(b) - n
  <2>1. x \in Seq(R) /\ Len(x) = Len(b) - n /\ \A i \in 1 .. Len(b) - n : x[i] = b[n + i]
    BY <1>6, AfterFacts
  <2> HIDE DEF x
  <2>2. Len(<<>>) = 0
    OBVIOUS
  <2>3. ASSUME NEW p \in 0 + n + 1 .. Len(b) PROVE x[p - n + 0] = b[p]
    <3>1. p - n \in 1 .. Len(b) - n /\ n + (p - n) = p /\ p - n + 0 = p - n
      BY <1>5, <1>6
    <3> QED BY <2>1, <3>1
  <2>4. Len(x) = Len(b) - n + 0
    BY <1>5, <1>6, <2>1
  <2> QED BY <2>1, <2>2, <2>3, <2>4 DEF Spliced
<1> HIDE DEF x
<1>8. /\ Shape(R, w) /\ Recalls(w, k)
      /\ Len(w.blocks) = Len(u.blocks) /\ w.blocks[j] = x
      /\ \A i \in 1 .. Len(u.blocks) : i # j => w.blocks[i] = u.blocks[i]
      /\ \A i \in 1 .. j : Start(w, i) = Start(u, i)
      /\ w.offsets[Len(w.blocks)] = u.offsets[Len(u.blocks)] - n
      /\ \A f \in Seq(R) : \A g :
           Shown(u, f) /\ Spliced(f, g, Start(u, j) + 0, n, <<>>) => Shown(w, g)
  <2>1. Spliced(u.blocks[j], x, 0, n, <<>>) /\ 0 + n <= Len(u.blocks[j])
    BY <1>6, <1>7 DEF b
  <2> HIDE DEF e
  <2> DEFINE zero == 0
  <2>2. zero \in Nat /\ zero + n <= Len(u.blocks[j]) /\ Spliced(u.blocks[j], x, zero, n, <<>>)
    BY <2>1
  <2> HIDE DEF zero
  <2>3. /\ Shape(R, w) /\ Recalls(w, k)
        /\ Len(w.blocks) = Len(u.blocks) /\ w.blocks[j] = x
        /\ \A i \in 1 .. Len(u.blocks) : i # j => w.blocks[i] = u.blocks[i]
        /\ \A i \in 1 .. j : Start(w, i) = Start(u, i)
        /\ w.offsets[Len(w.blocks)] = u.offsets[Len(u.blocks)] - n
        /\ \A f \in Seq(R) : \A g :
             Shown(u, f) /\ Spliced(f, g, Start(u, j) + zero, n, <<>>) => Shown(w, g)
    <3>1. Shape(R, u) /\ Recalls(u, k)
      BY <1>2
    <3>2. j \in 1 .. Len(u.blocks) /\ k \in 1 .. j /\ n \in Nat
      BY <1>5
    <3>3. CutOut(R, u, j, k, zero, n, x)
      BY <1>7, <2>2, <3>1, <3>2 DEF CutOut
    <3> QED BY <3>3, CutFacts
  <2> HIDE DEF w
  <2> QED BY <2>3 DEF zero
<1> HIDE DEF w
<1>9. w.blocks[k] = u.blocks[k] /\ Start(w, k) = Start(u, k) /\ Len(w.blocks[k]) = len
  BY <1>2, <1>5, <1>8 DEF len
<1>10. e.v = w /\ e.todo = todo - n /\ e.over = over
       /\ e \in [v : Views(R), todo : Nat, over : Int]
  <2>1. todo - n \in Nat
    BY <1>1, <1>5
  <2> QED BY <1>1, <1>8, <2>1 DEF Doing, Shape
<1> HIDE DEF e
<1>11. Settled(w, k, k)
  <2>1. ASSUME NEW i \in 1 .. Len(w.blocks), i < k \/ i > k PROVE Sound(Len(w.blocks[i]), i)
    <3>1. CASE i = j
      <4>1. Sound(Len(b), j)
        BY <1>2, <1>8, <2>1, <3>1 DEF Settled, b
      <4>2. Limit \in Nat
        BY BlockedViewAssumption
      <4>3. Len(x) >= 1 /\ Len(x) <= Limit + 1
        BY <1>3, <1>5, <1>6, <1>7, <4>1, <4>2 DEF Sound
      <4> QED BY <1>8, <3>1, <4>3 DEF Sound
    <3>2. CASE i # j
      BY <1>2, <1>8, <2>1, <3>2 DEF Settled
    <3> QED BY <3>1, <3>2
  <2> QED BY <2>1 DEF Settled
<1>12. at + e.todo = Len(w.blocks[k]) + 1
  BY <1>1, <1>2, <1>5, <1>9, <1>10
<1>13. pos + e.todo <= w.offsets[Len(w.blocks)]
  <2> DEFINE z == u.offsets[Len(u.blocks)]
  <2>1. z \in Int
    BY <1>2, ShapeFacts
  <2>2. pos + todo <= z /\ w.offsets[Len(w.blocks)] = z - n
    BY <1>2, <1>8
  <2> HIDE DEF z
  <2> QED BY <1>1, <1>5, <1>10, <2>1, <2>2, SMTT(30)
<1>14. ASSUME NEW h, Leaves(R, v, pos, count, h) PROVE Leaves(R, w, pos, e.todo, h)
  <2> DEFINE q == Start(u, j) + 0
  <2>1. q \in Nat /\ pos <= q /\ q + n <= pos + todo
    BY <1>1, <1>5
  <2>2. \A f \in Seq(R) : \A g \in Seq(R) : Shown(u, f) /\ Spliced(f, g, q, n, <<>>) => Shown(w, g)
    BY <1>8
  <2> HIDE DEF q
  <2>3. Leaves(R, u, pos, todo, h)
    BY <1>2, <1>14
  <2>4. Leaves(R, w, pos, todo - n, h)
    BY <1>1, <1>5, <2>1, <2>2, <2>3, LeavesLess
  <2> QED BY <1>10, <2>4
<1>15. e \in Removing(R, v, pos, count, k, at)
  <2>1. k \in 1 .. Len(w.blocks) /\ at \in 0 .. Len(w.blocks[k]) /\ pos = Start(w, k) + at
    BY <1>2, <1>8, <1>9
  <2> QED BY <1>8, <1>10, <1>11, <1>13, <1>14, <2>1 DEF Removing
<1>16. e \in Reaching(R, v, pos, count, k, at) /\ k < Len(e.v.blocks)
  <2>1. at + e.todo <= Len(w.blocks[k]) + 1
    BY <1>1, <1>9, <1>12
  <2> QED BY <1>2, <1>3, <1>8, <1>9, <1>10, <1>15, <2>1 DEF Reaching
<1>17. FrontCut(d, k) = e
  BY <1>4 DEF FrontCut, u, j, n, todo, over
<1> QED BY <1>10, <1>12, <1>16, <1>17

\* The first row of the next block takes the place of the row before it.
LEMMA RotateEdits ==
  ASSUME NEW R, NEW v, Shape(R, v), NEW k \in 1 .. Len(v.blocks) - 1,
         Len(v.blocks[k + 1]) >= 1, NEW todo, NEW over
  PROVE  LET e == RotateSep(Doing(v, todo, over), k)
             w == e.v
         IN  /\ w \in Views(R) /\ Edited(v, w, k, k + 1, k + 1, -1)
             /\ w.last = v.last /\ w.blocks[k] = v.blocks[k]
             /\ w.blocks[k + 1] = Tail(v.blocks[k + 1])
             /\ w.seps[k] = v.blocks[k + 1][1] /\ w.offsets[k] = v.offsets[k]
             /\ Start(w, k + 1) = Start(v, k + 1)
             /\ e = Doing(w, todo - 1, over)
<1> DEFINE n == Len(v.blocks)
           j == k + 1
           b == v.blocks[j]
           x == Tail(b)
           bs == [v.blocks EXCEPT ![j] = x]
           ss == [v.seps EXCEPT ![k] = b[1]]
           os == Shifted(v.offsets, j, -1)
           w == [blocks |-> bs, seps |-> ss, offsets |-> os, last |-> v.last]
           e == RotateSep(Doing(v, todo, over), k)
<1>1. /\ n \in Nat /\ v.blocks \in Seq(Seq(R)) /\ v.seps \in Seq(R) /\ v.offsets \in Seq(Int)
      /\ Len(v.seps) = n - 1 /\ Len(v.offsets) = n
      /\ v.last \in [base : Int, limit : Int, slot : Int]
      /\ \A i \in 1 .. n : v.offsets[i] \in Int /\ v.blocks[i] \in Seq(R)
      /\ v \in Views(R)
  BY ShapeFacts DEF Shape
<1>2. j \in 1 .. n /\ k \in 1 .. n /\ k \in 1 .. j /\ j # k /\ k \in Int
  BY <1>1
<1>3. e = Doing(w, todo - 1, over)
  <2>1. [v EXCEPT !.seps = ss, !.blocks = bs, !.offsets = os] = w
    <3> DEFINE y == [v EXCEPT !.seps = ss]
               z == [y EXCEPT !.blocks = bs]
    <3> HIDE DEF ss, bs, os
    <3>1. y = [blocks |-> v.blocks, seps |-> ss, offsets |-> v.offsets, last |-> v.last]
      <4>1. v \in Views(R)
        BY <1>1
      <4> HIDE DEF w, e, z, n, j, b, x
      <4> QED BY <4>1, ViewSeps
    <3>2. z = [blocks |-> bs, seps |-> ss, offsets |-> v.offsets, last |-> v.last]
      <4> HIDE DEF y
      <4> QED BY <3>1
    <3>3. [z EXCEPT !.offsets = os] = w
      <4> HIDE DEF z
      <4> QED BY <3>2
    <3> QED BY <3>3
  <2>2. e = Doing([v EXCEPT !.seps = ss, !.blocks = bs, !.offsets = os], todo - 1, over)
    BY <1>1 DEF RotateSep, Doing, Views
  <2> HIDE DEF w, e
  <2> QED BY <2>1, <2>2
<1> HIDE DEF e, w
<1>4. e.v = w
  BY <1>3 DEF Doing
<1> USE DEF w
<1> HIDE DEF j
<1>5. b \in Seq(R) /\ Len(b) >= 1 /\ Len(b) \in Nat
  <2>1. v.blocks[j] \in Seq(R)
    <3> HIDE DEF n
    <3> QED BY <1>1, <1>2
  <2>2. b \in Seq(R)
    BY <2>1
  <2>3. Len(b) >= 1
    BY DEF j
  <2> HIDE DEF b
  <2> QED BY <2>2, <2>3
<1> HIDE DEF b
<1>6. x \in Seq(R) /\ Len(x) = Len(b) + (-1) /\ b[1] \in R
  <2>1. b # <<>>
    BY <1>5
  <2> QED BY <1>5, <2>1, HeadTailProperties
<1> HIDE DEF x
<1>7. /\ bs \in Seq(Seq(R)) /\ Len(bs) = n /\ bs[j] = x
      /\ \A i \in 1 .. n : i # j => bs[i] = v.blocks[i]
  <2>1. j \in 1 .. Len(v.blocks)
    BY <1>2
  <2> DEFINE c == v.blocks
             a == [c EXCEPT ![j] = x]
  <2>2. a = bs /\ c \in Seq(Seq(R)) /\ j \in 1 .. Len(c)
    BY <1>1, <2>1
  <2> HIDE DEF c, w, n, bs, ss, os
  <2>3. /\ a \in Seq(Seq(R)) /\ Len(a) = Len(c) /\ a[j] = x
        /\ \A i \in 1 .. Len(c) : i # j => a[i] = c[i]
    BY <1>6, <2>2, BlockReplaced
  <2> HIDE DEF a
  <2> QED BY <2>2, <2>3 DEF c, n
<1>8. /\ ss \in Seq(R) /\ Len(ss) = n - 1 /\ ss[k] = b[1]
      /\ \A i \in 1 .. n - 1 : i # k => ss[i] = v.seps[i]
  <2>1. k \in 1 .. Len(v.seps)
    BY <1>1
  <2> HIDE DEF n
  <2> QED BY <1>1, <1>6, <2>1, SMTT(30)
<1>9. /\ os \in Seq(Int) /\ Len(os) = n
      /\ \A i \in 1 .. n : os[i] = IF i >= j THEN v.offsets[i] + (-1) ELSE v.offsets[i]
  <2> DEFINE o == v.offsets
             m == -1
  <2>1. o \in Seq(Int) /\ m \in Int /\ j \in Int /\ Len(o) = n
    BY <1>1, <1>2
  <2> HIDE DEF o, m, n
  <2>2. /\ Shifted(o, j, m) \in Seq(Int) /\ Len(Shifted(o, j, m)) = Len(o)
        /\ \A i \in 1 .. Len(o) : Shifted(o, j, m)[i] = IF i >= j THEN o[i] + m ELSE o[i]
    BY <2>1, ShiftedFacts
  <2> QED BY <2>1, <2>2 DEF o, m
<1> HIDE DEF bs, ss, os, n
<1>10. w \in Views(R)
  BY <1>1, <1>7, <1>8, <1>9 DEF Views
<1>11. bs[k] = v.blocks[k] /\ os[k] = v.offsets[k]
  BY <1>2, <1>7, <1>9 DEF j
<1>12. Edited(v, w, k, j, j, -1) /\ Start(w, j) = Start(v, j)
  <2> DEFINE m == -1
  <2>1. m \in Int /\ j \in 1 .. Len(v.blocks) /\ k \in 1 .. j
    BY <1>2 DEF n
  <2>2. /\ Len(w.blocks) = Len(v.blocks) /\ Len(w.seps) = Len(v.seps)
        /\ Len(w.offsets) = Len(v.offsets)
    BY <1>1, <1>7, <1>8, <1>9 DEF n
  <2>3. Len(w.blocks[j]) = Len(v.blocks[j]) + m
    BY <1>6, <1>7 DEF b
  <2>4. \A i \in 1 .. Len(v.blocks) : i # j => w.blocks[i] = v.blocks[i]
    BY <1>7 DEF n
  <2>5. \A i \in 1 .. Len(v.blocks) :
          w.offsets[i] = IF i >= j THEN v.offsets[i] + m ELSE v.offsets[i]
    BY <1>9 DEF n
  <2>6. \A i \in 1 .. Len(v.seps) : i < k \/ i >= j => w.seps[i] = v.seps[i]
    <3>1. \A i \in 1 .. n - 1 : i < k \/ i >= j => i # k
      BY <1>2 DEF j
    <3> QED BY <1>1, <1>8, <3>1
  <2> HIDE DEF w, m
  <2>7. Edited(v, w, k, j, j, m) /\ Start(w, j) = Start(v, j)
    <3>1. OnlyBlock(v, w, k, j, m)
      BY <2>2, <2>3, <2>4, <2>5, <2>6 DEF OnlyBlock
    <3> QED BY <2>1, <3>1, EditedOnly
  <2> QED BY <2>7 DEF m
<1>13. /\ w.last = v.last /\ w.blocks[k] = v.blocks[k] /\ w.blocks[j] = Tail(v.blocks[j])
       /\ w.seps[k] = v.blocks[j][1] /\ w.offsets[k] = v.offsets[k]
  BY <1>7, <1>8, <1>11 DEF x, b
<1> HIDE DEF w
<1> QED BY <1>3, <1>4, <1>10, <1>12, <1>13 DEF j, e

\* What is shown is then without that row.
LEMMA RotateShows ==
  ASSUME NEW R, NEW v, Shape(R, v), NEW k \in 1 .. Len(v.blocks) - 1,
         Len(v.blocks[k + 1]) >= 1, NEW w \in Views(R), Edited(v, w, k, k + 1, k + 1, -1),
         w.blocks[k] = v.blocks[k], w.blocks[k + 1] = Tail(v.blocks[k + 1]),
         w.seps[k] = v.blocks[k + 1][1], w.offsets[k] = v.offsets[k],
         Start(w, k + 1) = Start(v, k + 1),
         NEW f \in Seq(R), NEW g, Shown(v, f), Spliced(f, g, v.offsets[k], 1, <<>>)
  PROVE  Shown(w, g)
<1> DEFINE o == v.offsets[k]
           s == Start(v, k)
           j == k + 1
           b == v.blocks[k]
           c == v.blocks[j]
           m == -1
<1>1. /\ k \in 1 .. Len(v.blocks) /\ j \in k .. Len(v.blocks) /\ j \in 1 .. Len(v.blocks)
      /\ j \in 2 .. Len(v.blocks)
      /\ k \in Int /\ j >= k /\ m \in Int /\ Len(v.blocks) \in Nat /\ j - 1 = k /\ j \in Int
  BY ShapeFacts
<1> HIDE DEF j, m
<1>2. /\ o \in Int /\ s \in Int /\ b \in Seq(R) /\ c \in Seq(R)
      /\ Len(b) \in Nat /\ Len(c) \in Nat /\ v.offsets[j] \in Int
  BY <1>1, ShapeFacts
<1>3. o = s + Len(b) /\ s >= 0
  BY <1>1, OffsetsGrow
<1>4. Start(v, j) = o + 1 /\ v.offsets[j] = o + 1 + Len(c) /\ Len(c) >= 1
  <2>1. Start(v, j) = v.offsets[j - 1] + 1 /\ v.offsets[j] = v.offsets[j - 1] + 1 + Len(v.blocks[j])
    BY <1>1, ShapeFacts
  <2> QED BY <1>1, <2>1 DEF j
<1>5. Len(<<>>) = 0 /\ Len(f) \in Nat
  OBVIOUS
<1>6. /\ Len(g) = Len(f) - 1 + 0
      /\ \A p \in 1 .. o : g[p] = f[p]
      /\ \A p \in o + 1 + 1 .. Len(f) : g[p - 1 + 0] = f[p]
  BY <1>5 DEF Spliced
<1>7. /\ \A i \in 1 .. Len(b) : f[s + i] = b[i]
      /\ \A i \in 1 .. Len(c) : f[o + 1 + i] = c[i]
      /\ Len(f) = v.offsets[Len(v.blocks)]
  BY <1>1, <1>4 DEF Shown
<1>8. \A i \in 1 .. Len(c) : o + 1 + i \in o + 1 + 1 .. Len(f) /\ (o + 1 + i) - 1 + 0 = o + i
  <2>1. v.offsets[j] <= Len(f)
    <3>1. v.offsets[j] <= v.offsets[Len(v.blocks)]
      <4> DEFINE z == Len(v.blocks)
      <4>1. z \in 1 .. Len(v.blocks) /\ (j = z \/ j < z)
        BY <1>1
      <4>2. v.offsets[z] \in Int
        BY <4>1, ShapeFacts
      <4>3. j < z => v.offsets[j] < v.offsets[z]
        BY <1>1, <4>1, OffsetsGrow
      <4> HIDE DEF z
      <4>4. v.offsets[j] <= v.offsets[z]
        BY <1>2, <4>1, <4>2, <4>3
      <4> QED BY <4>4 DEF z
    <3> QED BY <1>7, <3>1
  <2> DEFINE y == v.offsets[j]
             l == Len(c)
  <2>2. y = o + 1 + l /\ l \in Nat /\ y <= Len(f)
    BY <1>2, <1>4, <2>1
  <2> HIDE DEF o, y, l
  <2>3. \A i \in 1 .. l : o + 1 + i \in o + 1 + 1 .. Len(f) /\ (o + 1 + i) - 1 + 0 = o + i
    BY <1>2, <1>5, <2>2
  <2> QED BY <2>3 DEF l
<1>9. \A i \in 1 .. Len(c) : g[o + i] = c[i]
  BY <1>6, <1>7, <1>8
<1>10. \A i \in 1 .. Len(b) : g[s + i] = b[i]
  <2>1. \A i \in 1 .. Len(b) : s + i \in 1 .. o
    <3> HIDE DEF s, o, b
    <3> QED BY <1>2, <1>3
  <2> QED BY <1>6, <1>7, <2>1
<1>11. Start(w, k) = s /\ Start(w, j) = o + 1
  BY <1>4 DEF Edited, j
<1>12. \A i \in 1 .. Len(w.blocks[j]) : g[o + 1 + i] = w.blocks[j][i]
  <2> DEFINE t == Tail(c)
  <2>1. w.blocks[j] = t
    BY DEF j
  <2>2. Len(t) = Len(c) - 1 /\ \A i \in 1 .. Len(c) - 1 : t[i] = c[i + 1]
    <3>1. c # <<>>
      BY <1>4
    <3> HIDE DEF c
    <3> QED BY <1>2, <3>1, HeadTailProperties
  <2>3. \A i \in 1 .. Len(c) - 1 : i + 1 \in 1 .. Len(c) /\ o + (i + 1) = o + 1 + i
    <3> HIDE DEF c, o
    <3> QED BY <1>2
  <2> HIDE DEF t, c, o
  <2> QED BY <1>9, <2>1, <2>2, <2>3
<1>13. Patches(v, w, k, j, j, m, f, g)
  <2>1. Len(g) = Len(f) + m
    BY <1>5, <1>6 DEF m
  <2>2. \A p \in 1 .. Start(v, k) : g[p] = f[p]
    <3>1. \A p \in 1 .. s : p \in 1 .. o
      <4> HIDE DEF s, o, b
      <4> QED BY <1>2, <1>3
    <3> QED BY <1>6, <3>1
  <2>3. ASSUME NEW p \in v.offsets[j] + 1 .. Len(f) PROVE g[p + m] = f[p]
    <3> HIDE DEF o, c
    <3>1. p \in o + 1 + 1 .. Len(f) /\ p - 1 + 0 = p + m
      BY <1>2, <1>4, <1>5 DEF m
    <3> QED BY <1>6, <3>1
  <2>4. ASSUME NEW i \in k .. j
        PROVE  \A q \in 1 .. Len(w.blocks[i]) : g[Start(w, i) + q] = w.blocks[i][q]
    <3>1. CASE i = k
      BY <1>10, <1>11, <3>1
    <3>2. CASE i = j
      BY <1>11, <1>12, <3>2
    <3>3. i = k \/ i = j
      BY <1>1 DEF j
    <3> QED BY <3>1, <3>2, <3>3
  <2>5. ASSUME NEW i \in k .. j - 1 PROVE g[w.offsets[i] + 1] = w.seps[i]
    <3>1. i = k
      BY <1>1
    <3>2. 1 \in 1 .. Len(c)
      BY <1>2, <1>4
    <3>3. g[o + 1] = c[1]
      BY <1>9, <3>2
    <3> QED BY <3>1, <3>3 DEF j
  <2> QED BY <2>1, <2>2, <2>3, <2>4, <2>5 DEF Patches
<1>14. Edited(v, w, k, j, j, m)
  BY DEF j, m
<1> QED BY <1>1, <1>13, <1>14, EditedShows

\* So the removal can go on from there.
LEMMA RotateFacts ==
  ASSUME NEW R, NEW v, NEW pos, NEW count, NEW k, NEW at,
         NEW d \in Reaching(R, v, pos, count, k, at),
         k < Len(d.v.blocks), at + d.todo = Len(d.v.blocks[k]) + 1, Len(d.v.blocks[k + 1]) >= 2
  PROVE  RotateSep(d, k) \in Reaching(R, v, pos, count, k, at)
<1> DEFINE u == d.v
           n == Len(u.blocks)
           j == k + 1
           m == -1
           one == 1
           todo == d.todo
           over == d.over
           len == Len(u.blocks[k])
           b == u.blocks[j]
           o == u.offsets[k]
           e == RotateSep(d, k)
           w == e.v
<1>1. /\ Shape(R, u) /\ k \in 1 .. n /\ Recalls(u, k) /\ Settled(u, k, k)
      /\ at \in 0 .. len /\ pos = Start(u, k) + at
      /\ pos + todo <= u.offsets[n] /\ todo \in Nat /\ over \in Int
      /\ len <= Limit + 1
      /\ d = Doing(u, todo, over)
  BY DEF Removing, Reaching, Doing
<1>2. \A h : Leaves(R, v, pos, count, h) => Leaves(R, u, pos, todo, h)
  BY DEF Removing, Reaching
<1>3. k < n /\ at + todo = len + 1 /\ Len(b) >= 2
  OBVIOUS
<1> HIDE DEF Removing, Reaching, u, n, todo, over, len, b, o, e, w
<1>4. n \in Nat /\ k \in 1 .. n - 1 /\ j \in k .. n /\ j \in 1 .. n /\ k \in Int /\ j >= k /\ m \in Int
  <2>1. n \in Nat
    BY <1>1, ShapeFacts DEF n
  <2> QED BY <1>1, <1>3, <2>1
<1>5. /\ len \in Nat /\ b \in Seq(R) /\ Len(b) \in Nat /\ o \in Int /\ o = Start(u, k) + len
      /\ Start(u, k) \in Int /\ Start(u, k) >= 0 /\ u.offsets[n] \in Int
  <2>1. /\ Len(u.blocks[k]) \in Nat /\ u.offsets[k] \in Int /\ Start(u, k) \in Int
        /\ u.offsets[n] \in Int
    <3>1. n \in 1 .. n
      BY <1>1, <1>4
    <3> QED BY <1>1, <3>1, ShapeFacts DEF n
  <2>2. u.blocks[j] \in Seq(R) /\ Len(u.blocks[j]) \in Nat
    <3> HIDE DEF j
    <3> QED BY <1>1, <1>4, ShapeFacts DEF n
  <2>3. Start(u, k) >= 0 /\ u.offsets[k] = Start(u, k) + Len(u.blocks[k])
    BY <1>1, OffsetsGrow DEF n
  <2> QED BY <2>1, <2>2, <2>3 DEF len, b, o
<1>6. /\ w \in Views(R) /\ Edited(u, w, k, k + 1, k + 1, -1)
      /\ w.last = u.last /\ w.blocks[k] = u.blocks[k]
      /\ w.blocks[k + 1] = Tail(u.blocks[k + 1])
      /\ w.seps[k] = u.blocks[k + 1][1] /\ w.offsets[k] = u.offsets[k]
      /\ Start(w, k + 1) = Start(u, k + 1)
      /\ e = Doing(w, todo - 1, over)
  <2>1. Len(u.blocks[k + 1]) >= 1
    BY <1>3, <1>5 DEF b
  <2>2. k \in 1 .. Len(u.blocks) - 1
    BY <1>4 DEF n
  <2>3. LET y == RotateSep(Doing(u, todo, over), k)
        IN  /\ y.v \in Views(R) /\ Edited(u, y.v, k, k + 1, k + 1, -1)
            /\ y.v.last = u.last /\ y.v.blocks[k] = u.blocks[k]
            /\ y.v.blocks[k + 1] = Tail(u.blocks[k + 1])
            /\ y.v.seps[k] = u.blocks[k + 1][1] /\ y.v.offsets[k] = u.offsets[k]
            /\ Start(y.v, k + 1) = Start(u, k + 1)
            /\ y = Doing(y.v, todo - 1, over)
    <3>1. Shape(R, u)
      BY <1>1
    <3> HIDE DEF j, m, one
    <3> QED BY <2>1, <2>2, <3>1, RotateEdits
  <2>4. e = RotateSep(Doing(u, todo, over), k)
    BY <1>1 DEF e
  <2> QED BY <2>3, <2>4 DEF w
<1>7. Edited(u, w, k, j, j, m)
  BY <1>6
<1>8. \A f \in Seq(R) : \A g \in Seq(R) : Shown(u, f) /\ Spliced(f, g, o, one, <<>>) => Shown(w, g)
  <2>1. Len(u.blocks[k + 1]) >= 1 /\ k \in 1 .. Len(u.blocks) - 1
    BY <1>3, <1>4, <1>5 DEF b, n
  <2> QED BY <1>1, <1>6, <2>1, RotateShows DEF o
<1>9. Len(w.blocks[j]) = Len(b) - 1
  <2>1. b # <<>>
    BY <1>3
  <2> QED BY <1>5, <1>6, <2>1, HeadTailProperties DEF b
<1>10. e.v = w /\ e.todo = todo - one /\ e.over = over
  BY <1>6 DEF Doing
<1> HIDE DEF j, m, one
<1>11. Shape(R, w) /\ w.offsets[Len(w.blocks)] = u.offsets[n] + m
  <2>1. /\ Shape(R, u) /\ k \in 1 .. Len(u.blocks) /\ j \in k .. Len(u.blocks)
        /\ j \in Int /\ j >= k
    BY <1>1, <1>4 DEF n
  <2>2. Shape(R, w)
    BY <1>4, <1>6, <1>7, <2>1, EditedFits
  <2>3. w.offsets[Len(w.blocks)] = u.offsets[Len(u.blocks)] + m
    BY <1>4, <1>7, <2>1, EditedEnd
  <2> QED BY <2>2, <2>3 DEF n
<1>12. Recalls(w, k)
  <2>1. w.last.limit > 0 => w.last = u.last /\ w.last.slot < k
    BY <1>1, <1>4, <1>6 DEF Recalls
  <2> QED BY <1>1, <1>4, <1>6, <1>7, <2>1, RecallsKept DEF n
<1>13. Len(w.blocks) = n /\ Start(w, k) = Start(u, k) /\ Len(w.blocks[k]) = len
  <2>1. Len(w.blocks) = Len(u.blocks) + j - j /\ Start(w, k) = Start(u, k)
    BY <1>7 DEF Edited
  <2> QED BY <1>4, <1>6, <2>1 DEF n, len
<1>14. Settled(w, k, k)
  <2>1. Settled(u, k, j) /\ Sound(Len(b), j)
    BY <1>1, <1>4 DEF Settled, j, b, n
  <2>2. Settled(w, k, j)
    BY <1>1, <1>4, <1>7, <2>1, SettledKept DEF n
  <2>3. Sound(Len(w.blocks[j]), j)
    <3>1. Limit \in Nat
      BY BlockedViewAssumption
    <3> QED BY <1>3, <1>5, <1>9, <2>1, <3>1 DEF Sound
  <2>4. k \in 1 .. Len(w.blocks) /\ k < Len(w.blocks)
    BY <1>1, <1>3, <1>13
  <2> QED BY <1>11, <2>2, <2>3, <2>4, SizedParts DEF j
<1>15. todo - one \in Nat /\ one \in Nat /\ at + (todo - one) = len /\ pos \in Nat
       /\ o \in Nat /\ pos <= o /\ o + one <= pos + todo
  <2> DEFINE s == Start(u, k)
  <2>1. pos = s + at /\ o = s + len /\ s \in Int /\ s >= 0 /\ at \in 0 .. len /\ todo \in Nat
    BY <1>1, <1>5
  <2>2. at + todo = len + 1 /\ len \in Nat
    BY <1>3, <1>5
  <2> HIDE DEF s
  <2>3. at \in Nat /\ pos \in Nat /\ o \in Nat /\ pos <= o
    BY <2>1, <2>2
  <2>4. o + 1 <= pos + todo
    BY <2>1, <2>2
  <2>5. todo - 1 \in Nat /\ at + (todo - 1) = len
    BY <2>1, <2>2
  <2> QED BY <2>3, <2>4, <2>5 DEF one
<1>16. pos + e.todo <= w.offsets[Len(w.blocks)]
  <2> DEFINE z == u.offsets[n]
  <2>1. z \in Int /\ pos + todo <= z /\ w.offsets[Len(w.blocks)] = z - 1
    BY <1>1, <1>5, <1>11 DEF m
  <2> HIDE DEF z
  <2> QED BY <1>1, <1>10, <1>15, <2>1, SMTT(30) DEF one
<1>17. ASSUME NEW h, Leaves(R, v, pos, count, h) PROVE Leaves(R, w, pos, e.todo, h)
  <2>1. Leaves(R, u, pos, todo, h)
    BY <1>2, <1>17
  <2>2. Leaves(R, w, pos, todo - one, h)
    BY <1>1, <1>8, <1>15, <2>1, LeavesLess
  <2> QED BY <1>10, <2>2
<1>18. e \in [v : Views(R), todo : Nat, over : Int]
  <2>1. e = [v |-> w, todo |-> todo - one, over |-> over]
    BY <1>6 DEF Doing, one
  <2> QED BY <1>1, <1>6, <1>15, <2>1, SMTT(30)
<1>19. e \in Removing(R, v, pos, count, k, at)
  <2>1. k \in 1 .. Len(w.blocks) /\ at \in 0 .. Len(w.blocks[k]) /\ pos = Start(w, k) + at
    BY <1>1, <1>13
  <2> QED BY <1>10, <1>11, <1>12, <1>14, <1>16, <1>17, <1>18, <2>1 DEF Removing
<1>20. at + e.todo <= Len(w.blocks[k]) + 1 /\ ~(at + e.todo > Len(w.blocks[k]))
  BY <1>5, <1>10, <1>13, <1>15, SMTT(30)
<1> QED BY <1>1, <1>10, <1>13, <1>19, <1>20 DEF Reaching, e

\* Trimmed as a whole.
LEMMA TrimmedFacts ==
  ASSUME NEW R, NEW v, NEW pos, NEW count, NEW k, NEW at,
         NEW d \in Dropping(R, v, pos, count, k, at),
         k < Len(d.v.blocks) => d.over - 1 < Len(d.v.blocks[k + 1])
  PROVE  Trimmed(d, k) \in Reaching(R, v, pos, count, k, at)
<1> DEFINE n == d.over - 1
           S == Reaching(R, v, pos, count, k, at)
           e == FrontCut(d, k)
           t == CASE n <= 0                                         -> d
                  [] n > 0 /\ Len(e.v.blocks[k + 1]) > Limit \div 2 -> RotateSep(e, k)
                  [] OTHER                                          -> e
<1>1. Trimmed(d, k) = t
  BY DEF Trimmed, FrontCut
<1>2. /\ d.over \in Int /\ d.todo \in Nat /\ at \in Nat /\ Len(d.v.blocks[k]) \in Nat
      /\ d.over > 0 => k < Len(d.v.blocks)
  BY DroppingFacts
<1>3. d.over = at + d.todo - Len(d.v.blocks[k]) /\ Len(d.v.blocks[k]) <= Limit + 1
      /\ d \in Removing(R, v, pos, count, k, at)
  BY DEF Dropping
<1>4. n \in Int /\ n + 1 = d.over
  BY <1>2
<1>5. CASE n <= 0
  <2>1. t = d
    <3>1. ~(n > 0)
      <4> HIDE DEF n
      <4> QED BY <1>4, <1>5
    <3> HIDE DEF e, n
    <3> QED BY <1>5, <3>1
  <2>2. at + d.todo <= Len(d.v.blocks[k]) + 1
        /\ (at + d.todo > Len(d.v.blocks[k]) => d.over > 0)
    <3> DEFINE a == d.todo
               b == d.over
               l == Len(d.v.blocks[k])
    <3>1. a \in Nat /\ b \in Int /\ l \in Nat /\ b = at + a - l /\ n + 1 = b /\ n <= 0
      BY <1>2, <1>3, <1>4, <1>5
    <3> HIDE DEF a, b, l, n
    <3>2. at + a <= l + 1 /\ (at + a > l => b > 0)
      BY <1>2, <1>4, <3>1
    <3> QED BY <3>2 DEF a, b, l
  <2>3. d \in S
    BY <1>2, <1>3, <2>2 DEF Reaching
  <2> QED BY <1>1, <2>1, <2>3
<1>6. CASE ~(n <= 0)
  <2>1. n > 0 /\ d.over > 0
    <3> HIDE DEF n
    <3> QED BY <1>4, <1>6
  <2>2. k < Len(d.v.blocks) /\ n < Len(d.v.blocks[k + 1])
    BY <1>2, <2>1
  <2>3. e \in S /\ k < Len(e.v.blocks) /\ at + e.todo = Len(e.v.blocks[k]) + 1
    <3>1. d.over - 1 > 0 /\ d.over - 1 < Len(d.v.blocks[k + 1])
      BY <2>1, <2>2
    <3> HIDE DEF t
    <3> QED BY <2>2, <3>1, FrontFacts
  <2> HIDE DEF e
  <2>4. CASE Len(e.v.blocks[k + 1]) > Limit \div 2
    <3>1. t = RotateSep(e, k)
      BY <1>6, <2>1, <2>4
    <3>2. Len(e.v.blocks[k + 1]) >= 2
      <4>1. Shape(R, e.v) /\ k \in 1 .. Len(e.v.blocks)
        BY <2>3 DEF Reaching, Removing
      <4> DEFINE j == k + 1
                 l == Len(e.v.blocks[j])
      <4>2. j \in 1 .. Len(e.v.blocks)
        BY <2>3, <4>1, ShapeFacts
      <4> HIDE DEF j
      <4>3. l \in Nat
        BY <4>1, <4>2, ShapeFacts
      <4>4. l > Limit \div 2
        BY <2>4 DEF j
      <4> HIDE DEF l
      <4>5. l >= 2
        <5>1. Limit \in Nat /\ Limit >= 3
          BY BlockedViewAssumption
        <5>2. \A c, x \in Nat : c >= 3 /\ x > c \div 2 => x >= 2
          OBVIOUS
        <5> QED BY <4>3, <4>4, <5>1, <5>2
      <4> QED BY <4>5 DEF l, j
    <3> HIDE DEF t, S
    <3>3. RotateSep(e, k) \in Reaching(R, v, pos, count, k, at)
      BY <2>3, <3>2, RotateFacts DEF S
    <3> QED BY <1>1, <3>1, <3>3
  <2>5. CASE ~(Len(e.v.blocks[k + 1]) > Limit \div 2)
    <3>1. t = e
      BY <1>6, <2>5
    <3> QED BY <1>1, <2>3, <3>1
  <2> QED BY <2>4, <2>5
<1> QED BY <1>5, <1>6

\* The third phase: all that is still to be removed is in the block.
Ending(R, v, pos, count, k, at) ==
  {d \in Removing(R, v, pos, count, k, at) :
     /\ at + d.todo <= Len(d.v.blocks[k])
     /\ Len(d.v.blocks[k]) - d.todo <= 2 * Limit + 2}

\* Joined as a whole.
LEMMA JoinedFacts ==
  ASSUME NEW R, NEW v, NEW pos, NEW count, NEW k, NEW at,
         NEW d \in Reaching(R, v, pos, count, k, at)
  PROVE  Joined(d, k, at) \in Ending(R, v, pos, count, k, at)
<1> DEFINE u == d.v
           n == Len(u.blocks)
           todo == d.todo
           len == Len(u.blocks[k])
           w == Merge(u, k)
           e == [d EXCEPT !.v = w]
<1>0. Limit \in Nat /\ Limit >= 3
  BY BlockedViewAssumption
<1>1. /\ Shape(R, u) /\ k \in 1 .. n /\ Recalls(u, k) /\ Settled(u, k, k)
      /\ at \in 0 .. len /\ pos = Start(u, k) + at
      /\ pos + todo <= u.offsets[n] /\ todo \in Nat /\ d.over \in Int
      /\ at + todo <= len + 1 /\ (at + todo > len => k < n) /\ len <= Limit + 1
  BY DEF Removing, Reaching
<1>2. /\ d \in Removing(R, v, pos, count, k, at)
      /\ \A h : Leaves(R, v, pos, count, h) => Leaves(R, u, pos, todo, h)
  BY DEF Removing, Reaching
<1>3. n \in Nat /\ len \in Nat /\ k \in Int
  BY <1>1, ShapeFacts
<1>4. CASE at + todo > len
  <2> DEFINE j == k + 1
             l == Len(u.blocks[j])
  <2>1. k \in 1 .. n - 1 /\ j \in 1 .. n /\ k < n
    <3> HIDE DEF n, len, todo
    <3> QED BY <1>1, <1>3, <1>4
  <2>2. Settled(u, k, k + 1) /\ Sound(l, j)
    <3> HIDE DEF u
    <3> QED BY <1>1, <1>3, <2>1 DEF Settled
  <2>3. l \in Nat
    <3> HIDE DEF u, j
    <3> QED BY <1>1, <2>1, ShapeFacts
  <2>4. /\ Shape(R, w) /\ Recalls(w, k) /\ Settled(w, k, k)
        /\ Len(w.blocks) = n - 1
        /\ Len(w.blocks[k]) = len + 1 + l
        /\ Start(w, k) = Start(u, k)
        /\ w.offsets[Len(w.blocks)] = u.offsets[n]
        /\ \A f \in Seq(R) : Shown(u, f) => Shown(w, f)
    <3>1. Shape(R, u) /\ k \in 1 .. Len(u.blocks) - 1 /\ Recalls(u, k) /\ Settled(u, k, k + 1)
      BY <1>1, <2>1, <2>2
    <3> HIDE DEF u, e
    <3> QED BY <3>1, MergeFacts
  <2>5. Joined(d, k, at) = e
    BY <1>4 DEF Joined
  <2>6. e = [v |-> w, todo |-> todo, over |-> d.over]
    <3> HIDE DEF w
    <3> QED BY <1>2 DEF Removing
  <2>7. e.v = w /\ e.todo = todo /\ e \in [v : Views(R), todo : Nat, over : Int]
    <3> HIDE DEF w, e
    <3> QED BY <1>1, <2>4, <2>6 DEF Shape
  <2> HIDE DEF w, e
  <2>8. ASSUME NEW h, Leaves(R, v, pos, count, h) PROVE Leaves(R, w, pos, todo, h)
    BY <1>2, <2>4, <2>8 DEF Leaves
  <2>9. at + todo <= Len(w.blocks[k]) /\ Len(w.blocks[k]) - todo <= 2 * Limit + 2
    <3>1. l <= Limit + 1
      BY <2>2 DEF Sound
    <3>2. /\ at \in Nat /\ todo \in Nat /\ at <= len /\ at + todo <= len + 1 /\ at + todo > len
          /\ len <= Limit + 1
      BY <1>1, <1>4
    <3> HIDE DEF len, l, todo
    <3>3. at + todo <= len + 1 + l /\ (len + 1 + l) - todo <= 2 * Limit + 2
      BY <1>0, <1>3, <2>3, <3>1, <3>2
    <3> QED BY <2>4, <3>3
  <2>10. at \in 0 .. Len(w.blocks[k]) /\ k \in 1 .. Len(w.blocks)
    <3>1. at \in 0 .. len /\ len <= len + 1 + l
      <4>1. at \in 0 .. len
        BY <1>1
      <4> HIDE DEF len, l
      <4> QED BY <1>3, <2>3, <4>1
    <3> HIDE DEF len, l, n
    <3> QED BY <1>3, <2>1, <2>3, <2>4, <3>1
  <2>11. pos + todo <= w.offsets[Len(w.blocks)] /\ pos = Start(w, k) + at
    BY <1>1, <2>4
  <2>12. e \in Removing(R, v, pos, count, k, at)
    BY <2>4, <2>7, <2>8, <2>10, <2>11 DEF Removing
  <2> QED BY <2>5, <2>7, <2>9, <2>12 DEF Ending
<1>5. CASE ~(at + todo > len)
  <2>1. Joined(d, k, at) = d
    BY <1>5 DEF Joined
  <2>2. at + todo <= len /\ len - todo <= 2 * Limit + 2
    <3>1. at \in Nat /\ todo \in Nat /\ len <= Limit + 1
      BY <1>1
    <3> HIDE DEF todo, len
    <3> QED BY <1>0, <1>3, <1>5, <3>1
  <2> QED BY <1>2, <2>1, <2>2 DEF Ending
<1> QED BY <1>4, <1>5

\* Removed as a whole: what is shown is what was to be left.
LEMMA RemovedFacts ==
  ASSUME NEW R, NEW v, NEW pos, NEW count, NEW k, NEW at,
         NEW d \in Ending(R, v, pos, count, k, at)
  PROVE  LET w == Removed(d, k, at)
         IN  /\ Shape(R, w) /\ k \in 1 .. Len(w.blocks) /\ Recalls(w, k) /\ Settled(w, k, k)
             /\ Len(w.blocks[k]) <= 2 * Limit + 2
             /\ \A h : Leaves(R, v, pos, count, h) => Shown(w, h)
<1> DEFINE u == d.v
           todo == d.todo
           b == u.blocks[k]
           x == Upto(b, at) \o After(b, at + todo)
           w == WithBlock(u, k, x, -todo)
<1>1. /\ Shape(R, u) /\ k \in 1 .. Len(u.blocks) /\ Recalls(u, k) /\ Settled(u, k, k)
      /\ at \in 0 .. Len(b) /\ pos = Start(u, k) + at /\ todo \in Nat
      /\ at + todo <= Len(b) /\ Len(b) - todo <= 2 * Limit + 2
      /\ u \in Views(R)
  BY DEF Removing, Ending
<1>2. \A h : Leaves(R, v, pos, count, h) => Leaves(R, u, pos, todo, h)
  BY DEF Removing, Ending
<1>3. Removed(d, k, at) = w
  <2> DEFINE bs == [u.blocks EXCEPT ![k] = x]
             os == Shifted(u.offsets, k, -todo)
  <2>1. Removed(d, k, at) = [u EXCEPT !.blocks = bs, !.offsets = os]
    <3>1. [u EXCEPT !.blocks[k] = Upto(@, at) \o After(@, at + todo), !.offsets = Shifted(@, k, -todo)]
            = [u EXCEPT !.blocks = bs, !.offsets = os]
      <4> HIDE DEF u, todo
      <4> QED BY <1>1 DEF Views
    <3> QED BY <3>1 DEF Removed
  <2> HIDE DEF bs, os, u, x
  <2>2. [u EXCEPT !.blocks = bs, !.offsets = os]
          = [blocks |-> bs, seps |-> u.seps, offsets |-> os, last |-> u.last]
    BY <1>1, ViewSet
  <2>3. [blocks |-> bs, seps |-> u.seps, offsets |-> os, last |-> u.last] = w
    BY DEF WithBlock, bs, os
  <2> HIDE DEF w
  <2> QED BY <2>1, <2>2, <2>3
<1> HIDE DEF u, todo, b
<1>4. b \in Seq(R) /\ Len(b) \in Nat /\ at \in Nat /\ k \in 1 .. k /\ Start(u, k) \in Int
  <2> HIDE DEF w, x
  <2>1. Len(u.blocks) \in Nat
    BY <1>1, ShapeFacts
  <2>2. b \in Seq(R) /\ Len(b) \in Nat /\ Start(u, k) \in Int
    BY <1>1, ShapeFacts DEF b
  <2> QED BY <1>1, <2>1, <2>2
<1>5. x \in Seq(R) /\ Spliced(b, x, at, todo, <<>>)
  BY <1>1, <1>4, CutIs
<1> HIDE DEF x
<1>6. CutOut(R, u, k, k, at, todo, x)
  BY <1>1, <1>4, <1>5 DEF CutOut, b
<1>7. /\ Shape(R, w) /\ Recalls(w, k)
      /\ Len(w.blocks) = Len(u.blocks) /\ w.blocks[k] = x /\ Len(x) = Len(b) - todo
      /\ \A i \in 1 .. Len(u.blocks) : i # k => w.blocks[i] = u.blocks[i]
      /\ \A f \in Seq(R) : \A g :
           Shown(u, f) /\ Spliced(f, g, Start(u, k) + at, todo, <<>>) => Shown(w, g)
  BY <1>6, CutFacts DEF b
<1> HIDE DEF w
<1>8. Settled(w, k, k)
  <2>1. \A i : i < k \/ i > k => i # k
    BY <1>4
  <2> QED BY <1>1, <1>7, <2>1 DEF Settled
<1>9. ASSUME NEW h, Leaves(R, v, pos, count, h) PROVE Shown(w, h)
  <2>1. PICK f \in Seq(R) : Shown(u, f) /\ Spliced(f, h, pos, todo, <<>>)
    BY <1>2, <1>9 DEF Leaves
  <2> QED BY <1>1, <1>7, <2>1
<1>10. Len(w.blocks[k]) <= 2 * Limit + 2
  BY <1>1, <1>7
<1> QED BY <1>1, <1>3, <1>7, <1>8, <1>9, <1>10

\* Rebalanced as a whole: it leaves blocks of the right lengths.
LEMMA RebalancedFacts ==
  ASSUME NEW R, NEW v, NEW k, Shape(R, v), k \in 1 .. Len(v.blocks),
         Recalls(v, k), Settled(v, k, k), Len(v.blocks[k]) <= 2 * Limit + 2
  PROVE  LET w == Rebalanced(v, k)
         IN  Kept(R, w) /\ \A f \in Seq(R) : Shown(v, f) => Shown(w, f)
<1> DEFINE len == Len(v.blocks[k])
           n == Len(v.blocks)
           underflow == len < Limit \div 2
           b == IF underflow /\ k > 1 THEN k - 1 ELSE k
           u == IF underflow /\ b < n THEN Merge(v, b) ELSE v
           now == Len(u.blocks[b])
           w == IF now > Limit THEN Split(u, b, now \div 2) ELSE u
<1>0. Limit \in Nat /\ Limit >= 3
  BY BlockedViewAssumption
<1>1. Rebalanced(v, k) = w
  BY DEF Rebalanced
<1>2. len \in Nat /\ n \in Nat /\ k \in Nat /\ k >= 1 /\ k <= n
  BY ShapeFacts
<1>3. u \in Divided(R, v, b) /\ now <= 2 * Limit + 2
  <2>1. CASE underflow /\ b < n
    <3> DEFINE c == b + 1
               l == Len(v.blocks[b])
               r == Len(v.blocks[c])
    <3>1. u = Merge(v, b)
      BY <2>1
    <3>2. b \in 1 .. n - 1 /\ c \in 1 .. n /\ b \in Nat /\ (k = b \/ k = c)
      <4> HIDE DEF n, underflow
      <4> QED BY <1>2, <2>1
    <3> HIDE DEF b, u
    <3>3. Settled(v, b, c)
      <4>1. \A i \in 1 .. n : i < b \/ i > c => i < k \/ i > k
        <5> HIDE DEF n
        <5> QED BY <1>2, <3>2
      <4> QED BY <4>1 DEF Settled
    <3>4. l \in Nat /\ r \in Nat
      <4> HIDE DEF c
      <4> QED BY <3>2, ShapeFacts, SMTT(30)
    <3>5. l + 1 + r <= 2 * Limit + 2
      <4>1. underflow
        BY <2>1
      <4>2. CASE k = b
        <5>1. l = len /\ Sound(r, c)
          BY <3>2, <4>2 DEF Settled
        <5> HIDE DEF l, r, len
        <5> QED BY <1>0, <1>2, <3>4, <4>1, <5>1 DEF Sound
      <4>3. CASE k = c
        <5>1. r = len /\ Sound(l, b)
          BY <3>2, <4>3 DEF Settled
        <5> HIDE DEF l, r, len
        <5> QED BY <1>0, <1>2, <3>4, <4>1, <5>1 DEF Sound
      <4> QED BY <3>2, <4>2, <4>3
    <3>6. /\ Shape(R, u) /\ Recalls(u, b) /\ Settled(u, b, b)
          /\ Len(u.blocks) = n - 1
          /\ Len(u.blocks[b]) = l + 1 + r
          /\ \A f \in Seq(R) : Shown(v, f) => Shown(u, f)
      BY <3>1, <3>2, <3>3, MergeFacts
    <3>7. Len(u.blocks[b]) >= 1 /\ Len(u.blocks[b]) <= 2 * Limit + 2
      <4> HIDE DEF l, r
      <4> QED BY <3>4, <3>5, <3>6
    <3>8. b \in 1 .. Len(u.blocks)
      BY <3>2, <3>6
    <3> QED BY <3>6, <3>7, <3>8 DEF Divided, Shape
  <2>2. CASE ~(underflow /\ b < n)
    <3>1. u = v
      BY <2>2
    <3>2. b = k /\ (k = 1 \/ len >= 1)
      <4>1. CASE underflow
        <5>1. ~(k > 1)
          <6> HIDE DEF underflow, n
          <6>1. k > 1 => b = k - 1
            BY <4>1
          <6> HIDE DEF b
          <6> QED BY <1>2, <2>2, <4>1, <6>1
        <5> HIDE DEF underflow, n
        <5> QED BY <1>2, <5>1
      <4>2. CASE ~underflow
        <5>1. len >= 1
          <6> HIDE DEF len
          <6>1. \A i, c \in Nat : c >= 3 /\ ~(i < c \div 2) => i >= 1
            OBVIOUS
          <6> QED BY <1>0, <1>2, <4>2, <6>1
        <5> QED BY <4>2, <5>1
      <4> QED BY <4>1, <4>2
    <3> HIDE DEF b, u
    <3> QED BY <3>1, <3>2 DEF Divided, Shape
  <2> QED BY <2>1, <2>2
<1>4. /\ Shape(R, u) /\ b \in 1 .. Len(u.blocks)
      /\ now \in Nat
  <2> HIDE DEF u, b
  <2> QED BY <1>3, ShapeFacts DEF Divided
<1> HIDE DEF u, b
<1>5. w \in Divided(R, v, b) /\ Len(w.blocks[b]) <= Limit + 1
  <2>1. CASE now > Limit
    <3> DEFINE at == now \div 2
    <3>1. /\ at \in Nat /\ at >= 1 /\ at <= Limit + 1
          /\ now - at - 1 >= 1 /\ now - at - 1 <= Limit + 1
      <4>1. \A x, c \in Nat : c >= 3 /\ x > c /\ x <= 2 * c + 2 =>
              /\ x \div 2 \in Nat /\ x \div 2 >= 1 /\ x \div 2 <= c + 1
              /\ x - x \div 2 - 1 >= 1 /\ x - x \div 2 - 1 <= c + 1
        OBVIOUS
      <4> HIDE DEF now
      <4> QED BY <1>0, <1>3, <1>4, <2>1, <4>1
    <3>2. w = Split(u, b, at)
      BY <2>1
    <3> HIDE DEF w, at
    <3>3. Split(u, b, at) \in Divided(R, v, b) /\ Len(Split(u, b, at).blocks[b]) = at
      BY <1>3, <3>1, SplitDivides
    <3> QED BY <3>1, <3>2, <3>3
  <2>2. CASE ~(now > Limit)
    <3>1. w = u
      BY <2>2
    <3>2. now <= Limit + 1
      <4> HIDE DEF now
      <4> QED BY <1>0, <1>4, <2>2
    <3> QED BY <1>3, <3>1, <3>2
  <2> QED BY <2>1, <2>2
<1> HIDE DEF w
<1>6. Kept(R, w) /\ \A f \in Seq(R) : Shown(v, f) => Shown(w, f)
  BY <1>5, DividedSized DEF Kept
<1> QED BY <1>1, <1>6

\* RemoveRows as a whole, from a view of any rows: they are gone, and no others.
LEMMA WithoutFacts ==
  ASSUME NEW R, NEW v, Kept(R, v), NEW pos \in Nat, NEW count \in Nat,
         pos + count <= v.offsets[Len(v.offsets)]
  PROVE  LET w == Without(v, pos, count)
         IN  /\ Kept(R, w)
             /\ \A f \in Seq(R) : Shown(v, f) => Shown(w, Upto(f, pos) \o After(f, pos + count))
<1> DEFINE k == Slot(v.offsets, pos)
           at == InSlot(v.offsets, pos)
           t == Touched(v, k)
           d == Doing(t, count, at + count - Len(v.blocks[k]))
           d1 == Dropped(d, k)
           d2 == Trimmed(d1, k)
           d3 == Joined(d2, k, at)
           u == Removed(d3, k, at)
           w == Rebalanced(u, k)
<1>0. Without(v, pos, count) = w
  BY Zenon DEF Without
<1>1. Shape(R, v) /\ Sized(v) /\ Recalls(v, Len(v.blocks) + 1)
  BY DEF Kept
<1>2. Len(v.offsets) = Len(v.blocks) /\ Len(v.blocks) \in Nat /\ Len(v.blocks) \in 1 .. Len(v.blocks)
  BY <1>1, ShapeFacts
<1>3. v.offsets[Len(v.blocks)] \in Int /\ pos + count <= v.offsets[Len(v.blocks)]
  BY <1>1, <1>2, ShapeFacts
<1>4. /\ k \in 1 .. Len(v.blocks)
      /\ at = pos - Start(v, k) /\ at \in 0 .. Len(v.blocks[k])
  <2>1. pos \in 0 .. v.offsets[Len(v.blocks)]
    BY <1>3
  <2> QED BY <1>1, <2>1, SlotFacts
<1> HIDE DEF k, at
<1>5. /\ Shape(R, t) /\ Recalls(t, k)
      /\ t.blocks = v.blocks /\ t.seps = v.seps /\ t.offsets = v.offsets
  BY <1>1, <1>4, TouchedFacts
<1>6. Settled(v, k, k) /\ Sound(Len(v.blocks[k]), k)
  BY <1>1, <1>4, SizedParts
<1>7. Settled(t, k, k)
  BY <1>5, <1>6 DEF Settled
<1>8. \A f : Shown(v, f) => Shown(t, f)
  BY <1>5, ZenonT(40) DEF Shown, Start
<1>9. /\ Len(v.blocks[k]) \in Nat /\ Start(v, k) \in Int /\ Start(t, k) = Start(v, k)
      /\ pos = Start(t, k) + at
  <2>1. Len(v.blocks[k]) \in Nat /\ Start(v, k) \in Int
    BY <1>1, <1>4, ShapeFacts
  <2>2. Start(t, k) = Start(v, k)
    BY <1>5 DEF Start
  <2> QED BY <1>4, <2>1, <2>2
<1> HIDE DEF t
<1>10. d \in Dropping(R, t, pos, count, k, at)
  <2> DEFINE over == at + count - Len(v.blocks[k])
  <2>1. over \in Int /\ over = at + count - Len(t.blocks[k]) /\ Len(t.blocks[k]) <= Limit + 1
    BY <1>4, <1>5, <1>6, <1>9 DEF Sound
  <2> HIDE DEF over
  <2>2. d = [v |-> t, todo |-> count, over |-> over]
    BY DEF Doing, over
  <2> HIDE DEF d
  <2>3. /\ d \in [v : Views(R), todo : Nat, over : Int]
        /\ d.v = t /\ d.todo = count /\ d.over = over
    BY <1>5, <2>1, <2>2 DEF Shape
  <2>4. /\ k \in 1 .. Len(t.blocks) /\ at \in 0 .. Len(t.blocks[k])
        /\ pos + count <= t.offsets[Len(t.blocks)]
    BY <1>3, <1>4, <1>5
  <2>5. d \in Removing(R, t, pos, count, k, at)
    BY <1>5, <1>7, <1>9, <2>3, <2>4 DEF Removing
  <2> QED BY <2>1, <2>3, <2>5 DEF Dropping
<1> HIDE DEF d
<1>11. /\ d1 \in Dropping(R, t, pos, count, k, at)
       /\ k < Len(d1.v.blocks) => d1.over - 1 < Len(d1.v.blocks[k + 1])
  BY <1>10, DroppedFacts
<1> HIDE DEF d1
<1>12. d2 \in Reaching(R, t, pos, count, k, at)
  BY <1>11, TrimmedFacts
<1> HIDE DEF d2
<1>13. d3 \in Ending(R, t, pos, count, k, at)
  BY <1>12, JoinedFacts
<1> HIDE DEF d3
<1>14. /\ Shape(R, u) /\ k \in 1 .. Len(u.blocks) /\ Recalls(u, k) /\ Settled(u, k, k)
       /\ Len(u.blocks[k]) <= 2 * Limit + 2
       /\ \A h : Leaves(R, t, pos, count, h) => Shown(u, h)
  BY <1>13, RemovedFacts
<1> HIDE DEF u
<1>15. Kept(R, w) /\ \A f \in Seq(R) : Shown(u, f) => Shown(w, f)
  BY <1>14, RebalancedFacts
<1> HIDE DEF w
<1>16. ASSUME NEW f \in Seq(R), Shown(v, f)
       PROVE  Shown(w, Upto(f, pos) \o After(f, pos + count))
  <2> DEFINE h == Upto(f, pos) \o After(f, pos + count)
  <2>1. pos + count <= Len(f)
    BY <1>3, <1>16 DEF Shown
  <2>2. h \in Seq(R) /\ Spliced(f, h, pos, count, <<>>)
    BY <2>1, CutIs
  <2> HIDE DEF h
  <2>3. Leaves(R, t, pos, count, h)
    BY <1>8, <1>16, <2>1, <2>2 DEF Leaves
  <2>4. Shown(w, h)
    BY <1>14, <1>15, <2>2, <2>3
  <2> QED BY <2>4 DEF h
<1> QED BY <1>0, <1>15, <1>16

----------------------------------------------------------------------------
\* The offsets of a view are those that OffsetsOf computes from the blocks.

\* What the recursive function in OffsetsOf is defined to be.
Totals(total, bs) ==
  total = [k \in 1 .. Len(bs) |->
            IF k = 1 THEN Len(bs[1]) ELSE total[k - 1] + 1 + Len(bs[k])]

\* It is what opening the view computes, and what Validate compares with.
LEMMA OffsetsOfIs ==
  ASSUME NEW R, NEW v, Shape(R, v)
  PROVE  OffsetsOf(v.blocks) = v.offsets
<1> DEFINE n == Len(v.blocks)
           o == v.offsets
           bs == v.blocks
           total == CHOOSE t : Totals(t, bs)
<1>1. n \in Nat /\ n >= 1 /\ n - 1 \in Nat /\ o \in Seq(Int) /\ Len(o) = n
  BY ShapeFacts
<1>2. /\ o[1] = Len(bs[1])
      /\ \A k \in 2 .. n : o[k] = o[k - 1] + 1 + Len(bs[k])
  BY ShapeFacts
<1>3. \A k \in 1 .. n : k # 1 => k \in 2 .. n
  BY <1>1
<1>4. o = [k \in 1 .. n |-> o[k]]
  <2> HIDE DEF o, n
  <2> QED BY <1>1
<1>5. Totals(o, bs)
  <2>1. \A k \in 1 .. n : o[k] = IF k = 1 THEN Len(bs[1]) ELSE o[k - 1] + 1 + Len(bs[k])
    BY <1>2, <1>3
  <2> HIDE DEF o, n
  <2>2. o = [k \in 1 .. n |-> IF k = 1 THEN Len(bs[1]) ELSE o[k - 1] + 1 + Len(bs[k])]
    BY <1>4, <2>1
  <2> QED BY <2>2 DEF Totals, n
<1>6. Totals(total, bs)
  <2> HIDE DEF bs, o
  <2> QED BY <1>5, Zenon
<1>7. OffsetsOf(bs) = [k \in 1 .. n |-> total[k]]
  BY Zenon DEF OffsetsOf, Totals
<1> HIDE DEF total, o, bs
<1>8. \A k \in 1 .. n : total[k] = IF k = 1 THEN Len(bs[1]) ELSE total[k - 1] + 1 + Len(bs[k])
  BY <1>6 DEF Totals, bs
<1> HIDE DEF n
<1>9. \A k \in 1 .. n : total[k] = o[k]
  <2> DEFINE T == {i \in 0 .. n - 1 : total[i + 1] = o[i + 1]}
  <2>1. 0 \in T
    <3>1. 1 \in 1 .. n /\ 0 \in 0 .. n - 1
      BY <1>1
    <3> QED BY <1>2, <1>8, <3>1
  <2>2. ASSUME NEW i \in 1 .. n - 1, i - 1 \in T PROVE i \in T
    <3>1. i + 1 \in 1 .. n /\ i + 1 # 1 /\ i + 1 \in 2 .. n /\ (i + 1) - 1 = i /\ (i - 1) + 1 = i
          /\ i \in 0 .. n - 1
      BY <1>1
    <3>2. total[i] = o[i]
      BY <2>2, <3>1
    <3> DEFINE j == i + 1
    <3>3. j \in 1 .. n /\ j # 1 /\ j \in 2 .. n /\ j - 1 = i
      BY <3>1
    <3> HIDE DEF j
    <3>4. total[j] = o[j]
      BY <1>2, <1>8, <3>2, <3>3
    <3> QED BY <3>1, <3>4 DEF j
  <2> HIDE DEF T
  <2>3. \A i \in 0 .. n - 1 : i \in T
    BY <1>1, <2>1, <2>2, CountingUp
  <2> USE DEF T
  <2> SUFFICES ASSUME NEW k \in 1 .. n PROVE total[k] = o[k]
    OBVIOUS
  <2>4. k - 1 \in 0 .. n - 1 /\ (k - 1) + 1 = k
    BY <1>1
  <2> QED BY <2>3, <2>4
<1>10. [k \in 1 .. n |-> total[k]] = o
  BY <1>4, <1>9
<1> QED BY <1>7, <1>10 DEF o, bs

----------------------------------------------------------------------------
\* The inductive invariant: the parts of the view fit together, its blocks have
\* the lengths they should have, and the block remembered is where it says.
IInv == Kept(Row, View)

\* The view as a record, and as the variables.
LEMMA ViewFields ==
  /\ View.blocks = blocks /\ View.seps = seps /\ View.offsets = offsets /\ View.last = last
  BY DEF View

\* A step to a view that is a record of the right parts.
LEMMA BecomesView ==
  ASSUME NEW w \in Views(Row), Becomes(w)
  PROVE  View' = w
<1>1. blocks' = w.blocks /\ seps' = w.seps /\ offsets' = w.offsets /\ last' = w.last
  BY DEF Becomes
<1>2. View' = [blocks |-> blocks', seps |-> seps', offsets |-> offsets', last |-> last']
  BY DEF View
<1>3. w = [blocks |-> w.blocks, seps |-> w.seps, offsets |-> w.offsets, last |-> w.last]
  BY DEF Views
<1> QED BY <1>1, <1>2, <1>3

\* At first there is one block without rows.
LEMMA InitInv ==
  ASSUME Init
  PROVE  IInv /\ Shown(View, <<>>)
<1>1. blocks = << <<>> >> /\ seps = <<>> /\ offsets = <<0>> /\ last = NoLast
  BY DEF Init
<1>2. Limit \in Nat
  BY BlockedViewAssumption
<1>3. View = [blocks |-> << <<>> >>, seps |-> <<>>, offsets |-> <<0>>, last |-> NoLast]
  BY <1>1 DEF View
<1>4. NoLast \in [base : Int, limit : Int, slot : Int] /\ ~(NoLast.limit > 0)
  BY DEF NoLast
<1>5. /\ << <<>> >> \in Seq(Seq(Row)) /\ <<>> \in Seq(Row) /\ <<0>> \in Seq(Int)
      /\ Len(<< <<>> >>) = 1 /\ << <<>> >>[1] = <<>> /\ Len(<<>>) = 0
      /\ Len(<<0>>) = 1 /\ <<0>>[1] = 0
  OBVIOUS
<1> DEFINE v == View
<1>6. /\ v.blocks = << <<>> >> /\ v.seps = <<>> /\ v.offsets = <<0>> /\ v.last = NoLast
      /\ v \in Views(Row)
  BY <1>3, <1>4, <1>5 DEF Views
<1> HIDE DEF v
<1>7. Len(v.blocks) = 1 /\ v.blocks[1] = <<>> /\ Len(v.blocks[1]) = 0 /\ v.offsets[1] = 0
      /\ Len(v.seps) = 0 /\ Len(v.offsets) = 1
  BY <1>5, <1>6
<1>8. \A i \in 1 .. 1 : i = 1
  OBVIOUS
<1>9. Fits(v)
  BY <1>7 DEF Fits
<1>10. Sized(v)
  BY <1>2, <1>7, <1>8 DEF Sized, Sound
<1>11. Recalls(v, Len(v.blocks) + 1)
  BY <1>4, <1>6 DEF Recalls
<1>12. Shown(v, <<>>)
  BY <1>5, <1>7, <1>8 DEF Shown
<1> QED BY <1>6, <1>9, <1>10, <1>11, <1>12 DEF IInv, Kept, Shape, v

\* Where a row is, by the block remembered or found for it (GetItem, SetItem): it
\* is a row of that block, or the row after block k.
InBlock(l, row) ==
  /\ l.slot \in 1 .. Len(blocks) /\ l.base = Start(View, l.slot) /\ l.limit = offsets[l.slot]
  /\ row - l.base + 1 \in 1 .. Len(blocks[l.slot])

AfterBlock(l, row, k) ==
  /\ k \in 1 .. Len(blocks) - 1 /\ l.slot = Len(offsets) + 1 /\ l.limit = 0
  /\ row - l.base + 1 = k /\ offsets[k] = row

\* GetItem and SetItem find a row in one of these two ways, at every position.
LEMMA FoundFacts ==
  ASSUME IInv, NEW row \in 0 .. Size - 1
  PROVE  /\ Found(row) \in [base : Int, limit : Int, slot : Int]
         /\ InBlock(Found(row), row) \/ \E k \in 1 .. Len(blocks) - 1 : AfterBlock(Found(row), row, k)
<1> DEFINE n == Len(blocks)
           k == Slot(offsets, row)
           at == InSlot(offsets, row)
           found == [base |-> row - at, limit |-> offsets[k], slot |-> k]
           after == [base |-> row - (k - 1), limit |-> 0, slot |-> Len(offsets) + 1]
<1>1. /\ Shape(Row, View) /\ Recalls(View, n + 1)
      /\ View.blocks = blocks /\ View.seps = seps /\ View.offsets = offsets /\ View.last = last
  BY ViewFields DEF IInv, Kept
<1>2. /\ n \in Nat /\ n >= 1 /\ Len(offsets) = n /\ last \in [base : Int, limit : Int, slot : Int]
      /\ \A i \in 1 .. n : Len(blocks[i]) \in Nat /\ offsets[i] \in Int /\ Start(View, i) \in Int
  <2>1. /\ Len(View.blocks) \in Nat /\ Len(View.blocks) >= 1
        /\ Len(View.offsets) = Len(View.blocks)
        /\ View.last \in [base : Int, limit : Int, slot : Int]
        /\ \A i \in 1 .. Len(View.blocks) : /\ Len(View.blocks[i]) \in Nat
                                            /\ View.offsets[i] \in Int /\ Start(View, i) \in Int
    BY <1>1, ShapeFacts
  <2> QED BY <1>1, <2>1
<1>3. \A i \in 1 .. n : 0 <= Start(View, i) /\ offsets[i] = Start(View, i) + Len(blocks[i])
  <2>1. \A i \in 1 .. Len(View.blocks) :
          0 <= Start(View, i) /\ View.offsets[i] = Start(View, i) + Len(View.blocks[i])
    BY <1>1, OffsetsGrow
  <2> QED BY <1>1, <2>1
<1>4. Size = offsets[n] /\ offsets[n] \in Int /\ row \in Nat /\ row < offsets[n]
  BY <1>2 DEF Size
<1>5. /\ k \in 1 .. n /\ Start(View, k) <= row /\ row <= offsets[k]
      /\ at = row - Start(View, k)
  <2>1. row \in 0 .. View.offsets[Len(View.blocks)]
    BY <1>1, <1>4
  <2>2. /\ Slot(View.offsets, row) \in 1 .. Len(View.blocks)
        /\ Start(View, Slot(View.offsets, row)) <= row
        /\ row <= View.offsets[Slot(View.offsets, row)]
        /\ InSlot(View.offsets, row) = row - Start(View, Slot(View.offsets, row))
    BY <1>1, <2>1, SlotFacts
  <2> QED BY <1>1, <2>2
<1> HIDE DEF n, k, at
<1>6. Found(row) = IF row < last.base \/ row >= last.limit
                   THEN IF offsets[k] = row THEN after ELSE found ELSE last
  BY DEF Found, SetLast, k, at
<1>7. CASE ~(row < last.base \/ row >= last.limit)
  <2> DEFINE s == last.slot
             b == last.base
             m == last.limit
  <2>1. b \in Int /\ m \in Int /\ b <= row /\ row < m
    BY <1>2, <1>4, <1>7
  <2>2. m > 0
    <3> HIDE DEF b, m
    <3> QED BY <1>4, <2>1
  <2>3. s \in 1 .. (n + 1) - 1 /\ b = Start(View, s) /\ m = offsets[s]
    BY <1>1, <2>2 DEF Recalls
  <2>4. s \in 1 .. n
    <3> HIDE DEF s
    <3> QED BY <1>2, <2>3
  <2>5. row - b + 1 \in 1 .. Len(blocks[s])
    <3> DEFINE len == Len(blocks[s])
    <3>1. len \in Nat /\ m = b + len
      BY <1>2, <1>3, <2>3, <2>4
    <3> HIDE DEF len, b, m
    <3>2. row - b + 1 \in 1 .. len
      BY <1>4, <2>1, <3>1
    <3> QED BY <3>2 DEF len
  <2>6. InBlock(last, row)
    BY <2>3, <2>4, <2>5 DEF InBlock, n
  <2> QED BY <1>2, <1>6, <1>7, <2>6
<1>8. CASE (row < last.base \/ row >= last.limit) /\ offsets[k] = row
  <2>1. Found(row) = after
    BY <1>6, <1>8
  <2>2. after \in [base : Int, limit : Int, slot : Int]
    BY <1>2, <1>4, <1>5
  <2>3. k \in 1 .. n - 1
    <3>1. k # n
      BY <1>4, <1>8
    <3> QED BY <1>2, <1>5, <3>1
  <2>4. AfterBlock(after, row, k)
    BY <1>4, <1>8, <2>3 DEF AfterBlock, n
  <2> QED BY <2>1, <2>2, <2>3, <2>4 DEF n
<1>9. CASE (row < last.base \/ row >= last.limit) /\ offsets[k] # row
  <2>1. Found(row) = found
    BY <1>6, <1>9
  <2> DEFINE s == Start(View, k)
             len == Len(blocks[k])
             o == offsets[k]
  <2>2. /\ s \in Int /\ len \in Nat /\ o \in Int /\ o = s + len /\ at = row - s
        /\ s <= row /\ row <= o /\ o # row
    BY <1>2, <1>3, <1>5, <1>9
  <2> HIDE DEF s, len, o
  <2>3. row - at = s /\ row - (row - at) + 1 \in 1 .. len /\ at \in Int
    BY <1>4, <2>2
  <2>4. found \in [base : Int, limit : Int, slot : Int]
    BY <1>4, <1>5, <2>2, <2>3 DEF o
  <2>5. InBlock(found, row)
    BY <1>5, <2>3 DEF InBlock, n, s, len
  <2> QED BY <2>1, <2>4, <2>5
<1> QED BY <1>7, <1>8, <1>9

\* A view in which rows are other rows: blocks of the same lengths, as many of
\* them, and the same offsets.
Alike(v, w) ==
  /\ Len(w.blocks) = Len(v.blocks) /\ Len(w.seps) = Len(v.seps) /\ w.offsets = v.offsets
  /\ \A i \in 1 .. Len(v.blocks) : Len(w.blocks[i]) = Len(v.blocks[i])

\* Such a view fits together too, and its blocks start where they did.
LEMMA AlikeFacts ==
  ASSUME NEW R, NEW v, Shape(R, v), NEW S, NEW w \in Views(S), Alike(v, w)
  PROVE  /\ Shape(S, w) /\ (Sized(v) => Sized(w))
         /\ \A i \in 1 .. Len(v.blocks) : Start(w, i) = Start(v, i)
<1>1. /\ Len(w.blocks) = Len(v.blocks) /\ Len(w.seps) = Len(v.seps) /\ w.offsets = v.offsets
      /\ \A i \in 1 .. Len(v.blocks) : Len(w.blocks[i]) = Len(v.blocks[i])
  BY DEF Alike
<1>2. Len(v.blocks) \in Nat /\ Len(v.blocks) >= 1
  BY ShapeFacts
<1>3. Fits(w)
  <2>1. \A k \in 2 .. Len(v.blocks) : k \in 1 .. Len(v.blocks)
    BY <1>2
  <2>2. 1 \in 1 .. Len(v.blocks)
    BY <1>2
  <2> QED BY <1>1, <2>1, <2>2 DEF Shape, Fits
<1>4. Shape(S, w)
  BY <1>3 DEF Shape
<1>5. Sized(v) => Sized(w)
  BY <1>1 DEF Sized
<1> QED BY <1>1, <1>4, <1>5 DEF Start

\* A row of a block is replaced.
LEMMA PutInBlock ==
  ASSUME NEW R, NEW v, Shape(R, v), NEW q \in 1 .. Len(v.blocks),
         NEW i \in 1 .. Len(v.blocks[q]), NEW r \in R, NEW w \in Views(R),
         w.blocks = [v.blocks EXCEPT ![q][i] = r], w.seps = v.seps, w.offsets = v.offsets
  PROVE  /\ Alike(v, w)
         /\ \A f \in Seq(R) : Shown(v, f) => Shown(w, [f EXCEPT ![Start(v, q) + i] = r])
<1> DEFINE n == Len(v.blocks)
           b == v.blocks[q]
           x == [b EXCEPT ![i] = r]
           zero == 0
           s == Start(v, q)
<1>1. /\ n \in Nat /\ v.blocks \in Seq(Seq(R)) /\ b \in Seq(R) /\ Len(b) \in Nat /\ q \in Int
      /\ s \in Int /\ v.offsets[q] \in Int /\ Len(v.offsets) = n /\ Len(v.seps) = n - 1
      /\ \A j \in 1 .. n : v.offsets[j] \in Int
  BY ShapeFacts
<1>2. s >= 0 /\ v.offsets[q] = s + Len(b)
  BY OffsetsGrow
<1>3. w.blocks = [v.blocks EXCEPT ![q] = x]
  BY <1>1
<1> HIDE DEF b, s
<1>4. x \in Seq(R) /\ Len(x) = Len(b) /\ x[i] = r /\ \A j \in 1 .. Len(b) : j # i => x[j] = b[j]
  <2>1. i \in 1 .. Len(b)
    BY DEF b
  <2> QED BY <1>1, <2>1
<1> HIDE DEF x
<1>5. /\ Len(w.blocks) = n /\ w.blocks[q] = x
      /\ \A j \in 1 .. n : j # q => w.blocks[j] = v.blocks[j]
  <2> DEFINE c == v.blocks
  <2>1. c \in Seq(Seq(R)) /\ Len(c) = n /\ q \in 1 .. Len(c) /\ w.blocks = [c EXCEPT ![q] = x]
    BY <1>1, <1>3
  <2> HIDE DEF c, n
  <2> QED BY <1>4, <2>1, BlockReplaced DEF c
<1>6. Alike(v, w)
  BY <1>4, <1>5 DEF Alike, b
<1>7. Edited(v, w, q, q, q, zero)
  <2>1. Len(w.blocks[q]) = Len(v.blocks[q]) + zero
    BY <1>1, <1>4, <1>5 DEF b
  <2>2. \A j \in 1 .. Len(v.blocks) :
          w.offsets[j] = IF j >= q THEN v.offsets[j] + zero ELSE v.offsets[j]
    BY <1>1
  <2>3. OnlyBlock(v, w, q, q, zero)
    BY <1>5, <2>1, <2>2 DEF OnlyBlock
  <2>4. zero \in Int /\ q \in 1 .. q
    BY <1>1
  <2> HIDE DEF zero
  <2> QED BY <2>3, <2>4, EditedOnly
<1>8. ASSUME NEW f \in Seq(R), Shown(v, f)
      PROVE  Shown(w, [f EXCEPT ![Start(v, q) + i] = r])
  <2> DEFINE p0 == s + i
             g == [f EXCEPT ![p0] = r]
  <2>1. /\ Len(f) = v.offsets[n] /\ \A j \in 1 .. Len(b) : f[s + j] = b[j]
    BY <1>8 DEF Shown, b, s
  <2>2. v.offsets[q] <= v.offsets[n] /\ v.offsets[n] \in Int
    <3>1. n \in 1 .. n /\ (q = n \/ q < n)
      BY <1>1
    <3>2. v.offsets[n] \in Int
      BY <1>1, <3>1
    <3>3. q < n => v.offsets[q] < v.offsets[n]
      BY <3>1, OffsetsGrow
    <3> HIDE DEF n
    <3> QED BY <1>1, <3>1, <3>2, <3>3
  <2>3. p0 \in 1 .. Len(f) /\ i \in Int /\ i >= 1 /\ i <= Len(b)
    <3>1. i \in 1 .. Len(b)
      BY DEF b
    <3> HIDE DEF n, p0
    <3>2. \A a, c, l, o, z \in Int : a >= 0 /\ c >= 1 /\ c <= l /\ o = a + l /\ o <= z =>
            a + c >= 1 /\ a + c <= z
      OBVIOUS
    <3>3. s + i >= 1 /\ s + i <= v.offsets[n]
      BY <1>1, <1>2, <2>2, <3>1, <3>2
    <3> QED BY <1>1, <2>1, <2>2, <3>1, <3>3 DEF p0
  <2>4. /\ Len(g) = Len(f) /\ g[p0] = r
        /\ \A p \in 1 .. Len(f) : p # p0 => g[p] = f[p]
    BY <2>3
  <2> HIDE DEF g
  <2>5. Len(g) = Len(f) + zero
    BY <2>4
  <2>6. ASSUME NEW p \in 1 .. Start(v, q) PROVE g[p] = f[p]
    <3>1. p \in 1 .. s
      BY DEF s
    <3> DEFINE len == Len(b)
               o == v.offsets[q]
               l == Len(f)
    <3>2. /\ o = s + len /\ o <= l /\ len \in Nat /\ l \in Int /\ o \in Int
      BY <1>1, <1>2, <2>1, <2>2
    <3> HIDE DEF len, o, l
    <3>3. p \in 1 .. l /\ p # p0
      BY <1>1, <2>3, <3>1, <3>2
    <3> QED BY <2>4, <3>3 DEF l
  <2>7. ASSUME NEW p \in v.offsets[q] + 1 .. Len(f) PROVE g[p + zero] = f[p]
    <3> DEFINE len == Len(b)
               o == v.offsets[q]
    <3>1. p \in o + 1 .. Len(f) /\ o = s + len /\ len \in Nat /\ o \in Int /\ i <= len /\ s >= 0
      BY <1>1, <1>2, <2>3
    <3> HIDE DEF len, o
    <3>2. p \in 1 .. Len(f) /\ p # p0 /\ p + zero = p
      BY <1>1, <2>3, <3>1
    <3> QED BY <2>4, <3>2
  <2>8. \A j \in 1 .. Len(b) : g[s + j] = x[j]
    <3> SUFFICES ASSUME NEW j \in 1 .. Len(b) PROVE g[s + j] = x[j]
      OBVIOUS
    <3>1. CASE j = i
      BY <1>4, <2>4, <3>1
    <3>2. CASE j # i
      <4> DEFINE len == Len(b)
                 l == Len(f)
                 o == v.offsets[q]
      <4>1. o = s + len /\ len \in Nat /\ o \in Int /\ o <= l /\ l \in Int /\ j \in 1 .. len
        BY <1>1, <1>2, <2>1, <2>2
      <4> HIDE DEF len, l, o
      <4>2. s + j \in 1 .. l /\ s + j # p0
        BY <1>1, <1>2, <2>3, <3>2, <4>1
      <4>3. g[s + j] = f[s + j]
        BY <2>4, <4>2 DEF l
      <4> QED BY <1>4, <2>1, <3>2, <4>3
    <3> QED BY <3>1, <3>2
  <2>9. Start(w, q) = s
    BY <1>7 DEF Edited, s
  <2>10. \A k \in q .. q : \A j \in 1 .. Len(w.blocks[k]) : g[Start(w, k) + j] = w.blocks[k][j]
    <3>1. \A k \in q .. q : k = q
      BY <1>1
    <3> QED BY <1>4, <1>5, <2>8, <2>9, <3>1
  <2>11. \A k \in q .. q - 1 : g[w.offsets[k] + 1] = w.seps[k]
    BY <1>1
  <2>12. Patches(v, w, q, q, q, zero, f, g)
    BY <2>5, <2>6, <2>7, <2>10, <2>11 DEF Patches
  <2>13. q \in q .. Len(v.blocks) /\ q >= q /\ zero \in Int
    BY <1>1
  <2> HIDE DEF zero
  <2>14. Shown(w, g)
    BY <1>1, <1>7, <1>8, <2>12, <2>13, EditedShows
  <2> QED BY <2>14 DEF g, s
<1> QED BY <1>6, <1>8

\* A row between two blocks is replaced.
LEMMA PutBetween ==
  ASSUME NEW R, NEW v, Shape(R, v), NEW k \in 1 .. Len(v.blocks) - 1, NEW r \in R,
         NEW w \in Views(R), w.blocks = v.blocks, w.seps = [v.seps EXCEPT ![k] = r],
         w.offsets = v.offsets
  PROVE  /\ Alike(v, w)
         /\ \A f \in Seq(R) : Shown(v, f) => Shown(w, [f EXCEPT ![v.offsets[k] + 1] = r])
<1> DEFINE n == Len(v.blocks)
           ss == v.seps
           o == v.offsets
<1>1. /\ n \in Nat /\ n >= 1 /\ ss \in Seq(R) /\ Len(ss) = n - 1 /\ k \in 1 .. n
      /\ \A i \in 1 .. n : o[i] \in Int /\ Len(v.blocks[i]) \in Nat /\ Start(v, i) \in Int
  BY ShapeFacts, SMTT(30)
<1>2. /\ \A i \in 1 .. n : 0 <= Start(v, i) /\ o[i] = Start(v, i) + Len(v.blocks[i])
      /\ \A i, j \in 1 .. n : i < j => o[i] < Start(v, j)
      /\ \A i, j \in 1 .. n : i < j => o[i] < o[j]
  BY OffsetsGrow
<1> HIDE DEF ss
<1>3. /\ Len(w.seps) = n - 1 /\ w.seps[k] = r
      /\ \A i \in 1 .. n - 1 : i # k => w.seps[i] = ss[i]
  <2>1. w.seps = [ss EXCEPT ![k] = r]
    BY DEF ss
  <2>2. k \in 1 .. Len(ss) /\ DOMAIN ss = 1 .. Len(ss)
    BY <1>1
  <2>3. Len(ss) = n - 1
    BY <1>1
  <2> HIDE DEF n
  <2>4. /\ Len([ss EXCEPT ![k] = r]) = Len(ss) /\ [ss EXCEPT ![k] = r][k] = r
        /\ \A i \in 1 .. Len(ss) : i # k => [ss EXCEPT ![k] = r][i] = ss[i]
    BY <1>1, <2>2
  <2> QED BY <2>1, <2>3, <2>4
<1>4. Alike(v, w)
  BY <1>1, <1>3 DEF Alike, ss
<1>5. ASSUME NEW f \in Seq(R), Shown(v, f)
      PROVE  Shown(w, [f EXCEPT ![v.offsets[k] + 1] = r])
  <2> DEFINE p0 == o[k] + 1
             g == [f EXCEPT ![p0] = r]
  <2>1. /\ Len(f) = o[n]
        /\ \A i \in 1 .. n : \A j \in 1 .. Len(v.blocks[i]) : f[Start(v, i) + j] = v.blocks[i][j]
        /\ \A i \in 1 .. n - 1 : f[o[i] + 1] = ss[i]
    BY <1>5 DEF Shown, ss
  <2>2. \A i \in 1 .. n : o[i] <= o[n] /\ (i < n => o[i] + 1 <= o[n])
    <3> SUFFICES ASSUME NEW i \in 1 .. n PROVE o[i] <= o[n] /\ (i < n => o[i] + 1 <= o[n])
      OBVIOUS
    <3>1. n \in 1 .. n /\ (i = n \/ i < n)
      BY <1>1
    <3>2. i < n => o[i] < o[n]
      BY <1>2, <3>1
    <3>3. o[i] \in Int /\ o[n] \in Int
      BY <1>1, <3>1
    <3> HIDE DEF n, o
    <3> QED BY <3>1, <3>2, <3>3
  <2>3. p0 \in 1 .. Len(f)
    <3>1. o[k] \in Int /\ o[k] >= 0
      <4>1. 0 <= Start(v, k) /\ o[k] = Start(v, k) + Len(v.blocks[k])
        BY <1>1, <1>2
      <4>2. Start(v, k) \in Int /\ Len(v.blocks[k]) \in Nat
        BY <1>1
      <4> QED BY <4>1, <4>2
    <3>2. k < n
      BY <1>1
    <3>3. o[k] + 1 <= o[n]
      BY <1>1, <2>2, <3>2
    <3> HIDE DEF o, n
    <3> QED BY <2>1, <3>1, <3>3
  <2>4. /\ Len(g) = Len(f) /\ g[p0] = r
        /\ \A p \in 1 .. Len(f) : p # p0 => g[p] = f[p]
    BY <2>3
  <2> HIDE DEF g
  <2>5. ASSUME NEW i \in 1 .. n, NEW j \in 1 .. Len(v.blocks[i])
        PROVE  g[Start(v, i) + j] = v.blocks[i][j]
    <3> DEFINE s == Start(v, i)
               len == Len(v.blocks[i])
    <3>1. s \in Int /\ s >= 0 /\ len \in Nat /\ o[i] = s + len /\ o[k] \in Int /\ o[i] \in Int
          /\ o[i] <= o[n] /\ j \in 1 .. len /\ o[n] \in Int
      BY <1>1, <1>2, <2>2
    <3>2. i <= k => o[i] <= o[k]
      <4>1. i = k \/ i < k \/ i > k
        BY <1>1
      <4>2. i < k => o[i] < o[k]
        BY <1>1, <1>2
      <4> HIDE DEF o
      <4> QED BY <1>1, <3>1, <4>1, <4>2
    <3>3. i > k => o[k] < s
      BY <1>1, <1>2
    <3>4. i <= k \/ i > k
      BY <1>1
    <3> HIDE DEF s, len, o
    <3>5. s + j \in 1 .. Len(f) /\ s + j # p0
      BY <2>1, <3>1, <3>2, <3>3, <3>4
    <3>6. g[s + j] = f[s + j]
      BY <2>4, <3>5
    <3> QED BY <2>1, <3>6 DEF s
  <2>6. ASSUME NEW i \in 1 .. n - 1 PROVE g[o[i] + 1] = w.seps[i]
    <3>1. CASE i = k
      BY <1>3, <2>4, <3>1
    <3>2. CASE i # k
      <4>1. i \in 1 .. n /\ i < n /\ (i < k \/ k < i)
        BY <1>1, <3>2
      <4>2. o[i] \in Int /\ o[k] \in Int /\ (o[i] < o[k] \/ o[k] < o[i]) /\ o[n] \in Int
            /\ o[i] + 1 <= o[n] /\ 0 <= o[i]
        <5>1. 0 <= Start(v, i) /\ o[i] = Start(v, i) + Len(v.blocks[i])
          BY <1>2, <4>1
        <5>2. Start(v, i) \in Int /\ Len(v.blocks[i]) \in Nat
          BY <1>1, <4>1
        <5>3. 0 <= o[i]
          BY <5>1, <5>2
        <5>4. n \in 1 .. n
          BY <1>1
        <5> QED BY <1>1, <1>2, <2>2, <4>1, <5>3, <5>4
      <4> DEFINE x == o[i]
                 y == o[k]
                 z == o[n]
      <4>3. x \in Int /\ y \in Int /\ z \in Int /\ x # y /\ 0 <= x /\ x + 1 <= z /\ Len(f) = z
            /\ p0 = y + 1
        BY <2>1, <4>2
      <4> HIDE DEF x, y, z, p0
      <4>4. x + 1 \in 1 .. Len(f) /\ x + 1 # p0
        BY <4>3
      <4>5. g[x + 1] = f[x + 1]
        BY <2>4, <4>4
      <4> QED BY <1>3, <2>1, <3>2, <4>5 DEF x
    <3> QED BY <3>1, <3>2
  <2>7. Start(w, k) = Start(v, k) /\ \A i \in 1 .. n : Start(w, i) = Start(v, i)
    BY DEF Start
  <2>8. Len(g) = w.offsets[Len(w.blocks)]
    BY <2>1, <2>4
  <2>9. Shown(w, g)
    BY <2>5, <2>6, <2>7, <2>8 DEF Shown
  <2> QED BY <2>9 DEF g
<1> QED BY <1>4, <1>5

\* What holds of a view holds of it with the same rows and another block remembered.
LEMMA OtherLast ==
  ASSUME NEW R, NEW v, Shape(R, v), NEW w \in Views(R),
         w.blocks = v.blocks, w.seps = v.seps, w.offsets = v.offsets
  PROVE  Alike(v, w) /\ \A f : Shown(v, f) => Shown(w, f)
<1>1. \A i : Start(w, i) = Start(v, i)
  BY DEF Start
<1> QED BY <1>1 DEF Alike, Shown

\* After a row has been looked up the invariant holds, also when it is replaced.
LEMMA LookedUp ==
  ASSUME IInv, NEW row \in 0 .. Size - 1, NEW w \in Views(Row), Alike(View, w),
         w.last = Found(row)
  PROVE  Kept(Row, w)
<1> DEFINE l == Found(row)
           n == Len(blocks)
<1>1. /\ Shape(Row, View) /\ Sized(View)
      /\ View.blocks = blocks /\ View.offsets = offsets
  BY ViewFields DEF IInv, Kept
<1>2. /\ Shape(Row, w) /\ Sized(w)
      /\ \A i \in 1 .. n : Start(w, i) = Start(View, i)
  <2>1. \A i \in 1 .. Len(View.blocks) : Start(w, i) = Start(View, i)
    BY <1>1, AlikeFacts
  <2> QED BY <1>1, <2>1, AlikeFacts
<1>3. w.offsets = offsets /\ Len(w.blocks) = n /\ n \in Nat
  <2>1. Len(View.blocks) \in Nat
    BY <1>1, ShapeFacts
  <2> QED BY <1>1, <2>1 DEF Alike
<1>4. InBlock(l, row) \/ \E k \in 1 .. Len(blocks) - 1 : AfterBlock(l, row, k)
  BY FoundFacts
<1> HIDE DEF l, n
<1>5. Recalls(w, Len(w.blocks) + 1)
  <2>1. CASE InBlock(l, row)
    <3>1. l.slot \in 1 .. n /\ l.base = Start(View, l.slot) /\ l.limit = offsets[l.slot]
      BY <2>1 DEF InBlock, n
    <3>2. l.slot \in 1 .. (n + 1) - 1
      BY <1>3, <3>1
    <3> QED BY <1>2, <1>3, <3>1, <3>2 DEF Recalls, l
  <2>2. CASE \E k \in 1 .. Len(blocks) - 1 : AfterBlock(l, row, k)
    <3>1. l.limit = 0
      BY <2>2 DEF AfterBlock
    <3> QED BY <3>1 DEF Recalls, l
  <2> QED BY <1>4, <2>1, <2>2
<1> QED BY <1>2, <1>5 DEF Kept

\* Flat is the sequence that the view shows.
LEMMA FlatFacts ==
  ASSUME IInv
  PROVE  Flat \in Seq(Row) /\ Shown(View, Flat) /\ Len(Flat) = Size /\ Size \in Nat
<1>1. Shape(Row, View) /\ View.blocks = blocks /\ View.offsets = offsets
  BY ViewFields DEF IInv, Kept
<1>2. Flat \in Seq(Row) /\ Shown(View, Flat)
  BY <1>1, FlatShown DEF Flat
<1>3. Len(offsets) = Len(blocks)
  <2>1. Len(View.offsets) = Len(View.blocks)
    BY <1>1, ShapeFacts
  <2> QED BY <1>1, <2>1
<1>4. Len(Flat) = Size
  BY <1>1, <1>2, <1>3 DEF Shown, Size
<1>5. Len(Flat) \in Nat
  BY <1>2
<1> QED BY <1>2, <1>4, <1>5

\* A step to a view that is a record of the right parts, and what is then shown.
LEMMA StepTo ==
  ASSUME NEW w, Kept(Row, w), Becomes(w)
  PROVE  IInv' /\ \A f \in Seq(Row) : Shown(w, f) => Flat' = f
<1>1. w \in Views(Row) /\ Shape(Row, w)
  BY DEF Kept, Shape
<1>2. View' = w
  BY <1>1, BecomesView
<1>3. IInv'
  BY <1>2 DEF IInv
<1>4. Flat' = FlatOf(w)
  BY <1>2 DEF Flat
<1> QED BY <1>1, <1>3, <1>4, FlatIs

\* Opening the view again, after it has been saved.
LEMMA ReopenKeeps ==
  ASSUME IInv, Reopen
  PROVE  IInv' /\ Flat' = Flat
<1> DEFINE w == [blocks |-> blocks, seps |-> seps, offsets |-> offsets, last |-> NoLast]
<1>1. /\ Shape(Row, View) /\ Sized(View) /\ View \in Views(Row)
      /\ View.blocks = blocks /\ View.seps = seps /\ View.offsets = offsets
  BY ViewFields DEF IInv, Kept, Shape
<1>2. OffsetsOf(blocks) = offsets
  BY <1>1, OffsetsOfIs
<1>3. Becomes(w)
  BY <1>2 DEF Reopen, Becomes
<1>4. NoLast \in [base : Int, limit : Int, slot : Int] /\ ~(NoLast.limit > 0)
  BY DEF NoLast
<1>5. w \in Views(Row)
  BY <1>1, <1>4 DEF Views
<1>6. Alike(View, w) /\ \A f : Shown(View, f) => Shown(w, f)
  BY <1>1, <1>5, OtherLast
<1>7. Recalls(w, Len(w.blocks) + 1)
  BY <1>4 DEF Recalls
<1> HIDE DEF w
<1>8. Kept(Row, w)
  BY <1>1, <1>5, <1>6, <1>7, AlikeFacts DEF Kept
<1> QED BY <1>3, <1>6, <1>8, FlatFacts, StepTo

\* Reading a row.
LEMMA GetItemKeeps ==
  ASSUME IInv, NEW row \in 0 .. Size - 1, GetItem(row)
  PROVE  IInv' /\ Flat' = Flat
<1> DEFINE l == Found(row)
           w == [blocks |-> blocks, seps |-> seps, offsets |-> offsets, last |-> l]
<1>1. /\ Shape(Row, View) /\ View \in Views(Row)
      /\ View.blocks = blocks /\ View.seps = seps /\ View.offsets = offsets
  BY ViewFields DEF IInv, Kept, Shape
<1>2. l \in [base : Int, limit : Int, slot : Int]
  BY FoundFacts
<1>3. Becomes(w)
  BY DEF GetItem, Becomes
<1> HIDE DEF l
<1>4. w \in Views(Row)
  BY <1>1, <1>2 DEF Views
<1>5. Alike(View, w) /\ \A f : Shown(View, f) => Shown(w, f)
  BY <1>1, <1>4, OtherLast
<1>6. w.last = Found(row)
  BY DEF l
<1> HIDE DEF w
<1>7. Kept(Row, w)
  BY <1>4, <1>5, <1>6, LookedUp
<1> QED BY <1>3, <1>5, <1>7, FlatFacts, StepTo

\* Replacing a row: that row of the view is replaced, and no other.
LEMMA SetItemKeeps ==
  ASSUME IInv, NEW row \in 0 .. Size - 1, NEW r \in Row, SetItem(row, r)
  PROVE  IInv' /\ Flat' = [Flat EXCEPT ![row + 1] = r]
<1> DEFINE l == Found(row)
           s == l.slot
           i == row - l.base + 1
           bs == [blocks EXCEPT ![s][i] = r]
           ss == [seps EXCEPT ![i] = r]
           inside == [blocks |-> bs, seps |-> seps, offsets |-> offsets, last |-> l]
           after == [blocks |-> blocks, seps |-> ss, offsets |-> offsets, last |-> l]
           g == [Flat EXCEPT ![row + 1] = r]
<1>1. /\ Shape(Row, View) /\ View \in Views(Row)
      /\ View.blocks = blocks /\ View.seps = seps /\ View.offsets = offsets
  BY ViewFields DEF IInv, Kept, Shape
<1>2. /\ blocks \in Seq(Seq(Row)) /\ seps \in Seq(Row) /\ offsets \in Seq(Int)
      /\ Len(offsets) = Len(blocks) /\ Len(blocks) \in Nat /\ Len(seps) = Len(blocks) - 1
      /\ \A k \in 1 .. Len(blocks) : blocks[k] \in Seq(Row) /\ Start(View, k) \in Int
  <2>1. /\ View.blocks \in Seq(Seq(Row)) /\ View.seps \in Seq(Row) /\ View.offsets \in Seq(Int)
        /\ Len(View.offsets) = Len(View.blocks) /\ Len(View.blocks) \in Nat
        /\ Len(View.seps) = Len(View.blocks) - 1
        /\ \A k \in 1 .. Len(View.blocks) : View.blocks[k] \in Seq(Row) /\ Start(View, k) \in Int
    BY <1>1, ShapeFacts
  <2> QED BY <1>1, <2>1
<1>3. /\ l \in [base : Int, limit : Int, slot : Int]
      /\ InBlock(l, row) \/ \E k \in 1 .. Len(blocks) - 1 : AfterBlock(l, row, k)
  BY FoundFacts
<1>4. /\ last' = l /\ offsets' = offsets
      /\ s = Len(offsets) + 1 => seps' = ss /\ blocks' = blocks
      /\ s # Len(offsets) + 1 => blocks' = bs /\ seps' = seps
  BY DEF SetItem
<1>5. Flat \in Seq(Row) /\ Shown(View, Flat) /\ Size \in Nat /\ Len(Flat) = Size
  BY FlatFacts
<1>6. g \in Seq(Row)
  <2>1. row + 1 \in 1 .. Len(Flat)
    BY <1>5
  <2> DEFINE f == Flat
  <2>2. f \in Seq(Row) /\ row + 1 \in 1 .. Len(f)
    BY <1>5, <2>1
  <2> HIDE DEF f
  <2>3. [f EXCEPT ![row + 1] = r] \in Seq(Row)
    BY <2>2
  <2> QED BY <2>3 DEF f
<1>7. row \in Int
  BY <1>5
<1> HIDE DEF l
<1>8. CASE InBlock(l, row)
  <2> DEFINE w == inside
             b == blocks[s]
  <2>1. s \in 1 .. Len(blocks) /\ l.base = Start(View, s) /\ i \in 1 .. Len(b)
    BY <1>8 DEF InBlock
  <2>2. s # Len(offsets) + 1
    BY <1>2, <2>1
  <2>3. Becomes(w)
    BY <1>4, <2>2 DEF Becomes
  <2>4. bs \in Seq(Seq(Row))
    <3> DEFINE x == [b EXCEPT ![i] = r]
    <3>1. b \in Seq(Row)
      BY <1>2, <2>1
    <3> HIDE DEF b, i, s
    <3>2. x \in Seq(Row)
      BY <2>1, <3>1
    <3>3. bs = [blocks EXCEPT ![s] = x]
      BY DEF b
    <3> HIDE DEF x, bs
    <3>4. [blocks EXCEPT ![s] = x] \in Seq(Seq(Row))
      BY <1>2, <2>1, <3>2, BlockReplaced
    <3> QED BY <3>3, <3>4
  <2> HIDE DEF bs
  <2>5. w \in Views(Row)
    BY <1>2, <1>3, <2>4 DEF Views
  <2>6. /\ w.blocks = [View.blocks EXCEPT ![s][i] = r]
        /\ w.seps = View.seps /\ w.offsets = View.offsets
    BY <1>1 DEF bs
  <2>7. w.last = Found(row)
    BY DEF l
  <2>8. s \in 1 .. Len(View.blocks) /\ i \in 1 .. Len(View.blocks[s])
    BY <1>1, <2>1
  <2>9. Start(View, s) + i = row + 1
    BY <1>2, <1>7, <2>1, SMTT(30)
  <2> HIDE DEF w, i, s
  <2>10. /\ Alike(View, w)
         /\ \A f \in Seq(Row) : Shown(View, f) => Shown(w, [f EXCEPT ![Start(View, s) + i] = r])
    BY <1>1, <2>5, <2>6, <2>8, PutInBlock
  <2>11. Shown(w, g)
    BY <1>5, <2>9, <2>10
  <2>12. Kept(Row, w)
    BY <2>5, <2>7, <2>10, LookedUp
  <2> HIDE DEF g
  <2>13. IInv' /\ Flat' = g
    BY <1>6, <2>3, <2>11, <2>12, StepTo
  <2> QED BY <2>13 DEF g
<1>9. CASE \E k \in 1 .. Len(blocks) - 1 : AfterBlock(l, row, k)
  <2> DEFINE w == after
  <2>1. /\ i \in 1 .. Len(blocks) - 1 /\ s = Len(offsets) + 1 /\ offsets[i] = row
    BY <1>9 DEF AfterBlock
  <2>2. Becomes(w)
    BY <1>4, <2>1 DEF Becomes
  <2> HIDE DEF i, s
  <2>3. ss \in Seq(Row)
    BY <1>2, <2>1
  <2> HIDE DEF ss
  <2>4. w \in Views(Row)
    BY <1>2, <1>3, <2>3 DEF Views
  <2>5. /\ w.seps = [View.seps EXCEPT ![i] = r]
        /\ w.blocks = View.blocks /\ w.offsets = View.offsets
    BY <1>1 DEF ss
  <2>6. w.last = Found(row)
    BY DEF l
  <2>7. i \in 1 .. Len(View.blocks) - 1 /\ View.offsets[i] + 1 = row + 1
    BY <1>1, <2>1
  <2> HIDE DEF w
  <2>8. /\ Alike(View, w)
        /\ \A f \in Seq(Row) : Shown(View, f) => Shown(w, [f EXCEPT ![View.offsets[i] + 1] = r])
    BY <1>1, <2>4, <2>5, <2>7, PutBetween
  <2>9. Shown(w, g)
    BY <1>5, <2>7, <2>8
  <2>10. Kept(Row, w)
    BY <2>4, <2>6, <2>8, LookedUp
  <2> HIDE DEF g
  <2>11. IInv' /\ Flat' = g
    BY <1>6, <2>2, <2>9, <2>10, StepTo
  <2> QED BY <2>11 DEF g
<1> QED BY <1>3, <1>8, <1>9

\* Inserting rows: they are in the view then, and no others are.
LEMMA InsertRowsKeeps ==
  ASSUME IInv, NEW pos \in 0 .. Size, NEW r \in Row, NEW count \in Nat, count >= 1,
         InsertRows(pos, r, count)
  PROVE  IInv' /\ Flat' = Upto(Flat, pos) \o Repeat(r, count) \o After(Flat, pos)
<1> DEFINE new == Repeat(r, count)
           w == Inserted(View, pos, new)
           g == Upto(Flat, pos) \o new \o After(Flat, pos)
<1>1. /\ Kept(Row, View) /\ View.offsets = offsets /\ Size = View.offsets[Len(View.offsets)]
  BY ViewFields DEF IInv, Size
<1>2. Flat \in Seq(Row) /\ Shown(View, Flat) /\ Size \in Nat /\ Len(Flat) = Size
  BY FlatFacts
<1>3. new \in Seq(Row) /\ Len(new) >= 1
  BY RepeatFacts
<1>4. Becomes(w)
  BY DEF InsertRows
<1> HIDE DEF new
<1>5. /\ Kept(Row, w)
      /\ \A f \in Seq(Row) : Shown(View, f) => Shown(w, Upto(f, pos) \o new \o After(f, pos))
  <2>1. pos \in 0 .. View.offsets[Len(View.offsets)]
    BY <1>1
  <2> QED BY <1>1, <1>3, <2>1, InsertedFacts
<1>6. g \in Seq(Row)
  <2>1. pos \in Nat /\ 0 \in Nat /\ pos + 0 <= Len(Flat) /\ pos + 0 = pos
    BY <1>2
  <2>2. Upto(Flat, pos) \o new \o After(Flat, pos + 0) \in Seq(Row)
    BY <1>2, <1>3, <2>1, SplicedIs
  <2> QED BY <2>1, <2>2
<1> HIDE DEF w
<1>7. Shown(w, g)
  BY <1>2, <1>5
<1> HIDE DEF g
<1>8. IInv' /\ Flat' = g
  BY <1>4, <1>5, <1>6, <1>7, StepTo
<1> QED BY <1>8 DEF g, new

\* Removing rows: they are gone, and no others are.
LEMMA RemoveRowsKeeps ==
  ASSUME IInv, NEW pos \in Nat, NEW count \in Nat, RemoveRows(pos, count)
  PROVE  IInv' /\ Flat' = Upto(Flat, pos) \o After(Flat, pos + count)
<1> DEFINE w == Without(View, pos, count)
           g == Upto(Flat, pos) \o After(Flat, pos + count)
<1>1. /\ Kept(Row, View) /\ View.offsets = offsets /\ Size = View.offsets[Len(View.offsets)]
  BY ViewFields DEF IInv, Size
<1>2. Flat \in Seq(Row) /\ Shown(View, Flat) /\ Size \in Nat /\ Len(Flat) = Size
  BY FlatFacts
<1>3. Becomes(w) /\ pos + count <= Size
  BY DEF RemoveRows
<1>4. /\ Kept(Row, w)
      /\ \A f \in Seq(Row) : Shown(View, f) => Shown(w, Upto(f, pos) \o After(f, pos + count))
  BY <1>1, <1>3, WithoutFacts
<1>5. g \in Seq(Row)
  BY <1>2, <1>3, CutIs
<1> HIDE DEF w
<1>6. Shown(w, g)
  BY <1>2, <1>4
<1> HIDE DEF g
<1>7. IInv' /\ Flat' = g
  BY <1>3, <1>4, <1>5, <1>6, StepTo
<1> QED BY <1>7 DEF g

\* The view with its rows numbered has the same shape, and shows the numbers.
LEMMA NumberedFacts ==
  ASSUME IInv
  PROVE  /\ Numbers \in Seq(Int) /\ Len(Numbers) = Size
         /\ \A p \in 1 .. Size : Numbers[p] = p
         /\ Kept(Int, Numbered) /\ Shown(Numbered, Numbers)
         /\ Numbered.offsets = offsets /\ Alike(View, Numbered)
<1> DEFINE before(k) == IF k = 1 THEN 0 ELSE offsets[k - 1] + 1
           rows(k) == SubSeq(Numbers, before(k) + 1, offsets[k])
           bf == [k \in DOMAIN blocks |-> rows(k)]
           sf == [k \in DOMAIN seps |-> offsets[k] + 1]
           bs == Upto(bf, Len(blocks))
           ss == Upto(sf, Len(seps))
           n == Len(blocks)
           w == Numbered
<1>1. /\ Shape(Row, View) /\ Sized(View) /\ Recalls(View, n + 1)
      /\ View.blocks = blocks /\ View.seps = seps /\ View.offsets = offsets /\ View.last = last
  BY ViewFields DEF IInv, Kept
<1>2. /\ n \in Nat /\ n >= 1 /\ blocks \in Seq(Seq(Row)) /\ seps \in Seq(Row)
      /\ offsets \in Seq(Int) /\ Len(seps) = n - 1 /\ Len(offsets) = n
      /\ last \in [base : Int, limit : Int, slot : Int]
      /\ \A k \in 1 .. n : /\ blocks[k] \in Seq(Row) /\ Len(blocks[k]) \in Nat
                           /\ offsets[k] \in Int /\ Start(View, k) \in Int
      /\ Start(View, 1) = 0
      /\ \A k \in 2 .. n : Start(View, k) = offsets[k - 1] + 1
  <2>1. /\ Len(View.blocks) \in Nat /\ Len(View.blocks) >= 1
        /\ Len(View.seps) = Len(View.blocks) - 1 /\ Len(View.offsets) = Len(View.blocks)
        /\ View.blocks \in Seq(Seq(Row)) /\ View.seps \in Seq(Row) /\ View.offsets \in Seq(Int)
        /\ View.last \in [base : Int, limit : Int, slot : Int]
        /\ \A k \in 1 .. Len(View.blocks) : /\ View.blocks[k] \in Seq(Row)
                                            /\ Len(View.blocks[k]) \in Nat
                                            /\ View.offsets[k] \in Int /\ Start(View, k) \in Int
        /\ Start(View, 1) = 0
        /\ \A k \in 2 .. Len(View.blocks) : Start(View, k) = View.offsets[k - 1] + 1
    BY <1>1, ShapeFacts
  <2> QED BY <1>1, <2>1
<1>3. \A k \in 1 .. n : /\ 0 <= Start(View, k)
                        /\ offsets[k] = Start(View, k) + Len(blocks[k])
                        /\ offsets[k] <= Size /\ (k < n => offsets[k] + 1 <= Size)
  <2>1. /\ \A k \in 1 .. Len(View.blocks) :
             /\ 0 <= Start(View, k) /\ View.offsets[k] = Start(View, k) + Len(View.blocks[k])
        /\ \A j, k \in 1 .. Len(View.blocks) : j < k => View.offsets[j] < View.offsets[k]
    BY <1>1, OffsetsGrow
  <2> SUFFICES ASSUME NEW k \in 1 .. n
               PROVE  /\ 0 <= Start(View, k) /\ offsets[k] = Start(View, k) + Len(blocks[k])
                      /\ offsets[k] <= Size /\ (k < n => offsets[k] + 1 <= Size)
    OBVIOUS
  <2>2. n \in 1 .. n /\ (k = n \/ k < n)
    <3>1. n \in Nat /\ n >= 1
      BY <1>2
    <3> HIDE DEF n
    <3> QED BY <3>1
  <2>3. k < n => offsets[k] < offsets[n]
    BY <1>1, <2>1, <2>2
  <2>4. offsets[k] \in Int /\ offsets[n] \in Int /\ Size = offsets[n]
    BY <1>2, <2>2 DEF Size
  <2>5. offsets[k] <= Size /\ (k < n => offsets[k] + 1 <= Size)
    <3> HIDE DEF n
    <3> QED BY <2>2, <2>3, <2>4
  <2> QED BY <1>1, <2>1, <2>5
<1>4. Size \in Nat
  BY FlatFacts
<1>5. Numbers \in Seq(Int) /\ Len(Numbers) = Size /\ \A p \in 1 .. Size : Numbers[p] = p
  <2>1. Numbers = [p \in 1 .. Size |-> p]
    BY DEF Numbers
  <2>2. \A p \in 1 .. Size : p \in Int
    BY <1>4
  <2> DEFINE f == Numbers
             len == Size
  <2>3. f = [p \in 1 .. len |-> p] /\ len \in Nat /\ \A p \in 1 .. len : p \in Int
    BY <1>4, <2>1, <2>2
  <2> HIDE DEF f, len
  <2>4. f \in [1 .. len -> Int]
    BY <2>3
  <2>5. f \in Seq(Int) /\ Len(f) = len
    BY <2>3, <2>4, FunctionIsSeq
  <2>6. \A p \in 1 .. len : f[p] = p
    BY <2>3
  <2> QED BY <2>5, <2>6 DEF f, len
<1>6. w = [blocks |-> bs, seps |-> ss, offsets |-> offsets, last |-> last]
  <2>1. w = [View EXCEPT !.blocks = bs, !.seps = ss]
    BY DEF Numbered
  <2> HIDE DEF bs, ss, w
  <2> QED BY <2>1 DEF View
<1> HIDE DEF w
<1>7. \A k \in 1 .. n : before(k) = Start(View, k)
  <2>1. \A k \in 1 .. n : k = 1 \/ k \in 2 .. n
    BY <1>2
  <2> QED BY <1>2, <2>1
<1>8. ASSUME NEW k \in 1 .. n
      PROVE  /\ rows(k) \in Seq(Int) /\ Len(rows(k)) = Len(blocks[k])
             /\ \A i \in 1 .. Len(blocks[k]) : rows(k)[i] = Start(View, k) + i
  <2> DEFINE s == Start(View, k)
             len == Len(blocks[k])
             f == Numbers
             o == offsets[k]
  <2>1. rows(k) = SubSeq(f, s + 1, o)
    BY <1>7
  <2>2. /\ s \in Int /\ s >= 0 /\ len \in Nat /\ o = s + len /\ o <= Size
        /\ f \in Seq(Int) /\ Len(f) = Size /\ \A p \in 1 .. Size : f[p] = p
    BY <1>2, <1>3, <1>5
  <2> HIDE DEF s, len, f, o, rows
  <2>3. SubSeq(f, s + 1, o) \in Seq(Int) /\ Len(SubSeq(f, s + 1, o)) = len
        /\ \A i \in 1 .. len : SubSeq(f, s + 1, o)[i] = f[(s + 1) + i - 1]
    <3>1. s + 1 \in 1 .. Len(f) + 1 /\ o \in s .. Len(f) /\ o - (s + 1) + 1 = len
          /\ s + 1 \in Nat /\ s + 1 >= 1
      BY <1>4, <2>2
    <3>2. len # 0 \/ len = 0
      OBVIOUS
    <3> QED BY <2>2, <3>1
  <2>4. \A i \in 1 .. len : (s + 1) + i - 1 = s + i /\ s + i \in 1 .. Size
    BY <1>4, <2>2
  <2> QED BY <2>1, <2>2, <2>3, <2>4 DEF s, len
<1> HIDE DEF rows, before
<1>9. bs \in Seq(Seq(Int)) /\ Len(bs) = n /\ \A k \in 1 .. n : bs[k] = rows(k)
  <2>1. DOMAIN blocks = 1 .. n
    BY <1>2
  <2>2. bf \in [1 .. n -> Seq(Int)] /\ \A k \in 1 .. n : bf[k] = rows(k)
    BY <1>8, <2>1
  <2> HIDE DEF bf, n
  <2>3. bf \in Seq(Seq(Int)) /\ Len(bf) = n
    BY <1>2, <2>2, FunctionIsSeq
  <2>4. n \in 0 .. Len(bf)
    BY <1>2, <2>3
  <2>5. bs = Upto(bf, n)
    BY DEF n
  <2> HIDE DEF bs
  <2>6. Upto(bf, n) \in Seq(Seq(Int)) /\ Len(Upto(bf, n)) = n
        /\ \A i \in 1 .. n : Upto(bf, n)[i] = bf[i]
    BY <2>3, <2>4, UptoFacts
  <2> QED BY <2>2, <2>5, <2>6
<1>10. ss \in Seq(Int) /\ Len(ss) = n - 1 /\ \A k \in 1 .. n - 1 : ss[k] = offsets[k] + 1
  <2> DEFINE m == Len(seps)
  <2>1. DOMAIN seps = 1 .. m /\ m = n - 1 /\ m \in Nat
    BY <1>2
  <2>2. \A k \in 1 .. m : k \in 1 .. n
    BY <1>2, <2>1
  <2> HIDE DEF m
  <2>3. \A k \in 1 .. m : offsets[k] + 1 \in Int
    BY <1>2, <2>2
  <2>4. sf \in [1 .. m -> Int] /\ \A k \in 1 .. m : sf[k] = offsets[k] + 1
    BY <2>1, <2>3
  <2> HIDE DEF sf, n
  <2>5. sf \in Seq(Int) /\ Len(sf) = m
    BY <2>1, <2>4, FunctionIsSeq
  <2>6. m \in 0 .. Len(sf)
    BY <2>1, <2>5
  <2>7. ss = Upto(sf, m)
    BY DEF m
  <2> HIDE DEF ss
  <2>8. Upto(sf, m) \in Seq(Int) /\ Len(Upto(sf, m)) = m /\ \A i \in 1 .. m : Upto(sf, m)[i] = sf[i]
    BY <2>5, <2>6, UptoFacts
  <2> QED BY <2>1, <2>4, <2>7, <2>8
<1> HIDE DEF bs, ss
<1>11. /\ w \in Views(Int) /\ w.blocks = bs /\ w.seps = ss /\ w.offsets = offsets
       /\ w.last = last
  BY <1>2, <1>6, <1>9, <1>10 DEF Views
<1>12. Alike(View, w)
  <2>1. \A k \in 1 .. n : Len(w.blocks[k]) = Len(blocks[k])
    BY <1>8, <1>9, <1>11
  <2> QED BY <1>1, <1>2, <1>9, <1>10, <1>11, <2>1 DEF Alike
<1>13. /\ Shape(Int, w) /\ Sized(w) /\ \A k \in 1 .. n : Start(w, k) = Start(View, k)
  <2> DEFINE S == Int
  <2>1. w \in Views(S)
    BY <1>11
  <2> HIDE DEF S
  <2>2. /\ Shape(S, w) /\ Sized(w)
        /\ \A k \in 1 .. Len(View.blocks) : Start(w, k) = Start(View, k)
    BY <1>1, <1>12, <2>1, AlikeFacts
  <2> QED BY <1>1, <2>2 DEF S
<1>14. Recalls(w, Len(w.blocks) + 1)
  <2>1. last.limit > 0 => /\ last.slot \in 1 .. (n + 1) - 1
                          /\ last.base = Start(View, last.slot)
                          /\ last.limit = offsets[last.slot]
    BY <1>1 DEF Recalls
  <2>2. \A s : s \in 1 .. (n + 1) - 1 => s \in 1 .. n
    BY <1>2
  <2> QED BY <1>9, <1>11, <1>13, <2>1, <2>2 DEF Recalls
<1>15. Shown(w, Numbers)
  <2>1. Len(Numbers) = w.offsets[Len(w.blocks)]
    BY <1>2, <1>5, <1>9, <1>11 DEF Size
  <2>2. ASSUME NEW k \in 1 .. n, NEW i \in 1 .. Len(w.blocks[k])
        PROVE  Numbers[Start(w, k) + i] = w.blocks[k][i]
    <3> DEFINE s == Start(View, k)
               len == Len(blocks[k])
               o == offsets[k]
    <3>1. i \in 1 .. len /\ w.blocks[k][i] = s + i
      BY <1>8, <1>9, <1>11
    <3>2. s \in Int /\ s >= 0 /\ len \in Nat /\ o = s + len /\ o <= Size
      BY <1>2, <1>3
    <3> HIDE DEF s, len, o
    <3>3. s + i \in 1 .. Size
      BY <1>4, <3>1, <3>2
    <3>4. Start(w, k) = s
      BY <1>13 DEF s
    <3> QED BY <1>5, <3>1, <3>3, <3>4
  <2>3. ASSUME NEW k \in 1 .. n - 1 PROVE Numbers[w.offsets[k] + 1] = w.seps[k]
    <3> DEFINE o == offsets[k]
    <3>1. k \in 1 .. n /\ k < n
      BY <1>2, SMTT(30)
    <3>2. o \in Int /\ o + 1 <= Size /\ o >= 0
      <4> DEFINE s == Start(View, k)
                 len == Len(blocks[k])
      <4>1. s \in Int /\ s >= 0 /\ len \in Nat /\ o = s + len /\ o \in Int /\ o + 1 <= Size
        BY <1>2, <1>3, <3>1
      <4> HIDE DEF s, len, o
      <4> QED BY <4>1
    <3> HIDE DEF o
    <3>3. o + 1 \in 1 .. Size
      BY <1>4, <3>2
    <3> QED BY <1>5, <1>10, <1>11, <3>3 DEF o
  <2> QED BY <1>9, <1>11, <2>1, <2>2, <2>3 DEF Shown
<1> QED BY <1>5, <1>11, <1>12, <1>13, <1>14, <1>15 DEF Kept, w

----------------------------------------------------------------------------
\* Every step keeps the invariant, and what it does to the view is what it should
\* do: the rows of the view are changed as a plain sequence would be.
LEMMA NextKeeps ==
  ASSUME IInv, Next
  PROVE  IInv' /\ (Flat' = Flat \/ Plainly!Next)
<1>1. Flat \in Seq(Row) /\ Len(Flat) = Size /\ Size \in Nat /\ MaxRows \in Nat
  BY FlatFacts, BlockedViewAssumption
<1>2. CASE Reopen
  BY <1>2, ReopenKeeps
<1>3. CASE \E pos \in 0 .. Size : \E r \in Row : \E count \in 1 .. MaxRows :
             InsertRows(pos, r, count)
  <2>1. PICK pos \in 0 .. Size, r \in Row, count \in 1 .. MaxRows : InsertRows(pos, r, count)
    BY <1>3
  <2>2. count \in Nat /\ count >= 1 /\ pos \in Nat /\ pos + 0 <= Len(Flat) /\ pos + 0 = pos
        /\ 0 \in Nat
    BY <1>1
  <2>3. IInv' /\ Flat' = Upto(Flat, pos) \o Repeat(r, count) \o After(Flat, pos)
    BY <2>1, <2>2, InsertRowsKeeps
  <2> DEFINE f == Flat
             g == Flat'
             new == Repeat(r, count)
  <2>4. new \in Seq(Row) /\ Len(new) = count
    BY <2>2, RepeatFacts
  <2>5. Len(g) = Len(f) + count /\ Len(f) \in Nat
    <3>1. f \in Seq(Row) /\ Len(f) \in Nat
      BY <1>1
    <3> HIDE DEF new, f
    <3>2. Spliced(f, Upto(f, pos) \o new \o After(f, pos + 0), pos, 0, new)
      BY <2>2, <2>4, <3>1, SplicedIs DEF f
    <3>3. Spliced(f, g, pos, 0, new)
      BY <2>2, <2>3, <3>2 DEF new, f
    <3> HIDE DEF g
    <3> QED BY <2>2, <2>4, <3>1, <3>3 DEF Spliced
  <2>6. Len(g) - Len(f) = count
    <3> HIDE DEF f, g
    <3> QED BY <2>2, <2>5
  <2>7. Plainly!InsertRows(pos, r, Len(g) - Len(f))
    BY <2>3, <2>6 DEF Plainly!InsertRows, Upto, After, Repeat
  <2>8. pos \in 0 .. Len(Flat)
    BY <1>1
  <2>9. Plainly!Next
    BY <2>7, <2>8 DEF Plainly!Next
  <2> QED BY <2>3, <2>9
<1>4. ASSUME NEW pos \in 0 .. Size - 1, GetItem(pos)
      PROVE  IInv' /\ Flat' = Flat
  BY <1>4, GetItemKeeps
<1>5. ASSUME NEW pos \in 0 .. Size - 1, NEW r \in Row, SetItem(pos, r)
      PROVE  IInv' /\ Plainly!Next
  <2>1. IInv' /\ Flat' = [Flat EXCEPT ![pos + 1] = r]
    BY <1>5, SetItemKeeps
  <2>2. Plainly!SetItem(pos, r)
    BY <2>1 DEF Plainly!SetItem
  <2>3. pos \in 0 .. Len(Flat) - 1
    BY <1>1
  <2> QED BY <2>1, <2>2, <2>3 DEF Plainly!Next
<1>6. ASSUME NEW pos \in 0 .. Size - 1, NEW count \in 1 .. Size, RemoveRows(pos, count)
      PROVE  IInv' /\ Plainly!Next
  <2>1. pos \in Nat /\ count \in Nat /\ count >= 1 /\ pos + count <= Size
    BY <1>1, <1>6 DEF RemoveRows
  <2>2. IInv' /\ Flat' = Upto(Flat, pos) \o After(Flat, pos + count)
    BY <1>6, <2>1, RemoveRowsKeeps
  <2>3. Plainly!RemoveRows(pos, count)
    BY <2>2 DEF Plainly!RemoveRows, Upto, After
  <2>4. pos \in 0 .. Len(Flat) - 1 /\ count \in 1 .. Len(Flat) - pos
    <3> DEFINE len == Len(Flat)
    <3>1. len = Size
      BY <1>1
    <3> HIDE DEF len
    <3>2. pos \in 0 .. len - 1 /\ count \in 1 .. len - pos
      BY <1>1, <2>1, <3>1
    <3> QED BY <3>2 DEF len
  <2> QED BY <2>2, <2>3, <2>4 DEF Plainly!Next
<1> QED BY <1>2, <1>3, <1>4, <1>5, <1>6 DEF Next

\* A step that changes nothing keeps the invariant.
LEMMA StutterKeeps ==
  ASSUME IInv, UNCHANGED vars
  PROVE  IInv' /\ Flat' = Flat
<1>1. View' = View
  BY DEF vars, View
<1> QED BY <1>1 DEF IInv, Flat

\* The invariant holds in every state.
THEOREM Invariant == Spec => []IInv
<1>1. Init => IInv
  BY InitInv
<1>2. IInv /\ [Next]_vars => IInv'
  BY NextKeeps, StutterKeeps
<1> QED BY <1>1, <1>2, PTL DEF Spec

\* What Validate asserts follows from the invariant.
LEMMA ValidateHolds ==
  ASSUME IInv
  PROVE  Validate
<1>1. /\ Shape(Row, View) /\ Sized(View)
      /\ View.blocks = blocks /\ View.seps = seps /\ View.offsets = offsets
  BY ViewFields DEF IInv, Kept
<1>2. /\ blocks \in Seq(Seq(Row)) /\ seps \in Seq(Row) /\ Len(seps) = Len(blocks) - 1
      /\ Len(blocks) \in Nat
  <2>1. /\ View.blocks \in Seq(Seq(Row)) /\ View.seps \in Seq(Row)
        /\ Len(View.seps) = Len(View.blocks) - 1 /\ Len(View.blocks) \in Nat
    BY <1>1, ShapeFacts
  <2> QED BY <1>1, <2>1
<1>3. offsets = OffsetsOf(blocks)
  BY <1>1, OffsetsOfIs
<1>4. \A k \in 1 .. Len(blocks) : (k = 1 \/ Len(blocks[k]) >= 1) /\ Len(blocks[k]) <= Limit + 1
  BY <1>1 DEF Sized, Sound
<1>5. \A k \in 2 .. Len(blocks) : blocks[k] # <<>>
  <2>1. \A k \in 2 .. Len(blocks) : k \in 1 .. Len(blocks) /\ k # 1
    BY <1>2
  <2>2. ~(Len(<<>>) >= 1)
    OBVIOUS
  <2> QED BY <1>4, <2>1, <2>2
<1>6. DOMAIN blocks = 1 .. Len(blocks)
  BY <1>2
<1> QED BY <1>2, <1>3, <1>4, <1>5, <1>6 DEF Validate

\* The state of a blocked view is what c4_BlockedViewer::Validate asserts it to
\* be, after every sequence of calls: the offsets are those of the blocks, no
\* block but the first is empty, and none is longer than kLimit + 1.
THEOREM Validated == Spec => []Validate
<1>1. IInv => Validate
  BY ValidateHolds
<1> QED BY <1>1, Invariant, PTL

\* A blocked view behaves as one sequence of rows: every call does to its rows
\* what the call does to a plain view, whatever blocks it splits, merges or drops.
THEOREM Refinement == Spec => ImplementsFlatRows
<1>1. Init => Plainly!Init
  <2> SUFFICES ASSUME Init PROVE Plainly!Init
    OBVIOUS
  <2>1. Shape(Row, View) /\ Shown(View, <<>>)
    BY InitInv DEF IInv, Kept
  <2>2. <<>> \in Seq(Row)
    OBVIOUS
  <2>3. Flat = <<>>
    BY <2>1, <2>2, FlatIs DEF Flat
  <2> QED BY <2>3 DEF Plainly!Init
<1>2. IInv /\ [Next]_vars => [Plainly!Next]_Flat
  BY NextKeeps, StutterKeeps
<1> QED BY <1>1, <1>2, Invariant, PTL DEF Spec, ImplementsFlatRows, Plainly!Spec

\* GetItem gets the row it is asked for, through a block that it remembers or
\* finds.
LEMMA ReadsRight ==
  ASSUME IInv, NEW row \in 0 .. Size - 1
  PROVE  ReadsRow(row)
<1> DEFINE l == Found(row)
           n == Len(blocks)
           w == Numbered
           i == row - l.base + 1
           block == IF l.slot = Len(offsets) + 1 THEN Numbered.seps ELSE Numbered.blocks[l.slot]
<1>1. /\ Shape(Row, View) /\ View.blocks = blocks /\ View.seps = seps /\ View.offsets = offsets
  BY ViewFields DEF IInv, Kept
<1>2. /\ n \in Nat /\ Len(seps) = n - 1 /\ Len(offsets) = n
      /\ \A k \in 1 .. n : Start(View, k) \in Int
  <2>1. /\ Len(View.blocks) \in Nat /\ Len(View.seps) = Len(View.blocks) - 1
        /\ Len(View.offsets) = Len(View.blocks)
        /\ \A k \in 1 .. Len(View.blocks) : Start(View, k) \in Int
    BY <1>1, ShapeFacts
  <2> QED BY <1>1, <2>1
<1>3. /\ Len(Numbers) = Size /\ \A p \in 1 .. Size : Numbers[p] = p
      /\ Kept(Int, w) /\ Shown(w, Numbers) /\ w.offsets = offsets /\ Alike(View, w)
  BY NumberedFacts
<1> HIDE DEF w
<1>4. /\ w.seps \in Seq(Int) /\ Len(w.seps) = n - 1 /\ Len(w.blocks) = n
      /\ \A k \in 1 .. n : /\ w.blocks[k] \in Seq(Int) /\ Len(w.blocks[k]) = Len(blocks[k])
                           /\ Start(w, k) = Start(View, k)
  <2> DEFINE S == Int
  <2>1. Shape(S, w)
    BY <1>3 DEF Kept
  <2> HIDE DEF S
  <2>2. w.seps \in Seq(S) /\ \A k \in 1 .. Len(w.blocks) : w.blocks[k] \in Seq(S)
    BY <2>1, ShapeFacts
  <2>3. /\ Len(w.seps) = n - 1 /\ Len(w.blocks) = n
        /\ \A k \in 1 .. n : Len(w.blocks[k]) = Len(blocks[k]) /\ Start(w, k) = Start(View, k)
    BY <1>1, <1>2, <1>3 DEF Alike, Start
  <2> QED BY <2>2, <2>3 DEF S
<1>5. Size \in Nat /\ row \in Int /\ row + 1 \in 1 .. Size
  BY FlatFacts
<1>6. /\ l \in [base : Int, limit : Int, slot : Int]
      /\ InBlock(l, row) \/ \E k \in 1 .. Len(blocks) - 1 : AfterBlock(l, row, k)
  BY FoundFacts
<1> HIDE DEF l
<1>7. CASE InBlock(l, row)
  <2>1. l.slot \in 1 .. n /\ l.base = Start(View, l.slot) /\ i \in 1 .. Len(blocks[l.slot])
    BY <1>7 DEF InBlock
  <2> DEFINE s == l.slot
  <2>2. s # Len(offsets) + 1
    BY <1>2, <2>1
  <2>3. block = w.blocks[s]
    BY <2>2 DEF w
  <2>4. i \in DOMAIN w.blocks[s] /\ i \in 1 .. Len(w.blocks[s])
    BY <1>4, <2>1
  <2>5. Start(w, s) + i = row + 1
    <3> DEFINE b == l.base
    <3>1. b \in Int /\ Start(w, s) = b
      BY <1>4, <1>6, <2>1
    <3> HIDE DEF b
    <3>2. b + (row - b + 1) = row + 1
      BY <1>5, <3>1
    <3> QED BY <3>1, <3>2 DEF b
  <2>6. w.blocks[s][i] = Numbers[Start(w, s) + i]
    BY <1>3, <1>4, <2>1, <2>4 DEF Shown
  <2>7. w.blocks[s][i] = row + 1
    BY <1>3, <1>5, <2>5, <2>6
  <2> QED BY <2>3, <2>4, <2>7 DEF ReadsRow, l, w
<1>8. CASE \E k \in 1 .. Len(blocks) - 1 : AfterBlock(l, row, k)
  <2>1. i \in 1 .. n - 1 /\ l.slot = Len(offsets) + 1 /\ offsets[i] = row
    BY <1>8 DEF AfterBlock
  <2>2. block = w.seps
    BY <2>1 DEF w
  <2> HIDE DEF i, n
  <2>3. i \in DOMAIN w.seps
    BY <1>4, <2>1
  <2>4. w.seps[i] = Numbers[w.offsets[i] + 1]
    BY <1>3, <1>4, <2>1 DEF Shown
  <2>5. w.seps[i] = row + 1
    BY <1>3, <1>5, <2>1, <2>4
  <2> QED BY <2>2, <2>3, <2>5 DEF ReadsRow, l, w, i
<1> QED BY <1>6, <1>7, <1>8

\* Whatever is inserted or removed, all other rows stay, in their order; and each
\* row is read where it is, also through a block remembered from before.
THEOREM InOrder == Spec => []RowsStayInOrder
<1>1. ASSUME IInv PROVE RowsStayInOrder
  <2> DEFINE S == Int
             w == Numbered
             zero == 0
  <2>1. /\ Numbers \in Seq(S) /\ Len(Numbers) = Size
        /\ Kept(S, w) /\ Shown(w, Numbers) /\ w.offsets = offsets
    BY <1>1, NumberedFacts
  <2>2. Size \in Nat /\ Size = w.offsets[Len(w.offsets)] /\ zero \in S /\ MaxRows \in Nat
    BY <1>1, <2>1, FlatFacts, BlockedViewAssumption DEF Size
  <2> HIDE DEF w, S
  <2>3. ASSUME NEW pos \in 0 .. Size, NEW count \in 1 .. MaxRows
        PROVE  FlatOf(Inserted(w, pos, Repeat(zero, count))) =
                 Upto(Numbers, pos) \o Repeat(zero, count) \o After(Numbers, pos)
    <3> DEFINE new == Repeat(zero, count)
               u == Inserted(w, pos, new)
               g == Upto(Numbers, pos) \o new \o After(Numbers, pos)
    <3>1. count \in Nat /\ count >= 1 /\ pos \in Nat /\ 0 \in Nat /\ pos + 0 <= Len(Numbers)
          /\ pos + 0 = pos
      BY <2>1, <2>2
    <3> HIDE DEF zero
    <3>2. new \in Seq(S) /\ Len(new) >= 1
      BY <2>2, <3>1, RepeatFacts
    <3> HIDE DEF new
    <3>3. pos \in 0 .. w.offsets[Len(w.offsets)]
      BY <2>2
    <3>4. /\ Kept(S, u)
          /\ \A f \in Seq(S) : Shown(w, f) => Shown(u, Upto(f, pos) \o new \o After(f, pos))
      BY <2>1, <3>2, <3>3, InsertedFacts
    <3>5. g \in Seq(S)
      <4>1. Upto(Numbers, pos) \o new \o After(Numbers, pos + 0) \in Seq(S)
        BY <2>1, <3>1, <3>2, SplicedIs
      <4> QED BY <3>1, <4>1
    <3> HIDE DEF u
    <3>6. Shown(u, g) /\ Shape(S, u)
      BY <2>1, <3>4 DEF Kept
    <3> HIDE DEF g
    <3>7. FlatOf(u) = g
      BY <3>5, <3>6, FlatIs
    <3> QED BY <3>7 DEF u, g, new
  <2>4. ASSUME NEW pos \in 0 .. Size, NEW count \in 1 .. MaxRows, pos + count <= Size
        PROVE  FlatOf(Without(w, pos, count)) = Upto(Numbers, pos) \o After(Numbers, pos + count)
    <3> DEFINE u == Without(w, pos, count)
               g == Upto(Numbers, pos) \o After(Numbers, pos + count)
    <3>1. count \in Nat /\ pos \in Nat /\ pos + count <= w.offsets[Len(w.offsets)]
          /\ pos + count <= Len(Numbers)
      BY <2>1, <2>2, <2>4
    <3>2. /\ Kept(S, u)
          /\ \A f \in Seq(S) : Shown(w, f) => Shown(u, Upto(f, pos) \o After(f, pos + count))
      BY <2>1, <3>1, WithoutFacts
    <3>3. g \in Seq(S)
      BY <2>1, <3>1, CutIs
    <3> HIDE DEF u
    <3>4. Shown(u, g) /\ Shape(S, u)
      BY <2>1, <3>2 DEF Kept
    <3> HIDE DEF g
    <3>5. FlatOf(u) = g
      BY <3>3, <3>4, FlatIs
    <3> QED BY <3>5 DEF u, g
  <2>5. \A row \in 0 .. Size - 1 : ReadsRow(row)
    BY <1>1, ReadsRight
  <2>6. Validate
    BY <1>1, ValidateHolds
  <2> QED BY <2>3, <2>4, <2>5, <2>6 DEF RowsStayInOrder, w
<1> QED BY <1>1, Invariant, PTL
=============================================================================
