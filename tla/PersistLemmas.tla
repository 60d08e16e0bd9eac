---------------------------- MODULE PersistLemmas ---------------------------
(***************************************************************************)
(* Lemmas about the operators of Persist: the free space, the extents of a  *)
(* datafile and their fates, the search for the last commit, the passes     *)
(* over the columns.                                                        *)
(***************************************************************************)
EXTENDS Persist, FiniteSetTheorems, Recursion

----------------------------------------------------------------------------
\* The free space.  A storage uses finitely many bytes, never byte 0.
Spaces == {u \in SUBSET (Nat \ {0}) : \E m \in Nat : \A b \in u : b < m}

\* A block is claimed whole or not at all.
AllOrNone(u, block) == block \subseteq u \/ block \cap u = {}

Apart(p, m, q, n) == p + m <= q \/ q + n <= p

\* The limit is after everything in use.
LEMMA LimitIs ==
  ASSUME NEW u \in Spaces
  PROVE  Limit(u) \in Nat /\ Limit(u) >= 1 /\ \A b \in u : b < Limit(u)
<1> DEFINE C == {1} \cup {b + 1 : b \in u}
           After(p) == \A b \in u : b < p
           S == {p \in Nat : p >= 1 /\ After(p)}
<1>1. PICK m \in Nat : \A b \in u : b < m
  BY DEF Spaces
<1>2. u \subseteq Nat /\ \A b \in u : b >= 1
  BY DEF Spaces
<1>3. S \in SUBSET Nat /\ S # {}
  <2>1. m + 1 \in S
    BY <1>1, <1>2
  <2> QED BY <2>1
<1>4. PICK p \in S : \A q \in S : p <= q
  BY <1>3, LeastNatural
<1>5. p \in C
  <2>1. CASE p = 1
    BY <2>1
  <2>2. CASE p # 1
    <3>1. p - 1 \in Nat /\ p - 1 >= 1 /\ p - 1 \notin S
      BY <1>4, <2>2
    <3>2. PICK b \in u : ~(b < p - 1)
      BY <3>1
    <3>3. b < p /\ b \in Nat
      BY <1>2, <1>4
    <3>4. p = b + 1
      BY <3>1, <3>2, <3>3
    <3> QED BY <3>4
  <2> QED BY <2>1, <2>2
<1>6. Limit(u) \in C /\ After(Limit(u))
  <2>1. \E q \in C : After(q)
    BY <1>4, <1>5
  <2>2. Limit(u) = CHOOSE q \in C : After(q)
    BY DEF Limit
  <2> HIDE DEF C, After
  <2> QED BY <2>1, <2>2
<1> QED BY <1>2, <1>6

\* Allocate finds a place, not at position 0, and all of it is free.
LEMMA FirstFitIs ==
  ASSUME NEW u \in Spaces, NEW len \in Nat, len > 0
  PROVE  /\ FirstFit(u, len) \in Nat /\ FirstFit(u, len) >= 1
         /\ Bytes(FirstFit(u, len), len) \cap u = {}
<1> DEFINE C == {1} \cup {b + 1 : b \in u}
           Fits(p) == Bytes(p, len) \cap u = {}
           First(p) == Fits(p) /\ \A q \in 1 .. p - 1 : ~Fits(q)
           S == {p \in Nat : p >= 1 /\ Fits(p)}
<1>1. PICK m \in Nat : \A b \in u : b < m
  BY DEF Spaces
<1>2. u \subseteq Nat /\ \A b \in u : b >= 1
  BY DEF Spaces
<1>3. S \in SUBSET Nat /\ S # {}
  <2>1. m + 1 \in S
    BY <1>1, <1>2 DEF Bytes
  <2> QED BY <2>1
<1>4. PICK p \in S : \A q \in S : p <= q
  BY <1>3, LeastNatural
<1>5. p \in C
  <2>1. CASE p = 1
    BY <2>1
  <2>2. CASE p # 1
    <3>1. p - 1 \in Nat /\ p - 1 >= 1 /\ p - 1 \notin S
      BY <1>4, <2>2
    <3>2. PICK b \in u : b \in Bytes(p - 1, len)
      BY <3>1
    <3>3. b \notin Bytes(p, len) /\ b \in Nat
      BY <1>2, <1>4
    <3>4. b = p - 1
      BY <3>1, <3>2, <3>3 DEF Bytes
    <3>5. p = b + 1
      BY <3>1, <3>4
    <3> QED BY <3>5
  <2> QED BY <2>1, <2>2
<1>6. First(p)
  <2>1. ASSUME NEW q \in 1 .. p - 1 PROVE ~Fits(q)
    <3>1. q \in Nat /\ q >= 1 /\ ~(p <= q)
      BY <1>4
    <3> QED BY <1>4, <3>1
  <2> QED BY <1>4, <2>1
<1>7. FirstFit(u, len) \in C /\ First(FirstFit(u, len))
  <2>1. \E q \in C : First(q)
    BY <1>5, <1>6
  <2>2. FirstFit(u, len) = CHOOSE q \in C : First(q)
    BY DEF FirstFit
  <2> HIDE DEF C, First
  <2> QED BY <2>1, <2>2
<1> QED BY <1>2, <1>7

\* The free run that starts at p ends at the first byte in use.
LEMMA FreeRunIs ==
  ASSUME NEW u, NEW p \in Nat, NEW to \in Nat, p <= to
  PROVE  /\ FreeRunEnd(u, p, to) \in p .. to
         /\ p .. FreeRunEnd(u, p, to) - 1 \cap u = {}
         /\ FreeRunEnd(u, p, to) = to \/ FreeRunEnd(u, p, to) \in u
<1> DEFINE Ends(e) == p .. e - 1 \cap u = {} /\ (e = to \/ e \in u)
           S == {e \in p .. to : e = to \/ e \in u}
<1>1. S \in SUBSET Nat /\ S # {}
  <2>1. to \in S
    OBVIOUS
  <2> QED BY <2>1
<1>2. PICK e \in S : \A d \in S : e <= d
  BY <1>1, LeastNatural
<1>3. e \in p .. to /\ Ends(e)
  <2>1. ASSUME NEW b \in p .. e - 1, b \in u PROVE FALSE
    <3>1. b \in S /\ ~(e <= b)
      BY <2>1
    <3> QED BY <1>2, <3>1
  <2> QED BY <1>2, <2>1
<1>4. FreeRunEnd(u, p, to) = CHOOSE d \in p .. to : Ends(d)
  BY DEF FreeRunEnd
<1>5. FreeRunEnd(u, p, to) \in p .. to /\ Ends(FreeRunEnd(u, p, to))
  <2> HIDE DEF Ends
  <2> QED BY <1>3, <1>4
<1> QED BY <1>5

\* A block added to what is in use.
LEMMA SpaceGrows ==
  ASSUME NEW u \in Spaces, NEW pos \in Nat, pos >= 1, NEW len \in Nat,
         NEW v, u \subseteq v, v \subseteq u \cup Bytes(pos, len)
  PROVE  v \in Spaces
<1>1. PICK m \in Nat : \A b \in u : b < m
  BY DEF Spaces
<1>2. u \subseteq Nat \ {0}
  BY DEF Spaces
<1>3. v \subseteq Nat \ {0}
  BY <1>2 DEF Bytes
<1>4. \A b \in v : b < m + pos + len
  BY <1>1, <1>2 DEF Bytes
<1>5. m + pos + len \in Nat
  OBVIOUS
<1> QED BY <1>3, <1>4, <1>5 DEF Spaces

\* Occupy adds bytes of the block only, and all of them when the block is free, or
\* in use, as a whole.
LEMMA OccupiedIs ==
  ASSUME NEW u \in Spaces, NEW pos \in Nat, pos >= 1, NEW len \in Nat
  PROVE  /\ Occupied(u, pos, len) \in Spaces
         /\ u \subseteq Occupied(u, pos, len)
         /\ Occupied(u, pos, len) \subseteq u \cup Bytes(pos, len)
         /\ AllOrNone(u, Bytes(pos, len)) => Occupied(u, pos, len) = u \cup Bytes(pos, len)
<1> DEFINE e == FreeRunEnd(u, pos, pos + len)
           run == Bytes(pos, e - pos)
           v == Occupied(u, pos, len)
<1>1. e \in pos .. pos + len /\ (e = pos + len \/ e \in u)
  <2>1. pos + len \in Nat /\ pos <= pos + len
    OBVIOUS
  <2> QED BY <2>1, FreeRunIs
<1> HIDE DEF e
<1>2. run \subseteq Bytes(pos, len)
  BY <1>1 DEF Bytes
<1>3. v = u \/ v = u \cup run
  BY DEF Occupied, e
<1>4. u \subseteq v /\ v \subseteq u \cup Bytes(pos, len)
  BY <1>2, <1>3
<1>5. v \in Spaces
  BY <1>4, SpaceGrows
<1>6. ASSUME Bytes(pos, len) \subseteq u PROVE v = u \cup Bytes(pos, len)
  BY <1>4, <1>6
<1>7. ASSUME Bytes(pos, len) \cap u = {} PROVE v = u \cup Bytes(pos, len)
  <2>1. e = pos + len
    <3> SUFFICES ASSUME e # pos + len PROVE FALSE
      OBVIOUS
    <3>1. e \in u /\ e \in Bytes(pos, len)
      BY <1>1 DEF Bytes
    <3> QED BY <1>7, <3>1
  <2>2. run = Bytes(pos, len)
    BY <2>1
  <2>3. CASE pos \in u
    <3>1. len = 0
      BY <1>7, <2>3 DEF Bytes
    <3>2. Bytes(pos, len) = {}
      BY <3>1 DEF Bytes
    <3> QED BY <1>4, <3>2
  <2>4. CASE pos \notin u
    BY <2>2, <2>4 DEF Occupied, e
  <2> QED BY <2>3, <2>4
<1> QED BY <1>4, <1>5, <1>6, <1>7 DEF AllOrNone

\* Release takes bytes away, and none when the block is the tail of an area in use.
LEMMA ReleasedIs ==
  ASSUME NEW u \in Spaces, NEW pos \in Nat, NEW len \in Nat
  PROVE  /\ Released(u, pos, len) \in Spaces
         /\ Released(u, pos, len) \subseteq u
         /\ pos - 1 \in u /\ pos + len \notin u => Released(u, pos, len) = u
<1>1. Released(u, pos, len) \subseteq u
  BY DEF Released
<1>2. Released(u, pos, len) \in Spaces
  BY <1>1 DEF Spaces
<1> QED BY <1>1, <1>2 DEF Released

\* Blocks that are apart have no byte in common, and the other way round.
LEMMA ApartBytes ==
  ASSUME NEW p \in Int, NEW m \in Nat, NEW q \in Int, NEW n \in Nat
  PROVE  /\ Apart(p, m, q, n) => Bytes(p, m) \cap Bytes(q, n) = {}
         /\ m > 0 /\ n > 0 /\ Bytes(p, m) \cap Bytes(q, n) = {} => Apart(p, m, q, n)
<1>1. ASSUME Apart(p, m, q, n) PROVE Bytes(p, m) \cap Bytes(q, n) = {}
  BY <1>1 DEF Apart, Bytes
<1>2. ASSUME m > 0, n > 0, Bytes(p, m) \cap Bytes(q, n) = {} PROVE Apart(p, m, q, n)
  <2>1. p \in Bytes(p, m) /\ q \in Bytes(q, n)
    BY <1>2 DEF Bytes
  <2>2. p \notin Bytes(q, n) /\ q \notin Bytes(p, m)
    BY <1>2, <2>1
  <2> QED BY <2>2 DEF Apart, Bytes
<1> QED BY <1>1, <1>2

----------------------------------------------------------------------------
\* The bytes of a datafile.
Maps  == {w \in Walks : \A c \in Cols : w[c].len = 0 <=> w[c].pos = 0}
Whats == {HeadMark, ExtendMark} \cup {SkipMark(off) : off \in Nat \ {0}}
         \cup {TailMark(pos, len) : pos \in Nat \ {0}, len \in Nat \ {0}}
         \cup {WalkData(w) : w \in Maps} \cup {ColData(tag) : tag \in Tags}
Exts  == [at : Nat, len : Nat \ {0}, what : Whats]

Disjoint(f) == \A e, g \in f : Overlap(e, g) => e = g

\* A skip mark does not point before the start of the file.
PointsBack(e)  == e.what.kind = "skip" => e.what.off <= e.at
SkipsBack(f) == \A e \in f : PointsBack(e)

\* What an extent can hold, by its kind.
LEMMA KindFacts ==
  ASSUME NEW x \in Whats
  PROVE  /\ x.kind \in {"head", "xhead", "skip", "tail", "walk", "data"}
         /\ x.kind = "skip" => x.off \in Nat \ {0}
         /\ x.kind = "tail" => x.pos \in Nat \ {0} /\ x.len \in Nat \ {0}
         /\ x.kind = "walk" => x.cols \in Maps
         /\ x.kind = "data" => x.tag \in Tags
<1>1. CASE x = HeadMark
  BY <1>1 DEF HeadMark
<1>2. CASE x = ExtendMark
  BY <1>2 DEF ExtendMark
<1>3. CASE x \in {SkipMark(off) : off \in Nat \ {0}}
  BY <1>3 DEF SkipMark
<1>4. CASE x \in {TailMark(pos, len) : pos \in Nat \ {0}, len \in Nat \ {0}}
  <2>1. PICK pos \in Nat \ {0}, len \in Nat \ {0} : x = TailMark(pos, len)
    BY <1>4
  <2> QED BY <2>1 DEF TailMark
<1>5. CASE x \in {WalkData(w) : w \in Maps}
  BY <1>5 DEF WalkData
<1>6. CASE x \in {ColData(tag) : tag \in Tags}
  BY <1>6 DEF ColData
<1> QED BY <1>1, <1>2, <1>3, <1>4, <1>5, <1>6 DEF Whats

\* What is read from a file without overlaps is what an extent holds.
LEMMA ReadIs ==
  ASSUME NEW f \in SUBSET Exts, Disjoint(f), NEW x \in f
  PROVE  /\ Holds(f, x.at, x.len, x.what.kind)
         /\ Read(f, x.at, x.len, x.what.kind) = x.what
<1>1. Holds(f, x.at, x.len, x.what.kind)
  BY DEF Holds
<1>2. ASSUME NEW e \in f, e.at = x.at, e.len = x.len PROVE e = x
  <2>1. x.at \in Nat /\ x.len \in Nat /\ x.len > 0
    BY DEF Exts
  <2>2. Overlap(e, x)
    BY <1>2, <2>1 DEF Overlap, End
  <2> QED BY <2>2 DEF Disjoint
<1>3. (CHOOSE e \in f : e.at = x.at /\ e.len = x.len /\ e.what.kind = x.what.kind) = x
  BY <1>2
<1> QED BY <1>1, <1>3 DEF Read

\* What is held at a place is an extent of the file.
LEMMA HeldIs ==
  ASSUME NEW f \in SUBSET Exts, NEW at, NEW len, NEW kind, Holds(f, at, len, kind)
  PROVE  \E e \in f : /\ e.at = at /\ e.len = len /\ e.what.kind = kind
                      /\ Read(f, at, len, kind) = e.what
<1>1. \E e \in f : e.at = at /\ e.len = len /\ e.what.kind = kind
  BY DEF Holds
<1> DEFINE e == CHOOSE e \in f : e.at = at /\ e.len = len /\ e.what.kind = kind
<1>2. e \in f /\ e.at = at /\ e.len = len /\ e.what.kind = kind
  BY <1>1
<1>3. Read(f, at, len, kind) = e.what
  BY DEF Read
<1> QED BY <1>2, <1>3

\* One write leaves no overlap.
LEMMA WrittenIs ==
  ASSUME NEW f \in SUBSET Exts, NEW x \in Exts
  PROVE  /\ Written(f, x) \in SUBSET Exts /\ x \in Written(f, x)
         /\ \A e \in f : ~Overlap(x, e) => e \in Written(f, x)
         /\ \A e \in Written(f, x) : e = x \/ (e \in f /\ ~Overlap(e, x))
         /\ Disjoint(f) => Disjoint(Written(f, x))
<1>1. \A e \in Exts : Overlap(x, e) <=> Overlap(e, x)
  BY DEF Overlap
<1>2. /\ Written(f, x) \in SUBSET Exts /\ x \in Written(f, x)
      /\ \A e \in f : ~Overlap(x, e) => e \in Written(f, x)
      /\ \A e \in Written(f, x) : e = x \/ (e \in f /\ ~Overlap(e, x))
  BY <1>1 DEF Written, Overwritten
<1>3. ASSUME Disjoint(f), NEW e \in Written(f, x), NEW g \in Written(f, x), Overlap(e, g)
      PROVE  e = g
  BY <1>1, <1>2, <1>3 DEF Disjoint
<1> QED BY <1>2, <1>3 DEF Disjoint

\* What a write destroys is taken away, and nothing else.
LEMMA OverwrittenIs ==
  ASSUME NEW f \in SUBSET Exts, NEW x \in Exts
  PROVE  /\ Overwritten(f, x) \in SUBSET f
         /\ \A e \in f : ~Overlap(x, e) => e \in Overwritten(f, x)
         /\ Disjoint(f) => Disjoint(Overwritten(f, x))
<1>1. \A e \in Exts : Overlap(x, e) <=> Overlap(e, x)
  BY DEF Overlap
<1> QED BY <1>1 DEF Overwritten, Disjoint

----------------------------------------------------------------------------
\* What becomes of the writes that are pending.
FatesOf(writes) == [DOMAIN writes -> {"done", "torn", "lost"}]

\* The file and its size after the first writes, one by one.
FilesBetween(after, f, writes, fate) ==
  /\ after \in [0 .. Len(writes) -> SUBSET Exts]
  /\ after[0] = f
  /\ \A i \in 1 .. Len(writes) : after[i] = Survive(after[i - 1], writes[i], fate[i])
  /\ FileAfter(f, writes, fate) = after[Len(writes)]

SizesBetween(after, sz, writes, fate) ==
  /\ after \in [0 .. Len(writes) -> Nat]
  /\ after[0] = sz
  /\ \A i \in 1 .. Len(writes) :
       after[i] = IF fate[i] = "lost" THEN after[i - 1] ELSE Longest(after[i - 1], writes[i])
  /\ SizeAfter(sz, writes, fate) = after[Len(writes)]

\* A pending write is done, torn or lost.
LEMMA SurviveIs ==
  ASSUME NEW f \in SUBSET Exts, NEW x \in Exts, NEW fate \in {"done", "torn", "lost"}
  PROVE  /\ Survive(f, x, fate) \in SUBSET Exts
         /\ fate = "done" => Survive(f, x, fate) = Written(f, x)
         /\ fate = "torn" => Survive(f, x, fate) = Overwritten(f, x)
         /\ fate = "lost" => Survive(f, x, fate) = f
<1>1. /\ fate = "done" => Survive(f, x, fate) = Written(f, x)
      /\ fate = "torn" => Survive(f, x, fate) = Overwritten(f, x)
      /\ fate = "lost" => Survive(f, x, fate) = f
  BY DEF Survive
<1>2. Written(f, x) \in SUBSET Exts /\ Overwritten(f, x) \in SUBSET Exts
  BY WrittenIs, OverwrittenIs
<1> QED BY <1>1, <1>2

\* The size of the file with one write more.
LEMMA LongestIs ==
  ASSUME NEW sz \in Nat, NEW x \in Exts
  PROVE  /\ Longest(sz, x) \in Nat /\ sz <= Longest(sz, x) /\ End(x) <= Longest(sz, x)
         /\ End(x) \in Nat /\ x.at < End(x)
         /\ \A m \in Nat : sz <= m /\ End(x) <= m => Longest(sz, x) <= m
<1>1. x.at \in Nat /\ x.len \in Nat /\ x.len > 0
  BY DEF Exts
<1>2. End(x) \in Nat /\ x.at < End(x)
  BY <1>1 DEF End
<1> QED BY <1>2 DEF Longest

\* The files between the writes of FileAfter exist, one after the other.
LEMMA FilesExist ==
  ASSUME NEW f \in SUBSET Exts, NEW writes \in Seq(Exts), NEW fate \in FatesOf(writes)
  PROVE  \E after : FilesBetween(after, f, writes, fate)
<1> DEFINE n == Len(writes)
           G == [i \in 1 .. n |-> [g \in SUBSET Exts |-> Survive(g, writes[i], fate[i])]]
           Is(g) == g = [i \in 0 .. n |-> IF i = 0 THEN f ELSE Survive(g[i - 1], writes[i], fate[i])]
<1>1. n \in Nat /\ \A i \in 1 .. n : writes[i] \in Exts /\ fate[i] \in {"done", "torn", "lost"}
  BY DEF FatesOf
<1>2. G \in [1 .. n -> [SUBSET Exts -> SUBSET Exts]]
  <2>1. ASSUME NEW i \in 1 .. n, NEW g \in SUBSET Exts
        PROVE  Survive(g, writes[i], fate[i]) \in SUBSET Exts
    BY <1>1, SurviveIs
  <2> QED BY <2>1
<1>3. PICK g \in [0 .. n -> SUBSET Exts] :
        g[0] = f /\ \A i \in 1 .. n : g[i] = G[i][g[i - 1]]
  <2> DEFINE S == SUBSET Exts
  <2>1. Stepwise(n, S, f, G)
    BY <1>1, <1>2 DEF Stepwise
  <2> HIDE DEF G, n, S
  <2>2. \E g \in [0 .. n -> S] : g[0] = f /\ \A i \in 1 .. n : g[i] = G[i][g[i - 1]]
    BY <2>1, StepwiseFunction
  <2> QED BY <2>2 DEF S
<1>4. \A i \in 1 .. n : g[i] = Survive(g[i - 1], writes[i], fate[i])
  <2>1. ASSUME NEW i \in 1 .. n PROVE G[i][g[i - 1]] = Survive(g[i - 1], writes[i], fate[i])
    <3>1. i - 1 \in 0 .. n
      BY <1>1
    <3> QED BY <3>1
  <2> QED BY <1>3, <2>1
<1>5. Is(g)
  BY <1>1, <1>3, <1>4
<1> DEFINE h == CHOOSE h : Is(h)
<1>6. Is(h)
  <2> HIDE DEF Is
  <2> QED BY <1>5
<1>7. FileAfter(f, writes, fate) = h[n]
  BY DEF FileAfter
<1> HIDE DEF h
<1>8. h[0] = f /\ \A i \in 1 .. n : h[i] = Survive(h[i - 1], writes[i], fate[i])
  BY <1>1, <1>6
<1>9. \A i \in 0 .. n : h[i] \in SUBSET Exts
  <2> DEFINE T == {i \in 0 .. n : h[i] \in SUBSET Exts}
  <2>1. 0 \in T
    BY <1>1, <1>8
  <2>2. ASSUME NEW i \in 1 .. n, i - 1 \in T PROVE i \in T
    <3>1. h[i - 1] \in SUBSET Exts /\ i \in 0 .. n
      BY <2>2
    <3>2. Survive(h[i - 1], writes[i], fate[i]) \in SUBSET Exts
      BY <1>1, <3>1, SurviveIs
    <3> QED BY <1>8, <3>1, <3>2
  <2>3. \A i \in 0 .. n : i \in T
    <3> HIDE DEF T
    <3> QED BY <1>1, <2>1, <2>2, CountingUp
  <2> QED BY <2>3
<1>10. h \in [0 .. n -> SUBSET Exts]
  <2>1. DOMAIN h = 0 .. n /\ h = [i \in 0 .. n |-> h[i]]
    BY <1>6
  <2> QED BY <1>9, <2>1
<1> QED BY <1>7, <1>8, <1>10 DEF FilesBetween

\* So do the sizes of SizeAfter.
LEMMA SizesExist ==
  ASSUME NEW sz \in Nat, NEW writes \in Seq(Exts), NEW fate \in FatesOf(writes)
  PROVE  \E after : SizesBetween(after, sz, writes, fate)
<1> DEFINE n == Len(writes)
           Next1(i, s) == IF fate[i] = "lost" THEN s ELSE Longest(s, writes[i])
           G == [i \in 1 .. n |-> [s \in Nat |-> Next1(i, s)]]
           Is(g) == g = [i \in 0 .. n |-> IF i = 0 THEN sz ELSE Next1(i, g[i - 1])]
<1>1. n \in Nat /\ \A i \in 1 .. n : writes[i] \in Exts
  OBVIOUS
<1>2. \A i \in 1 .. n, s \in Nat : Next1(i, s) \in Nat
  BY <1>1, LongestIs
<1> HIDE DEF Next1
<1>3. G \in [1 .. n -> [Nat -> Nat]]
  BY <1>2
<1>4. PICK g \in [0 .. n -> Nat] :
        g[0] = sz /\ \A i \in 1 .. n : g[i] = G[i][g[i - 1]]
  <2> DEFINE S == Nat
  <2>1. Stepwise(n, S, sz, G)
    BY <1>1, <1>3 DEF Stepwise
  <2> HIDE DEF G, n, S
  <2>2. \E g \in [0 .. n -> S] : g[0] = sz /\ \A i \in 1 .. n : g[i] = G[i][g[i - 1]]
    BY <2>1, StepwiseFunction
  <2> QED BY <2>2 DEF S
<1>5. \A i \in 1 .. n : g[i] = Next1(i, g[i - 1])
  <2>1. ASSUME NEW i \in 1 .. n PROVE G[i][g[i - 1]] = Next1(i, g[i - 1])
    <3>1. i - 1 \in 0 .. n
      BY <1>1
    <3> QED BY <3>1
  <2> QED BY <1>4, <2>1
<1>6. Is(g)
  BY <1>1, <1>4, <1>5
<1> DEFINE h == CHOOSE h : Is(h)
<1>7. Is(h)
  <2> HIDE DEF Is
  <2> QED BY <1>6
<1>8. SizeAfter(sz, writes, fate) = h[n]
  BY DEF SizeAfter, Next1
<1> HIDE DEF h
<1>9. h[0] = sz /\ \A i \in 1 .. n : h[i] = Next1(i, h[i - 1])
  BY <1>1, <1>7
<1>10. \A i \in 0 .. n : h[i] \in Nat
  <2> DEFINE T == {i \in 0 .. n : h[i] \in Nat}
  <2>1. 0 \in T
    BY <1>1, <1>9
  <2>2. ASSUME NEW i \in 1 .. n, i - 1 \in T PROVE i \in T
    <3>1. h[i - 1] \in Nat /\ i \in 0 .. n
      BY <2>2
    <3> QED BY <1>2, <1>9, <3>1
  <2>3. \A i \in 0 .. n : i \in T
    <3> HIDE DEF T
    <3> QED BY <1>1, <2>1, <2>2, CountingUp
  <2> QED BY <2>3
<1>11. h \in [0 .. n -> Nat]
  <2>1. DOMAIN h = 0 .. n /\ h = [i \in 0 .. n |-> h[i]]
    BY <1>7
  <2> QED BY <1>10, <2>1
<1> QED BY <1>8, <1>9, <1>11 DEF SizesBetween, Next1

\* What is in the file afterwards was there before or was written; no overlaps come up.
LEMMA FileAfterIs ==
  ASSUME NEW f \in SUBSET Exts, NEW writes \in Seq(Exts), NEW fate \in FatesOf(writes)
  PROVE  /\ FileAfter(f, writes, fate) \in SUBSET Exts
         /\ \A e \in FileAfter(f, writes, fate) : e \in f \/ \E i \in DOMAIN writes : e = writes[i]
         /\ Disjoint(f) => Disjoint(FileAfter(f, writes, fate))
<1> DEFINE n == Len(writes)
           Mine(e) == e \in f \/ \E i \in DOMAIN writes : e = writes[i]
<1>1. /\ n \in Nat /\ DOMAIN writes = 1 .. n
      /\ \A i \in 1 .. n : writes[i] \in Exts /\ fate[i] \in {"done", "torn", "lost"}
  BY DEF FatesOf
<1>2. PICK g : FilesBetween(g, f, writes, fate)
  BY FilesExist
<1>3. /\ g \in [0 .. n -> SUBSET Exts] /\ g[0] = f /\ FileAfter(f, writes, fate) = g[n]
      /\ \A i \in 1 .. n : g[i] = Survive(g[i - 1], writes[i], fate[i])
  BY <1>2 DEF FilesBetween
<1> HIDE DEF n
<1> DEFINE T == {i \in 0 .. n : (\A e \in g[i] : Mine(e)) /\ (Disjoint(f) => Disjoint(g[i]))}
<1>4. 0 \in T
  BY <1>1, <1>3
<1>5. ASSUME NEW i \in 1 .. n, i - 1 \in T PROVE i \in T
  <2> DEFINE h == g[i - 1]
             x == writes[i]
  <2>1. h \in SUBSET Exts /\ x \in Exts /\ fate[i] \in {"done", "torn", "lost"}
    <3>1. i - 1 \in 0 .. n
      BY <1>1
    <3> QED BY <1>1, <1>3, <3>1
  <2>2. (\A e \in h : Mine(e)) /\ (Disjoint(f) => Disjoint(h)) /\ Mine(x)
    BY <1>1, <1>5
  <2>3. g[i] = Survive(h, x, fate[i]) /\ i \in 0 .. n
    BY <1>1, <1>3
  <2> HIDE DEF h, x, Mine
  <2>4. CASE fate[i] = "done"
    <3>1. g[i] = Written(h, x)
      BY <2>1, <2>3, <2>4, SurviveIs
    <3>2. (\A e \in g[i] : Mine(e)) /\ (Disjoint(f) => Disjoint(g[i]))
      BY <2>1, <2>2, <3>1, WrittenIs
    <3> QED BY <2>3, <3>2
  <2>5. CASE fate[i] = "torn"
    <3>1. g[i] = Overwritten(h, x)
      BY <2>1, <2>3, <2>5, SurviveIs
    <3>2. (\A e \in g[i] : Mine(e)) /\ (Disjoint(f) => Disjoint(g[i]))
      BY <2>1, <2>2, <3>1, OverwrittenIs
    <3> QED BY <2>3, <3>2
  <2>6. CASE fate[i] = "lost"
    <3>1. g[i] = h
      BY <2>1, <2>3, <2>6, SurviveIs
    <3> QED BY <2>2, <2>3, <3>1
  <2> QED BY <2>1, <2>4, <2>5, <2>6
<1>6. n \in T
  <2> HIDE DEF T
  <2>1. \A i \in 0 .. n : i \in T
    BY <1>1, <1>4, <1>5, CountingUp
  <2> QED BY <1>1, <2>1
<1>7. g[n] \in SUBSET Exts
  BY <1>1, <1>3
<1> QED BY <1>3, <1>6, <1>7

\* The fates that a crash can choose: marks are not torn.
Possible(writes, fate) ==
  fate \in FatesOf(writes) /\ \A i \in DOMAIN writes : fate[i] \in Fates(writes[i])

\* A write leaves an extent as it is, or is the same mark once more.
Spares(e, x) == ~Overlap(e, x) \/ (e = x /\ x.what.kind \notin {"data", "walk"})

\* What all writes spare is there whatever becomes of them.
LEMMA SparedSurvives ==
  ASSUME NEW f \in SUBSET Exts, NEW writes \in Seq(Exts), NEW fate, Possible(writes, fate),
         NEW x \in f, \A i \in DOMAIN writes : Spares(writes[i], x)
  PROVE  x \in FileAfter(f, writes, fate)
<1> DEFINE n == Len(writes)
<1>1. /\ n \in Nat /\ DOMAIN writes = 1 .. n
      /\ \A i \in 1 .. n : writes[i] \in Exts /\ fate[i] \in {"done", "torn", "lost"}
  BY DEF FatesOf, Possible
<1>2. PICK g : FilesBetween(g, f, writes, fate)
  BY FilesExist DEF Possible
<1>3. /\ g \in [0 .. n -> SUBSET Exts] /\ g[0] = f /\ FileAfter(f, writes, fate) = g[n]
      /\ \A i \in 1 .. n : g[i] = Survive(g[i - 1], writes[i], fate[i])
  BY <1>2 DEF FilesBetween
<1> HIDE DEF n
<1> DEFINE T == {i \in 0 .. n : x \in g[i]}
<1>4. 0 \in T
  BY <1>1, <1>3
<1>5. ASSUME NEW i \in 1 .. n, i - 1 \in T PROVE i \in T
  <2> DEFINE h == g[i - 1]
             e == writes[i]
  <2>1. h \in SUBSET Exts /\ e \in Exts /\ x \in h /\ Spares(e, x) /\ i \in 0 .. n
    <3>1. i - 1 \in 0 .. n /\ i \in 0 .. n /\ i \in DOMAIN writes
      BY <1>1
    <3>2. Spares(e, x)
      BY <3>1
    <3> QED BY <1>1, <1>3, <1>5, <3>1, <3>2
  <2>2. fate[i] \in {"done", "torn", "lost"} /\ fate[i] \in Fates(e)
    BY <1>1 DEF Possible
  <2>3. g[i] = Survive(h, e, fate[i])
    BY <1>3
  <2> HIDE DEF h, e
  <2>4. CASE fate[i] = "done"
    <3>1. g[i] = Written(h, e)
      BY <2>1, <2>3, <2>4 DEF Survive
    <3>2. x \in Written(h, e)
      BY <2>1, WrittenIs DEF Spares
    <3> QED BY <2>1, <3>1, <3>2
  <2>5. CASE fate[i] = "torn"
    <3>1. g[i] = Overwritten(h, e)
      BY <2>1, <2>3, <2>5 DEF Survive
    <3>2. e.what.kind \in {"data", "walk"}
      BY <2>2, <2>5 DEF Fates
    <3>3. x \in Overwritten(h, e)
      BY <2>1, <3>2, OverwrittenIs DEF Spares
    <3> QED BY <2>1, <3>1, <3>3
  <2>6. CASE fate[i] = "lost"
    BY <2>1, <2>3, <2>6 DEF Survive
  <2> QED BY <2>2, <2>4, <2>5, <2>6
<1>6. n \in T
  <2> HIDE DEF T
  <2>1. \A i \in 0 .. n : i \in T
    BY <1>1, <1>4, <1>5, CountingUp
  <2> QED BY <1>1, <2>1
<1> QED BY <1>3, <1>6

\* A write does not touch a block.
Misses(e, at, len) == Apart(e.at, e.len, at, len)

\* A block that no write touches holds what it held.
LEMMA MissedStays ==
  ASSUME NEW f \in SUBSET Exts, NEW writes \in Seq(Exts), NEW fate \in FatesOf(writes),
         NEW at \in Int, NEW len \in Nat, len > 0,
         \A i \in DOMAIN writes : Misses(writes[i], at, len),
         NEW x, x.at = at, x.len = len
  PROVE  x \in FileAfter(f, writes, fate) <=> x \in f
<1> DEFINE n == Len(writes)
<1>1. /\ n \in Nat /\ DOMAIN writes = 1 .. n
      /\ \A i \in 1 .. n : writes[i] \in Exts /\ fate[i] \in {"done", "torn", "lost"}
  BY DEF FatesOf
<1>2. PICK g : FilesBetween(g, f, writes, fate)
  BY FilesExist
<1>3. /\ g \in [0 .. n -> SUBSET Exts] /\ g[0] = f /\ FileAfter(f, writes, fate) = g[n]
      /\ \A i \in 1 .. n : g[i] = Survive(g[i - 1], writes[i], fate[i])
  BY <1>2 DEF FilesBetween
<1> HIDE DEF n
<1> DEFINE T == {i \in 0 .. n : x \in g[i] <=> x \in f}
<1>4. 0 \in T
  BY <1>1, <1>3
<1>5. ASSUME NEW i \in 1 .. n, i - 1 \in T PROVE i \in T
  <2> DEFINE h == g[i - 1]
             e == writes[i]
  <2>1. h \in SUBSET Exts /\ e \in Exts /\ (x \in h <=> x \in f) /\ Misses(e, at, len) /\ i \in 0 .. n
    <3>1. i - 1 \in 0 .. n /\ i \in 0 .. n /\ i \in DOMAIN writes
      BY <1>1
    <3>2. x \in g[i - 1] <=> x \in f
      BY <1>5
    <3>3. Misses(e, at, len)
      BY <3>1
    <3>4. h \in SUBSET Exts /\ e \in Exts
      BY <1>1, <1>3, <3>1
    <3> QED BY <3>1, <3>2, <3>3, <3>4
  <2>2. fate[i] \in {"done", "torn", "lost"}
    BY <1>1
  <2>3. g[i] = Survive(h, e, fate[i])
    BY <1>3
  <2> HIDE DEF h, e
  <2>4. e.at \in Nat /\ e.len \in Nat /\ e.len > 0
    BY <2>1 DEF Exts
  <2>5. ~Overlap(e, x) /\ x # e
    BY <2>1, <2>4 DEF Misses, Apart, Overlap, End
  <2>6. CASE fate[i] = "done"
    <3>1. g[i] = Written(h, e)
      BY <2>3, <2>6 DEF Survive
    <3>2. x \in Written(h, e) <=> x \in h
      BY <2>1, <2>5, WrittenIs
    <3> QED BY <2>1, <3>1, <3>2
  <2>7. CASE fate[i] = "torn"
    <3>1. g[i] = Overwritten(h, e)
      BY <2>3, <2>7 DEF Survive
    <3>2. x \in Overwritten(h, e) <=> x \in h
      BY <2>1, <2>5, OverwrittenIs
    <3> QED BY <2>1, <3>1, <3>2
  <2>8. CASE fate[i] = "lost"
    BY <2>1, <2>3, <2>8 DEF Survive
  <2> QED BY <2>2, <2>6, <2>7, <2>8
<1>6. n \in T
  <2> HIDE DEF T
  <2>1. \A i \in 0 .. n : i \in T
    BY <1>1, <1>4, <1>5, CountingUp
  <2> QED BY <1>1, <2>1
<1> QED BY <1>3, <1>6

\* No write, and a single one.
LEMMA NothingPending ==
  ASSUME NEW f \in SUBSET Exts, NEW sz \in Nat, NEW fate \in FatesOf(<< >>)
  PROVE  FileAfter(f, << >>, fate) = f /\ SizeAfter(sz, << >>, fate) = sz
<1>1. << >> \in Seq(Exts) /\ Len(<< >>) = 0
  OBVIOUS
<1>2. PICK g : FilesBetween(g, f, << >>, fate)
  BY <1>1, FilesExist
<1>3. PICK h : SizesBetween(h, sz, << >>, fate)
  BY <1>1, SizesExist
<1> QED BY <1>1, <1>2, <1>3 DEF FilesBetween, SizesBetween

\* One pending write.
LEMMA OnePending ==
  ASSUME NEW f \in SUBSET Exts, NEW sz \in Nat, NEW x \in Exts,
         NEW writes, writes = <<x>>, NEW fate \in FatesOf(writes)
  PROVE  /\ FileAfter(f, writes, fate) = Survive(f, x, fate[1])
         /\ SizeAfter(sz, writes, fate) = IF fate[1] = "lost" THEN sz ELSE Longest(sz, x)
<1>1. writes \in Seq(Exts) /\ Len(writes) = 1 /\ writes[1] = x
  OBVIOUS
<1>2. PICK g : FilesBetween(g, f, writes, fate)
  BY <1>1, FilesExist
<1>3. PICK h : SizesBetween(h, sz, writes, fate)
  BY <1>1, SizesExist
<1>4. 1 \in 1 .. 1 /\ 1 - 1 = 0
  OBVIOUS
<1>5. g[0] = f /\ g[1] = Survive(g[1 - 1], writes[1], fate[1]) /\ FileAfter(f, writes, fate) = g[1]
  BY <1>1, <1>2, <1>4 DEF FilesBetween
<1>6. /\ h[0] = sz /\ SizeAfter(sz, writes, fate) = h[1]
      /\ h[1] = IF fate[1] = "lost" THEN h[1 - 1] ELSE Longest(h[1 - 1], writes[1])
  BY <1>1, <1>3, <1>4 DEF SizesBetween
<1> QED BY <1>1, <1>4, <1>5, <1>6

\* AllDone is a possible fate.
LEMMA DoneIsPossible ==
  ASSUME NEW writes \in Seq(Exts)
  PROVE  Possible(writes, AllDone(writes)) /\ AllDone(writes) \in FatesOf(writes)
BY DEF Possible, FatesOf, AllDone, Fates

\* One more write: the file as the process sees it has it on top of the others.
LEMMA OneMoreWrite ==
  ASSUME NEW f \in SUBSET Exts, NEW sz \in Nat, NEW writes \in Seq(Exts), NEW x \in Exts
  PROVE  LET more == Append(writes, x)
         IN  /\ FileAfter(f, more, AllDone(more)) = Written(FileAfter(f, writes, AllDone(writes)), x)
             /\ SizeAfter(sz, more, AllDone(more)) = Longest(SizeAfter(sz, writes, AllDone(writes)), x)
<1> DEFINE n == Len(writes)
           more == Append(writes, x)
           fate == AllDone(writes)
           fate2 == AllDone(more)
<1>1. /\ n \in Nat /\ more \in Seq(Exts) /\ Len(more) = n + 1
      /\ \A i \in 1 .. n : more[i] = writes[i]
      /\ more[n + 1] = x
      /\ DOMAIN writes = 1 .. n /\ DOMAIN more = 1 .. n + 1
  OBVIOUS
<1>2. fate \in FatesOf(writes) /\ fate2 \in FatesOf(more)
  BY <1>1, DoneIsPossible
<1>3. (\A i \in 1 .. n : fate[i] = "done") /\ (\A i \in 1 .. n + 1 : fate2[i] = "done")
  BY <1>1 DEF AllDone
<1> HIDE DEF more, fate, fate2
<1>4. PICK g : FilesBetween(g, f, writes, fate)
  BY <1>2, FilesExist
<1>5. PICK g2 : FilesBetween(g2, f, more, fate2)
  BY <1>1, <1>2, FilesExist
<1>6. PICK h : SizesBetween(h, sz, writes, fate)
  BY <1>2, SizesExist
<1>7. PICK h2 : SizesBetween(h2, sz, more, fate2)
  BY <1>1, <1>2, SizesExist
<1> HIDE DEF n
<1>8. /\ g[0] = f /\ g2[0] = f /\ h[0] = sz /\ h2[0] = sz
      /\ FileAfter(f, writes, fate) = g[n] /\ FileAfter(f, more, fate2) = g2[n + 1]
      /\ SizeAfter(sz, writes, fate) = h[n] /\ SizeAfter(sz, more, fate2) = h2[n + 1]
  BY <1>1, <1>4, <1>5, <1>6, <1>7 DEF FilesBetween, SizesBetween, n
<1>9. ASSUME NEW i \in 1 .. n
      PROVE  /\ g[i] = Written(g[i - 1], writes[i]) /\ g2[i] = Written(g2[i - 1], writes[i])
             /\ h[i] = Longest(h[i - 1], writes[i]) /\ h2[i] = Longest(h2[i - 1], writes[i])
  <2>1. i \in 1 .. Len(writes) /\ i \in 1 .. Len(more) /\ more[i] = writes[i]
        /\ fate[i] = "done" /\ fate2[i] = "done"
    BY <1>1, <1>3 DEF n
  <2> QED BY <1>4, <1>5, <1>6, <1>7, <2>1 DEF FilesBetween, SizesBetween, Survive
<1>10. g2[n + 1] = Written(g2[n], x) /\ h2[n + 1] = Longest(h2[n], x)
  <2>1. /\ n \in Nat /\ n + 1 \in 1 .. Len(more)
        /\ more[n + 1] = x /\ fate2[n + 1] = "done" /\ n + 1 - 1 = n
    BY <1>1, <1>3
  <2>2. g2[n + 1] = Survive(g2[n + 1 - 1], more[n + 1], fate2[n + 1])
    BY <1>5, <2>1 DEF FilesBetween
  <2>3. h2[n + 1] = IF fate2[n + 1] = "lost" THEN h2[n + 1 - 1] ELSE Longest(h2[n + 1 - 1], more[n + 1])
    BY <1>7, <2>1 DEF SizesBetween
  <2>4. g2[n + 1] = Survive(g2[n], x, "done")
    BY <2>1, <2>2
  <2>5. h2[n + 1] = Longest(h2[n], x)
    BY <2>1, <2>3
  <2> QED BY <2>4, <2>5 DEF Survive
<1> DEFINE T == {i \in 0 .. n : g2[i] = g[i] /\ h2[i] = h[i]}
<1>11. 0 \in T
  BY <1>1, <1>8
<1>12. ASSUME NEW i \in 1 .. n, i - 1 \in T PROVE i \in T
  BY <1>1, <1>9, <1>12
<1>13. n \in T
  <2> HIDE DEF T
  <2>1. \A i \in 0 .. n : i \in T
    BY <1>1, <1>11, <1>12, CountingUp
  <2> QED BY <1>1, <2>1
<1> QED BY <1>8, <1>10, <1>13 DEF more, fate, fate2

\* The file grows to where the last extent ends, and no further.
LEMMA SizeAfterIs ==
  ASSUME NEW f \in SUBSET Exts, NEW sz \in Nat, NEW writes \in Seq(Exts), NEW fate \in FatesOf(writes)
  PROVE  /\ SizeAfter(sz, writes, fate) \in Nat /\ sz <= SizeAfter(sz, writes, fate)
         /\ \A m \in Nat : sz <= m /\ (\A i \in DOMAIN writes : End(writes[i]) <= m)
              => SizeAfter(sz, writes, fate) <= m
         /\ (\A e \in f : End(e) <= sz)
              => \A e \in FileAfter(f, writes, fate) : End(e) <= SizeAfter(sz, writes, fate)
<1> DEFINE n == Len(writes)
<1>1. /\ n \in Nat /\ DOMAIN writes = 1 .. n
      /\ \A i \in 1 .. n : writes[i] \in Exts /\ fate[i] \in {"done", "torn", "lost"}
  BY DEF FatesOf
<1>2. PICK g : FilesBetween(g, f, writes, fate)
  BY FilesExist
<1>3. /\ g \in [0 .. n -> SUBSET Exts] /\ g[0] = f /\ FileAfter(f, writes, fate) = g[n]
      /\ \A i \in 1 .. n : g[i] = Survive(g[i - 1], writes[i], fate[i])
  BY <1>2 DEF FilesBetween
<1>4. PICK h : SizesBetween(h, sz, writes, fate)
  BY SizesExist
<1>5. /\ h \in [0 .. n -> Nat] /\ h[0] = sz /\ SizeAfter(sz, writes, fate) = h[n]
      /\ \A i \in 1 .. n : h[i] = IF fate[i] = "lost" THEN h[i - 1] ELSE Longest(h[i - 1], writes[i])
  BY <1>4 DEF SizesBetween
<1> HIDE DEF n
<1> DEFINE Within(a, s) == (\A e \in f : End(e) <= sz) => \A e \in a : End(e) <= s
           Least(s) == \A m \in Nat : sz <= m /\ (\A i \in DOMAIN writes : End(writes[i]) <= m) => s <= m
           T == {i \in 0 .. n : sz <= h[i] /\ Least(h[i]) /\ Within(g[i], h[i])}
<1>6. 0 \in T
  BY <1>1, <1>3, <1>5
<1>7. ASSUME NEW i \in 1 .. n, i - 1 \in T PROVE i \in T
  <2> DEFINE a == g[i - 1]
             s == h[i - 1]
             x == writes[i]
             t == Longest(s, x)
  <2>1. /\ a \in SUBSET Exts /\ s \in Nat /\ x \in Exts /\ fate[i] \in {"done", "torn", "lost"}
        /\ sz <= s /\ Least(s) /\ Within(a, s) /\ i \in 0 .. n
    <3>1. i - 1 \in 0 .. n /\ i \in 0 .. n
      BY <1>1
    <3>2. sz <= s /\ Least(s) /\ Within(a, s)
      BY <1>7
    <3> QED BY <1>1, <1>3, <1>5, <3>1, <3>2
  <2>2. g[i] = Survive(a, x, fate[i]) /\ h[i] = IF fate[i] = "lost" THEN s ELSE t
    BY <1>3, <1>5
  <2>3. t \in Nat /\ s <= t /\ End(x) <= t
    BY <2>1, LongestIs
  <2>4. Least(t)
    <3>1. ASSUME NEW m \in Nat, sz <= m, \A j \in DOMAIN writes : End(writes[j]) <= m PROVE t <= m
      <4>1. s <= m
        BY <2>1, <3>1
      <4>2. End(x) <= m
        BY <1>1, <3>1
      <4> HIDE DEF s, x, t
      <4> QED BY <2>1, <4>1, <4>2, LongestIs DEF t
    <3> QED BY <3>1
  <2> HIDE DEF a, s, x, t, Least
  <2>5. CASE fate[i] = "lost"
    BY <2>1, <2>2, <2>5 DEF Survive
  <2>6. CASE fate[i] # "lost"
    <3>1. h[i] = t /\ sz <= t
      BY <2>1, <2>2, <2>3, <2>6
    <3>2. \A e \in g[i] : e = x \/ e \in a
      BY <2>1, <2>2, <2>6, WrittenIs, OverwrittenIs DEF Survive
    <3>3. Within(g[i], t)
      <4>1. ASSUME \A e \in f : End(e) <= sz, NEW e \in g[i] PROVE End(e) <= t
        <5>1. CASE e = x
          BY <2>3, <5>1
        <5>2. CASE e \in a
          <6>1. End(e) <= s /\ End(e) \in Nat
            BY <2>1, <4>1, <5>2, LongestIs
          <6> QED BY <2>1, <2>3, <6>1
        <5> QED BY <3>2, <5>1, <5>2
      <4> QED BY <4>1
    <3> QED BY <2>1, <2>4, <3>1, <3>3
  <2> QED BY <2>5, <2>6
<1>8. n \in T
  <2> HIDE DEF T
  <2>1. \A i \in 0 .. n : i \in T
    BY <1>1, <1>6, <1>7, CountingUp
  <2> QED BY <1>1, <2>1
<1>9. h[n] \in Nat
  BY <1>1, <1>5
<1> QED BY <1>3, <1>5, <1>8, <1>9

\* What a column contains depends on what is held where it is.
LEMMA SameContent ==
  ASSUME NEW f \in SUBSET Exts, Disjoint(f), NEW g \in SUBSET Exts, Disjoint(g),
         NEW b \in Nat, NEW loc,
         loc.len > 0 => \A x : x.at = b + loc.pos /\ x.len = loc.len => (x \in f <=> x \in g)
  PROVE  ContentAt(f, b, loc) = ContentAt(g, b, loc)
<1> DEFINE at == b + loc.pos
<1>1. CASE loc.len = 0
  BY <1>1 DEF ContentAt
<1>2. CASE loc.len > 0 /\ Holds(f, at, loc.len, "data")
  <2>1. PICK x \in f : x.at = at /\ x.len = loc.len /\ x.what.kind = "data"
    BY <1>2, HeldIs
  <2>2. x \in g
    BY <1>2, <2>1
  <2>3. /\ Holds(g, at, loc.len, "data") /\ Read(g, at, loc.len, "data") = x.what
        /\ Read(f, at, loc.len, "data") = x.what
    BY <2>1, <2>2, ReadIs
  <2> QED BY <1>2, <2>3 DEF ContentAt
<1>3. CASE loc.len > 0 /\ ~Holds(f, at, loc.len, "data")
  <2>1. ~Holds(g, at, loc.len, "data")
    <3>1. ASSUME Holds(g, at, loc.len, "data") PROVE FALSE
      <4>1. PICK x \in g : x.at = at /\ x.len = loc.len /\ x.what.kind = "data"
        BY <3>1, HeldIs
      <4>2. x \in f
        BY <1>3, <4>1
      <4> QED BY <1>3, <4>1, <4>2 DEF Holds
    <3> QED BY <3>1
  <2> QED BY <1>3, <2>1 DEF ContentAt
<1>4. CASE ~(loc.len = 0) /\ ~(loc.len > 0)
  BY <1>4 DEF ContentAt
<1> QED BY <1>1, <1>2, <1>3, <1>4

----------------------------------------------------------------------------
\* The search for the last commit: what it finds at p is what is behind a commit
\* tail there, or else what it finds where a skip tail there points to.
Scans(scan, f, sz) ==
  /\ \A p \in -sz .. sz :
       scan[p] = IF Holds(f, p - Mark, Mark, "tail") THEN AtCommitTail(f, p)
                 ELSE IF Holds(f, p - Mark, Mark, "skip")
                      THEN scan[p - Mark - Read(f, p - Mark, Mark, "skip").off]
                      ELSE NoData
  /\ EndOfData(f, sz) = scan[sz]

\* A mark is at a place that is not before the start, is not two things, and a skip
\* mark points to a place before it.
LEMMA MarksAre ==
  ASSUME NEW f \in SUBSET Exts, Disjoint(f), SkipsBack(f), NEW p \in Int
  PROVE  /\ Holds(f, p - Mark, Mark, "tail") => p \in Nat /\ ~Holds(f, p - Mark, Mark, "skip")
         /\ Holds(f, p - Mark, Mark, "skip") =>
              /\ p \in Nat
              /\ Read(f, p - Mark, Mark, "skip").off \in Nat \ {0}
              /\ p - Mark - Read(f, p - Mark, Mark, "skip").off \in Nat
              /\ p - Mark - Read(f, p - Mark, Mark, "skip").off < p
<1> USE DatafileAssumption
<1>1. ASSUME Holds(f, p - Mark, Mark, "skip") PROVE
        /\ p \in Nat
        /\ Read(f, p - Mark, Mark, "skip").off \in Nat \ {0}
        /\ p - Mark - Read(f, p - Mark, Mark, "skip").off \in Nat
        /\ p - Mark - Read(f, p - Mark, Mark, "skip").off < p
  <2>1. PICK e \in f : /\ e.at = p - Mark /\ e.what.kind = "skip"
                       /\ Read(f, p - Mark, Mark, "skip") = e.what
    BY <1>1, HeldIs
  <2>2. e.at \in Nat /\ e.what \in Whats
    BY DEF Exts
  <2>3. e.what.off \in Nat \ {0} /\ e.what.off <= e.at
    BY <2>1, <2>2, KindFacts DEF SkipsBack, PointsBack
  <2> QED BY <2>1, <2>2, <2>3
<1>2. ASSUME Holds(f, p - Mark, Mark, "tail") PROVE p \in Nat /\ ~Holds(f, p - Mark, Mark, "skip")
  <2>1. PICK e \in f : e.at = p - Mark /\ e.len = Mark /\ e.what.kind = "tail"
    BY <1>2, HeldIs
  <2>2. e.at \in Nat
    BY DEF Exts
  <2>3. ASSUME Holds(f, p - Mark, Mark, "skip") PROVE FALSE
    <3>1. PICK g \in f : g.at = p - Mark /\ g.len = Mark /\ g.what.kind = "skip"
      BY <2>3, HeldIs
    <3>2. Overlap(e, g)
      BY <2>1, <2>2, <3>1 DEF Overlap, End
    <3> QED BY <2>1, <3>1, <3>2 DEF Disjoint
  <2> QED BY <2>1, <2>2, <2>3
<1> QED BY <1>1, <1>2

\* The search is defined.
LEMMA ScanExists ==
  ASSUME NEW f \in SUBSET Exts, Disjoint(f), SkipsBack(f), NEW sz \in Nat
  PROVE  \E scan : Scans(scan, f, sz)
<1> DEFINE AtTail(p) == Holds(f, p - Mark, Mark, "tail")
           Skip(p) == Holds(f, p - Mark, Mark, "skip")
           To(p)   == p - Mark - Read(f, p - Mark, Mark, "skip").off
           S == {NoData} \cup {AtCommitTail(f, p) : p \in 0 .. sz}
           D == [p \in 0 .. sz |-> IF AtTail(p) THEN AtCommitTail(f, p) ELSE NoData]
           J == [p \in 0 .. sz |-> IF Skip(p) THEN To(p) ELSE -1]
           Is(g) ==
             g = [p \in -sz .. sz |->
                    IF Holds(f, p - Mark, Mark, "tail") THEN AtCommitTail(f, p)
                    ELSE IF Holds(f, p - Mark, Mark, "skip")
                         THEN g[p - Mark - Read(f, p - Mark, Mark, "skip").off]
                         ELSE NoData]
<1>1. ASSUME NEW p \in -sz .. sz
      PROVE  /\ AtTail(p) => p \in 0 .. sz /\ ~Skip(p)
             /\ Skip(p) => p \in 0 .. sz /\ To(p) \in 0 .. sz /\ To(p) < p
  <2>1. /\ AtTail(p) => p \in Nat /\ ~Skip(p)
        /\ Skip(p) => p \in Nat /\ To(p) \in Nat /\ To(p) < p
    BY MarksAre
  <2> HIDE DEF AtTail, Skip, To
  <2> QED BY <2>1
<1> HIDE DEF AtTail, Skip, To
<1>2. Jumping(sz, S, D, J)
  <2>1. D \in [0 .. sz -> S]
    OBVIOUS
  <2>2. ASSUME NEW p \in 0 .. sz PROVE J[p] \in Int /\ J[p] < p
    BY <1>1
  <2>3. J \in [0 .. sz -> Int]
    BY <2>2
  <2> QED BY <2>1, <2>2, <2>3 DEF Jumping
<1>3. PICK g \in [0 .. sz -> S] : \A p \in 0 .. sz : g[p] = IF J[p] >= 0 THEN g[J[p]] ELSE D[p]
  <2> HIDE DEF S, D, J
  <2> QED BY <1>2, JumpingFunction
<1> DEFINE h == [p \in -sz .. sz |-> IF p >= 0 THEN g[p] ELSE NoData]
<1>4. Is(h)
  <2>1. ASSUME NEW p \in -sz .. sz
        PROVE  h[p] = IF AtTail(p) THEN AtCommitTail(f, p) ELSE IF Skip(p) THEN h[To(p)] ELSE NoData
    <3>1. CASE AtTail(p)
      <4>1. p \in 0 .. sz /\ ~Skip(p)
        BY <1>1, <3>1
      <4>2. g[p] = AtCommitTail(f, p)
        BY <1>3, <3>1, <4>1
      <4> QED BY <3>1, <4>1, <4>2
    <3>2. CASE Skip(p) /\ ~AtTail(p)
      <4>1. p \in 0 .. sz /\ To(p) \in 0 .. sz
        BY <1>1, <3>2
      <4>2. g[p] = g[To(p)]
        BY <1>3, <3>2, <4>1
      <4>3. h[To(p)] = g[To(p)] /\ h[p] = g[p]
        BY <4>1
      <4> QED BY <3>2, <4>2, <4>3
    <3>3. CASE ~Skip(p) /\ ~AtTail(p)
      <4>1. p >= 0 => p \in 0 .. sz /\ g[p] = NoData
        BY <1>3, <3>3
      <4> QED BY <3>3, <4>1
    <3> QED BY <3>1, <3>2, <3>3
  <2> HIDE DEF h
  <2>2. h = [p \in -sz .. sz |-> h[p]]
    BY DEF h
  <2>3. h = [p \in -sz .. sz |-> IF AtTail(p) THEN AtCommitTail(f, p)
                                 ELSE IF Skip(p) THEN h[To(p)] ELSE NoData]
    BY <2>1, <2>2
  <2> QED BY <2>3 DEF AtTail, Skip, To
<1> DEFINE scan == CHOOSE s : Is(s)
<1>5. Is(scan)
  <2> HIDE DEF Is, h
  <2> QED BY <1>4
<1>6. EndOfData(f, sz) = scan[sz]
  BY DEF EndOfData
<1> HIDE DEF scan
<1>7. Scans(scan, f, sz)
  BY <1>5, <1>6 DEF Scans
<1> QED BY <1>7

\* A place from which the search finds nothing: it stays in a set of places, none of
\* which is after b and none after a commit tail.
Dead(f, b) ==
  \E D \in SUBSET Int :
    /\ b \in D
    /\ \A p \in D :
         /\ p <= b
         /\ \A e \in f : e.at = p - Mark /\ e.len = Mark =>
              /\ e.what.kind # "tail"
              /\ e.what.kind = "skip" => e.at - e.what.off \in D

\* Nothing is found there.
LEMMA DeadIs ==
  ASSUME NEW f \in SUBSET Exts, Disjoint(f), SkipsBack(f), NEW sz \in Nat, Dead(f, sz)
  PROVE  EndOfData(f, sz) = NoData
<1> USE DatafileAssumption
<1>1. PICK D \in SUBSET Int :
        /\ sz \in D
        /\ \A p \in D : \A e \in f : e.at = p - Mark /\ e.len = Mark =>
             e.what.kind # "tail" /\ (e.what.kind = "skip" => e.at - e.what.off \in D)
  BY DEF Dead
<1>2. PICK scan : Scans(scan, f, sz)
  BY ScanExists
<1> DEFINE T == {m \in 0 .. sz : \A p \in 0 .. m : p \in D => scan[p] = NoData}
<1>3. ASSUME NEW m \in 0 .. sz, \A p \in 0 .. m - 1 : p \in D => scan[p] = NoData, m \in D
      PROVE  scan[m] = NoData
  <2>1. /\ m \in -sz .. sz /\ m \in Int
        /\ scan[m] = IF Holds(f, m - Mark, Mark, "tail") THEN AtCommitTail(f, m)
                     ELSE IF Holds(f, m - Mark, Mark, "skip")
                          THEN scan[m - Mark - Read(f, m - Mark, Mark, "skip").off]
                          ELSE NoData
    BY <1>2 DEF Scans
  <2>2. ~Holds(f, m - Mark, Mark, "tail")
    BY <1>1, <1>3, HeldIs
  <2>3. CASE Holds(f, m - Mark, Mark, "skip")
    <3>1. PICK e \in f : /\ e.at = m - Mark /\ e.len = Mark /\ e.what.kind = "skip"
                         /\ Read(f, m - Mark, Mark, "skip") = e.what
      BY <2>3, HeldIs
    <3> DEFINE q == m - Mark - e.what.off
    <3>2. q \in Nat /\ q < m
      BY <2>1, <2>3, <3>1, MarksAre
    <3>3. q \in D
      BY <1>1, <1>3, <3>1
    <3>4. scan[q] = NoData
      <4>1. q \in 0 .. m - 1
        BY <3>2
      <4> QED BY <1>3, <3>3, <4>1
    <3> QED BY <2>1, <2>2, <2>3, <3>1, <3>4
  <2> QED BY <2>1, <2>2, <2>3
<1>4. 0 \in T
  <2>1. 0 \in 0 .. sz /\ \A p \in 0 .. 0 - 1 : FALSE
    OBVIOUS
  <2>2. 0 \in D => scan[0] = NoData
    BY <1>3, <2>1
  <2> QED BY <2>1, <2>2
<1>5. ASSUME NEW m \in 1 .. sz, m - 1 \in T PROVE m \in T
  <2>1. m \in 0 .. sz /\ \A p \in 0 .. m - 1 : p \in D => scan[p] = NoData
    BY <1>5
  <2>2. m \in D => scan[m] = NoData
    BY <1>3, <2>1
  <2> QED BY <2>1, <2>2
<1>6. sz \in T
  <2> HIDE DEF T
  <2>1. \A m \in 0 .. sz : m \in T
    BY <1>4, <1>5, CountingUp
  <2> QED BY <2>1
<1>7. scan[sz] = NoData
  <2>1. sz \in 0 .. sz
    OBVIOUS
  <2> QED BY <1>1, <1>6, <2>1
<1> QED BY <1>2, <1>7 DEF Scans

\* The end of an empty datafile.
LEMMA NothingIsDead ==
  ASSUME NEW b \in Int
  PROVE  Dead({}, b)
<1>1. {b} \in SUBSET Int /\ b \in {b} /\ \A p \in {b} : p <= b
  OBVIOUS
<1> QED BY <1>1 DEF Dead

\* A skip mark that leads to such a place makes one of the place after it.
LEMMA SkipIsDead ==
  ASSUME NEW f \in SUBSET Exts, Disjoint(f), NEW e \in f, e.len = Mark, e.what.kind = "skip",
         e.what.off \in Nat, Dead(f, e.at - e.what.off)
  PROVE  Dead(f, End(e))
<1> DEFINE b == e.at - e.what.off
           p0 == End(e)
<1>1. PICK D \in SUBSET Int :
        /\ b \in D
        /\ \A p \in D : p <= b /\ \A g \in f : g.at = p - Mark /\ g.len = Mark =>
             g.what.kind # "tail" /\ (g.what.kind = "skip" => g.at - g.what.off \in D)
  BY DEF Dead
<1>2. e.at \in Nat /\ Mark \in Nat /\ Mark > 1 /\ p0 = e.at + Mark /\ p0 \in Int /\ b <= p0
  BY DatafileAssumption DEF Exts, End
<1>3. ASSUME NEW g \in f, g.at = p0 - Mark, g.len = Mark PROVE g = e
  <2>1. Overlap(g, e)
    BY <1>2, <1>3 DEF Overlap, End
  <2> QED BY <2>1 DEF Disjoint
<1> HIDE DEF p0
<1>4. ASSUME NEW p \in D \cup {p0}
      PROVE  /\ p <= p0
             /\ \A g \in f : g.at = p - Mark /\ g.len = Mark =>
                  g.what.kind # "tail" /\ (g.what.kind = "skip" => g.at - g.what.off \in D \cup {p0})
  <2>1. CASE p = p0
    <3>1. p <= p0
      BY <1>2, <2>1
    <3> QED BY <1>1, <1>3, <2>1, <3>1
  <2>2. CASE p \in D
    <3>1. p \in Int /\ p <= b /\ b \in Int
      BY <1>1, <2>2
    <3>2. p <= p0
      BY <1>2, <3>1
    <3> QED BY <1>1, <2>2, <3>2
  <2> QED BY <2>1, <2>2
<1>5. D \cup {p0} \in SUBSET Int /\ p0 \in D \cup {p0}
  BY <1>2
<1>6. \E E \in SUBSET Int : p0 \in E /\ \A p \in E : p <= p0 /\ \A g \in f :
        g.at = p - Mark /\ g.len = Mark =>
          g.what.kind # "tail" /\ (g.what.kind = "skip" => g.at - g.what.off \in E)
  <2> DEFINE E == D \cup {p0}
  <2>1. p0 \in E /\ E \in SUBSET Int
    BY <1>5
  <2>2. \A p \in E : p <= p0 /\ \A g \in f : g.at = p - Mark /\ g.len = Mark =>
          g.what.kind # "tail" /\ (g.what.kind = "skip" => g.at - g.what.off \in E)
    BY <1>4
  <2> HIDE DEF E
  <2> QED BY <2>1, <2>2
<1> QED BY <1>6 DEF Dead, p0

\* Writes after such a place leave it one.
LEMMA DeadStays ==
  ASSUME NEW f \in SUBSET Exts, NEW g \in SUBSET Exts, NEW b \in Nat, Dead(f, b),
         \A e \in g : e.at < b => e \in f
  PROVE  Dead(g, b)
<1>1. PICK D \in SUBSET Int :
        /\ b \in D
        /\ \A p \in D : p <= b /\ \A e \in f : e.at = p - Mark /\ e.len = Mark =>
             e.what.kind # "tail" /\ (e.what.kind = "skip" => e.at - e.what.off \in D)
  BY DEF Dead
<1>2. ASSUME NEW p \in D, NEW e \in g, e.at = p - Mark PROVE e \in f
  <2>1. p \in Int /\ p <= b /\ Mark \in Nat /\ Mark > 1
    BY <1>1, DatafileAssumption
  <2>2. e.at < b
    BY <1>2, <2>1
  <2> QED BY <2>2
<1> QED BY <1>1, <1>2 DEF Dead

\* What is found is a header before two marks; a walk is said to be at some place.
LEMMA FoundIs ==
  ASSUME NEW f \in SUBSET Exts, Disjoint(f), SkipsBack(f), NEW sz \in Nat
  PROVE  \/ EndOfData(f, sz) = NoData
         \/ /\ EndOfData(f, sz).found = TRUE
            /\ EndOfData(f, sz).base \in Nat /\ EndOfData(f, sz).base + 2 * Mark + 1 <= sz
            /\ EndOfData(f, sz).pos \in Nat \ {0} /\ EndOfData(f, sz).len \in Nat \ {0}
<1> USE DatafileAssumption
<1> DEFINE Good(r, p) == /\ r.found = TRUE /\ r.base \in Nat /\ r.base + 2 * Mark + 1 <= p
                         /\ r.pos \in Nat \ {0} /\ r.len \in Nat \ {0}
<1>1. PICK scan : Scans(scan, f, sz)
  BY ScanExists
<1>2. ASSUME NEW p \in Nat, Holds(f, p - Mark, Mark, "tail")
      PROVE  AtCommitTail(f, p) = NoData \/ Good(AtCommitTail(f, p), p)
  <2> DEFINE tail == Read(f, p - Mark, Mark, "tail")
             skip == Read(f, p - 2 * Mark, Mark, "skip")
             head == p - 2 * Mark - skip.off
  <2>1. tail.pos \in Nat \ {0} /\ tail.len \in Nat \ {0}
    <3>1. PICK e \in f : e.what.kind = "tail" /\ tail = e.what
      BY <1>2, HeldIs
    <3>2. e.what \in Whats
      BY DEF Exts
    <3> QED BY <3>1, <3>2, KindFacts
  <2>2. CASE Holds(f, p - 2 * Mark, Mark, "skip") /\ Holds(f, head, Mark, "head")
    <3>1. skip.off \in Nat \ {0}
      <4>1. PICK e \in f : e.what.kind = "skip" /\ skip = e.what
        BY <2>2, HeldIs
      <4>2. e.what \in Whats
        BY DEF Exts
      <4> QED BY <4>1, <4>2, KindFacts
    <3>2. head \in Nat
      <4>1. PICK e \in f : e.at = head
        BY <2>2, HeldIs
      <4> QED BY <4>1 DEF Exts
    <3>3. AtCommitTail(f, p) = [found |-> TRUE, base |-> head, pos |-> tail.pos, len |-> tail.len]
      BY <2>2 DEF AtCommitTail
    <3>4. head + 2 * Mark + 1 <= p
      <4> HIDE DEF skip
      <4> QED BY <3>1
    <3> HIDE DEF head, tail
    <3> QED BY <2>1, <3>2, <3>3, <3>4
  <2>3. CASE ~(Holds(f, p - 2 * Mark, Mark, "skip") /\ Holds(f, head, Mark, "head"))
    BY <2>3 DEF AtCommitTail
  <2> QED BY <2>2, <2>3
<1>3. ASSUME NEW m \in 0 .. sz, \A q \in 0 .. m - 1 : scan[q] = NoData \/ Good(scan[q], q)
      PROVE  scan[m] = NoData \/ Good(scan[m], m)
  <2>1. /\ m \in -sz .. sz /\ m \in Int /\ m \in Nat
        /\ scan[m] = IF Holds(f, m - Mark, Mark, "tail") THEN AtCommitTail(f, m)
                     ELSE IF Holds(f, m - Mark, Mark, "skip")
                          THEN scan[m - Mark - Read(f, m - Mark, Mark, "skip").off]
                          ELSE NoData
    BY <1>1 DEF Scans
  <2>2. CASE Holds(f, m - Mark, Mark, "tail")
    BY <1>2, <2>1, <2>2
  <2>3. CASE Holds(f, m - Mark, Mark, "skip") /\ ~Holds(f, m - Mark, Mark, "tail")
    <3> DEFINE q == m - Mark - Read(f, m - Mark, Mark, "skip").off
    <3>1. q \in Nat /\ q < m
      BY <2>1, <2>3, MarksAre
    <3>2. scan[m] = scan[q]
      BY <2>1, <2>3
    <3> HIDE DEF q
    <3>3. scan[q] = NoData \/ Good(scan[q], q)
      BY <1>3, <3>1
    <3> QED BY <3>1, <3>2, <3>3
  <2> QED BY <2>1, <2>2, <2>3
<1> DEFINE U == {m \in 0 .. sz : \A q \in 0 .. m : scan[q] = NoData \/ Good(scan[q], q)}
<1> HIDE DEF Good
<1>4. 0 \in U
  <2>1. 0 \in 0 .. sz /\ \A q \in 0 .. 0 - 1 : FALSE
    OBVIOUS
  <2>2. scan[0] = NoData \/ Good(scan[0], 0)
    BY <1>3, <2>1
  <2> QED BY <2>1, <2>2
<1>5. ASSUME NEW m \in 1 .. sz, m - 1 \in U PROVE m \in U
  <2>1. m \in 0 .. sz /\ \A q \in 0 .. m - 1 : scan[q] = NoData \/ Good(scan[q], q)
    BY <1>5
  <2>2. scan[m] = NoData \/ Good(scan[m], m)
    BY <1>3, <2>1
  <2> QED BY <2>1, <2>2
<1>6. sz \in U
  <2> HIDE DEF U
  <2>1. \A m \in 0 .. sz : m \in U
    BY <1>4, <1>5, CountingUp
  <2> QED BY <2>1
<1>7. scan[sz] = NoData \/ Good(scan[sz], sz)
  <2>1. sz \in 0 .. sz
    OBVIOUS
  <2> QED BY <1>6, <2>1
<1> QED BY <1>1, <1>7 DEF Scans, Good

\* A header, a skip mark that leads to it and a commit tail after that are found.
LEMMA CommitIsFound ==
  ASSUME NEW f \in SUBSET Exts, Disjoint(f), SkipsBack(f), NEW sz \in Nat, NEW b \in Int,
         NEW pos, NEW len,
         Extent(b, Mark, HeadMark) \in f,
         Extent(sz - 2 * Mark, Mark, SkipMark(sz - 2 * Mark - b)) \in f,
         Extent(sz - Mark, Mark, TailMark(pos, len)) \in f
  PROVE  EndOfData(f, sz) = [found |-> TRUE, base |-> b, pos |-> pos, len |-> len]
<1> USE DatafileAssumption
<1> DEFINE tail == Extent(sz - Mark, Mark, TailMark(pos, len))
           skip == Extent(sz - 2 * Mark, Mark, SkipMark(sz - 2 * Mark - b))
           head == Extent(b, Mark, HeadMark)
<1>1. /\ tail.at = sz - Mark /\ tail.len = Mark /\ tail.what = TailMark(pos, len)
      /\ skip.at = sz - 2 * Mark /\ skip.len = Mark /\ skip.what = SkipMark(sz - 2 * Mark - b)
      /\ head.at = b /\ head.len = Mark /\ head.what = HeadMark
  BY DEF Extent
<1>2. /\ TailMark(pos, len).kind = "tail" /\ TailMark(pos, len).pos = pos
      /\ TailMark(pos, len).len = len
      /\ SkipMark(sz - 2 * Mark - b).kind = "skip" /\ SkipMark(sz - 2 * Mark - b).off = sz - 2 * Mark - b
      /\ HeadMark.kind = "head"
  BY DEF TailMark, SkipMark, HeadMark
<1>3. tail \in f /\ skip \in f /\ head \in f
  OBVIOUS
<1> HIDE DEF tail, skip, head
<1>4. /\ Holds(f, sz - Mark, Mark, "tail")
      /\ Read(f, sz - Mark, Mark, "tail") = TailMark(pos, len)
  BY <1>1, <1>2, <1>3, ReadIs
<1>5. /\ Holds(f, sz - 2 * Mark, Mark, "skip")
      /\ Read(f, sz - 2 * Mark, Mark, "skip") = SkipMark(sz - 2 * Mark - b)
  BY <1>1, <1>2, <1>3, ReadIs
<1>6. Holds(f, b, Mark, "head")
  BY <1>1, <1>2, <1>3, ReadIs
<1>7. sz - 2 * Mark - (sz - 2 * Mark - b) = b
  OBVIOUS
<1>8. AtCommitTail(f, sz) = [found |-> TRUE, base |-> b, pos |-> pos, len |-> len]
  BY <1>2, <1>4, <1>5, <1>6, <1>7 DEF AtCommitTail
<1>9. PICK scan : Scans(scan, f, sz)
  BY ScanExists
<1>10. sz \in -sz .. sz
  OBVIOUS
<1> QED BY <1>4, <1>8, <1>9, <1>10 DEF Scans

----------------------------------------------------------------------------
\* Walks and contents.
LEMMA EmptyWalkIs ==
  /\ EmptyWalk \in Maps
  /\ \A c \in Cols : EmptyWalk[c].len = 0 /\ EmptyWalk[c].pos = 0
BY DEF EmptyWalk, Maps, Walks, Location

\* The length of a walk, which is least for the empty one.
LEMMA WalkLenIs ==
  ASSUME NEW w \in Maps
  PROVE  /\ WalkLen(w) \in Nat /\ WalkLen(w) >= 3
         /\ WalkLen(w) = 3 <=> w = EmptyWalk
<1> DEFINE S == {c \in Cols : w[c].len > 0}
<1>1. IsFiniteSet(Cols)
  BY DatafileAssumption, FS_Interval DEF Cols
<1>2. IsFiniteSet(S) /\ Cardinality(S) \in Nat
  BY <1>1, FS_Subset, FS_CardinalityType
<1>3. Cardinality(S) = 0 <=> S = {}
  BY <1>2, FS_EmptySet
<1>4. w \in Walks /\ \A c \in Cols : w[c].len \in Nat /\ (w[c].len = 0 <=> w[c].pos = 0)
  BY DEF Maps, Walks
<1>5. S = {} <=> w = EmptyWalk
  <2>1. ASSUME S = {} PROVE w = EmptyWalk
    <3>1. \A c \in Cols : w[c].len = 0 /\ w[c].pos = 0
      BY <1>4, <2>1
    <3>2. \A c \in Cols : w[c] = Location(0, 0)
      BY <1>4, <3>1 DEF Walks, Location
    <3> QED BY <1>4, <3>2 DEF Walks, EmptyWalk
  <2>2. ASSUME w = EmptyWalk PROVE S = {}
    BY <2>2, EmptyWalkIs
  <2> QED BY <2>1, <2>2
<1>6. WalkLen(w) = 3 + Cardinality(S)
  BY DEF WalkLen
<1> HIDE DEF S
<1>7. WalkLen(w) \in Nat /\ WalkLen(w) >= 3 /\ (WalkLen(w) = 3 <=> Cardinality(S) = 0)
  BY <1>2, <1>6
<1> QED BY <1>3, <1>5, <1>7

\* What is read of a column.
LEMMA ContentAtIs ==
  ASSUME NEW f \in SUBSET Exts, NEW b, NEW loc, loc.len \in Nat
  PROVE  ContentAt(f, b, loc) \in [len : Nat, tag : Tags \cup {NoTag, Garbage}]
<1>1. CASE loc.len = 0
  BY <1>1 DEF ContentAt, NoContent, Content
<1>2. CASE loc.len > 0 /\ Holds(f, b + loc.pos, loc.len, "data")
  <2>1. PICK e \in f : /\ e.what.kind = "data"
                       /\ Read(f, b + loc.pos, loc.len, "data") = e.what
    BY <1>2, HeldIs
  <2>2. e.what.tag \in Tags
    BY <2>1, KindFacts DEF Exts
  <2> QED BY <1>2, <2>1, <2>2 DEF ContentAt, Content
<1>3. CASE loc.len > 0 /\ ~Holds(f, b + loc.pos, loc.len, "data")
  BY <1>3 DEF ContentAt, Content
<1> QED BY <1>1, <1>2, <1>3

\* A column that was written can be read.
LEMMA ColumnIsRead ==
  ASSUME NEW f \in SUBSET Exts, Disjoint(f), NEW b, NEW loc, loc.len \in Nat, loc.len > 0, NEW tag,
         Extent(b + loc.pos, loc.len, ColData(tag)) \in f
  PROVE  ContentAt(f, b, loc) = Content(loc.len, tag)
<1> DEFINE x == Extent(b + loc.pos, loc.len, ColData(tag))
<1>1. x \in f /\ x.at = b + loc.pos /\ x.len = loc.len /\ x.what = ColData(tag)
  BY DEF Extent
<1>2. ColData(tag).kind = "data" /\ ColData(tag).tag = tag
  BY DEF ColData
<1> HIDE DEF x
<1>3. /\ Holds(f, b + loc.pos, loc.len, "data")
      /\ Read(f, b + loc.pos, loc.len, "data") = ColData(tag)
  BY <1>1, <1>2, ReadIs
<1>4. ~(loc.len = 0)
  OBVIOUS
<1> QED BY <1>2, <1>3, <1>4 DEF ContentAt

\* The contents by a walk, and by what is taken for one.
LEMMA ContentsOfIs ==
  ASSUME NEW f \in SUBSET Exts, NEW b, NEW w \in Maps
  PROVE  ContentsOf(f, b, w) \in Contents
<1>1. ASSUME NEW c \in Cols
      PROVE  ContentAt(f, b, w[c]) \in [len : Nat, tag : Tags \cup {NoTag, Garbage}]
  <2>1. w[c].len \in Nat
    BY DEF Maps, Walks
  <2> QED BY <2>1, ContentAtIs
<1> QED BY <1>1 DEF ContentsOf, Contents

\* A walk without columns is the empty storage.
LEMMA EmptyContents ==
  ASSUME NEW f, NEW b
  PROVE  /\ ContentsOf(f, b, EmptyWalk) = Empty
         /\ Empty \in Contents
BY EmptyWalkIs DEF ContentsOf, ContentAt, Empty, NoContent, Content, Contents

\* Whatever is read in the place of a walk is a walk.
LEMMA WalkAtIs ==
  ASSUME NEW f \in SUBSET Exts, NEW at, NEW len
  PROVE  WalkAt(f, at, len) \in Maps
<1>1. CASE WalkIntact(f, at, len)
  <2>1. PICK e \in f : e.what.kind = "walk" /\ Read(f, at, len, "walk") = e.what
    BY <1>1, HeldIs DEF WalkIntact
  <2>2. e.what.cols \in Maps
    BY <2>1, KindFacts DEF Exts
  <2> QED BY <1>1, <2>1, <2>2 DEF WalkAt
<1>2. CASE ~WalkIntact(f, at, len)
  BY <1>2, EmptyWalkIs DEF WalkAt
<1> QED BY <1>1, <1>2

\* A walk that is in the file as a whole is read as it was written.
LEMMA WalkIsRead ==
  ASSUME NEW f \in SUBSET Exts, Disjoint(f), NEW at, NEW len, NEW w,
         Extent(at, len, WalkData(w)) \in f
  PROVE  WalkIntact(f, at, len) /\ WalkAt(f, at, len) = w
<1> DEFINE x == Extent(at, len, WalkData(w))
<1>1. x \in f /\ x.at = at /\ x.len = len /\ x.what = WalkData(w)
  BY DEF Extent
<1>2. WalkData(w).kind = "walk" /\ WalkData(w).cols = w
  BY DEF WalkData
<1> HIDE DEF x
<1>3. Holds(f, at, len, "walk") /\ Read(f, at, len, "walk") = WalkData(w)
  BY <1>1, <1>2, ReadIs
<1> QED BY <1>2, <1>3 DEF WalkIntact, WalkAt

\* What opening a file finds is of the right type.
LEMMA RecoveredIs ==
  ASSUME NEW f \in SUBSET Exts, NEW sz
  PROVE  Recovered(f, sz) \in Contents
<1> DEFINE d == EndOfData(f, sz)
           w == WalkAt(f, d.base + d.pos, d.len)
<1>1. w \in Maps
  BY WalkAtIs
<1>2. ContentsOf(f, d.base, w) \in Contents
  BY <1>1, ContentsOfIs
<1>3. [c \in Cols |-> Content(0, Garbage)] \in Contents
  BY DEF Contents, Content
<1> HIDE DEF d
<1> QED BY <1>2, <1>3, EmptyContents DEF Recovered, d

----------------------------------------------------------------------------
\* What a commit claims and reserves before it allocates.  The columns in memory: a clean one is at position 0 when it is empty only.
ColumnsTyped ==
  /\ col \in [Cols -> [len : Nat, pos : Nat, tag : Tags \cup {NoTag}, dirty : BOOLEAN]]
  /\ \A c \in Cols : ~col[c].dirty => (col[c].len = 0 <=> col[c].pos = 0)
  /\ \A c \in Cols : col[c].dirty => c \in known

\* The space after the first columns are claimed.
ClaimsBetween(claim) ==
  /\ claim \in [0 .. NCols -> Spaces] /\ claim[0] = space
  /\ \A k \in 1 .. NCols : claim[k] = Claimed(claim[k - 1], k)
  /\ AllClaimed = claim[NCols]

\* PullLocation: a column that is not yet set up has its bytes claimed, the others
\* keep them.
LEMMA ClaimedIs ==
  ASSUME ColumnsTyped, NEW u \in Spaces, NEW c \in Cols
  PROVE  /\ Claimed(u, c) \in Spaces
         /\ u \subseteq Claimed(u, c)
         /\ c \in known => Claimed(u, c) = u
         /\ Claimed(u, c) \subseteq u \cup Bytes(col[c].pos, col[c].len)
         /\ mode = 1 /\ c \notin known /\ AllOrNone(u, Bytes(col[c].pos, col[c].len)) =>
              Claimed(u, c) = u \cup Bytes(col[c].pos, col[c].len)
<1>1. CASE mode = 1 /\ c \notin known /\ col[c].len > 0
  <2>1. col[c].pos \in Nat /\ col[c].len \in Nat /\ col[c].pos >= 1
    BY <1>1 DEF ColumnsTyped
  <2>2. Claimed(u, c) = Occupied(u, col[c].pos, col[c].len)
    BY <1>1 DEF Claimed
  <2> QED BY <1>1, <2>1, <2>2, OccupiedIs
<1>2. CASE ~(mode = 1 /\ c \notin known /\ col[c].len > 0)
  <2>1. Claimed(u, c) = u
    BY <1>2 DEF Claimed
  <2>2. mode = 1 /\ c \notin known => Bytes(col[c].pos, col[c].len) = {}
    BY <1>2 DEF ColumnsTyped, Bytes
  <2> QED BY <2>1, <2>2
<1> QED BY <1>1, <1>2

\* The claims of AllClaimed exist, one column after the other.
LEMMA ClaimsExist ==
  ASSUME ColumnsTyped, space \in Spaces
  PROVE  \E claim : ClaimsBetween(claim)
<1> DEFINE n == NCols
           S == Spaces
           G == [k \in 1 .. n |-> [u \in S |-> Claimed(u, k)]]
           Is(g) == g = [k \in 0 .. NCols |-> IF k = 0 THEN space ELSE Claimed(g[k - 1], k)]
<1>1. n \in Nat /\ Cols = 1 .. n
  BY DatafileAssumption DEF Cols
<1>2. Stepwise(n, S, space, G)
  <2>1. \A k \in 1 .. n, u \in S : Claimed(u, k) \in S
    BY <1>1, ClaimedIs
  <2> QED BY <1>1, <2>1 DEF Stepwise
<1>3. PICK g \in [0 .. n -> S] : g[0] = space /\ \A k \in 1 .. n : g[k] = G[k][g[k - 1]]
  <2> HIDE DEF n, S, G
  <2> QED BY <1>2, StepwiseFunction
<1>4. ASSUME NEW k \in 1 .. n PROVE g[k] = Claimed(g[k - 1], k)
  <2>1. k - 1 \in 0 .. n /\ g[k - 1] \in S
    BY <1>1, <1>3
  <2>2. G[k][g[k - 1]] = Claimed(g[k - 1], k)
    BY <2>1
  <2> QED BY <1>3, <2>2
<1>5. Is(g)
  <2> HIDE DEF G
  <2> QED BY <1>1, <1>3, <1>4
<1> DEFINE h == CHOOSE h : Is(h)
<1>6. Is(h)
  <2> HIDE DEF Is
  <2> QED BY <1>5
<1>7. AllClaimed = h[NCols]
  BY DEF AllClaimed
<1> HIDE DEF h
<1>8. h[0] = space /\ \A k \in 1 .. n : h[k] = Claimed(h[k - 1], k)
  BY <1>1, <1>6
<1>9. \A k \in 0 .. n : h[k] \in Spaces
  <2> DEFINE T == {k \in 0 .. n : h[k] \in Spaces}
  <2>1. 0 \in T
    BY <1>1, <1>8
  <2>2. ASSUME NEW k \in 1 .. n, k - 1 \in T PROVE k \in T
    <3>1. h[k - 1] \in Spaces /\ k \in 0 .. n /\ k \in Cols
      BY <1>1, <2>2
    <3>2. Claimed(h[k - 1], k) \in Spaces
      BY <3>1, ClaimedIs
    <3> QED BY <1>8, <3>1, <3>2
  <2>3. \A k \in 0 .. n : k \in T
    <3> HIDE DEF T, n
    <3> QED BY <1>1, <2>1, <2>2, CountingUp
  <2> QED BY <2>3
<1>10. h \in [0 .. n -> Spaces]
  <2>1. DOMAIN h = 0 .. n /\ h = [k \in 0 .. n |-> h[k]]
    BY <1>6
  <2> QED BY <1>9, <2>1
<1> QED BY <1>7, <1>8, <1>10 DEF ClaimsBetween

\* Visiting every column claims those that were not set up, and nothing else.
LEMMA AllClaimedIs ==
  ASSUME ColumnsTyped, space \in Spaces, mode = 1,
         \A c \in Cols \ known : AllOrNone(space, Bytes(col[c].pos, col[c].len)),
         \A c \in Cols \ known, d \in Cols \ known :
           c # d => Bytes(col[c].pos, col[c].len) \cap Bytes(col[d].pos, col[d].len) = {}
  PROVE  /\ AllClaimed \in Spaces /\ space \subseteq AllClaimed
         /\ \A c \in Cols \ known : Bytes(col[c].pos, col[c].len) \subseteq AllClaimed
         /\ \A b \in AllClaimed : b \in space \/ \E c \in Cols \ known : b \in Bytes(col[c].pos, col[c].len)
<1> DEFINE n == NCols
           B(c) == Bytes(col[c].pos, col[c].len)
<1>1. n \in Nat /\ Cols = 1 .. n
  BY DatafileAssumption DEF Cols
<1>2. PICK claim : ClaimsBetween(claim)
  BY ClaimsExist
<1>3. /\ claim[0] = space /\ AllClaimed = claim[n] /\ \A k \in 0 .. n : claim[k] \in Spaces
      /\ \A k \in 1 .. n : claim[k] = Claimed(claim[k - 1], k)
  BY <1>2 DEF ClaimsBetween
<1> DEFINE Good(k) == /\ space \subseteq claim[k]
                      /\ \A c \in (1 .. k) \ known : B(c) \subseteq claim[k]
                      /\ \A b \in claim[k] : b \in space \/ \E c \in (1 .. k) \ known : b \in B(c)
           T == {k \in 0 .. n : Good(k)}
<1>4. 0 \in T
  BY <1>1, <1>3
<1>5. ASSUME NEW k \in 1 .. n, k - 1 \in T PROVE k \in T
  <2>1. /\ k \in Cols /\ k \in 0 .. n /\ k - 1 \in 0 .. n
        /\ \A c : c \in 1 .. k <=> c \in 1 .. k - 1 \/ c = k
        /\ \A c \in 1 .. k - 1 : c \in Cols /\ c # k
    BY <1>1
  <2>2. Good(k - 1)
    BY <1>5
  <2> DEFINE u == claim[k - 1]
             v == claim[k]
  <2>3. u \in Spaces /\ v = Claimed(u, k)
    BY <1>3, <2>1
  <2>4. /\ u \subseteq v /\ (k \in known => v = u)
        /\ k \notin known /\ AllOrNone(u, B(k)) => v = u \cup B(k)
    BY <2>1, <2>3, ClaimedIs
  <2>5. k \notin known => AllOrNone(u, B(k))
    <3>1. SUFFICES ASSUME k \notin known PROVE AllOrNone(u, B(k))
      OBVIOUS
    <3>2. AllOrNone(space, B(k)) /\ \A c \in (1 .. k - 1) \ known : B(c) \cap B(k) = {}
      BY <2>1, <3>1
    <3> HIDE DEF B
    <3> QED BY <2>2, <3>2 DEF AllOrNone
  <2> HIDE DEF B, u, v
  <2>6. Good(k)
    <3>1. space \subseteq u /\ (\A c \in (1 .. k - 1) \ known : B(c) \subseteq u)
          /\ \A b \in u : b \in space \/ \E c \in (1 .. k - 1) \ known : b \in B(c)
      BY <2>2 DEF u
    <3>2. CASE k \in known
      <4>1. v = u /\ \A c : c \in (1 .. k) \ known <=> c \in (1 .. k - 1) \ known
        BY <2>1, <2>4, <3>2
      <4>2. space \subseteq v /\ (\A c \in (1 .. k) \ known : B(c) \subseteq v)
            /\ \A b \in v : b \in space \/ \E c \in (1 .. k) \ known : b \in B(c)
        BY <3>1, <4>1
      <4> QED BY <4>2 DEF v
    <3>3. CASE k \notin known
      <4>1. v = u \cup B(k) /\ \A c : c \in (1 .. k) \ known <=> c \in (1 .. k - 1) \ known \/ c = k
        BY <2>1, <2>4, <2>5, <3>3
      <4>2. space \subseteq v /\ (\A c \in (1 .. k) \ known : B(c) \subseteq v)
            /\ \A b \in v : b \in space \/ \E c \in (1 .. k) \ known : b \in B(c)
        BY <3>1, <4>1
      <4> QED BY <4>2 DEF v
    <3> QED BY <3>2, <3>3
  <2> QED BY <2>1, <2>6
<1>6. n \in T
  <2> HIDE DEF T
  <2>1. \A k \in 0 .. n : k \in T
    BY <1>1, <1>4, <1>5, CountingUp
  <2> QED BY <1>1, <2>1
<1>7. n \in 0 .. n
  BY <1>1
<1> QED BY <1>1, <1>3, <1>6, <1>7

\* The header, the tails at the end of the data, what comes behind them and, in
\* commit-extend mode, all data there is.
ReservedBlocks(end) ==
  Bytes(1, Mark - 1) \cup IF end > 0 THEN Bytes(end - 2 * Mark, 3 * Mark) \cup
                                            (IF mode = 2 THEN Bytes(1, end - 1) ELSE {})
                          ELSE {}

\* What is reserved is added to what is in use.
LEMMA ReservedType ==
  ASSUME NEW u \in Spaces, NEW end \in Nat, end = 0 \/ end > 2 * Mark
  PROVE  Reserved(u, end) \in Spaces /\ u \subseteq Reserved(u, end)
<1> USE DatafileAssumption
<1> DEFINE inside == IF mode = 2 /\ end > 0 THEN Occupied(u, 1, end - 1) ELSE u
           header == Occupied(inside, 1, Mark - 1)
           tails  == Occupied(header, end - 2 * Mark, 2 * Mark)
<1>1. inside \in Spaces /\ u \subseteq inside
  <2>1. CASE end > 0
    <3>1. end - 1 \in Nat
      BY <2>1
    <3> QED BY <3>1, OccupiedIs
  <2> QED BY <2>1
<1> HIDE DEF inside
<1>2. header \in Spaces /\ inside \subseteq header
  BY <1>1, OccupiedIs
<1> HIDE DEF header
<1>3. end > 0 => tails \in Spaces /\ header \subseteq tails
  <2>1. CASE end > 0
    <3>1. end - 2 * Mark \in Nat /\ end - 2 * Mark >= 1 /\ 2 * Mark \in Nat
      BY <2>1
    <3> QED BY <1>2, <3>1, OccupiedIs
  <2> QED BY <2>1
<1> HIDE DEF tails
<1>4. end > 0 => Occupied(tails, end, Mark) \in Spaces /\ tails \subseteq Occupied(tails, end, Mark)
  BY <1>3, OccupiedIs
<1> QED BY <1>1, <1>2, <1>3, <1>4 DEF Reserved, inside, header, tails

\* All of that is reserved, and nothing else, when each of these blocks is in use
\* as a whole or not at all.
LEMMA ReservedIs ==
  ASSUME NEW u \in Spaces, NEW end \in Nat, end = 0 \/ end >= 3 * Mark,
         AllOrNone(u, Bytes(1, Mark - 1)),
         end > 0 => /\ AllOrNone(u, Bytes(end - 2 * Mark, 2 * Mark))
                    /\ AllOrNone(u, Bytes(end, Mark)),
         mode = 2 => u = {}
  PROVE  Reserved(u, end) = u \cup ReservedBlocks(end)
<1> USE DatafileAssumption
<1> DEFINE inside == IF mode = 2 /\ end > 0 THEN Occupied(u, 1, end - 1) ELSE u
           header == Occupied(inside, 1, Mark - 1)
           tails  == Occupied(header, end - 2 * Mark, 2 * Mark)
           all    == Occupied(tails, end, Mark)
           most   == IF mode = 2 /\ end > 0 THEN Bytes(1, end - 1) ELSE {}
           B1     == Bytes(1, Mark - 1)
           B2     == Bytes(end - 2 * Mark, 2 * Mark)
           B3     == Bytes(end, Mark)
<1>1. /\ \A b : b \in B1 <=> b \in Int /\ 1 <= b /\ b < Mark
      /\ \A b : b \in B2 <=> b \in Int /\ end - 2 * Mark <= b /\ b < end
      /\ \A b : b \in B3 <=> b \in Int /\ end <= b /\ b < end + Mark
      /\ \A b : b \in Bytes(1, end - 1) <=> b \in Int /\ 1 <= b /\ b < end
  BY DEF Bytes
<1>2. inside \in Spaces /\ inside = u \cup most
  <2>1. CASE mode = 2 /\ end > 0
    <3>1. end - 1 \in Nat /\ AllOrNone(u, Bytes(1, end - 1))
      BY <2>1 DEF AllOrNone
    <3> QED BY <2>1, <3>1, OccupiedIs
  <2>2. CASE ~(mode = 2 /\ end > 0)
    BY <2>2
  <2> QED BY <2>1, <2>2
<1>3. AllOrNone(inside, B1)
  <2>1. CASE mode = 2 /\ end > 0
    <3>1. B1 \subseteq Bytes(1, end - 1)
      BY <1>1, <2>1
    <3> QED BY <1>2, <2>1, <3>1 DEF AllOrNone
  <2>2. CASE ~(mode = 2 /\ end > 0)
    BY <2>2
  <2> QED BY <2>1, <2>2
<1> HIDE DEF inside, B1, B2, B3
<1>4. header \in Spaces /\ header = inside \cup B1
  <2>1. Mark - 1 \in Nat /\ AllOrNone(inside, Bytes(1, Mark - 1))
    BY <1>3 DEF B1
  <2>2. header = inside \cup Bytes(1, Mark - 1) /\ header \in Spaces
    BY <1>2, <2>1, OccupiedIs
  <2> QED BY <2>2 DEF B1
<1> HIDE DEF header
<1>5. CASE end > 0
  <2>1. end - 2 * Mark \in Nat /\ end - 2 * Mark >= 1 /\ 2 * Mark \in Nat /\ end >= 1
    BY <1>5
  <2>2. AllOrNone(header, B2)
    <3>1. B2 \cap B1 = {}
      BY <1>1, <1>5
    <3>2. B2 \subseteq most \/ most = {}
      BY <1>1, <1>5
    <3>3. AllOrNone(u, B2)
      BY <1>5 DEF B2
    <3> HIDE DEF most
    <3> QED BY <1>2, <1>4, <3>1, <3>2, <3>3 DEF AllOrNone
  <2>3. tails \in Spaces /\ tails = header \cup B2
    BY <1>4, <2>1, <2>2, OccupiedIs DEF B2
  <2> HIDE DEF tails
  <2>4. AllOrNone(tails, B3)
    <3>1. B3 \cap B1 = {} /\ B3 \cap B2 = {} /\ B3 \cap most = {}
      BY <1>1, <1>5
    <3>2. AllOrNone(u, B3)
      BY <1>5 DEF B3
    <3> HIDE DEF most
    <3> QED BY <1>2, <1>4, <2>3, <3>1, <3>2 DEF AllOrNone
  <2>5. all = tails \cup B3
    BY <2>1, <2>3, <2>4, OccupiedIs DEF B3
  <2>6. Reserved(u, end) = all
    BY <1>5 DEF Reserved, inside, header, tails
  <2>7. Bytes(end - 2 * Mark, 3 * Mark) = B2 \cup B3
    <3>1. \A b : b \in Bytes(end - 2 * Mark, 3 * Mark) <=> b \in Int /\ end - 2 * Mark <= b /\ b < end + Mark
      BY DEF Bytes
    <3> QED BY <1>1, <3>1
  <2>8. ReservedBlocks(end) = B1 \cup B2 \cup B3 \cup most
    BY <1>5, <2>7 DEF ReservedBlocks, B1
  <2> QED BY <1>2, <1>4, <2>3, <2>5, <2>6, <2>8
<1>6. CASE ~(end > 0)
  <2>1. Reserved(u, end) = header
    BY <1>6 DEF Reserved, inside, header
  <2>2. ReservedBlocks(end) = B1 /\ most = {}
    BY <1>6 DEF ReservedBlocks, B1
  <2> QED BY <1>2, <1>4, <2>1, <2>2
<1> QED BY <1>5, <1>6

\* One column gets its place.
LEMMA PlacedType ==
  ASSUME NEW s, s.space \in Spaces, s.next \in Spaces, NEW len \in Nat, len > 0, NEW pos \in Nat,
         NEW dirty \in BOOLEAN, ~dirty => pos >= 1
  PROVE  LET q == Placed(s, len, dirty, pos)
         IN  /\ q.space \in Spaces /\ q.next \in Spaces
             /\ q.at \in Nat /\ q.at >= 1
             /\ ~dirty => q.at = pos
<1> DEFINE at    == IF dirty THEN FirstFit(s.space, len) ELSE pos
           taken == IF dirty THEN s.space \cup Bytes(at, len) ELSE s.space
           next  == Occupied(IF mode = 1 THEN s.next ELSE taken, at, len)
<1>1. at \in Nat /\ at >= 1 /\ (~dirty => at = pos)
  BY FirstFitIs
<1>2. Placed(s, len, dirty, pos) = [space |-> IF mode = 1 THEN taken ELSE next, next |-> next, at |-> at]
  BY DEF Placed
<1> HIDE DEF at
<1>3. taken \in Spaces
  <2>1. s.space \cup Bytes(at, len) \in Spaces
    BY <1>1, SpaceGrows
  <2> QED BY <2>1
<1> HIDE DEF taken
<1>4. next \in Spaces
  BY <1>1, <1>3, OccupiedIs
<1> HIDE DEF next
<1> QED BY <1>1, <1>2, <1>3, <1>4

\* A changed column gets a place that is free; the place of any column is in use
\* afterwards, in both versions.
LEMMA PlacedIs ==
  ASSUME NEW s, s.space \in Spaces, s.next \in Spaces, NEW len \in Nat, len > 0, NEW pos \in Nat,
         NEW dirty \in BOOLEAN,
         ~dirty => /\ pos >= 1 /\ Bytes(pos, len) \subseteq s.space
                   /\ AllOrNone(s.next, Bytes(pos, len)),
         s.next \subseteq s.space,
         mode # 1 => s.space = s.next
  PROVE  LET q == Placed(s, len, dirty, pos)
         IN  /\ q.space = s.space \cup Bytes(q.at, len)
             /\ q.next = s.next \cup Bytes(q.at, len)
             /\ dirty => Bytes(q.at, len) \cap s.space = {}
<1> DEFINE at    == IF dirty THEN FirstFit(s.space, len) ELSE pos
           taken == IF dirty THEN s.space \cup Bytes(at, len) ELSE s.space
           from  == IF mode = 1 THEN s.next ELSE taken
           next  == Occupied(from, at, len)
<1>1. at \in Nat /\ at >= 1 /\ (dirty => Bytes(at, len) \cap s.space = {})
      /\ (~dirty => Bytes(at, len) \subseteq s.space /\ AllOrNone(s.next, Bytes(at, len)))
  BY FirstFitIs
<1>2. Placed(s, len, dirty, pos) = [space |-> IF mode = 1 THEN taken ELSE next, next |-> next, at |-> at]
  BY DEF Placed
<1> HIDE DEF at
<1>3. taken \in Spaces /\ taken = s.space \cup Bytes(at, len)
  <2>1. s.space \cup Bytes(at, len) \in Spaces
    BY <1>1, SpaceGrows
  <2> QED BY <1>1, <2>1
<1> HIDE DEF taken
<1>4. from \in Spaces /\ AllOrNone(from, Bytes(at, len))
  <2>1. dirty => s.next \cap Bytes(at, len) = {}
    BY <1>1
  <2> QED BY <1>1, <1>3, <2>1 DEF AllOrNone
<1> HIDE DEF from
<1>5. next = from \cup Bytes(at, len)
  BY <1>1, <1>4, OccupiedIs
<1>6. next = s.next \cup Bytes(at, len) /\ (mode # 1 => next = taken)
  BY <1>3, <1>5 DEF from
<1> HIDE DEF next
<1>7. (IF mode = 1 THEN taken ELSE next) = s.space \cup Bytes(at, len)
  BY <1>3, <1>6
<1> QED BY <1>1, <1>2, <1>6, <1>7

\* The first pass over the columns: the state after each of them.
PassStates == [space : Spaces, next : Spaces, walk : Maps]
PassStep(p, k) ==
  LET q == Placed(p, col[k].len, col[k].dirty, col[k].pos)
  IN  IF col[k].len = 0 THEN p
      ELSE [space |-> q.space, next |-> q.next,
            walk  |-> [p.walk EXCEPT ![k] = Location(col[k].len, q.at)]]

PassesBetween(pass, sp, nx) ==
  /\ pass \in [0 .. NCols -> PassStates]
  /\ pass[0] = [space |-> sp, next |-> nx, walk |-> EmptyWalk]
  /\ \A k \in 1 .. NCols : pass[k] = PassStep(pass[k - 1], k)
  /\ FirstPass(sp, nx) = pass[NCols]

\* A walk with another location for one column.
LEMMA WalkChanges ==
  ASSUME NEW w \in Maps, NEW k \in Cols, NEW len \in Nat, NEW at \in Nat, len = 0 <=> at = 0
  PROVE  LET v == [w EXCEPT ![k] = Location(len, at)]
         IN  v \in Maps /\ v[k] = Location(len, at) /\ \A c \in Cols \ {k} : v[c] = w[c]
<1> DEFINE v == [w EXCEPT ![k] = Location(len, at)]
<1>1. w \in Walks /\ \A c \in Cols : w[c].len = 0 <=> w[c].pos = 0
  BY DEF Maps
<1>2. Location(len, at) \in [len : Nat, pos : Nat] /\ Location(len, at).len = len /\ Location(len, at).pos = at
  BY DEF Location
<1>3. v \in Walks /\ v[k] = Location(len, at) /\ \A c \in Cols \ {k} : v[c] = w[c]
  BY <1>1, <1>2 DEF Walks
<1> HIDE DEF v
<1>4. \A c \in Cols : v[c].len = 0 <=> v[c].pos = 0
  BY <1>1, <1>2, <1>3
<1> QED BY <1>3, <1>4 DEF v, Maps

\* One column of the first pass.
LEMMA PassStepIs ==
  ASSUME ColumnsTyped, NEW p \in PassStates, NEW k \in Cols
  PROVE  PassStep(p, k) \in PassStates
<1> DEFINE q == Placed(p, col[k].len, col[k].dirty, col[k].pos)
           v == [p.walk EXCEPT ![k] = Location(col[k].len, q.at)]
<1>1. /\ p.space \in Spaces /\ p.next \in Spaces /\ p.walk \in Maps
      /\ col[k].len \in Nat /\ col[k].pos \in Nat /\ col[k].dirty \in BOOLEAN
      /\ ~col[k].dirty => (col[k].len = 0 <=> col[k].pos = 0)
  BY DEF PassStates, ColumnsTyped
<1>2. CASE col[k].len = 0
  BY <1>2 DEF PassStep
<1>3. CASE col[k].len # 0
  <2>1. col[k].len > 0 /\ (~col[k].dirty => col[k].pos >= 1)
    BY <1>1, <1>3
  <2>2. q.space \in Spaces /\ q.next \in Spaces /\ q.at \in Nat /\ q.at >= 1
    BY <1>1, <2>1, PlacedType
  <2>3. PassStep(p, k) = [space |-> q.space, next |-> q.next, walk |-> v]
    BY <1>3 DEF PassStep
  <2> HIDE DEF q
  <2>4. v \in Maps
    BY <1>1, <1>3, <2>2, WalkChanges
  <2> HIDE DEF v
  <2> QED BY <2>2, <2>3, <2>4 DEF PassStates
<1> QED BY <1>2, <1>3

\* The states of FirstPass exist, one column after the other.
LEMMA PassesExist ==
  ASSUME ColumnsTyped, NEW sp \in Spaces, NEW nx \in Spaces
  PROVE  \E pass : PassesBetween(pass, sp, nx)
<1> DEFINE n == NCols
           S == PassStates
           a == [space |-> sp, next |-> nx, walk |-> EmptyWalk]
           G == [k \in 1 .. n |-> [p \in S |-> PassStep(p, k)]]
           Is(g) == g = [k \in 0 .. NCols |->
                           IF k = 0 THEN [space |-> sp, next |-> nx, walk |-> EmptyWalk]
                           ELSE LET p == g[k - 1]
                                    q == Placed(p, col[k].len, col[k].dirty, col[k].pos)
                                IN  IF col[k].len = 0 THEN p
                                    ELSE [space |-> q.space, next |-> q.next,
                                          walk  |-> [p.walk EXCEPT ![k] = Location(col[k].len, q.at)]]]
<1>1. n \in Nat /\ Cols = 1 .. n
  BY DatafileAssumption DEF Cols
<1>2. a \in S
  BY EmptyWalkIs DEF PassStates
<1>3. Stepwise(n, S, a, G)
  <2>1. \A k \in 1 .. n, p \in S : PassStep(p, k) \in S
    BY <1>1, PassStepIs
  <2> HIDE DEF S, a
  <2> QED BY <1>1, <1>2, <2>1 DEF Stepwise
<1>4. PICK g \in [0 .. n -> S] : g[0] = a /\ \A k \in 1 .. n : g[k] = G[k][g[k - 1]]
  <2> HIDE DEF n, S, G, a
  <2> QED BY <1>3, StepwiseFunction
<1>5. ASSUME NEW k \in 1 .. n PROVE g[k] = PassStep(g[k - 1], k)
  <2>1. k - 1 \in 0 .. n /\ g[k - 1] \in S
    BY <1>1, <1>4
  <2>2. G[k][g[k - 1]] = PassStep(g[k - 1], k)
    BY <2>1
  <2> QED BY <1>4, <2>2
<1> DEFINE Has(h) == h = [k \in 0 .. n |-> IF k = 0 THEN a ELSE PassStep(h[k - 1], k)]
<1>6. Has(g)
  <2> HIDE DEF G, a
  <2> QED BY <1>1, <1>4, <1>5
<1>7. \A h : Is(h) <=> Has(h)
  BY DEF PassStep
<1> DEFINE h == CHOOSE h : Is(h)
<1>8. Is(h)
  <2> HIDE DEF Is, Has
  <2> QED BY <1>6, <1>7
<1>9. FirstPass(sp, nx) = h[NCols]
  BY DEF FirstPass
<1>10. Has(h)
  <2> HIDE DEF Is, Has, h
  <2> QED BY <1>7, <1>8
<1> HIDE DEF h, a
<1>11. h[0] = a /\ (\A k \in 1 .. n : h[k] = PassStep(h[k - 1], k))
       /\ DOMAIN h = 0 .. n /\ h = [k \in 0 .. n |-> h[k]]
  BY <1>1, <1>10
<1>12. \A k \in 0 .. n : h[k] \in PassStates
  <2> DEFINE T == {k \in 0 .. n : h[k] \in PassStates}
  <2>1. 0 \in T
    BY <1>1, <1>2, <1>11
  <2>2. ASSUME NEW k \in 1 .. n, k - 1 \in T PROVE k \in T
    <3>1. h[k - 1] \in PassStates /\ k \in 0 .. n /\ k \in Cols
      BY <1>1, <2>2
    <3>2. PassStep(h[k - 1], k) \in PassStates
      BY <3>1, PassStepIs
    <3> QED BY <1>11, <3>1, <3>2
  <2>3. \A k \in 0 .. n : k \in T
    <3> HIDE DEF T, n
    <3> QED BY <1>1, <2>1, <2>2, CountingUp
  <2> QED BY <2>3
<1>13. h \in [0 .. n -> PassStates]
  BY <1>11, <1>12
<1> QED BY <1>9, <1>11, <1>13 DEF PassesBetween, a

\* The types of what the first pass gives.
LEMMA FirstPassType ==
  ASSUME ColumnsTyped, NEW sp \in Spaces, NEW nx \in Spaces
  PROVE  FirstPass(sp, nx) \in PassStates
<1>1. PICK pass : PassesBetween(pass, sp, nx)
  BY PassesExist
<1>2. NCols \in 0 .. NCols
  BY DatafileAssumption
<1> QED BY <1>1, <1>2 DEF PassesBetween

\* The bytes of a column.
BytesOf(loc) == Bytes(loc.pos, loc.len)

\* Where the pass starts from: the columns that stay where they are are in use, and
\* apart from each other.
PassStart(sp, nx) ==
  /\ nx \subseteq sp /\ (mode # 1 => sp = nx)
  /\ \A c \in Cols : ~col[c].dirty =>
       BytesOf(col[c]) \subseteq sp /\ AllOrNone(nx, BytesOf(col[c]))
  /\ \A c \in Cols, d \in Cols : c # d /\ ~col[c].dirty /\ ~col[d].dirty =>
       BytesOf(col[c]) \cap BytesOf(col[d]) = {}

\* What it has done, for the columns in K.
PassDone(p, sp, nx, K) ==
  /\ p.next \subseteq p.space /\ (mode # 1 => p.space = p.next)
  /\ sp \subseteq p.space /\ nx \subseteq p.next
  /\ \A b \in p.next : b \in nx \/ \E c \in K : b \in BytesOf(p.walk[c])
  /\ \A c \in K : /\ p.walk[c].len = col[c].len
                  /\ BytesOf(p.walk[c]) \subseteq p.next
                  /\ ~col[c].dirty => p.walk[c] = Location(col[c].len, col[c].pos)
                  /\ col[c].dirty => BytesOf(p.walk[c]) \cap sp = {}
  /\ \A c \in Cols \ K : p.walk[c] = Location(0, 0)
  /\ \A c \in K, d \in K : c # d => BytesOf(p.walk[c]) \cap BytesOf(p.walk[d]) = {}

\* One column more is decided: it gets a place apart from all that are decided.
LEMMA PassStepDone ==
  ASSUME ColumnsTyped, NEW sp, NEW nx, PassStart(sp, nx),
         NEW K \in SUBSET Cols, NEW p \in PassStates, PassDone(p, sp, nx, K), NEW k \in Cols \ K
  PROVE  PassDone(PassStep(p, k), sp, nx, K \cup {k})
<1> DEFINE B(c) == BytesOf(p.walk[c])
           q == Placed(p, col[k].len, col[k].dirty, col[k].pos)
           r == PassStep(p, k)
<1>0. ASSUME NEW c \in K, ~col[c].dirty PROVE B(c) = BytesOf(col[c])
  <2>1. p.walk[c] = Location(col[c].len, col[c].pos)
    BY <1>0 DEF PassDone
  <2>2. BytesOf(Location(col[c].len, col[c].pos)) = BytesOf(col[c])
    BY DEF BytesOf, Location
  <2> QED BY <2>1, <2>2
<1>1. /\ p.space \in Spaces /\ p.next \in Spaces /\ p.walk \in Maps
      /\ col[k].len \in Nat /\ col[k].pos \in Nat /\ col[k].dirty \in BOOLEAN
      /\ ~col[k].dirty => (col[k].len = 0 <=> col[k].pos = 0)
  BY DEF PassStates, ColumnsTyped
<1>2. CASE col[k].len = 0
  <2>1. r = p
    BY <1>2 DEF PassStep
  <2>2. p.walk[k] = Location(0, 0)
    BY DEF PassDone
  <2>3. BytesOf(p.walk[k]) = {} /\ p.walk[k].len = col[k].len
    BY <1>2, <2>2 DEF BytesOf, Bytes, Location
  <2>4. ~col[k].dirty => p.walk[k] = Location(col[k].len, col[k].pos)
    BY <1>1, <1>2, <2>2
  <2> HIDE DEF r
  <2>5. \A c \in Cols : c \in K \cup {k} <=> c \in K \/ c = k
    OBVIOUS
  <2>6. col[k].dirty => BytesOf(p.walk[k]) \cap sp = {}
    BY <2>3
  <2>7. p.next \subseteq p.space /\ (mode # 1 => p.space = p.next)
        /\ sp \subseteq p.space /\ nx \subseteq p.next
    BY DEF PassDone
  <2>8. \A b \in p.next : b \in nx \/ \E c \in K \cup {k} : b \in BytesOf(p.walk[c])
    BY DEF PassDone
  <2>9. ASSUME NEW c \in K \cup {k}
        PROVE  /\ p.walk[c].len = col[c].len
               /\ BytesOf(p.walk[c]) \subseteq p.next
               /\ ~col[c].dirty => p.walk[c] = Location(col[c].len, col[c].pos)
               /\ col[c].dirty => BytesOf(p.walk[c]) \cap sp = {}
    BY <2>3, <2>4, <2>6 DEF PassDone
  <2>10. \A c \in Cols \ (K \cup {k}) : p.walk[c] = Location(0, 0)
    BY DEF PassDone
  <2>11. ASSUME NEW c \in K \cup {k}, NEW d \in K \cup {k}, c # d
         PROVE  BytesOf(p.walk[c]) \cap BytesOf(p.walk[d]) = {}
    BY <2>3, <2>11 DEF PassDone
  <2>12. PassDone(p, sp, nx, K \cup {k})
    BY <2>7, <2>8, <2>9, <2>10, <2>11 DEF PassDone
  <2> QED BY <2>1, <2>12 DEF r
<1>3. CASE col[k].len # 0
  <2>1. col[k].len > 0 /\ (~col[k].dirty => col[k].pos >= 1)
    BY <1>1, <1>3
  <2>2. q.at \in Nat /\ q.at >= 1 /\ (~col[k].dirty => q.at = col[k].pos)
    BY <1>1, <2>1, PlacedType
  <2> DEFINE x == Bytes(q.at, col[k].len)
  <2>3. ~col[k].dirty => Bytes(col[k].pos, col[k].len) \subseteq p.space
                         /\ AllOrNone(p.next, Bytes(col[k].pos, col[k].len))
    <3>1. SUFFICES ASSUME ~col[k].dirty
                   PROVE BytesOf(col[k]) \subseteq p.space /\ AllOrNone(p.next, BytesOf(col[k]))
      BY DEF BytesOf
    <3>2. BytesOf(col[k]) \subseteq sp /\ AllOrNone(nx, BytesOf(col[k]))
      BY <3>1 DEF PassStart
    <3>3. ASSUME NEW c \in K PROVE B(c) \cap BytesOf(col[k]) = {}
      <4>1. CASE col[c].dirty
        BY <3>2, <4>1 DEF PassDone
      <4>2. CASE ~col[c].dirty
        <5>1. B(c) = BytesOf(col[c])
          BY <1>0, <4>2
        <5>2. c \in Cols /\ c # k
          OBVIOUS
        <5> QED BY <3>1, <4>2, <5>1, <5>2 DEF PassStart
      <4> QED BY <4>1, <4>2
    <3>4. \A b \in p.next : b \in nx \/ \E c \in K : b \in B(c)
      BY DEF PassDone
    <3>5. nx \subseteq p.next /\ sp \subseteq p.space
      BY DEF PassDone
    <3> QED BY <3>2, <3>3, <3>4, <3>5 DEF AllOrNone
  <2>4. /\ q.space = p.space \cup x /\ q.next = p.next \cup x
        /\ col[k].dirty => x \cap p.space = {}
    <3>1. p.next \subseteq p.space /\ (mode # 1 => p.space = p.next)
      BY DEF PassDone
    <3> QED BY <1>1, <2>1, <2>3, <3>1, PlacedIs
  <2>5. r = [space |-> q.space, next |-> q.next,
             walk |-> [p.walk EXCEPT ![k] = Location(col[k].len, q.at)]]
    BY <1>3 DEF PassStep
  <2> HIDE DEF q, r
  <2>6. /\ r.walk[k] = Location(col[k].len, q.at)
        /\ \A c \in Cols \ {k} : r.walk[c] = p.walk[c]
        /\ r.space = q.space /\ r.next = q.next
    <3>1. r.walk = [p.walk EXCEPT ![k] = Location(col[k].len, q.at)]
      BY <2>5
    <3> QED BY <1>1, <1>3, <2>2, <2>5, <3>1, WalkChanges
  <2>7. BytesOf(r.walk[k]) = x /\ r.walk[k].len = col[k].len
    BY <2>6 DEF BytesOf, Location
  <2>8. /\ ~col[k].dirty => r.walk[k] = Location(col[k].len, col[k].pos)
        /\ ~col[k].dirty => x = BytesOf(col[k])
    BY <2>2, <2>6 DEF BytesOf
  <2> HIDE DEF x
  <2>9. ASSUME NEW c \in K PROVE B(c) \cap x = {}
    <3>1. CASE col[k].dirty
      <4>1. B(c) \subseteq p.next /\ p.next \subseteq p.space
        BY DEF PassDone
      <4> QED BY <2>4, <3>1, <4>1
    <3>2. CASE ~col[k].dirty /\ col[c].dirty
      <4>1. B(c) \cap sp = {}
        BY <3>2 DEF PassDone
      <4>2. x \subseteq sp
        BY <2>8, <3>2 DEF PassStart
      <4> QED BY <4>1, <4>2
    <3>3. CASE ~col[k].dirty /\ ~col[c].dirty
      <4>1. B(c) = BytesOf(col[c])
        BY <1>0, <3>3
      <4>2. c \in Cols /\ c # k
        OBVIOUS
      <4> QED BY <2>8, <3>3, <4>1, <4>2 DEF PassStart
    <3> QED BY <3>1, <3>2, <3>3
  <2>10. \A c \in K : c # k /\ c \in Cols /\ r.walk[c] = p.walk[c]
    BY <2>6
  <2>11. r.next \subseteq r.space /\ (mode # 1 => r.space = r.next)
         /\ sp \subseteq r.space /\ nx \subseteq r.next
    BY <2>4, <2>6 DEF PassDone
  <2>12. \A b \in r.next : b \in nx \/ \E c \in K \cup {k} : b \in BytesOf(r.walk[c])
    <3>1. \A b \in p.next : b \in nx \/ \E c \in K : b \in BytesOf(p.walk[c])
      BY DEF PassDone
    <3> QED BY <2>4, <2>6, <2>7, <2>10, <3>1
  <2>13. ASSUME NEW c \in K \cup {k}
         PROVE  /\ r.walk[c].len = col[c].len
                /\ BytesOf(r.walk[c]) \subseteq r.next
                /\ ~col[c].dirty => r.walk[c] = Location(col[c].len, col[c].pos)
                /\ col[c].dirty => BytesOf(r.walk[c]) \cap sp = {}
    <3>1. CASE c = k
      <4>1. sp \subseteq p.space
        BY DEF PassDone
      <4> QED BY <2>4, <2>6, <2>7, <2>8, <3>1, <4>1
    <3>2. CASE c \in K
      BY <2>4, <2>6, <2>10, <3>2 DEF PassDone
    <3> QED BY <3>1, <3>2
  <2>14. \A c \in Cols \ (K \cup {k}) : r.walk[c] = Location(0, 0)
    BY <2>6 DEF PassDone
  <2>15. ASSUME NEW c \in K \cup {k}, NEW d \in K \cup {k}, c # d
         PROVE  BytesOf(r.walk[c]) \cap BytesOf(r.walk[d]) = {}
    <3>1. c \in K /\ d \in K => BytesOf(p.walk[c]) \cap BytesOf(p.walk[d]) = {}
      BY <2>15 DEF PassDone
    <3> QED BY <2>7, <2>9, <2>10, <2>15, <3>1
  <2>16. PassDone(r, sp, nx, K \cup {k})
    BY <2>11, <2>12, <2>13, <2>14, <2>15 DEF PassDone
  <2> QED BY <2>16 DEF r
<1> QED BY <1>2, <1>3

\* The first pass: every column has its place afterwards, a changed one in what was
\* free, and the next version uses these places and nothing more.
LEMMA FirstPassIs ==
  ASSUME ColumnsTyped, NEW sp \in Spaces, NEW nx \in Spaces, PassStart(sp, nx)
  PROVE  PassDone(FirstPass(sp, nx), sp, nx, Cols)
<1> DEFINE n == NCols
<1>1. n \in Nat /\ Cols = 1 .. n
  BY DatafileAssumption DEF Cols
<1>2. PICK pass : PassesBetween(pass, sp, nx)
  BY PassesExist
<1>3. /\ \A k \in 0 .. n : pass[k] \in PassStates
      /\ pass[0] = [space |-> sp, next |-> nx, walk |-> EmptyWalk]
      /\ \A k \in 1 .. n : pass[k] = PassStep(pass[k - 1], k)
      /\ FirstPass(sp, nx) = pass[n]
  BY <1>2 DEF PassesBetween
<1> DEFINE T == {k \in 0 .. n : PassDone(pass[k], sp, nx, 1 .. k)}
<1>4. 0 \in T
  <2>1. PassDone([space |-> sp, next |-> nx, walk |-> EmptyWalk], sp, nx, {})
    BY DEF PassDone, PassStart, EmptyWalk
  <2>2. 1 .. 0 = {} /\ 0 \in 0 .. n
    BY <1>1
  <2> QED BY <1>3, <2>1, <2>2
<1>5. ASSUME NEW k \in 1 .. n, k - 1 \in T PROVE k \in T
  <2>1. /\ k \in 0 .. n /\ k - 1 \in 0 .. n /\ 1 .. k - 1 \in SUBSET Cols
        /\ k \in Cols \ (1 .. k - 1) /\ 1 .. k = (1 .. k - 1) \cup {k}
    BY <1>1
  <2>2. PassDone(pass[k - 1], sp, nx, 1 .. k - 1) /\ pass[k - 1] \in PassStates
    BY <1>3, <1>5, <2>1
  <2>3. PassDone(PassStep(pass[k - 1], k), sp, nx, (1 .. k - 1) \cup {k})
    BY <2>1, <2>2, PassStepDone
  <2> QED BY <1>3, <2>1, <2>3
<1>6. n \in T
  <2> HIDE DEF T
  <2>1. \A k \in 0 .. n : k \in T
    BY <1>1, <1>4, <1>5, CountingUp
  <2> QED BY <1>1, <2>1
<1> QED BY <1>1, <1>3, <1>6

\* The walk gives every column the length that it has in memory.
LEMMA FirstPassLens ==
  ASSUME ColumnsTyped, NEW sp \in Spaces, NEW nx \in Spaces
  PROVE  \A c \in Cols : FirstPass(sp, nx).walk[c].len = col[c].len
<1> DEFINE n == NCols
<1>1. n \in Nat /\ Cols = 1 .. n
  BY DatafileAssumption DEF Cols
<1>2. PICK pass : PassesBetween(pass, sp, nx)
  BY PassesExist
<1>3. /\ \A k \in 0 .. n : pass[k] \in PassStates
      /\ pass[0] = [space |-> sp, next |-> nx, walk |-> EmptyWalk]
      /\ \A k \in 1 .. n : pass[k] = PassStep(pass[k - 1], k)
      /\ FirstPass(sp, nx) = pass[n]
  BY <1>2 DEF PassesBetween
<1> DEFINE T == {k \in 0 .. n : /\ \A c \in 1 .. k : pass[k].walk[c].len = col[c].len
                                /\ \A c \in k + 1 .. n : pass[k].walk[c].len = 0}
<1>4. 0 \in T
  BY <1>1, <1>3, EmptyWalkIs
<1>5. ASSUME NEW k \in 1 .. n, k - 1 \in T PROVE k \in T
  <2> DEFINE p == pass[k - 1]
             q == Placed(p, col[k].len, col[k].dirty, col[k].pos)
             r == pass[k]
  <2>1. k \in Cols /\ k \in 0 .. n /\ k - 1 \in 0 .. n /\ p \in PassStates /\ r = PassStep(p, k)
    BY <1>1, <1>3
  <2>2. /\ \A c \in 1 .. k - 1 : p.walk[c].len = col[c].len
        /\ \A c \in k .. n : p.walk[c].len = 0
    BY <1>1, <1>5
  <2>3. r.walk[k].len = col[k].len /\ \A c \in Cols \ {k} : r.walk[c] = p.walk[c]
    <3>1. CASE col[k].len = 0
      <4>1. r = p /\ k \in k .. n
        BY <1>1, <2>1, <3>1 DEF PassStep
      <4> QED BY <2>2, <3>1, <4>1
    <3>2. CASE col[k].len # 0
      <4>1. p.walk \in Walks
        BY <2>1 DEF PassStates, Maps
      <4>2. r = [space |-> q.space, next |-> q.next,
                 walk |-> [p.walk EXCEPT ![k] = Location(col[k].len, q.at)]]
        BY <2>1, <3>2 DEF PassStep
      <4> HIDE DEF p, q, r
      <4>3. r.walk = [p.walk EXCEPT ![k] = Location(col[k].len, q.at)]
        BY <4>2
      <4>4. r.walk[k] = Location(col[k].len, q.at) /\ \A c \in Cols \ {k} : r.walk[c] = p.walk[c]
        BY <2>1, <4>1, <4>3 DEF Walks
      <4> QED BY <4>4 DEF Location
    <3> QED BY <3>1, <3>2
  <2> HIDE DEF p, q, r
  <2>4. \A c \in 1 .. k : r.walk[c].len = col[c].len
    <3>1. \A c \in 1 .. k : c = k \/ (c \in 1 .. k - 1 /\ c \in Cols \ {k})
      BY <1>1
    <3> QED BY <2>2, <2>3, <3>1
  <2>5. \A c \in k + 1 .. n : r.walk[c].len = 0
    <3>1. \A c \in k + 1 .. n : c \in k .. n /\ c \in Cols \ {k}
      BY <1>1
    <3> QED BY <2>2, <2>3, <3>1
  <2> QED BY <2>1, <2>4, <2>5 DEF r
<1>6. n \in T
  <2> HIDE DEF T
  <2>1. \A k \in 0 .. n : k \in T
    BY <1>1, <1>4, <1>5, CountingUp
  <2> QED BY <1>1, <2>1
<1> QED BY <1>1, <1>3, <1>6
=============================================================================
