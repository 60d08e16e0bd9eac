----------------------------- MODULE Allocator ------------------------------
(***************************************************************************)
(* c4_Allocator (persist.cpp): the space of a datafile as one sorted vector *)
(* of walls.  Entries come in pairs, each pair is a free range: its first   *)
(* byte and the first byte after it; between two pairs everything is in     *)
(* use.  The pair <0,0> in front only serves to have no special case at     *)
(* the start, the last pair runs to MaxInt: the file can always grow.       *)
(*                                                                         *)
(* The vector is 0-based in the code: w[i + 1] here is GetAt(i) there, and  *)
(* the indices i below are the code's.                                     *)
(*                                                                         *)
(* A definition with an underscore in its name (InsertPair_Unchecked) is a  *)
(* faulty variant of the one named before the underscore; no specification *)
(* uses it, it serves to show that a property can fail.                    *)
(***************************************************************************)
EXTENDS Integers, Sequences, FiniteSets, SpaceOps

CONSTANTS MaxInt,     \* kMaxInt, the end of the last free range
          MaxPos,     \* bound: no block reaches past this byte
          Lens,       \* bound: the block lengths used
          FragLimit,  \* entries above which InsertPair calls ReduceFrags (7500)
          FragGoal,   \* entries ReduceFrags is content with (5000)
          HiShift, LoShift  \* the thresholds it tries, limit >> shift (12, 6)

ASSUME AllocatorAssumption ==
  /\ MaxInt \in Nat /\ MaxPos \in Nat /\ MaxPos + 1 < MaxInt
  /\ Lens \subseteq Nat \ {0}
  /\ FragLimit \in Nat /\ FragGoal \in Nat
  /\ HiShift \in Nat /\ LoShift \in Nat

VARIABLE walls

----------------------------------------------------------------------------
\* The vector as a data structure (c4_DWordArray).

GetAt(w, i) == w[i + 1]
SetAt(w, i, v) == [w EXCEPT ![i + 1] = v]

\* RemoveAt(i, 2): two entries less.
RemovePair(w, i) ==
  [k \in 1 .. Len(w) - 2 |-> IF k <= i THEN w[k] ELSE w[k + 2]]

\* InsertAt(i, from, 2) and SetAt(i + 1, to).
PairInserted(w, i, from, to) ==
  [k \in 1 .. Len(w) + 2 |->
     CASE k <= i    -> w[k]
       [] k = i + 1 -> from
       [] k = i + 2 -> to
       [] OTHER     -> w[k - 2]]

\* AllocationLimit: where the last free range starts.
AllocationLimit(w) == GetAt(w, Len(w) - 2)

\* The indices of the free ranges between the first and the last pair.
InnerPairs(w) == {i \in 2 .. Len(w) - 3 : i % 2 = 0}

\* Locate as the callers use it: the lowest index whose wall is at or after pos.
Locate(w, pos) ==
  CHOOSE i \in 0 .. Len(w) - 1 :
     /\ pos <= GetAt(w, i)
     /\ \A j \in 0 .. i - 1 : GetAt(w, j) < pos

\* Locate as it is computed: the binary search and its final correction.
BinarySearch_Uncorrected(w, pos) ==
  LET found[b \in (0 .. Len(w)) \X (-1 .. Len(w))] ==
        LET lo == b[1]
            hi == b[2]
            i  == (lo + hi) \div 2
        IN  IF lo >= hi THEN lo
            ELSE IF pos < GetAt(w, i) THEN found[<<lo, i - 1>>]
            ELSE IF pos > GetAt(w, i) THEN found[<<i + 1, hi>>]
            ELSE i
  IN  found[<<0, Len(w) - 1>>]

BinarySearch(w, pos) ==
  LET found[b \in (0 .. Len(w)) \X (-1 .. Len(w))] ==
        LET lo == b[1]
            hi == b[2]
            i  == (lo + hi) \div 2
        IN  IF lo >= hi THEN IF lo < Len(w) /\ pos > GetAt(w, lo) THEN lo + 1 ELSE lo
            ELSE IF pos < GetAt(w, i) THEN found[<<lo, i - 1>>]
            ELSE IF pos > GetAt(w, i) THEN found[<<i + 1, hi>>]
            ELSE i
  IN  found[<<0, Len(w) - 1>>]

----------------------------------------------------------------------------
\* ReduceFrags: free ranges at or below a threshold are dropped from the vector,
\* with a growing threshold until few enough are left; the space is lost.

Threshold(w, shift) == AllocationLimit(w) \div 2 ^ shift

LargerThan(w, t) == {i \in InnerPairs(w) : GetAt(w, i + 1) - GetAt(w, i) > t}

\* The passes go from HiShift down, one whose threshold is 0 is skipped; the
\* last one that runs decides, since the thresholds only grow.
Kept(w) ==
  LET enough == {s \in LoShift .. HiShift :
                   /\ Threshold(w, s) > 0
                   /\ 2 + 2 * Cardinality(LargerThan(w, Threshold(w, s))) < FragGoal}
  IN  IF enough # {}
      THEN LargerThan(w, Threshold(w, CHOOSE s \in enough : \A t \in enough : t <= s))
      ELSE LargerThan(w, Threshold(w, LoShift))

\* The ways to list a set of indices in increasing order: there is one.
Increasing(S) ==
  {f \in [1 .. Cardinality(S) -> S] :
     \A a, b \in 1 .. Cardinality(S) : a < b => f[a] < f[b]}

\* The vector with only the pairs listed in f between the first and the last.
Compacted(w, f, n) ==
  [k \in 1 .. 2 * n + 4 |->
     CASE k <= 2         -> w[k]
       [] k > 2 * n + 2  -> w[Len(w) - (2 * n + 4) + k]
       [] OTHER          -> w[f[(k - 1) \div 2] + 1 + ((k + 1) % 2)]]

ReduceFrags(w) ==
  {Compacted(w, f, Cardinality(Kept(w))) : f \in Increasing(Kept(w))}

\* InsertPair: a pair that would reach the next wall is ignored ("ignore 2nd
\* allocation of used area").  Each operator below gives the set of vectors the
\* call can leave; the set has one element.
InsertPair_Unchecked(w, i, from, to) ==
  LET v == PairInserted(w, i, from, to)
  IN  IF Len(v) > FragLimit THEN ReduceFrags(v) ELSE {v}

InsertPair(w, i, from, to) ==
  LET v == PairInserted(w, i, from, to)
  IN  CASE to >= GetAt(w, i)                      -> {w}
        [] to < GetAt(w, i) /\ Len(v) > FragLimit  -> ReduceFrags(v)
        [] OTHER                                  -> {v}

----------------------------------------------------------------------------
\* The operations.

\* Where the loop of Allocate stops: the first range that is long enough.
FitIndex_Strict(w, len) ==
  CHOOSE i \in {j \in 2 .. Len(w) - 2 : j % 2 = 0} :
     /\ GetAt(w, i + 1) > GetAt(w, i) + len
     /\ \A j \in 2 .. i - 1 :
           j % 2 = 0 => GetAt(w, j + 1) <= GetAt(w, j) + len

FitIndex(w, len) ==
  CHOOSE i \in {j \in 2 .. Len(w) - 2 : j % 2 = 0} :
     /\ GetAt(w, i + 1) >= GetAt(w, i) + len
     /\ \A j \in 2 .. i - 1 :
           j % 2 = 0 => GetAt(w, j + 1) < GetAt(w, j) + len

\* A block taken from the front of the free range at index i: its start moves
\* up, or the range is gone.
FrontTaken(w, i, to) ==
  IF GetAt(w, i + 1) > to THEN SetAt(w, i, to) ELSE RemovePair(w, i)

\* Allocate(len): the block is GetAt(w, FitIndex(w, len)) and what follows.
Allocated(w, len) ==
  LET i == FitIndex(w, len) IN FrontTaken(w, i, GetAt(w, i) + len)

\* Occupy(pos, len), as the set of vectors it can leave.
OccupiedWalls(w, pos, len) ==
  LET i == Locate(w, pos)
  IN  CASE i % 2 = 1 /\ GetAt(w, i) = pos + len -> {SetAt(w, i, pos)}
        [] i % 2 = 1 /\ GetAt(w, i) # pos + len -> InsertPair(w, i, pos, pos + len)
        [] i % 2 = 0 /\ GetAt(w, i) = pos       -> {FrontTaken(w, i, pos + len)}
        [] OTHER                               -> {w}

\* The byte p lies in a free range.
FreeAt(w, p) == \E i \in 0 .. Len(w) - 2 :
                   i % 2 = 0 /\ GetAt(w, i) <= p /\ p < GetAt(w, i + 1)

\* Callers give back bytes that are in use ("don't release inside a free block").
Releasable(w, pos, len) ==
  /\ \A p \in Bytes(pos, len) : ~FreeAt(w, p)
  /\ pos + len <= AllocationLimit(w)

\* Release(pos, len).  The first test of the code, GetAt(i) == pos, cannot
\* succeed since GetAt(i) >= pos + len; what can be merged in the end is the
\* range before the block with the one after it.
ReleasedWalls(w, pos, len) ==
  LET i      == Locate(w, pos + len)
      prevUp == SetAt(w, i - 1, pos + len)
  IN  CASE GetAt(w, i - 1) = pos /\ GetAt(w, i) = pos + len -> {RemovePair(prevUp, i - 1)}
        [] GetAt(w, i - 1) = pos /\ GetAt(w, i) # pos + len -> {prevUp}
        [] OTHER -> InsertPair(w, i, pos, pos + len)

----------------------------------------------------------------------------
\* Initialize()
Init == walls = <<0, 0, 1, MaxInt>>

Allocate(len) ==
  /\ AllocationLimit(walls) + len <= MaxPos + 1    \* bound
  /\ walls' = Allocated(walls, len)

Occupy(pos, len) ==
  /\ pos + len <= MaxPos + 1                       \* bound
  /\ walls' \in OccupiedWalls(walls, pos, len)

Release(pos, len) ==
  /\ Releasable(walls, pos, len)
  /\ walls' \in ReleasedWalls(walls, pos, len)

Next == \E len \in Lens :
           \/ Allocate(len)
           \/ \E pos \in 1 .. MaxPos : Occupy(pos, len) \/ Release(pos, len)

Spec == Init /\ [][Next]_walls

----------------------------------------------------------------------------
Used == {p \in 1 .. AllocationLimit(walls) - 1 : ~FreeAt(walls, p)}

\* Type invariant: the vector holds pairs, and its walls are strictly
\* increasing from the second entry of the fake pair <0,0> to MaxInt, so that
\* the binary search of Locate is allowed (the comment block above
\* c4_Allocator::c4_Allocator).
Sorted(w) ==
  /\ w \in Seq(0 .. MaxInt) /\ Len(w) >= 4 /\ Len(w) % 2 = 0
  /\ w[1] = 0 /\ w[2] = 0 /\ w[Len(w)] = MaxInt
  /\ \A i, j \in 2 .. Len(w) : i < j => w[i] < w[j]

WallsSorted == Sorted(walls)

\* The binary search of Locate, with its overshooting bounds, finds the lowest
\* wall at or after any position it is asked for, on every vector that the
\* operations can produce.
SearchFindsWall ==
  \A pos \in 1 .. MaxPos + 1 : BinarySearch(walls, pos) = Locate(walls, pos)

\* The vector implements the set of bytes in use, operation by operation (and so
\* implies Space!Spec, in which an Occupy could pass for a wrong Allocate):
\* Allocate hands out the lowest block that is free, Occupy and Release change
\* exactly the bytes SpaceOps says, and ReduceFrags never frees a byte that is
\* in use.
Space == INSTANCE ByteSpace WITH
           used <- Used, MaxGaps <- (FragLimit - 4) \div 2
ImplementsByteSpace ==
  /\ Space!Init
  /\ [][\A len \in Lens :
           /\ Allocate(len) => Space!Allocate(len)
           /\ \A pos \in 1 .. MaxPos :
                 /\ Occupy(pos, len) => Space!Occupy(pos, len)
                 /\ Release(pos, len) => Space!Release(pos, len)]_walls
=============================================================================
