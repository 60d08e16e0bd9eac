------------------------------ MODULE GapBuffer -----------------------------
(***************************************************************************)
(* A column of bytes (c4_Column, see Column.tla) in every order of calls:   *)
(* inserting, removing, storing, saving and loading again.                  *)
(***************************************************************************)
EXTENDS Column

CONSTANTS Maps,       \* bound: whether the file is memory mapped
          MaxSize,    \* bound: bytes in the column
          MaxDiff     \* bound: bytes inserted, removed or stored at once

VARIABLE col

----------------------------------------------------------------------------
Init == \E mapped \in Maps : col = Raw(mapped)

\* The data a caller stores right after Grow (c4_FormatB::SetOne and others).
InsertData(off, n) ==
  /\ off <= col.size /\ col.size + n <= MaxSize          \* bound: MaxSize
  /\ col' = Layout(StoreBytes(Grow(col, off, n), off, Zeros(n)))

\* Bound: over adjacent mapped segments the code writes past a buffer (column.cpp:804),
\* so insertions that clear are called without a map.
InsertDataClear(off, n) ==
  /\ ~col.mapped                                         \* bound
  /\ off <= col.size /\ col.size + n <= MaxSize          \* bound: MaxSize
  /\ col' = Layout(InsertCleared(col, off, n))

RemoveData(off, n) ==
  /\ off + n <= col.size
  /\ col' = Layout(Shrink(col, off, n))

Store(off, n) ==
  /\ off + n <= col.size
  /\ col' = Layout(StoreBytes(col, off, Zeros(n)))

\* CommitColumn leaves an empty column alone.
Commit ==
  /\ col.segs # << >> /\ col.size > 0
  /\ col' = SavedColumn(col)

\* The first access after that (LoadNow).
Load ==
  /\ col.segs = << >>
  /\ col' = SetupSegments(col)

Next ==
  \/ \E n \in 1 .. MaxDiff : \E off \in 0 .. MaxSize :
        \/ InsertData(off, n) \/ InsertDataClear(off, n)
        \/ RemoveData(off, n) \/ Store(off, n)
  \/ Commit \/ Load

Spec == Init /\ [][Next]_col

----------------------------------------------------------------------------
\* The column with a name for each byte of memory: its position, counted from
\* 1, for a byte of the column, a negative number for one in the gap.
Sample == Filled(Loaded(col), LAMBDA p : p + 1, LAMBDA q : -(q + 2))

Names(lo, hi) == [j \in 1 .. hi - lo |-> lo + j]
New(n) == [j \in 1 .. n |-> 100 + j]

\* The calls that the column can get.
Inserts == {<<off, n>> \in (0 .. col.size) \X (1 .. MaxDiff) : col.size + n <= MaxSize}
Within  == {<<off, n>> \in (0 .. col.size) \X (1 .. MaxDiff) : off + n <= col.size}

\* Type invariant and c4_Column::Validate: the gap is in the column and shorter
\* than a segment, there are exactly the segments it takes to hold bytes and
\* gap, and each has the length that the offsets say.
Validate ==
  /\ col.size \in 0 .. MaxSize /\ col.dirty \in BOOLEAN
  /\ ValidColumn(col)

\* Grow makes room and what is stored there is there, or it is clear ("clear the
\* contents, in separate chunks if necessary"); Shrink takes out and StoreBytes
\* replaces the bytes they are told to.  None of them changes, loses or reorders
\* any other byte, wherever the gap was, over segment ends and whichever segments
\* are mapped.  Nor is the file changed through its map: a segment that still is
\* a pointer into the map has the bytes it had (c4_Column::CopyNow).
BecomesBytes(c, bytes) ==
  /\ Contents(c) = bytes
  /\ \A k \in DOMAIN c.segs : UsesMap(c.segs[k]) => c.segs[k] \in Range(Sample.segs)

KeepsBytes ==
  /\ \A a \in Inserts :
        LET with(bytes) == Names(0, a[1]) \o bytes \o Names(a[1], col.size)
        IN  /\ BecomesBytes(StoreBytes(Grow(Sample, a[1], a[2]), a[1], New(a[2])), with(New(a[2])))
            /\ col.mapped \/ BecomesBytes(InsertCleared(Sample, a[1], a[2]), with(Zeros(a[2])))
  /\ \A a \in Within :
        LET with(bytes) == Names(0, a[1]) \o bytes \o Names(a[1] + a[2], col.size)
        IN  /\ BecomesBytes(Shrink(Sample, a[1], a[2]), with(<< >>))
            /\ BecomesBytes(StoreBytes(Sample, a[1], New(a[2])), with(New(a[2])))
=============================================================================
