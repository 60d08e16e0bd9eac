------------------------------ MODULE IntColumn -----------------------------
(***************************************************************************)
(* c4_ColOfInts (column.cpp) on top of c4_Column: a vector of integers that *)
(* all take the same number of bits, 0 to 32, as many as the largest one    *)
(* needs.  The vector only ever gets wider.  The width is not in the file:  *)
(* it follows from the number of rows and of bytes, and short columns of    *)
(* small items are saved with an impossible number of bytes to tell it.     *)
(*                                                                         *)
(* A byte is a sequence of 8 bits, lowest first, an integer one of 32.  As   *)
(* in GapBuffer.tla behaviours carry no data; what the operations do to the *)
(* integers is stated on a column whose bits have names.  Rows count from 0.*)
(* The file is not memory mapped.  Underscore names are faulty variants.    *)
(***************************************************************************)
EXTENDS Integers, Sequences

CONSTANTS SegMax, MinSlack,           \* as in Column.tla
          Needs,      \* bound: the widths that the integers used need
          FakeSizes,  \* bound: columns that get an impossible size are saved
          MaxRows,    \* bound: integers in the column
          MaxCount    \* bound: integers inserted or removed at once

Byte(b)   == [k \in 1 .. 8 |-> b]
ZeroByte  == Byte(0)
UnsetByte == Byte(-1)

INSTANCE Column WITH Zero <- ZeroByte, Unset <- UnsetByte

Widths == {0, 1, 2, 4, 8, 16, 32}

VARIABLE ints     \* [col, rows, width]: the column, _numRows and _currWidth

BytesFor(rows, width) == (rows * width + 7) \div 8

----------------------------------------------------------------------------
\* Getters and setters.

\* Small items are unsigned, the others have a sign.
Extended(bits, w) ==
  [k \in 1 .. 32 |-> CASE k <= w            -> bits[k]
                       [] k > w /\ w >= 8   -> bits[w]
                       [] OTHER             -> 0]

\* Bit q, counted from 0, of a sequence of bytes.
BitOf(bytes, q) == bytes[(q \div 8) + 1][(q % 8) + 1]

\* Get_1b to Get_4b look into a byte, Get_8i to Get_32i read on from the address
\* of the first byte of the item.
GetInt(c, w, j) ==
  LET first == (j * w) \div 8
      seg   == SegmentOf(Loaded(c), first)
      at    == Rest(Place(c, first))
      byte[b \in 1 .. 4] == IF at + b \in DOMAIN seg.data THEN seg.data[at + b]
                            ELSE UnsetByte
  IN  Extended([k \in 1 .. w |-> BitOf(byte, ((j * w) % 8) + k - 1)], w)

\* Set_1b to Set_32i: they store as much of the integer as an item can take.
SetInt(c, w, j, int) ==
  LET first == (j * w) \div 8
      low   == (j * w) % 8
      d     == Loaded(c)
  IN  CASE w = 0            -> c
        [] w \in {1, 2, 4}  -> WritePiece(d, first,
             <<[k \in 1 .. 8 |-> IF k > low /\ k <= low + w THEN int[k - low]
                                 ELSE ByteAt(d, first)[k]]>>)
        [] OTHER            -> WritePiece(d, first,
             [b \in 1 .. w \div 8 |-> [k \in 1 .. 8 |-> int[8 * (b - 1) + k]]])

InsertBytes(c, off, count, clear) ==
  CASE count = 0          -> c
    [] count > 0 /\ clear -> InsertCleared(c, off, count)
    [] OTHER              -> Grow(c, off, count)

RemoveBytes(c, off, count) == IF count > 0 THEN Shrink(c, off, count) ELSE c

\* Set: when the integer needs n bits and items have fewer, the column grows at
\* its end, in one piece if items get longer than a byte, and the items move to
\* their new places, the last one first.
WithSpace_KeepGap(c, n, more, clear) == IF more <= 0 THEN c ELSE InsertBytes(c, c.size, more, clear)

WithSpace(c, n, more, clear) ==
  CASE more <= 0           -> c
    [] more > 0 /\ n > 8  -> RemoveGap(InsertBytes(c, c.size, more, clear))
    [] OTHER               -> InsertBytes(c, c.size, more, clear)

Spread_Upward(c, rows, from, to) ==
  LET moved[k \in 0 .. rows] ==      \* the first k items
        IF k = 0 \/ from = 0 THEN c
        ELSE SetInt(moved[k - 1], to, k - 1, GetInt(moved[k - 1], from, k - 1))
  IN  moved[rows]

Spread(c, rows, from, to) ==
  LET moved[k \in 0 .. rows] ==      \* the last k items
        IF k = 0 \/ from = 0 THEN c
        ELSE SetInt(moved[k - 1], to, rows - k, GetInt(moved[k - 1], from, rows - k))
  IN  moved[rows]

Widened(s, n) ==
  [s EXCEPT !.col   = Spread(WithSpace(@, n, BytesFor(s.rows, n) - @.size, s.width = 0),
                             s.rows, s.width, n),
            !.width = n]

Stored(s, j, int) == [s EXCEPT !.col = SetInt(@, s.width, j, int)]

Set(s, j, int, n) ==
  IF n <= s.width THEN Stored(s, j, int)
  ELSE Stored(Widened(Stored(s, j, int), n), j, int)

----------------------------------------------------------------------------
\* The number of bytes and the number of rows tell the width.

Small(w) == w \in {1, 2, 4}

\* fakeSizes
FakeSize_Natural(rows, w) == BytesFor(rows, w)

FakeSize(rows, w) ==
  CASE w = 4 -> <<6, 1, 2, 2>>[rows]
    [] w = 2 -> <<5, 5, 1, 1>>[rows]
    [] w = 1 -> <<3, 3, 4, 5>>[rows]

FixedSize(s, fudge) ==
  IF fudge /\ s.rows \in 1 .. 4 /\ Small(s.width)
  THEN FakeSize(s.rows, s.width) ELSE BytesFor(s.rows, s.width)

FixSize(s, fudge) ==
  LET need == FixedSize(s, fudge)
      size == s.col.size
  IN  [s EXCEPT !.col =
         IF need < size THEN RemoveBytes(@, need, size - need)
         ELSE InsertBytes(@, size, need - size, TRUE)]

\* realWidth
RealWidth ==
  <<<<8, 16, 1, 32, 2, 4>>, <<4, 8, 1, 16, 2, 0>>, <<2, 4, 8, 1, 0, 16>>,
    <<2, 4, 0, 8, 1, 0>>, <<1, 2, 4, 0, 8, 0>>, <<1, 2, 4, 0, 0, 8>>,
    <<1, 2, 0, 4, 0, 0>>>>

CalcAccessWidth(rows, size) ==
  LET w == IF rows <= 7 /\ size \in 1 .. 6 THEN RealWidth[rows][size]
           ELSE (size * 8) \div rows
  IN  IF w \in Widths THEN w ELSE -1

----------------------------------------------------------------------------
\* Inserting and removing (ResizeData).

\* The items from j on come from count places further on.
CopiedDown_OneLess(s, j, count) ==
  LET n == IF s.rows > j + 1 /\ count > 0 THEN s.rows - j - 1 ELSE 0
      copied[k \in 0 .. n] ==
        IF k = 0 THEN s.col
        ELSE SetInt(copied[k - 1], s.width, j + k - 1,
                    GetInt(copied[k - 1], s.width, j + k - 1 + count))
  IN  [s EXCEPT !.col = copied[n]]

CopiedDown(s, j, count) ==
  LET n == IF s.rows > j /\ count > 0 THEN s.rows - j ELSE 0
      copied[k \in 0 .. n] ==
        IF k = 0 THEN s.col
        ELSE SetInt(copied[k - 1], s.width, j + k - 1,
                    GetInt(copied[k - 1], s.width, j + k - 1 + count))
  IN  [s EXCEPT !.col = copied[n]]

\* Items smaller than a byte: whole bytes are inserted, the bits before the new
\* items move back in front of them, and what is too much is removed.
LowBits(byte, n)  == [k \in 1 .. 8 |-> IF k <= n THEN byte[k] ELSE 0]
HighBits(byte, n) == [k \in 1 .. 8 |-> IF k <= n THEN 0 ELSE byte[k]]

SplitByte_Stays(c, off, bytes, bits) == c

SplitByte(c, off, bytes, bits) ==
  LET old == ByteAt(c, off + bytes)
  IN  IF bits = 0 THEN c
      ELSE WritePiece(WritePiece(c, off + bytes, <<HighBits(old, bits)>>),
                      off, <<LowBits(old, bits)>>)

InsertedSmall(s, j, count, clear) ==
  LET per   == 8 \div s.width
      bytes == (count + per - 1) \div per
  IN  FixSize(CopiedDown([s EXCEPT !.col  = SplitByte(InsertBytes(@, j \div per, bytes, clear),
                                                      j \div per, bytes, (j % per) * s.width),
                                   !.rows = @ + count],
                         j + count, bytes * per - count), FALSE)

InsertedRows(s, j, count, clear) ==
  IF Small(s.width) THEN InsertedSmall(s, j, count, clear)
  ELSE [s EXCEPT !.rows = @ + count,
                 !.col  = InsertBytes(@, j * (s.width \div 8), count * (s.width \div 8), clear)]

Removed(s, j, count) ==
  IF Small(s.width) THEN FixSize(CopiedDown([s EXCEPT !.rows = @ - count], j, count), FALSE)
  ELSE [s EXCEPT !.rows = @ - count,
                 !.col  = RemoveBytes(@, j * (s.width \div 8), count * (s.width \div 8))]

SetAll(s, j, int, n, count) ==
  LET set[k \in 0 .. count] == IF k = 0 THEN s ELSE Set(set[k - 1], j + k - 1, int, n)
  IN  set[count]

\* An integer 0 needs no Set, the inserted bytes are cleared for it.
Inserted(s, j, int, n, count) ==
  SetAll(InsertedRows(s, j, count, n = 0), j, int, n, IF n = 0 THEN 0 ELSE count)

----------------------------------------------------------------------------
\* The operations.  An integer is known by the bits it needs.

Int0 == [k \in 1 .. 32 |-> 0]
IntOf(n) == Extended([k \in 1 .. n |-> 1000 + k], n)
Blank(s) == [s EXCEPT !.col = Layout(@)]

Init == ints = [col |-> Raw(FALSE), rows |-> 0, width |-> 0]

InsertRows(j, n, count) ==
  /\ j <= ints.rows
  /\ ints.rows + count <= MaxRows                        \* bound: MaxRows
  /\ ints' = Blank(Inserted(ints, j, Int0, n, count))

RemoveRows(j, count) ==
  /\ j + count <= ints.rows
  /\ ints' = Blank(Removed(ints, j, count))

SetRow(j, n) ==
  /\ j < ints.rows
  /\ ints' = Blank(Set(ints, j, Int0, n))

Saved(s) == IF s.col.size > 0 THEN [s EXCEPT !.col = SavedColumn(@)] ELSE s

\* c4_FormatX::Commit, called for a view with rows: the size is fixed, the data
\* saved, and the column stays as it is in the file.
Commit ==
  /\ ints.rows > 0
  /\ FakeSizes \/ FixedSize(ints, TRUE) = BytesFor(ints.rows, ints.width)   \* bound
  /\ ints' = Saved(FixSize(ints, TRUE))

\* A new session (Define): the rows and the place of the data come from the file,
\* SetRowCount finds the width.
Reopen ==
  /\ ints.col.segs = << >>
  /\ ints' = [ints EXCEPT !.width = IF ints.rows > 0
                                    THEN CalcAccessWidth(ints.rows, ints.col.size) ELSE 0]

Next ==
  \/ \E j \in 0 .. MaxRows :
       \/ \E n \in Needs : SetRow(j, n)
       \/ \E count \in 1 .. MaxCount :
            RemoveRows(j, count) \/ \E n \in Needs : InsertRows(j, n, count)
  \/ Commit \/ Reopen

Spec == Init /\ [][Next]_ints

----------------------------------------------------------------------------
\* The column with a name for each bit.
Sample ==
  [ints EXCEPT !.col =
     Filled(Loaded(@), LAMBDA p : [k \in 1 .. 8 |-> 8 * p + k],
                       LAMBDA q : [k \in 1 .. 8 |-> -(8 * q + k + 1)])]

\* The integers, as GetInt finds them in memory and as a commit would save them.
Ints(s)      == [j \in 1 .. s.rows |-> GetInt(s.col, s.width, j - 1)]
SavedInts(s) ==
  LET bytes == Contents(s.col)
  IN  [j \in 1 .. s.rows |->
         Extended([k \in 1 .. s.width |-> BitOf(bytes, (j - 1) * s.width + k - 1)], s.width)]

\* The column is valid, and has the bytes the rows take.
TypeOK ==
  /\ ints.rows \in 0 .. MaxRows /\ ints.width \in Widths
  /\ ValidColumn(ints.col)
  /\ ints.col.size >= BytesFor(ints.rows, ints.width)
  /\ ~FakeSizes => ints.col.size = BytesFor(ints.rows, ints.width)

\* Type invariant, and no integer is split across the gap or the end of a segment ("we end up with
\* a vector that has an int split *across* the gap", c4_ColOfInts::Set): each is
\* read and written in one piece, and what is in memory is what is saved.
ItemsWhole == TypeOK /\ Ints(Sample) = SavedInts(Sample)

\* Setting an integer, also one that widens all items in place, changes that one
\* and no other; inserting, whichever bit the new items start at, puts them where
\* they belong, removing takes out the items it is told to, and both keep all
\* others.
SetsOne(n, j) ==
  LET s == Set(Sample, j - 1, IntOf(n), n)
  IN  Ints(s) = [Ints(Sample) EXCEPT ![j] = IntOf(n)] /\ SavedInts(s) = Ints(s)
InsertsItems(n, count, j) ==
  LET s   == Inserted(Sample, j, IntOf(n), n, count)
      old == Ints(Sample)
  IN  Ints(s) = SubSeq(old, 1, j) \o [k \in 1 .. count |-> IntOf(n)]
                  \o SubSeq(old, j + 1, ints.rows)
RemovesItems(count, j) ==
  Ints(Removed(Sample, j, count)) =
    SubSeq(Ints(Sample), 1, j) \o SubSeq(Ints(Sample), j + count + 1, ints.rows)
KeepsItems ==
  /\ \A n \in Needs, j \in 1 .. ints.rows : SetsOne(n, j)
  /\ \A n \in Needs, count \in 1 .. MaxCount, j \in 0 .. ints.rows :
       ints.rows + count <= MaxRows => InsertsItems(n, count, j)
  /\ \A count \in 1 .. MaxCount : \A j \in 0 .. ints.rows - count : RemovesItems(count, j)

\* A new session that has the number of rows and of bytes finds the width again
\* and so the same integers (c4_ColOfInts::SetRowCount).
WidthFound ==
  ints.rows > 0 =>
    LET s == FixSize(Sample, TRUE)
    IN  /\ CalcAccessWidth(s.rows, s.col.size) = s.width
        /\ SavedInts(s) = Ints(Sample)
=============================================================================
