------------------------------- MODULE Column -------------------------------
(***************************************************************************)
(* c4_Column (column.cpp): the bytes of a column in segments of kSegMax     *)
(* bytes, with one gap of "slack" bytes somewhere in them, so that inserting *)
(* and removing near the gap moves little.  A segment of a file that is     *)
(* memory mapped is a pointer into the map until something is written to it. *)
(*                                                                         *)
(* Offsets count from 0 as in the code; segs[i + 1] is _segments.GetAt(i).   *)
(* A column is a record [size, gap, slack, segs, dirty, mapped]; segs is     *)
(* empty as long as the column is only known by its place in the file, and   *)
(* mapped says that the file is memory mapped.                              *)
(*                                                                         *)
(* This module has the operations; GapBuffer.tla is a column on its own,    *)
(* IntColumn.tla one that holds integers.  Underscore names are faulty      *)
(* variants.                                                               *)
(***************************************************************************)
EXTENDS Integers, SequencesExt

CONSTANTS SegMax,     \* kSegMax (4096)
          MinSlack,   \* slack that FinishSlack wants to be left (500)
          Zero,       \* a byte that is 0
          Unset       \* a byte of a new buffer

Index(off) == off \div SegMax        \* fSegIndex
Offset(i)  == i * SegMax             \* fSegOffset
Rest(off)  == off % SegMax           \* fSegRest

Least(S) == CHOOSE x \in S : \A y \in S : x <= y

Zeros(n) == [j \in 1 .. n |-> Zero]
Fresh(n) == [j \in 1 .. n |-> Unset]

\* A segment is a buffer (at = 0) or lies in the map, from byte "at" on.
Buffer(data) == [at |-> 0, data |-> data]
NoSegment    == Buffer(<< >>)                   \* the null pointer
UsesMap(seg) == seg.at > 0

----------------------------------------------------------------------------
\* Reaching the bytes.

\* SetupSegments: one segment for every kSegMax bytes and the rest, or a null
\* pointer in place of an empty rest.
Length(size, i) == IF Offset(i + 1) <= size THEN SegMax ELSE size - Offset(i)

SetupSegments(c) ==
  [c EXCEPT !.segs =
     [k \in 1 .. Index(c.size) + 1 |->
        IF Length(c.size, k - 1) = 0 THEN NoSegment
        ELSE [at   |-> IF c.mapped THEN 2 + Offset(k - 1) ELSE 0,
              data |-> Zeros(Length(c.size, k - 1))]]]

Loaded(c) == IF c.segs = << >> THEN SetupSegments(c) ELSE c

\* Where LoadNow finds the byte at an offset: behind the gap, or before it.
Place(c, off) == IF off >= c.gap THEN off + c.slack ELSE off

SegmentOf(c, off) == c.segs[Index(Place(c, off)) + 1]
ByteAt(c, off)    == SegmentOf(c, off).data[Rest(Place(c, off)) + 1]

\* A segment that lies in the map is replaced by a buffer before it is written.
Owned(c, i) ==
  IF UsesMap(c.segs[i + 1])
  THEN [c EXCEPT !.segs[i + 1] =
          Buffer(SubSeq(@.data, 1, Length(c.size + c.slack, i)))]
  ELSE c

Overwritten(data, at, new) ==
  [j \in DOMAIN data |-> IF j > at /\ j <= at + Len(new) THEN new[j - at] ELSE data[j]]

\* CopyData: source and destination each lie in one segment; memmove.
CopyData_NoCopy(c, to, from, count) ==
  [c EXCEPT !.segs[Index(to) + 1].data =
     Overwritten(@, Rest(to), SubSeq(c.segs[Index(from) + 1].data,
                                     Rest(from) + 1, Rest(from) + count))]

CopyData(c, to, from, count) ==
  [Owned(c, Index(to)) EXCEPT !.segs[Index(to) + 1].data =
     Overwritten(@, Rest(to), SubSeq(c.segs[Index(from) + 1].data,
                                     Rest(from) + 1, Rest(from) + count))]

----------------------------------------------------------------------------
\* Moving the gap.

\* Where bytes are cut, so that a piece and its copy lie in one segment each.
Cut(c, p) == Rest(p) = 0 \/ Rest(p + c.slack) = 0

\* Bytes behind the gap are copied to its start, the first ones first.
MoveGapUp(c, dest) ==
  FoldLeft(LAMBDA b, p : [CopyData(b, b.gap, b.gap + b.slack, p - b.gap) EXCEPT !.gap = p], c,
           SelectSeq([k \in 1 .. dest - c.gap |-> c.gap + k], LAMBDA p : p = dest \/ Cut(c, p)))

\* Bytes before the gap are copied to its end, the last ones first.
MoveGapDown_FirstFirst(c, dest) ==
  LET starts == SelectSeq([k \in 1 .. c.gap - dest |-> dest + k - 1],
                          LAMBDA p : p = dest \/ Cut(c, p))
      end(p) == Least({q \in Range(starts) \cup {c.gap} : q > p})
  IN  [FoldLeft(LAMBDA b, p : CopyData(b, p + b.slack, p, end(p) - p), c, starts)
         EXCEPT !.gap = dest]

MoveGapDown(c, dest) ==
  FoldLeft(LAMBDA b, p : [CopyData(b, p + b.slack, p, b.gap - p) EXCEPT !.gap = p], c,
           SelectSeq([k \in 1 .. c.gap - dest |-> c.gap - k], LAMBDA p : p = dest \/ Cut(c, p)))

\* The gap, at the end of the data, is given back.
EndGapCut(c) ==
  LET i == Index(c.gap)
      n == Rest(c.gap)
  IN  IF n = 0 THEN [c EXCEPT !.segs[i + 1] = NoSegment, !.slack = 0]
      ELSE [c EXCEPT !.segs  = Append(SubSeq(@, 1, i), Buffer(SubSeq(@[i + 1].data, 1, n))),
                     !.slack = 0]

RemoveGap(c) ==
  CASE c.slack = 0                    -> c
    [] c.slack > 0 /\ c.gap < c.size -> EndGapCut(MoveGapUp(c, c.size))
    [] OTHER                          -> EndGapCut(c)

MoveGapTo(c, pos) ==
  CASE c.slack = 0 -> [c EXCEPT !.gap = pos]
    [] c.slack > 0 /\ c.gap = pos -> c
    [] c.slack > 0 /\ c.gap < pos -> MoveGapUp(c, pos)
    [] OTHER -> IF c.gap - pos > c.size - c.gap + Rest(pos)
                THEN [RemoveGap(c) EXCEPT !.gap = pos]
                ELSE MoveGapDown(c, pos)

\* A short end segment behind the gap moves to the end of the gap.
FinishSlack_NotMoved(c) ==
  LET gapEnd == c.gap + c.slack
  IN  IF Rest(gapEnd) = 0 /\ gapEnd >= c.size + MinSlack
      THEN [c EXCEPT !.segs[Index(gapEnd) + 1] = NoSegment, !.slack = @ - (c.size - c.gap)]
      ELSE c

FinishSlack(c) ==
  LET gapEnd == c.gap + c.slack
      n      == c.size - c.gap
  IN  IF Rest(gapEnd) = 0 /\ gapEnd >= c.size + MinSlack
      THEN [CopyData(c, gapEnd - n, gapEnd, n) EXCEPT
              !.segs[Index(gapEnd) + 1] = NoSegment, !.slack = @ - n]
      ELSE c

----------------------------------------------------------------------------
\* Inserting and removing.

\* Whole segments are added where the gap is, when it is too small.
WithRoom(c, diff) ==
  LET n        == Index(diff - c.slack + SegMax - 1)
      i        == Index(c.gap)
      crosses  == Index(c.gap + c.slack) > i
      moveBack == ~crosses /\ Rest(c.gap) # 0
      at       == IF crosses THEN i + 1 ELSE i
      new      == [k \in 1 .. n |-> Buffer(Fresh(SegMax))]
      b        == [c EXCEPT !.segs = SubSeq(@, 1, at) \o new \o SubSeq(@, at + 1, Len(@))]
  IN  IF c.slack >= diff THEN c
      ELSE [(IF moveBack THEN CopyData(b, Offset(i), Offset(i + n), Rest(c.gap)) ELSE b)
              EXCEPT !.slack = @ + Offset(n)]

\* The first diff bytes of the gap become data.
Taken(c, diff) ==
  [c EXCEPT !.gap = @ + diff, !.slack = @ - diff, !.size = @ + diff, !.dirty = TRUE]

Grow(c, off, diff) ==
  FinishSlack(Taken(WithRoom(MoveGapTo(Loaded(c), off), diff), diff))

\* Shrink, first part: the bytes removed join the gap, whole segments go.
GapNear(c, off, diff) ==
  CASE c.slack > 0 /\ c.gap < off        -> MoveGapTo(c, off)
    [] c.slack > 0 /\ off + diff < c.gap -> MoveGapTo(c, off + diff)
    [] OTHER                             -> c

Joined(c, off, diff) ==
  LET i1 == Index(off) + (IF Rest(off) # 0 THEN 1 ELSE 0)
      i2 == Index(off + c.slack + diff)
      n  == IF i2 > i1 THEN i2 - i1 ELSE 0
  IN  [c EXCEPT !.size = @ - diff, !.gap = off, !.slack = @ + diff - Offset(n),
                !.segs = SubSeq(@, 1, i1) \o SubSeq(@, i1 + n + 1, Len(@)), !.dirty = TRUE]

\* A gap at the end ends where its segment does.
EndDropped_SlackKept(c) ==
  LET end == c.size + c.slack
  IN  IF c.gap = c.size /\ Index(end) # Index(c.gap)
      THEN [c EXCEPT !.segs[Index(end) + 1] = NoSegment]
      ELSE c

EndDropped(c) ==
  LET end == c.size + c.slack
  IN  IF c.gap = c.size /\ Index(end) # Index(c.gap)
      THEN [c EXCEPT !.segs[Index(end) + 1] = NoSegment, !.slack = @ - Rest(end)]
      ELSE c

\* A gap of a segment or more: the bytes behind it, up to the end of their
\* segment, move to its start, and the segment goes.
Narrowed(c) ==
  LET x == Rest(c.gap + c.slack)
      r == IF c.gap + SegMax - x > c.size THEN c.size - c.gap ELSE SegMax - x
      b == CopyData(c, c.gap, c.gap + c.slack, r)
      i == Index(c.gap + SegMax - 1)
  IN  IF c.slack < SegMax THEN c
      ELSE [b EXCEPT !.segs  = IF r + x < SegMax THEN [@ EXCEPT ![i + 1] = NoSegment]
                               ELSE RemoveAt(@, i + 1),
                     !.slack = @ - (r + x),
                     !.gap   = @ + r]

\* An empty column keeps no segment of the map.
EmptyOwned(c) == IF c.size = 0 /\ c.slack > 0 THEN Owned(c, 0) ELSE c

Shrink(c, off, diff) ==
  FinishSlack(EmptyOwned(Narrowed(EndDropped(Joined(GapNear(Loaded(c), off, diff), off, diff)))))

----------------------------------------------------------------------------
\* Reading and writing, piece by piece (c4_ColIter).

\* Two bytes that follow each other in memory.
Adjacent(c, p) ==
  LET s == SegmentOf(c, p - 1)
      t == SegmentOf(c, p)
  IN  \/ Place(c, p) = Place(c, p - 1) + 1 /\ Index(Place(c, p)) = Index(Place(c, p - 1))
      \/ /\ UsesMap(s) /\ UsesMap(t)
         /\ t.at + Rest(Place(c, p)) = s.at + Rest(Place(c, p - 1)) + 1

\* Next() goes on as long as the bytes follow each other, also in the next
\* segment; Next(max) stops at the gap and at the end of the segment.
LongPiece(c, pos, limit) ==
  Least({e \in pos + 1 .. limit : e = limit \/ ~Adjacent(c, e)})
ShortPiece_PastGap(c, pos, limit) ==
  Least({e \in pos + 1 .. limit : e = limit \/ Rest(Place(c, e)) = 0})
ShortPiece(c, pos, limit) ==
  Least({e \in pos + 1 .. limit : e = limit \/ e = c.gap \/ Rest(Place(c, e)) = 0})

\* BufSave (CopyNow) gives a pointer into the segment of the first byte; what is
\* written past the end of that buffer is not in the column.
WritePiece(c, pos, new) ==
  LET i == Index(Place(c, pos))
  IN  [Owned(c, i) EXCEPT !.segs[i + 1].data = Overwritten(@, Rest(Place(c, pos)), new),
                          !.dirty = TRUE]

\* The loop over the pieces, long or short.
Write(c, off, new, long) ==
  LET limit == off + Len(new)
      loop[k \in 0 .. Len(new)] ==
        IF k = 0 THEN [c |-> c, pos |-> off]
        ELSE LET d == loop[k - 1]
                 e == IF long THEN LongPiece(d.c, d.pos, limit)
                      ELSE ShortPiece(d.c, d.pos, limit)
             IN  IF d.pos = limit THEN d
                 ELSE [c   |-> WritePiece(d.c, d.pos, SubSeq(new, d.pos - off + 1, e - off)),
                       pos |-> e]
  IN  loop[Len(new)].c

StoreBytes(c, off, new) == Write(Loaded(c), off, new, FALSE)

\* InsertData with clear_ set.
InsertCleared_OneChunk(c, off, count) == WritePiece(Grow(c, off, count), off, Zeros(count))

InsertCleared(c, off, count) == Write(Grow(c, off, count), off, Zeros(count), TRUE)

Raw(mapped) == [size |-> 0, gap |-> 0, slack |-> 0, segs |-> << >>, dirty |-> FALSE,
                mapped |-> mapped]

\* SaveNow and SetLocation, as a commit calls them: the bytes are in the file, the
\* segments are let go and read or mapped again when they are needed.
SavedColumn(c) == [Raw(c.mapped) EXCEPT !.size = c.size]

----------------------------------------------------------------------------
\* Bytes are copied and never looked at.  Behaviours therefore only carry the
\* layout of a column, and what an operation does to its bytes is stated on a
\* copy in which each byte has a name of its own.

Filled(c, ByteOf(_), GapByteOf(_)) ==
  LET byte(q) == CASE q < c.gap                           -> ByteOf(q)
                   [] q >= c.gap /\ q < c.gap + c.slack   -> GapByteOf(q)
                   [] OTHER                               -> ByteOf(q - c.slack)
  IN  [c EXCEPT !.segs =
         [k \in DOMAIN c.segs |->
            [c.segs[k] EXCEPT !.data = [j \in DOMAIN @ |-> byte(Offset(k - 1) + j - 1)]]]]

Layout(c) == Filled(c, LAMBDA p : Zero, LAMBDA q : Zero)

Contents(c) == [p \in 1 .. c.size |-> ByteAt(c, p - 1)]

\* c4_Column::Validate, and that each segment has the bytes the offsets say, so
\* that no copy reads or writes past a buffer.
ValidColumn(c) ==
  /\ 0 <= c.slack /\ c.slack < SegMax
  /\ 0 <= c.gap /\ c.gap <= c.size
  /\ c.segs # << >> =>
       /\ Len(c.segs) = Index(c.size + c.slack) + 1
       /\ \A k \in DOMAIN c.segs :
            Len(c.segs[k].data) = Length(c.size + c.slack, k - 1)
=============================================================================
