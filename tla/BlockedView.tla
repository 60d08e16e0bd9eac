----------------------------- MODULE BlockedView ----------------------------
(***************************************************************************)
(* c4_BlockedViewer (remap.cpp): one long view kept as blocks of about      *)
(* kLimit rows.  Between two blocks there is one row, the separator; all    *)
(* separators are together in a last block.  A vector of offsets finds the *)
(* block of a row, and the block found last is remembered.                 *)
(*                                                                         *)
(* Rows count from 0 as in the code, blocks from 1: block k here is _base[k *)
(* - 1] there, offsets[k] is _offsets.GetAt(k - 1), and slot n + 1 is the   *)
(* block of separators.  Underscore names are faulty variants.             *)
(***************************************************************************)
EXTENDS Integers, SequencesExt

CONSTANTS Limit,      \* kLimit (1000)
          Row,        \* what a row can be; rows are copied, never looked at
          Plain,      \* bound: all rows but one are this one
          MaxRows     \* bound: rows in the view

\* A block that is split leaves rows on both sides, and one that is empty is
\* short enough to be merged.
ASSUME BlockedViewAssumption ==
  /\ Limit \in Nat /\ Limit >= 3
  /\ Plain \in Row /\ MaxRows \in Nat

VARIABLES blocks,    \* the rows of each block
          seps,      \* the rows between two blocks
          offsets,   \* the number of the row after each block (_offsets)
          last       \* the block found last: _last_base, _last_limit, _last_slot

vars == <<blocks, seps, offsets, last>>

Repeat(r, count) == [i \in 1 .. count |-> r]
Upto(s, n)  == SubSeq(s, 1, n)           \* the first n
After(s, n) == SubSeq(s, n + 1, Len(s))  \* all but those

\* From offset k on, add d.
Shifted(o, k, d) == [j \in DOMAIN o |-> IF j >= k THEN o[j] + d ELSE o[j]]

NoLast == [base |-> -1, limit |-> -1, slot |-> 0]
\* ClearLast: whatever happens to a block, the ones before it stay remembered.
Cleared_After(l, k) == IF l.slot > k THEN [l EXCEPT !.limit = -1, !.slot = 0] ELSE l
Cleared(l, k) == IF l.slot >= k THEN [l EXCEPT !.limit = -1, !.slot = 0] ELSE l

\* Slot: the first block whose offset is not before the row, by binary search.
Slot(o, row) ==
  LET search[b \in (1 .. Len(o)) \X (1 .. Len(o))] ==
        IF b[1] >= b[2] THEN b[2]
        ELSE LET m == b[1] + (b[2] - b[1]) \div 2
             IN  IF o[m] < row THEN search[<<m + 1, b[2]>>] ELSE search[<<b[1], m>>]
  IN  search[<<1, Len(o)>>]

\* The row's place in its block.
InSlot_SepCounted(o, row) ==
  LET k == Slot(o, row) IN IF k > 1 THEN row - o[k - 1] ELSE row
InSlot(o, row) ==
  LET k == Slot(o, row) IN IF k > 1 THEN row - o[k - 1] - 1 ELSE row

----------------------------------------------------------------------------
\* The steps of the operations, on the state of the view as one record.
View == [blocks |-> blocks, seps |-> seps, offsets |-> offsets, last |-> last]
Becomes(v) == /\ blocks' = v.blocks /\ seps' = v.seps
              /\ offsets' = v.offsets /\ last' = v.last

Touched(v, k) == [v EXCEPT !.last = Cleared(@, k)]

\* Block k is split: the row at "at" becomes a separator.
Split(v, k, at) ==
  LET b == v.blocks[k]
  IN  [blocks  |-> InsertAt([v.blocks EXCEPT ![k] = Upto(b, at)], k + 1, After(b, at + 1)),
       seps    |-> InsertAt(v.seps, k, b[at + 1]),
       offsets |-> InsertAt(v.offsets, k, v.offsets[k] - Len(b) + at),
       last    |-> Cleared(v.last, k)]

\* Block k, the separator after it and the next block become one.
Merge(v, k) ==
  [blocks  |-> RemoveAt([v.blocks EXCEPT ![k] = Append(@, v.seps[k]) \o v.blocks[k + 1]],
                        k + 1),
   seps    |-> RemoveAt(v.seps, k),
   offsets |-> RemoveAt(v.offsets, k),
   last    |-> Cleared(v.last, k)]

\* Rows are added to block k; a long block is split while it is twice too long,
\* and once more if it still is too long, near its end when rows are appended.
Added(v, k, at, new) ==
  [v EXCEPT !.blocks[k] = Upto(@, at) \o new \o After(@, at),
            !.offsets   = Shifted(@, k, Len(new))]

SplitOff(v, k, atEnd) ==
  LET off[j \in 0 .. Len(v.blocks[k])] ==
        IF j = 0 THEN v
        ELSE LET u == off[j - 1]
             IN  IF Len(u.blocks[k]) >= 2 * Limit
                 THEN Split(u, k, Len(u.blocks[k]) - Limit - 2) ELSE u
      w   == off[Len(v.blocks[k])]
      len == Len(w.blocks[k])
  IN  IF len > Limit THEN Split(w, k, IF atEnd THEN Limit - 1 ELSE len \div 2) ELSE w

\* InsertRows as a whole.
Inserted(v, pos, new) ==
  LET k == Slot(v.offsets, pos)
      n == v.offsets[Len(v.offsets)]
  IN  SplitOff(Added(Touched(v, k), k, InSlot(v.offsets, pos), new), k, pos = n)

\* The number of rows (GetSize), and the rows as one sequence.
Size == offsets[Len(offsets)]

FlatOf(v) == LET upto[k \in 1 .. Len(v.blocks)] ==
                   IF k = 1 THEN v.blocks[1]
                   ELSE Append(upto[k - 1], v.seps[k - 1]) \o v.blocks[k]
             IN  upto[Len(v.blocks)]
Flat == FlatOf(View)

----------------------------------------------------------------------------
(* RemoveRows, whose state is the view, the rows still to remove and by how *)
(* many of them the removal goes past block k, its separator counted.       *)

Doing(v, todo, over) == [v |-> v, todo |-> todo, over |-> over]
NextSize(v, k) == v.offsets[k + 1] - v.offsets[k]

\* Blocks that go away completely, with the separator before them.
DropNext_KeepSep(d, k) ==
  LET size == NextSize(d.v, k)
  IN  Doing([d.v EXCEPT !.blocks  = RemoveAt(@, k + 1),
                        !.offsets = RemoveAt(Shifted(@, k + 1, -size), k + 1)],
            d.todo - size, d.over - size)

DropNext(d, k) ==
  LET size == NextSize(d.v, k)
  IN  Doing([d.v EXCEPT !.blocks  = RemoveAt(@, k + 1),
                        !.seps    = RemoveAt(@, k),
                        !.offsets = RemoveAt(Shifted(@, k + 1, -size), k + 1)],
            d.todo - size, d.over - size)

Dropped(d, k) ==
  LET drop[j \in 0 .. Len(d.v.blocks) - k] ==
        IF j = 0 THEN d
        ELSE LET e == drop[j - 1]
             IN  IF k < Len(e.v.blocks) /\ e.over >= NextSize(e.v, k)
                 THEN DropNext(e, k) ELSE e
  IN  IF d.over > 0 THEN drop[Len(d.v.blocks) - k] ELSE d

\* Rows at the front of the next block, to avoid useless copying; when enough
\* are left there its first row becomes the separator.
RotateSep_KeepRow(d, k) ==
  Doing([d.v EXCEPT !.seps[k] = d.v.blocks[k + 1][1]], d.todo - 1, d.over)

RotateSep(d, k) ==
  Doing([d.v EXCEPT !.seps[k]       = d.v.blocks[k + 1][1],
                    !.blocks[k + 1] = Tail(@),
                    !.offsets       = Shifted(@, k + 1, -1)],
        d.todo - 1, d.over)

Trimmed(d, k) ==
  LET n == d.over - 1
      e == Doing([d.v EXCEPT !.blocks[k + 1] = After(@, n),
                             !.offsets       = Shifted(@, k + 1, -n)],
                 d.todo - n, d.over)
  IN  CASE n <= 0                                             -> d
        [] n > 0 /\ Len(e.v.blocks[k + 1]) > Limit \div 2     -> RotateSep(e, k)
        [] OTHER                                              -> e

\* If rows past the block remain to be removed, it is merged with the next.
Joined(d, k, at) ==
  IF at + d.todo > Len(d.v.blocks[k]) THEN [d EXCEPT !.v = Merge(@, k)] ELSE d

\* What is left to remove is now in block k.
Removed(d, k, at) ==
  [d.v EXCEPT !.blocks[k] = Upto(@, at) \o After(@, at + d.todo),
              !.offsets   = Shifted(@, k, -d.todo)]

\* A block that became too short is merged with the one before it, or the next.
Rebalanced_NoSplit(v, k) ==
  LET underflow == Len(v.blocks[k]) < Limit \div 2
      b == IF underflow /\ k > 1 THEN k - 1 ELSE k
  IN  IF underflow /\ b < Len(v.blocks) THEN Merge(v, b) ELSE v

Rebalanced(v, k) ==
  LET underflow == Len(v.blocks[k]) < Limit \div 2
      b == IF underflow /\ k > 1 THEN k - 1 ELSE k
      w == IF underflow /\ b < Len(v.blocks) THEN Merge(v, b) ELSE v
  IN  IF Len(w.blocks[b]) > Limit THEN Split(w, b, Len(w.blocks[b]) \div 2) ELSE w

\* RemoveRows as a whole.
Without(v, pos, count) ==
  LET k  == Slot(v.offsets, pos)
      at == InSlot(v.offsets, pos)
      d  == Doing(Touched(v, k), count, at + count - Len(v.blocks[k]))
      e  == Joined(Trimmed(Dropped(d, k), k), k, at)
  IN  Rebalanced(Removed(e, k, at), k)

----------------------------------------------------------------------------
OffsetsOf(bs) ==
  LET total[k \in 1 .. Len(bs)] ==
        IF k = 1 THEN Len(bs[1]) ELSE total[k - 1] + 1 + Len(bs[k])
  IN  [k \in 1 .. Len(bs) |-> total[k]]

\* The constructor on an empty view, and on one that has been saved.
Init == /\ blocks = << <<>> >> /\ seps = <<>>
        /\ offsets = <<0>> /\ last = NoLast

Reopen == /\ offsets' = OffsetsOf(blocks) /\ last' = NoLast
          /\ UNCHANGED <<blocks, seps>>

\* GetItem and SetItem: the block of the row is remembered.  At a separator the
\* remembered range is made empty.
SetLast(row) ==
  LET k == Slot(offsets, row)
  IN  IF offsets[k] = row
      THEN [base |-> row - (k - 1), limit |-> 0, slot |-> Len(offsets) + 1]
      ELSE [base |-> row - InSlot(offsets, row), limit |-> offsets[k], slot |-> k]

Found(row) == IF row < last.base \/ row >= last.limit THEN SetLast(row) ELSE last

GetItem(row) == last' = Found(row) /\ UNCHANGED <<blocks, seps, offsets>>

Marked == {i \in 1 .. Len(Flat) : Flat[i] # Plain}

SetItem(row, r) ==
  LET l == Found(row)
  IN  /\ r = Plain \/ Marked \subseteq {row + 1}         \* bound
      /\ last' = l
      /\ IF l.slot = Len(offsets) + 1
         THEN seps' = [seps EXCEPT ![row - l.base + 1] = r] /\ UNCHANGED blocks
         ELSE blocks' = [blocks EXCEPT ![l.slot][row - l.base + 1] = r] /\ UNCHANGED seps
      /\ UNCHANGED offsets

InsertRows(pos, r, count) ==
  /\ Size + count <= MaxRows                             \* bound
  /\ r = Plain \/ (Marked = {} /\ count = 1)             \* bound
  /\ Becomes(Inserted(View, pos, Repeat(r, count)))

RemoveRows(pos, count) ==
  /\ pos + count <= Size
  /\ Becomes(Without(View, pos, count))

Next == \/ Reopen
        \/ \E pos \in 0 .. Size : \E r \in Row : \E count \in 1 .. MaxRows :
              InsertRows(pos, r, count)
        \/ \E pos \in 0 .. Size - 1 :
              \/ GetItem(pos)
              \/ \E r \in Row : SetItem(pos, r)
              \/ \E count \in 1 .. Size : RemoveRows(pos, count)

Spec == Init /\ [][Next]_vars

----------------------------------------------------------------------------
\* Type invariant, with what c4_BlockedViewer::Validate asserts: the offsets are
\* those of the blocks, and no block but the first is empty.  No sequence of
\* insertions, removals, merges and splits makes a block longer than kLimit + 1.
Validate ==
  /\ blocks \in Seq(Seq(Row)) /\ seps \in Seq(Row)
  /\ Len(seps) = Len(blocks) - 1
  /\ offsets = OffsetsOf(blocks)
  /\ \A k \in 2 .. Len(blocks) : blocks[k] # <<>>
  /\ \A k \in DOMAIN blocks : Len(blocks[k]) <= Limit + 1

\* The view with its rows numbered.
Numbers == [i \in 1 .. Size |-> i]
Numbered ==
  LET before(k) == IF k = 1 THEN 0 ELSE offsets[k - 1] + 1
      rows(k)   == SubSeq(Numbers, before(k) + 1, offsets[k])
  IN  [View EXCEPT !.blocks = Upto([k \in DOMAIN blocks |-> rows(k)], Len(blocks)),
                   !.seps   = Upto([k \in DOMAIN seps |-> offsets[k] + 1], Len(seps))]

\* GetItem: through the block that it remembers, or finds.
ReadsRow(row) ==
  LET l     == Found(row)
      block == IF l.slot = Len(offsets) + 1 THEN Numbered.seps ELSE Numbered.blocks[l.slot]
      i     == row - l.base + 1
  IN  i \in DOMAIN block /\ block[i] = row + 1

\* What Validate asserts, and whatever is inserted or removed, and however many
\* blocks are split, merged or dropped for it, all other rows stay, in their order;
\* and each row is read where it is, also through a block remembered from before the change.
RowsStayInOrder ==
  /\ Validate
  /\ \A row \in 0 .. Size - 1 : ReadsRow(row)
  /\ \A pos \in 0 .. Size : \A count \in 1 .. MaxRows :
       /\ Size + count <= MaxRows =>
            FlatOf(Inserted(Numbered, pos, Repeat(0, count))) =
              Upto(Numbers, pos) \o Repeat(0, count) \o After(Numbers, pos)
       /\ pos + count <= Size =>
            FlatOf(Without(Numbered, pos, count)) =
              Upto(Numbers, pos) \o After(Numbers, pos + count)

\* The blocks behave as one sequence of rows.
Plainly == INSTANCE FlatRows WITH rows <- Flat
ImplementsFlatRows == Plainly!Spec
=============================================================================
