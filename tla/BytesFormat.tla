---------------------------- MODULE BytesFormat -----------------------------
(***************************************************************************)
(* The items of a bytes or string property: c4_FormatB and c4_FormatS       *)
(* (format.cpp).  Short items lie one after the other in the column _data,  *)
(* and _offsets tells where; long ones are memos, columns of their own.  A  *)
(* memo column is also made when an item is read or changed in place.       *)
(* Commit decides anew which items are memos, rebuilds the columns of sizes *)
(* and of the places of the memos if it must, and saves what is dirty.      *)
(*                                                                         *)
(* A column is [bytes, pos, dirty]; while it is not dirty its bytes are the *)
(* ones at pos in the file.  A cell of the file is whatever is saved there: *)
(* a byte, a size, or one number of a walk; that sizes are packed is the    *)
(* subject of IntColumn.  Space that the last commit does not use is used   *)
(* again by the next one, and reads as unset bytes until then; the order of *)
(* the writes and crashes are the subject of Persist.                       *)
(*                                                                         *)
(* A definition with an underscore in its name is a faulty variant of the  *)
(* one named before it.                                                    *)
(***************************************************************************)
EXTENDS Integers, FiniteSets, SequencesExt

CONSTANTS
  Values,       \* Values[type]: the items given to Set and Insert
  Parts,        \* the bytes given to Modify
  Unset,        \* a byte of a buffer that was never written
  MemoAlways,   \* items longer than this are always memos (10000)
  MemoNever,    \* items up to this length are never memos (100)
  ColumnLimit,  \* longest data column, if all items were of one length (1000000)
  MaxRows,      \* bound: rows
  MaxLen,       \* bound: bytes of an item
  MaxCommits,   \* bound: commits
  MaxChanges    \* bound: changes of items

ASSUME BytesFormatAssumption ==
  /\ MemoNever \in Nat /\ MemoAlways \in Nat /\ MemoNever <= MemoAlways
  /\ ColumnLimit \in Nat /\ MaxRows \in Nat /\ MaxLen \in Nat /\ MaxCommits \in Nat /\ MaxChanges \in Nat
  /\ DOMAIN Values = {"B", "S"}
  /\ \A v \in Values["B"] \cup Values["S"] \cup Parts : Len(v) <= MaxLen

VARIABLES
  type,     \* "B" or "S"
  fmt,      \* the handler: data, sizeCol, memoCol, offsets, memos, recalc
  file,     \* the cells of the datafile, from position 1 on
  walk,     \* what the committed walk says of the handler
  space,    \* the positions in use, c4_Persist::_space
  saving,   \* Idle, the pass after which the other one follows, or the copy made
  count     \* commits and changes so far, for the bounds

filevars == <<file, walk, space>>
vars == <<type, fmt, filevars, saving, count>>

----------------------------------------------------------------------------
\* Columns.

EmptyCol      == [bytes |-> << >>, pos |-> 0, dirty |-> FALSE]
Buffer(bytes) == [bytes |-> bytes, pos |-> 0, dirty |-> TRUE]    \* SetBuffer, StoreBytes
ColSize(col)  == Len(col.bytes)

Cells(cells, pos, n) == SubSeq(cells, pos, pos + n - 1)
SetLocation(cells, pos, n) == [bytes |-> Cells(cells, pos, n), pos |-> pos, dirty |-> FALSE]

\* A change leaves the place of a column as it is, and marks it dirty.
Changed(col, bytes) == [col EXCEPT !.bytes = bytes, !.dirty = TRUE]
Unsets(n) == [k \in 1 .. n |-> Unset]
Grow(col, off, n) ==
  Changed(col, SubSeq(col.bytes, 1, off) \o Unsets(n) \o SubSeq(col.bytes, off + 1, ColSize(col)))
Shrink(col, off, n) ==
  Changed(col, SubSeq(col.bytes, 1, off) \o SubSeq(col.bytes, off + n + 1, ColSize(col)))
StoreBytes(col, off, buf) ==
  IF buf = << >> THEN col
  ELSE Changed(col, SubSeq(col.bytes, 1, off) \o buf
                      \o SubSeq(col.bytes, off + Len(buf) + 1, ColSize(col)))

\* A column of integers takes no bytes while all of them are 0.
PackedSizes(sizes) == IF \A k \in DOMAIN sizes : sizes[k] = 0 THEN << >> ELSE sizes
SizesOf(col, rows) == IF col.bytes = << >> THEN [k \in 1 .. rows |-> 0] ELSE col.bytes

----------------------------------------------------------------------------
\* Items; an entry of _memos is a column, or NoMemo for the null pointer.
NoMemo == [bytes |-> << >>, pos |-> -1, dirty |-> FALSE]

NumRows(f)   == Len(f.memos)
Memo(f, i)   == f.memos[i + 1]
Offset(f, i) == f.offsets[i + 1]
Inline(f, i) == SubSeq(f.data.bytes, Offset(f, i) + 1, Offset(f, i + 1))

\* ItemLenOffCol: the bytes of an item, in its memo if it has one.
ItemBytes(f, i) == IF Memo(f, i) # NoMemo THEN Memo(f, i).bytes ELSE Inline(f, i)
ItemLen(f, i)   == Len(ItemBytes(f, i))

ShouldBeMemo(f, len) ==
  \/ len > MemoAlways
  \/ len > MemoNever /\ len > ColumnLimit \div (NumRows(f) + 1)

WithMemo(f, i, col) ==
  [f EXCEPT !.memos = SubSeq(@, 1, i) \o <<col>> \o SubSeq(@, i + 2, Len(@))]

\* GetNthMemoCol with alloc_: the memo takes the bytes over, or only their
\* place in the file if the data column was not changed since.
MemoCol_Place(f, i) ==
  IF Inline(f, i) = << >> THEN EmptyCol
  ELSE IF f.data.pos = 0 THEN Buffer(Inline(f, i))
  ELSE SetLocation(file, f.data.pos + Offset(f, i), Len(Inline(f, i)))
MemoCol(f, i) ==
  IF Inline(f, i) = << >> THEN EmptyCol
  ELSE IF f.data.dirty THEN Buffer(Inline(f, i))
  ELSE SetLocation(file, f.data.pos + Offset(f, i), Len(Inline(f, i)))
GetNthMemoCol(f, i) == IF Memo(f, i) # NoMemo THEN f ELSE WithMemo(f, i, MemoCol(f, i))

\* Replacing len bytes of a column at start, as SetOne does.
Resized(col, start, len, m) ==
  IF m > len THEN Grow(col, start, m - len)
  ELSE IF m < len THEN Shrink(col, start, len - m) ELSE col

Shifted(offsets, first, n) ==
  [k \in 1 .. Len(offsets) |-> IF k > first THEN offsets[k] + n ELSE offsets[k]]

SetInMemo(f, i, buf) ==
  LET col == Memo(f, i)
  IN  [WithMemo(f, i, StoreBytes(Resized(col, 0, ColSize(col), Len(buf)), 0, buf))
         EXCEPT !.recalc = TRUE]
SetInline(f, i, buf) ==
  LET start == Offset(f, i)
      len   == Len(Inline(f, i))
  IN  [f EXCEPT !.recalc  = TRUE,
                !.data    = StoreBytes(Resized(@, start, len, Len(buf)), start, buf),
                !.offsets = Shifted(@, i + 1, Len(buf) - len)]

SetOne_Inline(f, i, buf, ignoreMemos) ==
  IF Len(buf) = 0 /\ Inline(f, i) = << >> THEN f ELSE SetInline(f, i, buf)
SetOne(f, i, buf, ignoreMemos) ==
  LET inMemo == ~ignoreMemos /\ Memo(f, i) # NoMemo
      len    == IF inMemo THEN ItemLen(f, i) ELSE Len(Inline(f, i))
  IN  IF Len(buf) = 0 /\ len = 0 THEN f         \* no size change and no contents
      ELSE IF inMemo THEN SetInMemo(f, i, buf) ELSE SetInline(f, i, buf)

\* A string ends with a byte 0; an empty one is not stored at all.
Nul == 0
Given(v)       == IF type = "S" /\ v = <<Nul>> THEN << >> ELSE v
Get(f, i)      == IF type = "S" /\ ItemBytes(f, i) = << >> THEN <<Nul>> ELSE ItemBytes(f, i)
ItemSize(f, i) == IF type = "S" /\ ItemLen(f, i) > 0 THEN ItemLen(f, i) - 1 ELSE ItemLen(f, i)

Set(f, i, v) == SetOne(f, i, Given(v), FALSE)

Copies(v, n) == FlattenSeq([k \in 1 .. n |-> v])
InsertB(f, i, v, n) ==
  LET off == Offset(f, i)
      m   == Len(v)
  IN  [f EXCEPT !.recalc  = TRUE,
                !.memos   = SubSeq(@, 1, i) \o [k \in 1 .. n |-> NoMemo] \o SubSeq(@, i + 1, Len(@)),
                !.data    = StoreBytes(IF n * m > 0 THEN Grow(@, off, n * m) ELSE @, off, Copies(v, n)),
                !.offsets = SubSeq(@, 1, i) \o [k \in 1 .. n |-> off + (k - 1) * m]
                              \o [k \in 1 .. Len(@) - i |-> @[i + k] + n * m]]
Insert(f, i, v, n) == InsertB(f, i, Given(v), n)

OffsetsWithout_Kept(f, i, n) ==
  SubSeq(f.offsets, 1, i) \o SubSeq(f.offsets, i + n + 1, Len(f.offsets))
OffsetsWithout(f, i, n) ==
  SubSeq(f.offsets, 1, i)
    \o [k \in 1 .. Len(f.offsets) - i - n |->
          f.offsets[i + n + k] - (Offset(f, i + n) - Offset(f, i))]

RemoveRows(f, i, n) ==
  LET gone == Offset(f, i + n) - Offset(f, i)
  IN  [f EXCEPT !.recalc  = TRUE,
                !.memos   = SubSeq(@, 1, i) \o SubSeq(@, i + n + 1, Len(@)),
                !.data    = IF gone > 0 THEN Shrink(@, Offset(f, i), gone) ELSE @,
                !.offsets = OffsetsWithout(f, i, n)]

\* c4_BytesRef::Modify: bytes are put in where the most of the item stays.
Modify(f, i, off, buf, more) ==
  LET g     == GetNthMemoCol(f, i)
      col   == Memo(g, i)
      limit == off + Len(buf)
      over  == limit - ColSize(col)
      diff  == IF more < over THEN over ELSE more
      place == IF over > 0 THEN ColSize(col)
               ELSE IF diff > Len(buf) THEN off ELSE limit - diff
      room  == IF diff < 0 THEN Shrink(col, limit, -diff)
               ELSE IF diff > 0 THEN Grow(col, place, diff) ELSE col
  IN  WithMemo(g, i, StoreBytes(room, off, buf))

----------------------------------------------------------------------------
\* Commit.  A pass is a record: the cells written to, whether it only plans
\* (preflight) or copies everything to a stream (fullScan), the positions
\* taken and those the new version uses, and the places planned.
FirstPass(cells, taken, fullScan) ==
  [stage |-> "planned", cells |-> cells, preflight |-> TRUE, fullScan |-> fullScan,
   space |-> taken, nextSpace |-> {}, news |-> << >>, k |-> 1]
SecondPass(p) == [p EXCEPT !.preflight = FALSE]

Span(pos, n) == pos .. pos + n - 1
Free(taken, pos, n) == Span(pos, n) \cap taken = {}
Allocate(taken, n) ==
  CHOOSE pos \in 1 .. n * Cardinality(taken) + 1 :
     Free(taken, pos, n) /\ \A q \in 1 .. pos - 1 : ~Free(taken, q, n)

Write(cells, pos, bytes) ==
  LET room == cells \o Unsets(pos - 1 - Len(cells))
  IN  SubSeq(room, 1, pos - 1) \o bytes \o SubSeq(room, pos + Len(bytes), Len(room))

\* c4_SaveContext::CommitColumn: the pass, the column, and what goes to the walk.
Placed(p, col, changed) ==
  LET pos  == IF changed THEN Allocate(p.space, ColSize(col)) ELSE col.pos
      used == Span(pos, ColSize(col))
  IN  [pass |-> [p EXCEPT !.space     = IF changed THEN @ \cup used ELSE @,
                          !.nextSpace = @ \cup used,
                          !.news      = Append(@, pos)],
       col  |-> col, vals |-> <<ColSize(col), pos>>]
Plan_Clean(p, col) == Placed(p, col, col.dirty)
Plan(p, col) == Placed(p, col, col.dirty \/ p.fullScan)

Save(p, col) ==
  LET pos   == p.news[p.k]
      cells == IF col.dirty \/ p.fullScan THEN Write(p.cells, pos, col.bytes) ELSE p.cells
  IN  [pass |-> [p EXCEPT !.cells = cells, !.k = @ + 1],
       col  |-> IF p.fullScan THEN col ELSE SetLocation(cells, pos, ColSize(col)),
       vals |-> <<ColSize(col), pos>>]
CommitColumn(p, col) ==
  IF ColSize(col) = 0 THEN [pass |-> p, col |-> col, vals |-> <<0>>]
  ELSE IF p.preflight THEN Plan(p, col) ELSE Save(p, col)

\* One row of c4_FormatB::Commit: w is the handler, the pass, the sizes, the
\* walk of the memos, and the rows skipped in it.
KeepInline(w, r) ==
  [w EXCEPT !.sizes = Append(@, ItemLen(w.f, r)), !.skip = @ + 1]
BecomesInline(w, r) ==
  LET bytes == ItemBytes(w.f, r)
      f     == IF bytes = << >> THEN w.f ELSE WithMemo(w.f, r, NoMemo)
  IN  [w EXCEPT !.sizes = Append(@, Len(bytes)), !.skip = @ + 1,
                !.f = SetOne(f, r, bytes, TRUE)]
IsMemo(w, r) ==
  LET f == GetNthMemoCol(w.f, r)
      c == CommitColumn(w.pass, Memo(f, r))
  IN  [w EXCEPT !.pass = c.pass, !.sizes = Append(@, 0), !.skip = 0,
                !.memos = @ \o <<w.skip>> \o c.vals,
                !.f = SetOne(WithMemo(f, r, c.col), r, << >>, TRUE)]
CommitRow(w, r) ==
  IF ShouldBeMemo(w.f, ItemLen(w.f, r)) THEN IsMemo(w, r)
  ELSE IF Memo(w.f, r) = NoMemo THEN KeepInline(w, r) ELSE BecomesInline(w, r)

Rows(f) == [k \in 1 .. NumRows(f) |-> k - 1]
Rebuilt(f, p) ==
  LET w == FoldLeft(CommitRow, [f |-> f, pass |-> p, sizes |-> << >>, memos |-> << >>, skip |-> 0],
                    Rows(f))
  IN  [pass |-> w.pass,
       f    |-> [w.f EXCEPT !.sizeCol = Buffer(PackedSizes(w.sizes)), !.memoCol = Buffer(w.memos)]]

MustRebuild_Flag(f, p) == f.recalc \/ p.fullScan
MustRebuild(f, p) == \/ f.recalc \/ p.fullScan
                     \/ \E k \in DOMAIN f.memos : f.memos[k] # NoMemo

StillDirty(col) == ColSize(col) > 0 /\ col.dirty

CommitColumns(f, p) ==
  LET d == CommitColumn(p, f.data)
      s == IF ColSize(f.data) > 0 THEN CommitColumn(d.pass, f.sizeCol)
           ELSE [pass |-> d.pass, col |-> f.sizeCol, vals |-> << >>]
      m == CommitColumn(s.pass, f.memoCol)
      saved == [f EXCEPT !.data = d.col, !.sizeCol = s.col, !.memoCol = m.col]
  IN  [pass |-> m.pass, vals |-> d.vals \o s.vals \o m.vals,
       f    |-> [saved EXCEPT !.recalc = IF p.fullScan THEN @
                   ELSE @ /\ (StillDirty(s.col) \/ StillDirty(m.col))]]

\* c4_FormatB::Commit; not called while there are no rows.
CommitFormat(f, p) ==
  IF NumRows(f) = 0 THEN [pass |-> p, f |-> f, vals |-> << >>]
  ELSE LET r == IF MustRebuild(f, p) THEN Rebuilt(f, p) ELSE [pass |-> p, f |-> f]
       IN  CommitColumns(r.f, r.pass)

WalkOf(done) == [rows |-> NumRows(done.f), vals |-> done.vals]

----------------------------------------------------------------------------
\* c4_FormatB::Define: the columns are found with the walk, the offsets follow
\* from the sizes.
Pull(cells, vals) ==
  IF vals[1] = 0 THEN [col |-> EmptyCol, rest |-> Tail(vals)]
  ELSE [col |-> SetLocation(cells, vals[2], vals[1]), rest |-> SubSeq(vals, 3, Len(vals))]

InitOffsets(sizes) == FoldLeft(LAMBDA offs, n : Append(offs, Last(offs) + n), <<0>>, sizes)

\* The k-th memo of a memo walk, and its row.
MemoRow(memos, k) == k - 1 + FoldLeft(LAMBDA n, j : n + memos[3 * j - 2], 0, [j \in 1 .. k |-> j])
MemosOf(cells, memos, rows) ==
  [i \in 1 .. rows |->
     IF \E k \in 1 .. Len(memos) \div 3 : MemoRow(memos, k) = i - 1
     THEN LET k == CHOOSE k \in 1 .. Len(memos) \div 3 : MemoRow(memos, k) = i - 1
          IN  SetLocation(cells, memos[3 * k], memos[3 * k - 1])
     ELSE NoMemo]

NewFormat == [data |-> EmptyCol, sizeCol |-> EmptyCol, memoCol |-> EmptyCol,
              offsets |-> <<0>>, memos |-> << >>, recalc |-> FALSE]

Define(cells, w) ==
  IF w.rows = 0 THEN NewFormat
  ELSE LET d == Pull(cells, w.vals)
           s == IF ColSize(d.col) > 0 THEN Pull(cells, d.rest)
                ELSE [col |-> EmptyCol, rest |-> d.rest]
           m == Pull(cells, s.rest)
       IN  [data |-> d.col, sizeCol |-> s.col, memoCol |-> m.col,
            offsets |-> InitOffsets(SizesOf(s.col, w.rows)),
            memos |-> MemosOf(cells, m.col.bytes, w.rows), recalc |-> FALSE]

----------------------------------------------------------------------------
\* What a user reads.
Items(f) == [k \in 1 .. NumRows(f) |-> Get(f, k - 1)]

Idle   == [stage |-> "no"]
NoWalk == [rows |-> 0, vals |-> << >>]

Init == /\ type \in {"B", "S"}
        /\ fmt = NewFormat /\ file = << >> /\ walk = NoWalk
        /\ space = {} /\ saving = Idle /\ count = [commits |-> 0, changes |-> 0]

Change == /\ saving.stage # "planned" /\ count.changes < MaxChanges
          /\ saving' = Idle
          /\ count' = [count EXCEPT !.changes = @ + 1]

SetItem == \E i \in 0 .. NumRows(fmt) - 1, v \in Values[type] :
              /\ fmt' = Set(fmt, i, v)
              /\ Change /\ UNCHANGED <<type, filevars>>

InsertItems == \E i \in 0 .. NumRows(fmt), v \in Values[type], n \in 1 .. 2 :
                  /\ NumRows(fmt) + n <= MaxRows
                  /\ fmt' = Insert(fmt, i, v, n)
                  /\ Change /\ UNCHANGED <<type, filevars>>

RemoveItems == \E i \in 0 .. NumRows(fmt) - 1 : \E n \in 1 .. NumRows(fmt) - i :
                  /\ fmt' = RemoveRows(fmt, i, n)
                  /\ Change /\ UNCHANGED <<type, filevars>>

\* Bytes are only read: the memo column that it makes stays.
AccessItem == \E i \in 0 .. NumRows(fmt) - 1 :
                 /\ type = "B" /\ ItemSize(fmt, i) > 0
                 /\ fmt' = GetNthMemoCol(fmt, i)
                 /\ saving.stage # "planned" /\ saving' = Idle
                 /\ UNCHANGED <<type, filevars, count>>

\* Bytes are cut off only where the item has them.
Diffs(i, limit) == {d \in -1 .. 1 : d < 0 => limit - d <= ItemLen(fmt, i)}
ModifyItem == \E i \in 0 .. NumRows(fmt) - 1, off \in 0 .. 1, buf \in Parts :
                \E more \in Diffs(i, off + Len(buf)) :
                 /\ type = "B"
                 /\ fmt' = Modify(fmt, i, off, buf, more)
                 /\ ItemLen(fmt', i) <= MaxLen
                 /\ Change /\ UNCHANGED <<type, filevars>>

\* Bytes that no column uses may be anything.
Kept(cells, used) ==
  [k \in 1 .. Len(cells) |-> IF k \in used THEN cells[k] ELSE Unset]

\* The first pass of c4_SaveContext::SaveIt.  Nothing is written by a commit
\* if the walk planned is the one saved before.
BeginSave(fullScan) ==
  \E plan \in {CommitFormat(fmt, IF fullScan THEN FirstPass(<< >>, {}, TRUE)
                                 ELSE FirstPass(file, space, FALSE))} :
     /\ fmt' = plan.f
     /\ saving' = IF ~fullScan /\ WalkOf(plan) = walk THEN Idle ELSE plan.pass

Commit == /\ saving.stage # "planned" /\ count.commits < MaxCommits
          /\ BeginSave(FALSE)
          /\ count' = IF saving'.stage = "no" THEN [count EXCEPT !.commits = @ + 1] ELSE count
          /\ UNCHANGED <<type, filevars>>

\* SaveTo: a copy of everything goes to a stream, in the same two passes.
SaveTo == /\ saving.stage # "planned"
          /\ BeginSave(TRUE)
          /\ UNCHANGED <<type, filevars, count>>

\* The second pass.
EndCommit(done) == /\ walk'   = WalkOf(done)
                   /\ space'  = done.pass.nextSpace
                   /\ file'   = Kept(done.pass.cells, space')
                   /\ saving' = Idle
                   /\ count'  = [count EXCEPT !.commits = @ + 1]
EndCopy(done)   == /\ saving' = [stage |-> "copied", file |-> done.pass.cells, walk |-> WalkOf(done)]
                   /\ UNCHANGED <<filevars, count>>

EndSave == /\ saving.stage = "planned"
           /\ \E done \in {CommitFormat(fmt, SecondPass(saving))} :
                /\ fmt' = done.f
                /\ IF saving.fullScan THEN EndCopy(done) ELSE EndCommit(done)
           /\ UNCHANGED type

Reopen == /\ saving.stage # "planned" /\ saving' = Idle
          /\ fmt' = Define(file, walk)
          /\ UNCHANGED <<type, filevars, count>>

Next == \/ SetItem \/ InsertItems \/ RemoveItems \/ AccessItem \/ ModifyItem
        \/ Commit \/ SaveTo \/ EndSave \/ Reopen

Spec == Init /\ [][Next]_vars

----------------------------------------------------------------------------
\* The assertions of the code (format.cpp:298 and the others like it): the
\* offsets go up to the end of the data, and there is one more than there
\* are entries for memos.  And "if the column object exists and is not dirty, then
\* it is either a real column (size < 0), or simply a duplicate of the data stored
\* inline as bytes" (format.cpp:237): a memo that was not changed may be dropped,
\* and one that shares its place with the data column has what that has.
Validate ==
  /\ Len(fmt.offsets) = Len(fmt.memos) + 1
  /\ fmt.offsets[1] = 0 /\ Last(fmt.offsets) = ColSize(fmt.data)
  /\ \A k \in 1 .. Len(fmt.memos) : fmt.offsets[k] <= fmt.offsets[k + 1]
  /\ \A i \in 0 .. NumRows(fmt) - 1 :
       Memo(fmt, i) # NoMemo /\ ~Memo(fmt, i).dirty =>
         Inline(fmt, i) \in {<< >>, Memo(fmt, i).bytes}

\* Commit leaves the columns of sizes and memos alone when the flag is down
\* and there is no memo: then they say what they would if they were rebuilt.
SkipsOnlyRight ==
  ~MustRebuild(fmt, FirstPass(file, space, FALSE)) /\ NumRows(fmt) > 0 =>
     /\ SizesOf(fmt.sizeCol, NumRows(fmt)) = [k \in 1 .. NumRows(fmt) |-> ItemLen(fmt, k - 1)]
     /\ fmt.memoCol.bytes = << >>

Store == INSTANCE ItemStore WITH
           items   <- Items(fmt),
           saved   <- Items(Define(file, walk)),
           commits <- count.commits

\* Rows keep the items they were given, whether these are inline, in memos or
\* on their way from one to the other, and opening the file again gives the
\* items of the last commit.
ImplementsItemStore ==
  Store!Init /\ [][\/ Store!Set(Values[type]) \/ Store!InsertN(Values[type])
                   \/ Store!RemoveN \/ Store!Modify(Parts, 0 .. 1, -1 .. 1)
                   \/ Store!Commit \/ Store!Reopen]_(Store!vars)

\* The copy made by SaveTo has the items of now, although some of them are
\* known by their place in the datafile only, and in the copy it is another.
CopyHasItems ==
  saving.stage = "copied" => Items(Define(saving.file, saving.walk)) = Items(fmt)
=============================================================================
