----------------------------- MODULE CustomViews -----------------------------
(***************************************************************************)
(* Custom views (custom.cpp, remap.cpp): views without rows of their own,  *)
(* managed by a viewer that computes each item from one or two other views *)
(* when it is asked for, and that some viewers can be changed through.     *)
(* Viewers are not told of changes; several compute row numbers when they  *)
(* are made and rely on these later.                                       *)
(*                                                                         *)
(* There are two views, left and right, and one viewer at a time over them. *)
(* A viewer is a record with the fields of its class; template gives the   *)
(* properties it had when it was made.  A row number -1 stands for the null *)
(* row of an outer join.  Underscore names are faulty variants.            *)
(***************************************************************************)
EXTENDS Views

CONSTANTS LeftProps, RightProps,  \* the properties of the views at first
          LeftRows, RightRows,    \* bound: the rows they may have
          MaxLeft, MaxRight,      \* bound: how many of them
          RowArgs,                \* bound: the rows given to a call
          ItemArgs,               \* bound: the items given to a call
          Slices,                 \* bound: the slices, [first, limit, step]
          Keys,                   \* the properties grouped, joined and indexed on
          MaxCount,               \* bound: rows inserted or removed at once
          MinSplit                \* ranges as long are split (5 in the code)

\* The property that counts, the one that holds a group, and a new name.
CountProp == "#N#"
GroupProp == "sub"
NewName   == "new"

ASSUME CustomViewsAssumption ==
  /\ Range(Keys) \subseteq Range(LeftProps) \cap Range(RightProps)
  /\ MaxCount \in Nat \ {0} /\ MinSplit \in Nat \ {0, 1}
  /\ \A s \in Slices : s.first \in Nat /\ s.limit \in Int /\ s.step \in Int \ {0}

VARIABLES left, right,  \* the views
          viewer,       \* the viewer, NoViewer if there is none
          fresh         \* whether nothing the viewer does not follow has changed

vars == <<left, right, viewer, fresh>>

NoViewer == [kind |-> "none"]
NullRow  == -1

----------------------------------------------------------------------------
\* Making viewers.
Joined(l, r) == l.props \o SelectSeq(r.props, LAMBDA p : p \notin PropsOf(l))

NewSlice(l, s) == [kind |-> "slice", template |-> l.props,
                   first |-> s.first, limit |-> s.limit, step |-> s.step]
NewProduct(l, r) == [kind |-> "product", template |-> Joined(l, r)]
NewRemapWith(l)  == [kind |-> "remap", template |-> l.props]
NewPair(l, r)    == [kind |-> "pair", template |-> Joined(l, r)]
NewConcat(l)     == [kind |-> "concat", template |-> l.props]
NewRename(l, old, new) ==
  [kind |-> "rename", template |-> [c \in DOMAIN l.props |-> IF l.props[c] = old THEN new
                                                              ELSE l.props[c]]]
NewReadOnly(l, over) == [kind |-> "readonly", template |-> l.props, over |-> over]
NewOrdered(l, n)     == [kind |-> "ordered", template |-> l.props, numKeys |-> n]

\* ScanTransitions(lo, hi): the rows from lo that differ from the one before;
\* a range whose ends are the same is not looked at, a long one is split.
ScanTransitions_Halves(m) ==
  LET Differs(i, j) == Compare(RowAt(m, i), RowAt(m, j)) # 0
      scan[lo \in 1 .. GetSize(m), hi \in 1 .. GetSize(m)] ==
        LET mid == lo + (hi - lo) \div 2
        IN  CASE lo = hi \/ ~Differs(lo, hi - 1) -> {}
              [] hi - lo >= MinSplit -> scan[lo, mid] \cup scan[mid, hi]
              [] OTHER -> {i \in lo .. hi - 1 : Differs(i, i - 1)}
  IN  IF GetSize(m) = 0 THEN {} ELSE {0} \cup scan[1, GetSize(m)]
ScanTransitions(m) ==
  LET Differs(i, j) == Compare(RowAt(m, i), RowAt(m, j)) # 0
      scan[lo \in 1 .. GetSize(m), hi \in 1 .. GetSize(m)] ==
        LET mid == lo + (hi - lo) \div 2
        IN  CASE lo = hi \/ ~Differs(lo - 1, hi - 1) -> {}
              [] hi - lo >= MinSplit -> scan[lo, mid] \cup scan[mid, hi]
              [] OTHER -> {i \in lo .. hi - 1 : Differs(i, i - 1)}
  IN  IF GetSize(m) = 0 THEN {} ELSE {0} \cup scan[1, GetSize(m)]

\* The map has the first row of each group and, at the end, the number of rows.
NewGroupBy(l, keys, result) ==
  LET sorted == SortOn(l, keys)
  IN  [kind |-> "groupby", template |-> Append(keys, result), keys |-> keys,
       map |-> Append(SetToSortSeq(ScanTransitions(Project(sorted, keys)), <), GetSize(l))]

\* The next row of the join: s has the pairs found, n of them for the last key,
\* and j, the row of the sorted right view that was come to.
RepeatKey(s, orig) ==
  LET last == Len(s.offset) - s.n
  IN  [s EXCEPT !.base = @ \o [k \in 1 .. s.n |-> orig],
                !.offset = @ \o SubSeq(@, last + 1, Len(@))]

RunEnd(temp, j) ==
  CHOOSE k \in j + 1 .. GetSize(temp) :
    /\ k = GetSize(temp) \/ Compare(RowAt(temp, k), RowAt(temp, k - 1)) # 0
    /\ \A h \in j + 1 .. k - 1 : Compare(RowAt(temp, h), RowAt(temp, h - 1)) = 0

AdvanceTo(temp, key, j) ==
  CHOOSE k \in j .. GetSize(temp) :
    /\ k = GetSize(temp) \/ Compare(key, RowAt(temp, k)) <= 0
    /\ \A h \in j .. k - 1 : Compare(key, RowAt(temp, h)) > 0

NewKey(s, temp, key, orig, outer) ==
  LET j     == AdvanceTo(temp, key, s.j)
      match == j < GetSize(temp) /\ Compare(key, RowAt(temp, j)) = 0
      end   == RunEnd(temp, j)
      With(offsets, next) ==
        [base   |-> s.base \o [k \in DOMAIN offsets |-> orig],
         offset |-> s.offset \o offsets, n |-> Len(offsets), j |-> next]
  IN  CASE match           -> With([k \in 1 .. end - j |-> j + k - 1], end)
        [] ~match /\ outer -> With(<<NullRow>>, j)
        [] OTHER           -> With(<< >>, j)

NewJoin(l, r, keys, outer) ==
  LET orig == SortMap(l, keys)
      sorted == Project(SortOn(l, keys), keys)
      temp == Project(SortOn(r, keys), keys)
      Same(i) == i > 1 /\ Compare(RowAt(sorted, i - 1), RowAt(sorted, i - 2)) = 0
      found == FoldLeft(LAMBDA s, i : IF Same(i) THEN RepeatKey(s, orig[i])
                                      ELSE NewKey(s, temp, RowAt(sorted, i - 1), orig[i], outer),
                        [base |-> << >>, offset |-> << >>, n |-> 0, j |-> 0],
                        [i \in DOMAIN orig |-> i])
  IN  [kind |-> "join", template |-> Joined(l, Reordered(r, keys)), keys |-> keys,
       outer |-> outer, base |-> found.base, offset |-> found.offset]

\* The properties of the subview are those of the subview of the first row.
NewJoinProp(l, sub, outer) ==
  LET pos  == FindProperty(l, sub)
      subs == [i \in DOMAIN l.rows |-> l.rows[i][sub]]
      Places(i) ==
        CASE subs[i].rows = NoRows /\ outer  -> << <<i - 1, NullRow>> >>
          [] subs[i].rows = NoRows /\ ~outer -> << >>
          [] OTHER -> [j \in DOMAIN subs[i].rows |-> <<i - 1, j - 1>>]
      places == FlattenSeq([i \in DOMAIN subs |-> Places(i)])
      inner  == IF subs = << >> THEN << >> ELSE subs[1].props
  IN  [kind |-> "joinprop", sub |-> sub, subPos |-> pos, subWidth |-> Len(inner),
       outer |-> outer,
       template |-> FoldLeft(LAMBDA t, p : IF Contains(t, p) THEN t ELSE Append(t, p), << >>,
                      SubSeq(l.props, 1, pos) \o inner
                        \o SubSeq(l.props, pos + 2, Len(l.props))),
       base   |-> [k \in DOMAIN places |-> places[k][1]],
       offset |-> [k \in DOMAIN places |-> places[k][2]]]

NewIndexed(l, keys, unique) ==
  [kind |-> "indexed", template |-> l.props, keys |-> keys, unique |-> unique,
   map |-> SortMap(l, keys)]

----------------------------------------------------------------------------
\* Where an item of the view is: a row and a property of one of the views, or
\* Nowhere.  Columns from NumProperties(l) on are taken to be right's.
Nowhere == [side |-> "none"]
At(side, row, p) == [side |-> side, row |-> row, prop |-> p]

OfLeft(l, row, col) == At("left", row, NthProperty(l, col))
OfRight(x, r, row, col) ==
  LET p == x.template[col + 1]
  IN  IF row = NullRow \/ p \notin PropsOf(r) THEN Nowhere ELSE At("right", row, p)

Either(x, l, r, lrow, rrow, col) ==
  IF col < NumProperties(l) THEN OfLeft(l, lrow, col) ELSE OfRight(x, r, rrow, col)

SliceSize(x, l) ==
  LET n    == IF x.limit >= 0 THEN x.limit ELSE GetSize(l)
      upto == IF n < x.first THEN x.first ELSE n
      k    == IF x.step < 0 THEN -x.step ELSE x.step
  IN  (upto - x.first + k - 1) \div k

SliceRow_FromEnd(x, l, row) ==
  IF x.step > 0 THEN x.first + x.step * row
  ELSE (IF x.limit >= 0 THEN x.limit ELSE GetSize(l)) - 1 + x.step * row
SliceRow(x, l, row) ==
  x.first + x.step * (IF x.step > 0 THEN row ELSE row - SliceSize(x, l) + 1)

ProductSize(l, r) == GetSize(l) * GetSize(r)
ProductPlace(x, l, r, row, col) ==
  Either(x, l, r, row \div GetSize(r), row % GetSize(r), col)

\* The first property of right gives the row of left.
RemapRow(r, row) == GetItem(r, row, 0)
RemapPlace(l, r, row, col) == OfLeft(l, RemapRow(r, row), col)

PairPlace(x, l, r, row, col) == Either(x, l, r, row, row, col)

ConcatSize(l, r) == GetSize(l) + GetSize(r)
ConcatPlace(l, r, row, col) ==
  LET p == NthProperty(l, col)
  IN  CASE row < GetSize(l) -> OfLeft(l, row, col)
        [] row >= GetSize(l) /\ p \in PropsOf(r) -> At("right", row - GetSize(l), p)
        [] OTHER -> Nowhere

RenamePlace(l, row, col) == OfLeft(l, row, col)

SortedRow(v, keys, i) == IF i = NullRow THEN NullRow ELSE SortMap(v, keys)[i + 1]
JoinPlace(x, l, r, row, col) ==
  Either(x, l, r, x.base[row + 1], SortedRow(r, x.keys, x.offset[row + 1]), col)

Place(x, l, r, row, col) ==
  CASE x.kind = "slice"   -> OfLeft(l, SliceRow(x, l, row), col)
    [] x.kind = "product" -> ProductPlace(x, l, r, row, col)
    [] x.kind = "remap"   -> RemapPlace(l, r, row, col)
    [] x.kind = "pair"    -> PairPlace(x, l, r, row, col)
    [] x.kind = "concat"  -> ConcatPlace(l, r, row, col)
    [] x.kind = "rename"  -> RenamePlace(l, row, col)
    [] x.kind = "join"    -> JoinPlace(x, l, r, row, col)
    [] OTHER              -> OfLeft(l, row, col)

Read(l, r, at) ==
  CASE at.side = "left"  -> Item(l, at.row, at.prop)
    [] at.side = "right" -> Item(r, at.row, at.prop)

\* The number of rows of the view.
Size(x, l, r) ==
  CASE x.kind = "slice"   -> SliceSize(x, l)
    [] x.kind = "product" -> ProductSize(l, r)
    [] x.kind = "remap"   -> GetSize(r)
    [] x.kind = "concat"  -> ConcatSize(l, r)
    [] x.kind = "groupby" -> Len(x.map) - 1
    [] x.kind \in {"join", "joinprop"} -> Len(x.base)
    [] OTHER -> GetSize(l)

\* A group is counted, or its rows are shown without the keys.
Group(x, l, row) ==
  LET sorted == SortOn(l, x.keys)
  IN  ProjectWithout([sorted EXCEPT !.rows = SubSeq(@, x.map[row + 1] + 1, x.map[row + 2])],
                     x.keys)

GroupItem(x, l, row, col) ==
  CASE col < Len(x.keys) -> GetItem(SortOn(l, x.keys), x.map[row + 1], col)
    [] col >= Len(x.keys) /\ x.template[col + 1] = CountProp -> x.map[row + 2] - x.map[row + 1]
    [] OTHER -> Group(x, l, row)

\* Columns after those of the subview are the parent's; a subview may lack some.
JoinPropItem(x, l, row, col) ==
  LET r == x.base[row + 1]
      p == x.template[col + 1]
  IN  CASE col < x.subPos -> GetItem(l, r, col)
        [] col >= x.subPos + x.subWidth -> GetItem(l, r, col - (x.subWidth - 1))
        [] x.offset[row + 1] = NullRow -> Default(p)
        [] OTHER -> Item(Item(l, r, x.sub), x.offset[row + 1], p)

\* DoGet: an item that is nowhere is clear.
DoGet(x, l, r, row, col) ==
  CASE x.kind = "groupby"  -> GroupItem(x, l, row, col)
    [] x.kind = "joinprop" -> JoinPropItem(x, l, row, col)
    [] OTHER -> LET at == Place(x, l, r, row, col)
                IN  IF at = Nowhere THEN Default(x.template[col + 1]) ELSE Read(l, r, at)

\* What the view shows: all its items.
Shown(x, l, r) ==
  [props |-> x.template,
   rows  |-> [i \in 1 .. Size(x, l, r) |->
                [p \in Range(x.template) |->
                   DoGet(x, l, r, i - 1, SelectInSeq(x.template, LAMBDA q : q = p) - 1)]]]

----------------------------------------------------------------------------
\* Lookups.  KeyCompare takes the columns of the row given as they come.
KeyCompare(l, n, row, r) ==
  LET d == {c \in 1 .. n : r.item[r.props[c]] # GetItem(l, row, c - 1)}
  IN  d = {}

Unknown == [pos |-> -1, count |-> 0]

LookupBy(keys, l, r) ==
  LET pos == Search(l, r)
  IN  CASE ~(Range(keys) \subseteq Range(r.props)) -> Unknown
        [] pos < GetSize(l) -> [pos |-> pos,
                                count |-> IF KeyCompare(l, Len(keys), pos, r) THEN 1 ELSE 0]
        [] OTHER -> [pos |-> pos, count |-> 0]

OrderedLookup(x, l, r) == LookupBy(SubSeq(l.props, 1, x.numKeys), l, r)
IndexedLookup(x, l, r) == LookupBy(x.keys, l, r)

\* RestrictSearch(pos, count) with the result of a lookup.
Clipped_NoStart(found, start, count) ==
  LET end == IF start + count > found.pos + found.count THEN found.pos + found.count
             ELSE start + count
  IN  [pos |-> found.pos, count |-> end - found.pos]
Clipped(found, start, count) ==
  LET pos == IF start < found.pos THEN found.pos ELSE start
      end == IF start + count > found.pos + found.count THEN found.pos + found.count
             ELSE start + count
  IN  [pos |-> pos, count |-> end - pos]

NoRange == [pos |-> 0, count |-> 0]

Limited(found, start, count) ==
  CASE count > 0 /\ found.pos < 0 -> [pos |-> start, count |-> count]
    [] count > 0 /\ found.pos >= 0 /\ found.count > 0
         /\ Clipped(found, start, count).count > 0 -> Clipped(found, start, count)
    [] OTHER -> NoRange

\* A read-only view asks its base for the range, and only takes over how long
\* it is, or that there is none, in which case all rows are looked at.
Everything(l) == [pos |-> 0, count |-> GetSize(l)]
ReadOnlyLookup(x, l, r) ==
  LET found == IF x.over.kind = "ordered" THEN Limited(OrderedLookup(x.over, l, r), 0, GetSize(l))
               ELSE Everything(l)
  IN  IF found.count = 0 THEN Unknown ELSE [pos |-> 0, count |-> found.count]

SearchRange(x, l, r, crit, start, count) ==
  LET found == CASE x.kind = "ordered"  -> OrderedLookup(x, l, crit)
                 [] x.kind = "indexed"  -> IndexedLookup(x, l, crit)
                 [] x.kind = "readonly" -> ReadOnlyLookup(x, l, crit)
                 [] OTHER -> [pos |-> 0, count |-> Size(x, l, r)]
  IN  Limited(found, start, count)

Find(x, l, r, crit, start) ==
  FindWithin(Shown(x, l, r), crit, SearchRange(x, l, r, crit, start, Size(x, l, r) - start))

----------------------------------------------------------------------------
\* Changes made through the view: the views and the viewer that follow.
State(l, r, x) == [left |-> l, right |-> r, viewer |-> x]

\* Inserting ignores the position; a row with the key is replaced.
PutAt(found, l, r) ==
  IF found.count = 0 THEN InsertRowsAt(l, found.pos, r, 1) ELSE SetAt(l, found.pos, r)
OrderedInsert(x, l, r) == PutAt(OrderedLookup(x, l, r), l, r)
IndexedInsert(x, l, r) == PutAt(IndexedLookup(x, l, r), l, r)

\* A row whose key changes is taken out and inserted again.
OrderedSet(x, l, row, col, val) ==
  LET changed == SetItem(l, row, col, val)
  IN  IF col < x.numKeys /\ GetItem(l, row, col) # val
      THEN OrderedInsert(x, RemoveRowsAt(changed, row, 1), RowAt(changed, row))
      ELSE changed

\* The index is not adjusted.
IndexedSet(l, row, col, val) == SetItem(l, row, col, val)

ViewSet(x, l, r, row, col, val) ==
  LET at == Place(x, l, r, row, col)
  IN  CASE x.kind = "ordered" -> State(OrderedSet(x, l, row, col, val), r, x)
        [] x.kind = "indexed" -> State(IndexedSet(l, row, col, val), r, x)
        [] OTHER -> IF at.side = "left"
                    THEN State(SetItem(l, at.row, FindProperty(l, at.prop), val), r, x)
                    ELSE State(l, SetItem(r, at.row, FindProperty(r, at.prop), val), x)

\* A slice with a limit grows and shrinks with what goes through it.
GrownSlice(x, by) == IF x.limit >= 0 THEN [x EXCEPT !.limit = @ + by] ELSE x

SliceInsert_Stays(x, l, r, pos, row, n) ==
  IF x.step # 1 THEN State(l, r, x)
  ELSE State(InsertRowsAt(l, SliceRow(x, l, pos), row, n), r, x)
SliceInsert(x, l, r, pos, row, n) ==
  IF x.step # 1 THEN State(l, r, x)
  ELSE State(InsertRowsAt(l, SliceRow(x, l, pos), row, n), r, GrownSlice(x, n))
SliceRemove(x, l, r, pos, n) ==
  IF x.step # 1 THEN State(l, r, x)
  ELSE State(RemoveRowsAt(l, SliceRow(x, l, pos), n), r, GrownSlice(x, -n))

PairInsert(x, l, r, pos, row, n) ==
  State(InsertRowsAt(l, pos, row, n), InsertRowsAt(r, pos, row, n), x)
PairRemove(x, l, r, pos, n) == State(RemoveRowsAt(l, pos, n), RemoveRowsAt(r, pos, n), x)

\* The entries of an index for rows removed go, those of later rows follow.
MapWithout_StillAfter(map, pos, n) ==
  SelectSeq(map, LAMBDA v : v < pos \/ v >= pos + n)
MapWithout(map, pos, n) ==
  LET kept == SelectSeq(map, LAMBDA v : v < pos \/ v >= pos + n)
  IN  [k \in DOMAIN kept |-> IF kept[k] >= pos THEN kept[k] - n ELSE kept[k]]

IndexedRemove(x, l, r, pos, n) ==
  State(RemoveRowsAt(l, pos, n), r, [x EXCEPT !.map = MapWithout(@, pos, n)])
OrderedRemove(x, l, r, pos, n) == State(RemoveRowsAt(l, pos, n), r, x)

ViewInsert(x, l, r, pos, row, n) ==
  CASE x.kind = "slice"   -> SliceInsert(x, l, r, pos, row, n)
    [] x.kind = "pair"    -> PairInsert(x, l, r, pos, row, n)
    [] x.kind = "ordered" -> State(OrderedInsert(x, l, row), r, x)
    [] x.kind = "indexed" -> State(IndexedInsert(x, l, row), r, x)
    [] OTHER -> State(l, r, x)

ViewRemove(x, l, r, pos, n) ==
  CASE x.kind = "slice"   -> SliceRemove(x, l, r, pos, n)
    [] x.kind = "pair"    -> PairRemove(x, l, r, pos, n)
    [] x.kind = "ordered" -> OrderedRemove(x, l, r, pos, n)
    [] x.kind = "indexed" -> IndexedRemove(x, l, r, pos, n)
    [] OTHER -> State(l, r, x)

----------------------------------------------------------------------------
\* When the rows that a viewer reads are there.
InRange(x, l, r) ==
  CASE x.kind = "slice"  -> x.first <= GetSize(l) /\ x.limit <= GetSize(l)
    [] x.kind = "remap"  -> \A i \in RowsOf(r) : RemapRow(r, i) \in RowsOf(l)
    [] x.kind = "pair"   -> GetSize(l) = GetSize(r)
    [] x.kind = "groupby" -> x.map[Len(x.map)] = GetSize(l)
    [] x.kind = "join"   -> /\ \A k \in DOMAIN x.base : x.base[k] < GetSize(l)
                            /\ \A k \in DOMAIN x.offset : x.offset[k] < GetSize(r)
    [] OTHER -> TRUE

KeyProps(x, l) == IF x.kind = "ordered" THEN SubSeq(l.props, 1, x.numKeys) ELSE x.keys

\* What a viewer follows: changes that leave what it computed as it was.
SameKeys(v, w) ==
  /\ GetSize(v) = GetSize(w)
  /\ \A i \in RowsOf(v) : \A p \in Range(Keys) : Item(v, i, p) = Item(w, i, p)

Follows(x, l, r, l2, r2) ==
  CASE x.kind \in {"groupby", "indexed"}   -> SameKeys(l, l2)
    [] x.kind = "join"                     -> l2.props = l.props /\ SameKeys(l, l2) /\ SameKeys(r, r2)
    [] x.kind \in {"product", "pair"}      -> l2.props = l.props
    [] x.kind = "ordered"                  -> l2 = l
    [] OTHER -> TRUE

InOrder(v, n) == \A i, j \in RowsOf(v) : i < j =>
                   Compare(RowAt(Project(v, SubSeq(v.props, 1, n)), i),
                           RowAt(Project(v, SubSeq(v.props, 1, n)), j)) < 0

\* The viewers that can be made.  An ordered view is made of ordered rows, and
\* the rows put in have the keys first: KeyCompare takes columns as they come.
Viewers(l, r) ==
  {NewSlice(l, s) : s \in Slices}
    \cup {NewProduct(l, r), NewRemapWith(l), NewPair(l, r), NewConcat(l),
          NewRename(l, l.props[2], NewName),
          NewGroupBy(l, Keys, CountProp), NewGroupBy(l, Keys, GroupProp),
          NewIndexed(l, Keys, TRUE), NewReadOnly(l, NoViewer)}
    \cup {NewJoin(l, r, Keys, outer) : outer \in BOOLEAN}
    \cup {NewOrdered(l, n) : n \in {k \in 1 .. NumProperties(l) : InOrder(l, k)}}
    \cup {NewReadOnly(l, NewOrdered(l, 1)) : n \in {k \in {1} : InOrder(l, k)}}

ViewsOf(props, rows, n) ==
  {[props |-> props, rows |-> s] :
     s \in BoundedSeq({item \in rows : DOMAIN item = Range(props)}, n)}

Init ==
  /\ left \in ViewsOf(LeftProps, LeftRows, MaxLeft)
  /\ right \in ViewsOf(RightProps, RightRows, MaxRight)
  /\ viewer = NoViewer
  /\ fresh = TRUE

\* Bounds on what the views may become.
Bounded(l, r) ==
  /\ GetSize(l) <= MaxLeft /\ Range(l.rows) \subseteq LeftRows
  /\ GetSize(r) <= MaxRight /\ Range(r.rows) \subseteq RightRows

MakeViewer ==
  /\ viewer = NoViewer
  /\ viewer' \in Viewers(left, right)
  /\ UNCHANGED <<left, right, fresh>>

\* Changes of the views themselves.
ChangeTo(l, r) ==
  /\ Bounded(l, r)
  /\ left' = l /\ right' = r
  /\ fresh' = (fresh /\ Follows(viewer, left, right, l, r))
  /\ UNCHANGED viewer

SetLeft ==
  \E row \in RowsOf(left), col \in 0 .. NumProperties(left) - 1, val \in ItemArgs :
    ChangeTo(SetItem(left, row, col, val), right)

InsertLeft ==
  \E pos \in 0 .. GetSize(left), row \in RowArgs, n \in 1 .. MaxCount :
    ChangeTo(InsertRowsAt(left, pos, row, n), right)

RemoveLeft ==
  \E pos \in RowsOf(left) : \E n \in 1 .. GetSize(left) - pos :
    ChangeTo(RemoveRowsAt(left, pos, n), right)

SetRight ==
  \E row \in RowsOf(right), col \in 0 .. NumProperties(right) - 1, val \in ItemArgs :
    ChangeTo(left, SetItem(right, row, col, val))

\* Changes made through the viewer.
ChangeThrough(s, followed) ==
  /\ Bounded(s.left, s.right)
  /\ left' = s.left /\ right' = s.right /\ viewer' = s.viewer
  /\ fresh' = (fresh /\ followed)

Modifiable == {"slice", "remap", "pair", "concat", "rename", "ordered", "indexed"}

Usable == viewer.kind \in Modifiable /\ InRange(viewer, left, right)

SetThrough ==
  /\ Usable
  /\ \E row \in 0 .. Size(viewer, left, right) - 1, col \in 0 .. Len(viewer.template) - 1,
        val \in ItemArgs :
       /\ Place(viewer, left, right, row, col) # Nowhere
       /\ \E s \in {ViewSet(viewer, left, right, row, col, val)} :
            ChangeThrough(s, viewer.kind = "indexed" => SameKeys(left, s.left))

InsertThrough ==
  /\ Usable
  /\ \E pos \in 0 .. Size(viewer, left, right), row \in RowArgs, n \in 1 .. MaxCount :
       /\ viewer.kind \in {"ordered", "indexed"} => IsPrefix(KeyProps(viewer, left), row.props)
       /\ \E s \in {ViewInsert(viewer, left, right, pos, row, n)} :
            ChangeThrough(s, /\ viewer.kind # "indexed"
                             /\ viewer.kind = "pair" => s.left.props = left.props)

RemoveThrough ==
  /\ Usable
  /\ \E pos \in 0 .. Size(viewer, left, right) - 1 :
       \E n \in 1 .. Size(viewer, left, right) - pos :
         \E s \in {ViewRemove(viewer, left, right, pos, n)} : ChangeThrough(s, TRUE)

Next == \/ MakeViewer
        \/ SetLeft \/ InsertLeft \/ RemoveLeft \/ SetRight
        \/ SetThrough \/ InsertThrough \/ RemoveThrough

Spec == Init /\ [][Next]_vars

----------------------------------------------------------------------------
\* What the operations mean.
Cut(item, props) == [p \in Range(props) |-> IF p \in DOMAIN item THEN item[p] ELSE Default(p)]
CutRows(rows, props) == [i \in DOMAIN rows |-> Cut(rows[i], props)]

SameBag(s, t) ==
  /\ Len(s) = Len(t)
  /\ \A item \in Range(s) : Len(SelectSeq(s, LAMBDA y : y = item))
                              = Len(SelectSeq(t, LAMBDA y : y = item))

SliceRows(x, l) ==
  LET n     == IF x.limit >= 0 THEN x.limit ELSE GetSize(l)
      k     == IF x.step < 0 THEN -x.step ELSE x.step
      taken == SelectSeq([i \in 1 .. n |-> i - 1],
                         LAMBDA i : i >= x.first /\ (i - x.first) % k = 0)
      rows  == [j \in DOMAIN taken |-> l.rows[taken[j] + 1]]
  IN  IF x.step > 0 THEN rows ELSE Reverse(rows)

ProductRows(l, r) ==
  FlattenSeq([i \in DOMAIN l.rows |-> [j \in DOMAIN r.rows |-> l.rows[i] @@ r.rows[j]]])

Partners(item, r, keys) ==
  SelectSeq(r.rows, LAMBDA other : \A p \in Range(keys) : other[p] = item[p])

JoinRows(l, r, keys, outer) ==
  FlattenSeq([i \in DOMAIN l.rows |->
    LET partners == Partners(l.rows[i], r, keys)
    IN  IF partners = << >> /\ outer THEN <<l.rows[i]>>
        ELSE [j \in DOMAIN partners |-> l.rows[i] @@ partners[j]]])

Meant(x, l, r) ==
  CASE x.kind = "slice"   -> SliceRows(x, l)
    [] x.kind = "product" -> ProductRows(l, r)
    [] x.kind = "remap"   -> [i \in DOMAIN r.rows |-> l.rows[r.rows[i][r.props[1]] + 1]]
    [] x.kind = "pair"    -> [i \in DOMAIN r.rows |-> l.rows[i] @@ r.rows[i]]
    [] x.kind = "concat"  -> l.rows \o r.rows
    [] x.kind = "rename"  -> [i \in DOMAIN l.rows |->
                                (NewName :> l.rows[i][LeftProps[2]]) @@ l.rows[i]]
    [] x.kind = "join"    -> JoinRows(l, r, x.keys, x.outer)
    [] OTHER              -> l.rows

\* The groups: in the order of their keys, each with the rows that have the key.
GroupsRight(x, l, shown) ==
  LET key(item) == Cut(item, x.keys)
      result    == x.template[Len(x.template)]
      of(item)  == SelectSeq(l.rows, LAMBDA other : key(other) = key(item))
      rest      == SelectSeq(l.props, LAMBDA p : p \notin Range(x.keys))
  IN  /\ {key(item) : item \in Range(shown)} = {key(item) : item \in Range(l.rows)}
      /\ \A i, j \in DOMAIN shown : i < j =>
           Compare([props |-> x.keys, item |-> shown[i]], [props |-> x.keys, item |-> shown[j]]) < 0
      /\ \A i \in DOMAIN shown :
           IF result = CountProp THEN shown[i][result] = Len(of(shown[i]))
           ELSE SameBag(shown[i][result].rows, CutRows(of(shown[i]), rest))

OrderKept ==
  fresh =>
    /\ viewer.kind = "ordered" =>
         \A i \in 1 .. GetSize(left) - 1 :
           LET c == Compare(RowAt(Project(left, KeyProps(viewer, left)), i - 1), RowAt(left, i))
           IN  IF viewer.numKeys = NumProperties(left) THEN c < 0 ELSE c <= 0
    /\ viewer.kind = "indexed" =>
         LET map == viewer.map
         IN  /\ Range(map) = RowsOf(left) /\ Len(map) = GetSize(left)
             /\ \A i \in 1 .. Len(map) - 1 :
                  Compare(RowAt(Project(left, viewer.keys), map[i]), RowAt(left, map[i + 1])) <= 0

\* Every viewer shows, item by item, the rows that its operation stands for,
\* as long as nothing changed that it computed when it was made: a changed
\* item, or a view that grew, shows at once; groups and joins stay right while
\* the keys stay and no row comes or goes.  Rows stay in the order of their keys
\* in a view that is changed through an ordered one, and are unique if all is
\* key; an index lists the rows in the order of its keys while rows only go.
ShowsRelation ==
  /\ viewer.kind # "none" /\ fresh /\ InRange(viewer, left, right) =>
    \E shown \in {Shown(viewer, left, right).rows} :
      CASE viewer.kind = "groupby" -> GroupsRight(viewer, left, shown)
        [] viewer.kind = "join"    ->
             SameBag(shown, CutRows(Meant(viewer, left, right), viewer.template))
        [] OTHER -> shown = CutRows(Meant(viewer, left, right), viewer.template)
  /\ OrderKept

\* The operations built from others, on the views as they are.
Concat(l, r) == Shown(NewConcat(l), l, r)
Counts(l, keys) == Shown(NewGroupBy(l, keys, CountProp), l, Nothing)
GroupBy(l, keys) == Shown(NewGroupBy(l, keys, GroupProp), l, Nothing)
Unique(l) == ProjectWithout(Counts(l, l.props), <<CountProp>>)
Union(l, r) == Unique(Concat(l, r))
WithCount(l, r, n) ==
  ProjectWithout(SelectRows(Counts(Concat(l, r), l.props), CountProp, n), <<CountProp>>)
Intersect(l, r) == WithCount(l, r, 2)
Different(l, r) == WithCount(l, r, 1)
Minus(l, r) == Intersect(l, Different(l, r))
JoinProp(l, outer) == Shown(NewJoinProp(l, GroupProp, outer), l, Nothing)
Join(l, r, outer) == Shown(NewJoin(l, r, Keys, outer), l, r)

IsSet(v) == \A i, j \in DOMAIN v.rows : v.rows[i] = v.rows[j] => i = j
RowSet(v, s) == IsSet(v) /\ Range(v.rows) = s

\* The rows of left with the rows of right that have their keys as a subview,
\* between the keys and the other properties.
Nested(l, r) ==
  [props |-> Keys \o <<GroupProp>> \o SelectSeq(l.props, LAMBDA p : p \notin Range(Keys)),
   rows  |-> [i \in DOMAIN l.rows |->
                (GroupProp :> ProjectWithout([r EXCEPT !.rows = Partners(l.rows[i], r, Keys)],
                                             Keys)) @@ l.rows[i]]]

\* Unique has every row once; on sets, Union, Intersect, Different and Minus
\* are the operations on sets.
SetsRight ==
  \E other \in {[props |-> left.props,
                 rows |-> Shown(NewRename(right, right.props[2], left.props[2]), right, Nothing).rows]} :
    LET A == Range(left.rows)
        B == Range(other.rows)
    IN  /\ RowSet(Unique(left), A)
        /\ IsSet(left) /\ IsSet(other) =>
             /\ RowSet(Union(left, other), A \cup B)
             /\ RowSet(Intersect(left, other), A \cap B)
             /\ RowSet(Different(left, other), (A \ B) \cup (B \ A))
             /\ RowSet(Minus(left, other), A \ B)

\* The views have no properties in common but the keys.
Apart(l, r) == PropsOf(l) \cap PropsOf(r) = Range(Keys)

\* JoinProp undoes GroupBy, and expanding the rows that match each row gives
\* the join with them.
JoinsAgree ==
  /\ SameBag(JoinProp(GroupBy(left, Keys), FALSE).rows, left.rows)
  /\ \A outer \in BOOLEAN :
       SameBag(CutRows(JoinProp(Nested(left, right), outer).rows, Joined(left, right)),
               Join(left, right, outer).rows)

\* The operations made of several viewers are those of relational algebra: a
\* union, intersection, difference of sets is one, joins made in two ways agree.
OperationsRight ==
  viewer.kind = "none" /\ left.props = LeftProps /\ right.props = RightProps
    /\ Apart(left, right) => SetsRight /\ JoinsAgree

\* In rows that are in order, Search finds where a row belongs, and Locate how
\* many rows match a row that has the first properties only, and where.
LocatesRight ==
  \E sorted \in {SortOn(left, << >>)} :
    \A crit \in RowArgs :
      IsPrefix(crit.props, left.props) =>
        LET lower == {i \in RowsOf(sorted) : Compare(crit, RowAt(sorted, i)) > 0}
            same  == {i \in RowsOf(sorted) : Compare(crit, RowAt(sorted, i)) = 0}
        IN  /\ Search(sorted, crit) =
                 Cardinality({i \in RowsOf(sorted) : Compare(RowAt(sorted, i), crit) < 0})
            /\ Locate(sorted, crit) = [pos |-> Cardinality(lower), count |-> Cardinality(same)]

\* Find finds the first row that matches from a row on; an ordered view whose
\* rows are all key, changed only through it, finds what a scan would find.
FindsFirst ==
  viewer.kind # "none" /\ fresh /\ InRange(viewer, left, right)
    /\ (viewer.kind = "ordered" => viewer.numKeys = NumProperties(left))
    /\ viewer.kind # "indexed" /\ (viewer.kind = "readonly" => viewer.over = NoViewer) =>
    \A crit \in RowArgs : \A start \in 0 .. Size(viewer, left, right) :
      (viewer.kind = "ordered" => IsPrefix(crit.props, left.props) ) =>
      Find(viewer, left, right, crit, start) =
        FindWithin(Shown(viewer, left, right), crit,
                   [pos |-> start, count |-> Size(viewer, left, right) - start])

\* Binary searches and those of lookups find what looking at every row finds.
SearchesRight ==
  /\ viewer.kind = "none" => LocatesRight
  /\ FindsFirst

\* What is written through a view shows in it as it would in a plain view: the
\* item, in every row that stands for the same one, the rows put in, the rows
\* taken out; nothing else in the view changes.
SameSource(x, l, r, i, j, col) ==
  Place(x, l, r, i, col) = Place(x, l, r, j, col)
WritesShow ==
  viewer.kind \in Modifiable \ {"ordered", "indexed"} /\ fresh /\ Usable =>
    \E shown \in {Shown(viewer, left, right)} :
      /\ \A row \in RowsOf(shown), col \in 0 .. Len(shown.props) - 1 : \A val \in ItemArgs :
           Place(viewer, left, right, row, col) # Nowhere =>
             LET s == ViewSet(viewer, left, right, row, col, val)
             IN  InRange(s.viewer, s.left, s.right) =>
                   Shown(s.viewer, s.left, s.right).rows =
                     [i \in DOMAIN shown.rows |->
                        IF SameSource(viewer, left, right, i - 1, row, col)
                        THEN [shown.rows[i] EXCEPT ![NthProperty(shown, col)] = val]
                        ELSE shown.rows[i]]
      /\ viewer.kind = "pair" \/ (viewer.kind = "slice" /\ viewer.step = 1) =>
           /\ \A pos \in 0 .. GetSize(shown), row \in RowArgs, n \in 1 .. MaxCount :
                LET s == ViewInsert(viewer, left, right, pos, row, n)
                IN  s.left.props = left.props =>
                      Shown(s.viewer, s.left, s.right).rows
                        = InsertRowsAt(shown, pos, [row EXCEPT !.item = Cut(@, shown.props),
                                                               !.props = shown.props], n).rows
           /\ \A pos \in RowsOf(shown) : \A n \in 1 .. GetSize(shown) - pos :
                LET s == ViewRemove(viewer, left, right, pos, n)
                IN  Shown(s.viewer, s.left, s.right).rows = RemoveRowsAt(shown, pos, n).rows
==============================================================================
