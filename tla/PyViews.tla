------------------------------- MODULE PyViews -------------------------------
(***************************************************************************)
(* The views of the Python binding (PyView.cpp, PyRowRef.cpp): a stored view *)
(* that is used as a list, the views derived from it, one from the other,  *)
(* and a reference to a row got from one of them.                          *)
(*                                                                         *)
(* A view object has a state, from which its type and that of its rows     *)
(* follow, and a base: selections and sorts give out the rows of the view  *)
(* below them, so that a row stays the same when a change moves it.  An    *)
(* object for a row is [kind, given]: a dictionary, an instance or a       *)
(* sequence, with the values it has.  Underscore names are faulty variants. *)
(***************************************************************************)
EXTENDS Views, FiniteSetsExt

LOCAL INSTANCE Bitwise

CONSTANTS Objects,    \* bound: the objects that rows are made of
          Criteria,   \* bound: [low, high] of selections
          Slices,     \* bound: [from, to] of derived slices
          Order,      \* the indices that remapwith and pair take
          MaxRows,    \* bound: rows stored
          MaxShown,   \* bound: rows stored when views are derived from them
          MaxChain    \* bound: view objects

VARIABLES rows,    \* the items of the stored view, in order
          chain,   \* the view objects, each derived from the one before it
          ref      \* a PyRowRef

vars == <<rows, chain, ref>>

Props == <<"a", "b">>
Stored == [props |-> Props, rows |-> rows]
Failed == [failed |-> TRUE]

----------------------------------------------------------------------------
\* PyView.h: what a view object may be used for.
BASE            == 0
NOTIFIABLE      == 1
MVIEWER         == 4
RWVIEWER        == 5
ROVIEWER        == 7
FINALNOTIFIABLE == 9

Immutable(state) == (state \div 2) % 2 = 1

computeState(state, target) ==
  IF (state | target) > FINALNOTIFIABLE \/ state = FINALNOTIFIABLE THEN ROVIEWER
  ELSE state | target

getTypeObject(state) ==
  CASE state \in {NOTIFIABLE, RWVIEWER, FINALNOTIFIABLE} -> "PyViewer"
    [] state = ROVIEWER                                  -> "PyROViewer"
    [] OTHER                                             -> "PyView"

\* The methods and sequence operations of the types: those that change the rows
\* are PyView's only.
ViewerMethods ==
  {"select", "sort", "sortrev", "project", "join", "groupby", "counts", "product",
   "union", "intersect", "different", "minus", "remapwith", "pair", "rename", "unique",
   "find", "filter"}
ViewMethods == ViewerMethods \cup {"map", "insert", "append", "delete", "remove"}
ViewerAsSeq == {"concat", "repeat", "item", "slice"}
ViewAsSeq   == ViewerAsSeq \cup {"setitem", "setslice"}

Offers(v, method) ==
  method \in IF getTypeObject(v.state) = "PyView" THEN ViewMethods \cup ViewAsSeq
             ELSE ViewerMethods \cup ViewerAsSeq

\* PyView(view, owner, base, state): the base of the base, when there is one;
\* 0 is no base.
NewView_NearestBase(views, op, target, kept) ==
  [op |-> op, state |-> computeState(Last(views).state, target),
   base |-> IF kept THEN Len(views) ELSE 0]
NewView(views, op, target, kept) ==
  LET base == IF kept THEN Len(views) ELSE 0
  IN  [op    |-> op,
       state |-> computeState(Last(views).state, target),
       base  |-> IF base # 0 /\ views[base].base # 0 THEN views[base].base ELSE base]

----------------------------------------------------------------------------
\* What a view object shows: a view (Views.tla) and for each row which stored
\* row it is, or -1 when it is none of them.
Shows(v, at) == [props |-> v.props, rows |-> v.rows, at |-> at]
Picked(s, map) == [s EXCEPT !.rows = [i \in DOMAIN map |-> s.rows[map[i] + 1]],
                            !.at   = [i \in DOMAIN map |-> s.at[map[i] + 1]]]
Numbers(s) == [i \in 1 .. GetSize(s) |-> i - 1]
Identity(v) == Shows(v, Numbers(v))
Built(v) == Shows(v, [i \in 1 .. GetSize(v) |-> -1])

\* Select and SelectRange.
Within(s, c, i) ==
  /\ \A p \in DOMAIN c.low  : Item(s, i, p) >= c.low[p]
  /\ \A p \in DOMAIN c.high : Item(s, i, p) <= c.high[p]
Selected(s, c) == Picked(s, SelectSeq(Numbers(s), LAMBDA i : Within(s, c, i)))

\* SortOn, SortOnReverse: all properties are keys, those in down count backward.
Sorted(s, keys) == [Picked(s, SortMap(s, keys)) EXCEPT !.props = Reordered(s, keys).props]
SortedReverse(s, down) ==
  Picked(s, SortSeq(Numbers(s), LAMBDA i, j :
    LET d == SelectInSeq(s.props, LAMBDA p : Item(s, i, p) # Item(s, j, p))
        p == s.props[d]
    IN  IF d = 0 THEN i < j
        ELSE (Item(s, i, p) < Item(s, j, p)) # (p \in down)))

Projected(s, props) == Shows(Project(s, props), s.at)

Renamed(s, old, new) ==
  LET name(p) == IF p = old THEN new ELSE p
  IN  [s EXCEPT !.props = [i \in DOMAIN @ |-> name(@[i])],
                !.rows  = [i \in DOMAIN @ |->
                             [q \in {name(p) : p \in PropsOf(s)} |->
                                @[i][IF q = new THEN old ELSE q]]]]

\* Slice: only rows that are there can be read through it.
Sliced(s, from, to) ==
  Picked(s, SelectSeq(Numbers(s), LAMBDA i : from <= i /\ i < to))

Concatenated(s, t) ==
  [props |-> s.props, at |-> s.at \o t.at,
   rows  |-> s.rows \o [i \in DOMAIN t.rows |-> [p \in PropsOf(s) |-> Item(t, i - 1, p)]]]
Repeated(s, n) == FoldLeft(LAMBDA tmp, i : Concatenated(tmp, s), s, [i \in 2 .. n |-> i])

\* RemapWith: the first property of the other view tells the rows.
Remapped(s) == Picked(s, SelectSeq(Order, LAMBDA i : i < GetSize(s)))

\* Pair: the rows side by side, as many as there are on the left.
Paired(s) ==
  [s EXCEPT !.props = Append(@, "i"),
            !.rows  = [n \in DOMAIN @ |->
                         @[n] @@ ("i" :> IF n <= Len(Order) THEN Order[n] ELSE 0)]]

\* Views whose rows are made anew, from those of s and those of the stored view:
\* sets in the order of their rows, groups, and rows joined with others.
Less(props, x, y) ==
  LET d == SelectInSeq(props, LAMBDA p : x[p] # y[p])
  IN  d # 0 /\ x[props[d]] < y[props[d]]
View(props, items) ==
  Built([props |-> props, rows |-> SetToSortSeq(items, LAMBDA x, y : Less(props, x, y))])

With(s) == Concatenated(s, Identity(Stored)).rows
Times(x, items) == Cardinality({i \in DOMAIN items : items[i] = x})
Counted(s, n) == View(s.props, {x \in Range(With(s)) : Times(x, With(s)) = n})

Unique(s)    == View(s.props, Range(s.rows))
Union(s)     == View(s.props, Range(With(s)))
Different(s) == Counted(s, 1)
Intersect(s) == Counted(s, 2)
Minus(s) ==
  LET other == Different(s).rows \o s.rows
  IN  View(s.props, {x \in Range(other) : Times(x, other) = 2})

Groups(s, key) == {item[key] : item \in Range(s.rows)}
Counts(s, key) ==
  View(<<key, "n">>, {(key :> x) @@ ("n" :> Cardinality({i \in DOMAIN s.rows : s.rows[i][key] = x}))
                        : x \in Groups(s, key)})
GroupBy(s, key) == View(<<key>>, {key :> x : x \in Groups(s, key)})  \* without the groups

BothProps(s) == s.props \o SelectSeq(Props, LAMBDA p : p \notin PropsOf(s))
Product(s) ==
  Built([props |-> BothProps(s),
         rows  |-> FlattenSeq([i \in DOMAIN s.rows |-> [j \in DOMAIN rows |-> s.rows[i] @@ rows[j]]])])
Join(s, key, outer) ==
  LET partners(item) == SelectSeq(rows, LAMBDA r : r[key] = item[key])
      none == <<[p \in Range(Props) |-> 0]>>
      with(item) == IF partners(item) = << >> /\ outer THEN none ELSE partners(item)
      sorted == Sorted(s, <<key>>).rows
  IN  Built([props |-> BothProps(s),
             rows  |-> FlattenSeq([i \in DOMAIN sorted |->
                         [j \in DOMAIN with(sorted[i]) |-> sorted[i] @@ with(sorted[i])[j]]])])

\* The view of one object, from the one that its parent shows.
Derived(s, op) ==
  CASE op.kind = "select"    -> Selected(s, op)
    [] op.kind = "sort"      -> Sorted(s, op.keys)
    [] op.kind = "sortrev"   -> SortedReverse(s, op.down)
    [] op.kind = "project"   -> Projected(s, op.props)
    [] op.kind = "rename"    -> Renamed(s, "a", "c")
    [] op.kind = "slice"     -> Sliced(s, op.from, op.to)
    [] op.kind = "concat"    -> Concatenated(s, Identity(Stored))
    [] op.kind = "repeat"    -> Repeated(s, op.times)
    [] op.kind = "remapwith" -> Remapped(s)
    [] op.kind = "pair"      -> Paired(s)
    [] op.kind = "unique"    -> Unique(s)
    [] op.kind = "union"     -> Union(s)
    [] op.kind = "intersect" -> Intersect(s)
    [] op.kind = "different" -> Different(s)
    [] op.kind = "minus"     -> Minus(s)
    [] op.kind = "counts"    -> Counts(s, "b")
    [] op.kind = "groupby"   -> GroupBy(s, "b")
    [] op.kind = "product"   -> Product(s)
    [] op.kind = "join"      -> Join(s, "b", op.outer)

\* Objects first + 1 to last, one derived from the other, over what first shows.
ShownOver(s, first, last) ==
  FoldLeft(LAMBDA t, k : Derived(t, chain[k].op), s, [i \in 1 .. last - first |-> first + i])
Shown(k) == ShownOver(Identity(Stored), 1, k)

----------------------------------------------------------------------------
\* Rows from objects.  makeRow: [props, item], or Failed.
Given(obj) == {p \in Range(Props) : p \in DOMAIN obj.given}
makeRow(obj, useDefaults) ==
  LET filled == useDefaults /\ obj.kind \in {"instance", "none"}
      used == IF filled THEN Range(Props) ELSE Given(obj)
  IN  IF \/ obj.kind = "sequence" /\ Cardinality(DOMAIN obj.given) > Len(Props)
         \/ ~useDefaults /\ used = {}
      THEN Failed
      ELSE [props |-> SelectSeq(Props, LAMBDA p : p \in used),
            item  |-> [p \in used |-> IF p \in Given(obj) THEN obj.given[p] ELSE 0]]

\* A row of a view as [props, item]; rows without columns are as if clear.
insertAt(v, i, obj) ==
  LET row == makeRow(obj, TRUE)
  IN  IF row = Failed THEN Failed ELSE InsertRowsAt(v, i, row, 1)
insertView(v, i, items) ==
  FoldLeft(LAMBDA w, k : SetAt(w, i + k - 1, [props |-> Props, item |-> items[k]]),
           InsertRowsAt(v, i, [props |-> << >>, item |-> << >>], Len(items)),
           [k \in DOMAIN items |-> k])

setItem(v, i, obj) ==
  LET row == makeRow(obj, FALSE)
  IN  IF row = Failed THEN Failed ELSE SetAt(v, i, row)

\* sq_item and its like are called with a negative index that the length was
\* added to; then the methods adjust an index that is still negative.
Adjusted(v, i) == IF i < 0 THEN i + GetSize(v) ELSE i
Clamped(v, e)  == IF e > GetSize(v) THEN GetSize(v) ELSE e

\* insert: past the ends counts as at the ends.
InsertPlace(v, i) ==
  IF i < 0 THEN Max({0, i + GetSize(v)}) ELSE Min({i, GetSize(v)})

\* setSlice: rows are set, then inserted, as long as objects make rows; what is
\* left of the slice is removed.  (Views with a base do not get here.)
SliceStep(v, s, e, obj) == IF s < e THEN setItem(v, s, obj) ELSE insertAt(v, s, obj)
setSlice_FromStart(v, from, to, objs) ==
  LET s    == Adjusted(v, from)
      e    == Clamped(v, Adjusted(v, to))
      put  == FoldLeft(LAMBDA w, k : SliceStep(w, s + k - 1, e, objs[k]), v, [k \in DOMAIN objs |-> k])
  IN  IF s + Len(objs) < e THEN RemoveRowsAt(put, s, e - s - Len(objs)) ELSE put
setSlice(v, from, to, objs) ==
  LET s    == Adjusted(v, from)
      e    == Clamped(v, Adjusted(v, to))
      bad  == SelectInSeq([k \in DOMAIN objs |-> makeRow(objs[k], s + k - 1 >= e)],
                          LAMBDA row : row = Failed)
      n    == IF bad = 0 THEN Len(objs) ELSE bad - 1
      put  == FoldLeft(LAMBDA w, k : SliceStep(w, s + k - 1, e, objs[k]), v, [k \in 1 .. n |-> k])
  IN  IF bad = 0 /\ s + n < e THEN RemoveRowsAt(put, s + n, e - s - n) ELSE put

delete(v, i) == setSlice(v, i, i + 1, << >>)

\* map(func): func is called with each row, by number, and may change it.
Applied(v, i, f) == IF Item(v, i, f.p) = f.from THEN SetItem(v, i, FindProperty(v, f.p), f.to) ELSE v
map(v, f) == FoldLeft(LAMBDA w, k : Applied(w, k - 1, f), v, [k \in 1 .. GetSize(v) |-> k])

\* filter(func): the numbers of the rows for which it holds.
filter(v, p, x) == SelectSeq(Numbers(v), LAMBDA i : Item(v, i, p) = x)

\* find(crit, start): the first row with the values given, from start on.
find(v, obj, start) ==
  FindWithin(v, makeRow(obj, FALSE), [pos |-> start, count |-> GetSize(v) - start])

\* remove(indices): sorted, from the last to the first.
remove_Upward(v, numbers) ==
  FoldLeft(LAMBDA w, i : RemoveRowsAt(w, i, 1), v, SetToSortSeq(Range(numbers), <))
remove(v, numbers) ==
  FoldLeft(LAMBDA w, i : RemoveRowsAt(w, i, 1), v, SetToSortSeq(Range(numbers), >))

----------------------------------------------------------------------------
\* The stored view, on which the list methods work; nothing derived yet.
NoRef == [from |-> 0]
StoredView == [op |-> [kind |-> "stored"], state |-> BASE, base |-> 0]

Init == rows = NoRows /\ chain = <<StoredView>> /\ ref = NoRef

\* Derived views: methods of the last view object.
Derive(op, target, kept) ==
  /\ Offers(Last(chain), op.kind)
  /\ Len(rows) <= MaxShown /\ Len(chain) < MaxChain
  /\ chain' = Append(chain, NewView(chain, op, target, kept))
  /\ UNCHANGED <<rows, ref>>

\* Criteria on properties that the view does not have are not used (makeRow).
Usable(c) == DOMAIN c.low \cup DOMAIN c.high \subseteq PropsOf(Shown(Len(chain)))

select  == \E c \in {c \in Criteria : Usable(c)} : Derive([kind |-> "select"] @@ c, NOTIFIABLE, TRUE)
sort    == \E keys \in {<<"b">>, << >>} : Derive([kind |-> "sort", keys |-> keys], FINALNOTIFIABLE, TRUE)
sortrev == \E down \in {{"b"}, {}} : Derive([kind |-> "sortrev", down |-> down], FINALNOTIFIABLE, FALSE)
project == \E ps \in {<<"b">>, <<"b", "a">>} : Derive([kind |-> "project", props |-> ps], NOTIFIABLE, FALSE)

\* Operations with another view take the stored one, where both have the same
\* properties.
Other(kind, target) == Derive([kind |-> kind], target, FALSE)

SameProps == PropsOf(Shown(Len(chain))) = Range(Props)
HasB      == "b" \in PropsOf(Shown(Len(chain)))

rename    == "a" \in PropsOf(Shown(Len(chain))) /\ Other("rename", RWVIEWER)
concat    == SameProps /\ Other("concat", RWVIEWER)
repeat    == Derive([kind |-> "repeat", times |-> 2], RWVIEWER, FALSE)
remapwith == Other("remapwith", RWVIEWER)
pair      == "i" \notin PropsOf(Shown(Len(chain))) /\ Other("pair", MVIEWER)
unique    == Other("unique", ROVIEWER)
union     == SameProps /\ Other("union", ROVIEWER)
intersect == SameProps /\ Other("intersect", ROVIEWER)
different == SameProps /\ Other("different", ROVIEWER)
minus     == SameProps /\ Other("minus", ROVIEWER)
counts    == HasB /\ Other("counts", ROVIEWER)
groupby   == HasB /\ Other("groupby", ROVIEWER)
product   == Other("product", ROVIEWER)
join      == HasB /\ \E outer \in BOOLEAN :
                       Derive([kind |-> "join", outer |-> outer], ROVIEWER, FALSE)

\* getSlice: when nothing is in the slice, a new view of the same structure.
getSlice ==
  \E c \in Slices :
    LET v == Shown(Len(chain))
        s == Adjusted(v, c.from)
        e == Clamped(v, Adjusted(v, c.to))
    IN  /\ s >= 0 /\ s < GetSize(v) /\ e > s
        /\ Derive([kind |-> "slice", from |-> s, to |-> e], RWVIEWER, FALSE)

Derivation == \/ select \/ sort \/ sortrev \/ project \/ rename \/ concat \/ repeat
              \/ remapwith \/ pair \/ unique \/ union \/ intersect \/ different \/ minus
              \/ counts \/ groupby \/ product \/ join \/ getSlice

----------------------------------------------------------------------------
\* getItem(i) of object k.  The row is that of the base if there is one.
RowOf(k, index, meant) ==
  [view |-> k, from |-> k, index |-> index, meant |-> meant,
   immutable |-> Immutable(chain[k].state)]
GetIndexOf(base, k, index) == ShownOver(Identity(Shown(base)), base, k).at[index + 1]
getItem_NotMapped(k, i) == RowOf(k, Adjusted(Shown(k), i), Shown(k).at[Adjusted(Shown(k), i) + 1])
getItem(k, i) ==
  LET index == Adjusted(Shown(k), i)
      row   == RowOf(k, index, Shown(k).at[index + 1])
      base  == chain[k].base
  IN  IF base # 0 /\ ~row.immutable /\ GetIndexOf(base, k, index) >= 0
      THEN [row EXCEPT !.from = base, !.index = GetIndexOf(base, k, index)]
      ELSE row

TakeRow ==
  /\ ref = NoRef
  /\ \E k \in DOMAIN chain : \E i \in -GetSize(Shown(k)) .. GetSize(Shown(k)) - 1 :
       \E r \in {getItem(k, i)} : ref' = r
  /\ UNCHANGED <<rows, chain>>

\* setattr: one item of the row, through the view it is in; a deleted attribute
\* is clear.  Only the properties of the stored view are set here, and only
\* rows that are there.
Origin(p) == IF p = "c" THEN "a" ELSE p
At(s, i) == s.at[i + 1]

setattr ==
  /\ ref # NoRef
  /\ ~ref.immutable
  /\ \E s \in {Shown(ref.from)} :
       /\ ref.index < GetSize(s)
       /\ At(s, ref.index) >= 0
       /\ \E p \in PropsOf(s), x \in {0, 1} :
            /\ Origin(p) \in Range(Props)
            /\ rows' = [rows EXCEPT ![At(s, ref.index) + 1][Origin(p)] = x]
  /\ UNCHANGED <<chain, ref>>

Forget == ref # NoRef /\ ref' = NoRef /\ UNCHANGED <<rows, chain>>

----------------------------------------------------------------------------
\* The list methods of the stored view.  Those that keep the number of rows
\* leave the views and the row alone; with the others, the program lets go of
\* them (DerivedViews.tla is about views that live on).
Keeping(v) == rows' = v.rows /\ UNCHANGED <<chain, ref>>
Changing(v) ==
  /\ Len(v.rows) <= MaxRows
  /\ rows' = v.rows /\ chain' = <<StoredView>> /\ ref' = NoRef

Alone == Len(chain) = 1 /\ ref = NoRef
Places == 0 .. Len(rows) - 1
Funcs == [p : Range(Props), from : {0, 1}, to : {0, 1}]

setitem ==
  \E i \in Places, obj \in Objects :
    \E v \in {setItem(Stored, i, obj)} : v # Failed /\ Keeping(v)
applymap == \E f \in Funcs : \E v \in {map(Stored, f)} : Keeping(v)

insert ==
  Alone /\ \E i \in -1 - Len(rows) .. Len(rows) + 1, obj \in Objects :
    \E v \in {insertAt(Stored, InsertPlace(Stored, i), obj)} : v # Failed /\ Changing(v)
append ==
  Alone /\ \E obj \in Objects :
    \E v \in {insertAt(Stored, Len(rows), obj)} : v # Failed /\ Changing(v)
deleterow ==
  Alone /\ \E i \in Places : \E v \in {delete(Stored, i)} : Changing(v)
setslice ==
  Alone /\ \E s \in 0 .. Len(rows), e \in 0 .. Len(rows), x, y \in Objects :
    \E objs \in {<< >>, <<x>>, <<x, y>>} :
      \E v \in {setSlice(Stored, s, e, objs)} : Changing(v)
removerows ==
  Alone /\ \E p \in Range(Props), x \in {0, 1} :
    \E v \in {remove(Stored, filter(Stored, p, x))} : Changing(v)

Next == \/ Derivation
        \/ TakeRow \/ setattr \/ Forget
        \/ setitem \/ applymap
        \/ insert \/ append \/ deleterow \/ setslice \/ removerows

Spec == Init /\ [][Next]_vars

----------------------------------------------------------------------------
\* What is in a view depends on items that may be set.
ByValue == {"select", "sort", "sortrev"}
\* Selections and sorts of a view whose own rows stay where they are.
Steady(k) ==
  \E b \in 1 .. k : /\ \A j \in 2 .. b : chain[j].op.kind \notin ByValue
                    /\ \A j \in b + 1 .. k : chain[j].op.kind \in {"select", "sort"}

\* Rows that can be set: each is a stored row, never one that a view has built;
\* and one that was got from a selection or a sort stays the row it was, however
\* it is moved in it or out of it (PyView::getItem, the constructor, computeState).
RefsDenoteRows ==
  ref # NoRef /\ ~ref.immutable =>
    LET s == Shown(ref.from)
    IN  /\ ref.index < GetSize(s) => At(s, ref.index) # -1
        /\ Steady(ref.view) => ref.index < GetSize(s) /\ At(s, ref.index) = ref.meant

\* A list of the stored items, in which s:e is replaced.
Replaced(s, e, items) ==
  LET n    == Len(rows)
      at(i) == Max({0, Min({n, IF i < 0 THEN i + n ELSE i})})
  IN  SubSeq(rows, 1, at(s)) \o items \o SubSeq(rows, Max({at(s), at(e)}) + 1, n)

Full(obj) == [p \in Range(Props) |-> IF p \in DOMAIN obj.given THEN obj.given[p] ELSE 0]
Good == {obj \in Objects : makeRow(obj, FALSE) # Failed}

SlicesRight ==
  \A s, e \in -Len(rows) .. Len(rows), x, y \in Good : \A objs \in {<< >>, <<x>>, <<x, y>>} :
    setSlice(Stored, s, e, objs).rows = Replaced(s, e, [k \in DOMAIN objs |-> Full(objs[k])])

InsertsRight ==
  \A i \in -1 - Len(rows) .. Len(rows) + 1, x, y \in Good :
    LET at == InsertPlace(Stored, i)
    IN  /\ insertAt(Stored, at, x).rows = Replaced(i, i, <<Full(x)>>)
        /\ insertView(Stored, at, <<Full(x), Full(y)>>).rows = Replaced(i, i, <<Full(x), Full(y)>>)

RemovesRight ==
  /\ \A i \in Places : delete(Stored, i).rows = Replaced(i, i + 1, << >>)
  /\ \A p \in Range(Props), x \in {0, 1} :
       remove(Stored, filter(Stored, p, x)).rows = SelectSeq(rows, LAMBDA item : item[p] # x)

MapsRight ==
  \A f \in Funcs : map(Stored, f).rows =
    [i \in DOMAIN rows |-> IF rows[i][f.p] = f.from THEN [rows[i] EXCEPT ![f.p] = f.to] ELSE rows[i]]

\* find, with the first row at start or after it that select would take.
FindsSelected ==
  \A p \in Range(Props), x \in {0, 1}, start \in 0 .. Len(rows) :
    LET taken == SelectSeq(filter(Stored, p, x), LAMBDA i : i >= start)
    IN  find(Stored, [kind |-> "dict", given |-> p :> x], start) =
          IF taken = << >> THEN -1 ELSE Head(taken)

\* Only a view in which every row is the stored one at that place is a list.
ListsAreStored ==
  \A k \in DOMAIN chain :
    (\E method \in (ViewMethods \ ViewerMethods) \cup (ViewAsSeq \ ViewerAsSeq) :
        Offers(chain[k], method)) => Shown(k).at = Numbers(Stored)

\* The stored view behaves as a list for every place and slice that lies in it
\* (python.html, "View implements sequence (list) methods"): slices are replaced
\* by fewer or more rows, places may count from the end, and map, filter,
\* remove and find go over each row once.  What the methods do depends on the
\* rows only, so it is enough to look when there is no other view; and no other
\* view than one with the same rows has these methods.
BehavesAsList ==
  /\ ListsAreStored
  /\ Alone => SlicesRight /\ InsertsRight /\ RemovesRight /\ MapsRight /\ FindsSelected
==============================================================================
