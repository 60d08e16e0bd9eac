---------------------------- MODULE DerivedViews ----------------------------
(***************************************************************************)
(* Filters and sorts derived from a view (derived.cpp), kept up to date by  *)
(* change notification (c4_Notifier, store.cpp): a sequence about to change *)
(* sends an event to the sequences that depend on it (PreChange), which     *)
(* translate it to their own row numbers and send it on; after the change   *)
(* each of them adjusts its row map (PostChange), parents first.            *)
(*                                                                         *)
(* Sequence 0 is the base view, sequence v > 0 is Views[v].  A row map      *)
(* gives the row numbers, in the parent, of the rows of a view; row numbers *)
(* count from 0, so row r is s[r + 1].  Rows inserted are copies of rows    *)
(* outside of the view.  Underscore names are faulty variants.             *)
(***************************************************************************)
EXTENDS Integers, SequencesExt

CONSTANTS Props,      \* the properties
          Rows,       \* bound: the rows, functions from properties to integers
          Views,      \* the derived views: a sequence of [parent, sorted,
                      \*   low, high (of a filter), cols, down (of a sort)]
          StartRows,  \* bound: rows in the base view when the others are derived
          MaxRows,    \* bound: rows in it when rows are set or inserted
          MaxCount    \* bound: rows inserted or removed at once

Nodes == DOMAIN Views
Dependents(v) == {w \in Nodes : Views[w].parent = v}

VARIABLES base,   \* the rows of the base view
          view    \* [map, rev, width, down] of each derived view: _rowMap,
                  \* _revMap, _width, and the columns in reverse order

vars == <<base, view>>

\* The rows of a view x with the parent's rows up.
Shown(x, up) == [i \in DOMAIN x.map |-> up[x.map[i] + 1]]

NotShown == -1
NoRow    == << >>

\* The rows of the sequences when vs are the first views and b the base view.
Contents(b, vs) ==
  LET rows[v \in 0 .. Len(vs)] ==
        IF v = 0 THEN b ELSE Shown(vs[v], rows[Views[v].parent])
  IN  rows

----------------------------------------------------------------------------
\* Events: what a c4_Notifier says of a change.
None              == [type |-> "none"]
SetEvent(i, p, x) == [type |-> "set", index |-> i, prop |-> p, value |-> x, row |-> NoRow]
SetAtEvent(i, r)  == [type |-> "setAt", index |-> i, row |-> r]
InsertEvent(i, r, n) == [type |-> "insertAt", index |-> i, row |-> r, count |-> n]
RemoveEvent(i, n) == [type |-> "removeAt", index |-> i, count |-> n]

\* What an event does to the rows of the sequence that sends it.
Changed(rows, e) ==
  LET before  == SubSeq(rows, 1, e.index)
      From(n) == SubSeq(rows, e.index + n + 1, Len(rows))
  IN  CASE e.type = "none"     -> rows
        [] e.type = "set"      -> before \o <<[rows[e.index + 1] EXCEPT ![e.prop] = e.value]>>
                                    \o From(1)
        [] e.type = "setAt"    -> before \o <<e.row>> \o From(1)
        [] e.type = "insertAt" -> before \o [k \in 1 .. e.count |-> e.row] \o From(0)
        [] e.type = "removeAt" -> before \o From(e.count)

----------------------------------------------------------------------------
\* Filters.
Limited(v, p) == p \in DOMAIN Views[v].low \cup DOMAIN Views[v].high

MatchOne(v, p, x) ==
  /\ p \in DOMAIN Views[v].low  => Views[v].low[p] <= x
  /\ p \in DOMAIN Views[v].high => x <= Views[v].high[p]

Match(v, row) == \A p \in Props : MatchOne(v, p, row[p])

\* PosInMap(index): the first entry of the map that is at or after the row.
PosInMap_After(map, index) ==
  Min({k \in 0 .. Len(map) : k = Len(map) \/ map[k + 1] > index})
PosInMap(map, index) ==
  Min({k \in 0 .. Len(map) : k = Len(map) \/ map[k + 1] >= index})

FixupReverseMap(map, n) ==
  [i \in 1 .. n |-> SelectInSeq(map, LAMBDA m : m = i - 1) - 1]

WithMap(x, map, n) == [x EXCEPT !.map = map, !.rev = FixupReverseMap(map, n)]

Shifted(map, by) == [k \in DOMAIN map |-> map[k] + by]
NewRows(e) == [k \in 1 .. e.count |-> e.index + k - 1]

\* Whether the row that an event sets is to be in the filter.
Includes(v, e, r) ==
  CASE e.type = "setAt"                        -> Match(v, e.row)
    [] e.type = "set" /\ Limited(v, e.prop)    -> MatchOne(v, e.prop, e.value)
    [] e.type = "set" /\ ~Limited(v, e.prop)   -> r # NotShown

\* Only rows that match are news.
ToldOfNew_One(v, f, e) ==
  IF Match(v, e.row) THEN InsertEvent(PosInMap(f.map, e.index), e.row, 1) ELSE None
ToldOfNew(v, f, e) ==
  IF Match(v, e.row) THEN InsertEvent(PosInMap(f.map, e.index), e.row, e.count) ELSE None

\* PreChange: the event to send on, seen before the change.
FilterPre(v, f, e) ==
  CASE e.type = "none" -> None
    [] e.type \in {"set", "setAt"} ->
         LET r == f.rev[e.index + 1]
             include == Includes(v, e, r)
         IN  CASE r # NotShown /\ ~include -> RemoveEvent(r, 1)
               [] r = NotShown /\ include  -> InsertEvent(PosInMap(f.map, e.index), e.row, 1)
               [] r # NotShown /\ include  -> [e EXCEPT !.index = r]
               [] OTHER                    -> None
    [] e.type = "insertAt" -> ToldOfNew(v, f, e)
    [] e.type = "removeAt" ->
         LET i == PosInMap(f.map, e.index)
             j == PosInMap(f.map, e.index + e.count)
         IN  IF j > i THEN RemoveEvent(i, j - i) ELSE None

\* PostChange: the map that follows from an event; up are the rows of the parent.
FilterMap(v, f, e, up) ==
  CASE e.type \in {"set", "setAt"} ->
         LET r == f.rev[e.index + 1]
             include == Includes(v, e, r)
         IN  CASE r # NotShown /\ ~include -> RemoveAt(f.map, r + 1)
               [] r = NotShown /\ include  ->
                    InsertAt(f.map, PosInMap(f.map, e.index) + 1, e.index)
               [] OTHER -> f.map
    [] e.type = "insertAt" ->
         LET i == PosInMap(f.map, e.index)
         IN  SubSeq(f.map, 1, i)
               \o (IF Match(v, up[e.index + 1]) THEN NewRows(e) ELSE << >>)
               \o Shifted(SubSeq(f.map, i + 1, Len(f.map)), e.count)
    [] e.type = "removeAt" ->
         LET i == PosInMap(f.map, e.index)
             j == PosInMap(f.map, e.index + e.count)
         IN  SubSeq(f.map, 1, i) \o Shifted(SubSeq(f.map, j + 1, Len(f.map)), -e.count)

FilterPost_NoFixup(v, f, e, up) == [f EXCEPT !.map = FilterMap(v, f, e, up)]
FilterPost(v, f, e, up) == WithMap(f, FilterMap(v, f, e, up), Len(up))

NewFilter(v, up) ==
  LET map == SelectSeq([i \in DOMAIN up |-> i - 1], LAMBDA i : Match(v, up[i + 1]))
  IN  [map |-> map, rev |-> FixupReverseMap(map, Len(up)), width |-> -1, down |-> {}]

----------------------------------------------------------------------------
\* Sorts.  Columns count from 0: the first property sorted on is column 0.
Column(v, p)  == CHOOSE n \in 0 .. Len(Views[v].cols) - 1 : Views[v].cols[n + 1] = p
NumHandlers(v) == Len(Views[v].cols)

\* The first column in which two rows differ, NumHandlers if there is none.
FirstDiff(v, x, y) ==
  Min({n \in 0 .. NumHandlers(v) :
         n = NumHandlers(v) \/ x[Views[v].cols[n + 1]] # y[Views[v].cols[n + 1]]})

\* Compare: negative, zero or positive; columns in down are in reverse order.
Order(p, x, y) == x[p] - y[p]
Compare(v, down, x, y) ==
  LET n == FirstDiff(v, x, y)
  IN  CASE n = NumHandlers(v) -> 0
        [] n \in down         -> Order(Views[v].cols[n + 1], y, x)
        [] OTHER              -> Order(Views[v].cols[n + 1], x, y)

\* LessThan(a, b) for two rows of the parent: equal rows stay in their order.
LessThan(v, down, up, a, b) ==
  LET f == Compare(v, down, up[a + 1], up[b + 1]) IN f < 0 \/ (f = 0 /\ a < b)

TestSwap(v, down, up, ar, i, j) ==
  IF LessThan(v, down, up, ar[j], ar[i])
  THEN [k \in DOMAIN ar |-> ar[CASE k = i -> j [] k = j -> i [] OTHER -> k]]
  ELSE ar

\* Two, three and four entries are compared one by one.
SortTwo(v, down, up, ar) == TestSwap(v, down, up, ar, 1, 2)
SortThree(v, down, up, ar) ==
  LET first == TestSwap(v, down, up, ar, 1, 2)
      next  == TestSwap(v, down, up, first, 2, 3)
  IN  IF LessThan(v, down, up, first[3], first[2]) THEN TestSwap(v, down, up, next, 1, 2)
      ELSE first
SortFour(v, down, up, ar) ==
  FoldLeft(LAMBDA s, ij : TestSwap(v, down, up, s, ij[1], ij[2]), ar,
           << <<1, 2>>, <<3, 4>>, <<1, 3>>, <<2, 4>>, <<2, 3>> >>)

Merge(v, down, up, left, right) ==
  LET merge[i \in 0 .. Len(left), j \in 0 .. Len(right)] ==
        CASE i = Len(left)  -> SubSeq(right, j + 1, Len(right))
          [] j = Len(right) -> SubSeq(left, i + 1, Len(left))
          [] OTHER -> IF LessThan(v, down, up, left[i + 1], right[j + 1])
                      THEN <<left[i + 1]>> \o merge[i + 1, j]
                      ELSE <<right[j + 1]>> \o merge[i, j + 1]
  IN  merge[0, 0]

\* MergeSortThis on the entries from lo to hi of the row numbers of up.
MergeSort(v, down, up) ==
  LET sort[lo \in 0 .. Len(up), hi \in 0 .. Len(up)] ==
        LET ar  == [k \in 1 .. hi - lo |-> lo + k - 1]
            mid == lo + (hi - lo) \div 2
        IN  CASE hi - lo <= 1 -> ar
              [] hi - lo = 2  -> SortTwo(v, down, up, ar)
              [] hi - lo = 3  -> SortThree(v, down, up, ar)
              [] hi - lo = 4  -> SortFour(v, down, up, ar)
              [] OTHER        -> Merge(v, down, up, sort[lo, mid], sort[mid, hi])
  IN  sort[0, Len(up)]

\* _width: the last column that decided a comparison.  The sort compared all
\* neighbours, and no other pair differs later than they do.
DecidedBy(v, up, map) ==
  {FirstDiff(v, up[map[k] + 1], up[map[k + 1] + 1]) : k \in 1 .. Len(map) - 1}

\* A view that is empty when it is sorted does not look at the reverse order.
NewSort(v, up) ==
  LET down == IF up = << >> THEN {} ELSE {Column(v, p) : p \in Views[v].down}
      map  == MergeSort(v, down, up)
  IN  [map |-> map, rev |-> FixupReverseMap(map, Len(up)),
       width |-> Max({-1} \cup DecidedBy(v, up, map)), down |-> down]

\* PosInMap(cursor): the first entry that is not before a row in the sort order.
SortedPos(v, s, map, up, row) ==
  Min({k \in 0 .. Len(map) : k = Len(map) \/ Compare(v, s.down, up[map[k + 1] + 1], row) >= 0})

\* Whether a row that was set is no longer between its neighbours.
Disrupted(v, s, up, oi, row) ==
  \/ oi > 0 /\ Compare(v, s.down, up[s.map[oi] + 1], row) > 0
  \/ oi + 1 < Len(s.map) /\ Compare(v, s.down, up[s.map[oi + 2] + 1], row) < 0

\* An entry is moved out of the way and put where the row now belongs.
Moved(v, s, up, i, rest) ==
  InsertAt(rest, SortedPos(v, s, rest, up, up[i + 1]) + 1, i)

\* New entries are put in front of the first one that is not before the row; a
\* row that comes in by a change of one property is read from the parent.
WithRows(v, s, e, up, old) ==
  LET i == SortedPos(v, s, old, up, IF e.row = NoRow THEN up[e.index + 1] ELSE e.row)
  IN  SubSeq(old, 1, i) \o NewRows(e) \o SubSeq(old, i + 1, Len(old))

SortMap(v, s, e, up) ==
  CASE e.type \in {"set", "setAt"} ->
         LET oi == s.rev[e.index + 1]
         IN  IF Disrupted(v, s, up, oi, up[e.index + 1])
             THEN Moved(v, s, up, e.index, RemoveAt(s.map, oi + 1))
             ELSE s.map
    [] e.type = "insertAt" ->
         WithRows(v, s, e, up, [k \in DOMAIN s.map |->
                    IF s.map[k] >= e.index THEN s.map[k] + e.count ELSE s.map[k]])
    [] e.type = "removeAt" ->
         LET gone == e.index .. e.index + e.count - 1
             kept == SelectSeq(s.map, LAMBDA n : n \notin gone)
         IN  [k \in DOMAIN kept |-> IF kept[k] < e.index THEN kept[k] ELSE kept[k] - e.count]

\* A change of a column that decided nothing cannot affect the order; after any
\* other change all columns count.
Matters(v, s, e) == e.type = "set" => Column(v, e.prop) <= s.width

SortPost_KeepWidth(v, s, e, up) ==
  IF Matters(v, s, e) THEN WithMap(s, SortMap(v, s, e, up), Len(up)) ELSE s
SortPost(v, s, e, up) ==
  IF Matters(v, s, e)
  THEN [WithMap(s, SortMap(v, s, e, up), Len(up)) EXCEPT !.width = NumHandlers(v)]
  ELSE s

----------------------------------------------------------------------------
\* A change of the base view: it is announced, made, and followed.  A sequence
\* that gets no event keeps its map (c4_Notifier::Notify and its destructor).  A
\* sort is told through a projection (SortOn), which passes events on unchanged.
Events(e) ==
  LET sent[v \in 0 .. Len(Views)] ==
        IF v = 0 THEN e
        ELSE IF Views[v].sorted THEN None
        ELSE FilterPre(v, view[v], sent[Views[v].parent])
  IN  sent

Follow(v, x, e, up) ==
  CASE e.type = "none"                      -> x
    [] e.type # "none" /\ Views[v].sorted  -> SortPost(v, x, e, up)
    [] e.type # "none" /\ ~Views[v].sorted -> FilterPost(v, x, e, up)

\* The views after the event, parents first.
After(e) ==
  LET sent == Events(e)
  IN  FoldLeft(LAMBDA vs, v :
                 LET up == Views[v].parent
                 IN  Append(vs, Follow(v, view[v], sent[up],
                                       Contents(Changed(base, e), vs)[up])),
               << >>, [v \in Nodes |-> v])

\* Deriving the views from a base view.
Derive(v, up) == IF Views[v].sorted THEN NewSort(v, up) ELSE NewFilter(v, up)
Derived(b) ==
  FoldLeft(LAMBDA vs, v : Append(vs, Derive(v, Contents(b, vs)[Views[v].parent])),
           << >>, [v \in Nodes |-> v])

----------------------------------------------------------------------------
Init ==
  /\ base \in UNION {[1 .. n -> Rows] : n \in 0 .. StartRows}
  /\ view = Derived(base)

Do(e) == /\ base' = Changed(base, e)
         /\ view' = After(e)

\* The calls that the base view can get.
Settable    == IF Len(base) <= MaxRows THEN 0 .. Len(base) - 1 ELSE {}
SetAtCalls  == {SetAtEvent(i, r) : i \in Settable, r \in Rows}
SetCalls    == {SetEvent(c[1], c[2], c[3][c[2]]) : c \in
                 {c \in Settable \X Props \X Rows :
                    [base[c[1] + 1] EXCEPT ![c[2]] = c[3][c[2]]] \in Rows}}
InsertCalls == {InsertEvent(i, r, n) : i \in 0 .. Len(base), r \in Rows,
                                       n \in 1 .. Min({MaxCount, MaxRows - Len(base)})}
RemoveCalls == UNION {{RemoveEvent(i, n) : n \in 1 .. Min({MaxCount, Len(base) - i})} :
                        i \in 0 .. Len(base) - 1}

SetRow      == \E e \in SetAtCalls : Do(e)
SetProperty == \E e \in SetCalls : Do(e)
InsertRows  == \E e \in InsertCalls : Do(e)
RemoveRows  == \E e \in RemoveCalls : Do(e)

Next == SetRow \/ SetProperty \/ InsertRows \/ RemoveRows

Spec == Init /\ [][Next]_vars

----------------------------------------------------------------------------
AllRows == Contents(base, view)
Filters == {v \in Nodes : ~Views[v].sorted}
Sorts   == {v \in Nodes : Views[v].sorted}

Known(e, rows) == IF e.type = "insertAt" /\ e.row = NoRow
                  THEN InsertEvent(e.index, rows[e.index + 1], e.count) ELSE e

Shows(v, up) == {i \in 0 .. Len(up) - 1 : Match(v, up[i + 1])}

\* A row map holds rows of the parent, each at most once, and the reverse map is
\* its inverse.
MapsInverse ==
  /\ base \in Seq(Rows) /\ Len(base) <= Max({StartRows, MaxRows})
  /\ \A v \in Nodes :
       LET up == AllRows[Views[v].parent]
       IN  /\ IsInjective(view[v].map)
           /\ Range(view[v].map) \subseteq 0 .. Len(up) - 1
           /\ DOMAIN view[v].rev = 1 .. Len(up)
           /\ \A i \in 1 .. Len(up) :
                IF view[v].rev[i] = NotShown THEN i - 1 \notin Range(view[v].map)
                ELSE view[v].map[view[v].rev[i] + 1] = i - 1
           /\ view[v].width \in -1 .. Len(Views[v].cols)

\* Type invariant with the maps of all views, and a filter shows every row that
\* is in range, in the order of its parent, after any changes; one that limits a
\* single property shows no other row.
FiltersFollow ==
  /\ MapsInverse
  /\ \A v \in Filters :
       LET up == AllRows[Views[v].parent]
           map == view[v].map
       IN  /\ \A i, j \in DOMAIN map : i < j => map[i] < map[j]
           /\ Shows(v, up) \subseteq Range(map)
           /\ Cardinality({p \in Props : Limited(v, p)}) = 1 => Range(map) = Shows(v, up)

\* A sort shows every row of its parent, in order, however the rows change, and
\* although most of them are not compared again (c4_SortSeq::PostChange).
SortsFollow ==
  \A v \in Sorts :
     LET up == AllRows[Views[v].parent]
         map == view[v].map
     IN  /\ Range(map) = 0 .. Len(up) - 1
         /\ \A i \in 1 .. Len(map) - 1 :
              Compare(v, view[v].down, up[map[i] + 1], up[map[i + 1] + 1]) <= 0

\* What a filter tells its dependents before a change is just what the change
\* then does to its rows: the row of an insertion may only be known afterwards.
EventsComeTrue ==
  \A e \in SetAtCalls \cup SetCalls \cup InsertCalls \cup RemoveCalls :
     LET after == Contents(Changed(base, e), After(e))
     IN  \A v \in {v \in Filters : Dependents(v) # {}} :
            after[v] = Changed(AllRows[v], Known(Events(e)[v], after[v]))
=============================================================================
