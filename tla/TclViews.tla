------------------------------ MODULE TclViews ------------------------------
(***************************************************************************)
(* View objects in Tcl (mk4too.cpp), and mk::select (mk4tcl.cpp): commands  *)
(* named after views, here one for each of the two views of CustomViews and *)
(* one, derived, for what mk::view makes of them.                          *)
(*                                                                         *)
(* A command gets the state [left, right, viewer] and returns the state and *)
(* whether it failed.  End is the index "end", Bad a text that is no number; *)
(* arguments "prop value ..." are [pairs, odd], odd if a value is missing.  *)
(* A criterion of select is [id, props, crit].                             *)
(***************************************************************************)
EXTENDS CustomViews

CONSTANTS Indices,     \* bound: the indices given to a command
          Arguments,   \* bound: the property and value pairs given to one
          Conditions,  \* bound: the criteria of a select, in order
          Sortings,    \* bound: what a select is sorted on, [by, down]
          Limits,      \* bound: -first and -count
          IntBits      \* the bits of an int (32 in the code)

End == 100
Bad == 200

ASSUME TclViewsAssumption ==
  /\ Indices \subseteq Int /\ Limits \subseteq Int /\ IntBits \in Nat \ {0}
  /\ MaxLeft < End /\ MaxRight < End /\ Bad \notin ItemArgs
  /\ \A s \in Sortings : Range(s.down) \subseteq Range(s.by)

----------------------------------------------------------------------------
\* The views behind the commands.
ViewOf(cmd, s) ==
  CASE cmd = "left"    -> s.left
    [] cmd = "right"   -> s.right
    [] cmd = "derived" -> Shown(s.viewer, s.left, s.right)

SizeOf(cmd, s) ==
  CASE cmd = "left"    -> GetSize(s.left)
    [] cmd = "right"   -> GetSize(s.right)
    [] cmd = "derived" -> Size(s.viewer, s.left, s.right)

InsertInto(cmd, s, pos, row, n) ==
  CASE cmd = "left"    -> State(InsertRowsAt(s.left, pos, row, n), s.right, s.viewer)
    [] cmd = "right"   -> State(s.left, InsertRowsAt(s.right, pos, row, n), s.viewer)
    [] cmd = "derived" -> ViewInsert(s.viewer, s.left, s.right, pos, row, n)

RemoveFrom(cmd, s, pos, n) ==
  CASE cmd = "left"    -> State(RemoveRowsAt(s.left, pos, n), s.right, s.viewer)
    [] cmd = "right"   -> State(s.left, RemoveRowsAt(s.right, pos, n), s.viewer)
    [] cmd = "derived" -> ViewRemove(s.viewer, s.left, s.right, pos, n)

\* A viewer that cannot set the item does nothing.
Settable(s, row, col) ==
  /\ s.viewer.kind \in Modifiable
  /\ Place(s.viewer, s.left, s.right, row, col) # Nowhere

SetAlone(v, row, p, val) ==
  LET w == AddProperty(v, p) IN SetItem(w, row, FindProperty(w, p), val)

SetIn(cmd, s, row, p, val) ==
  LET col == SelectInSeq(s.viewer.template, LAMBDA q : q = p) - 1
  IN  CASE cmd = "left"    -> State(SetAlone(s.left, row, p, val), s.right, s.viewer)
        [] cmd = "right"   -> State(s.left, SetAlone(s.right, row, p, val), s.viewer)
        [] cmd = "derived" /\ Settable(s, row, col)
             -> ViewSet(s.viewer, s.left, s.right, row, col, val)
        [] OTHER -> s

----------------------------------------------------------------------------
\* Arguments.
Returns(s) == [state |-> s, failed |-> FALSE]
Fails(s)   == [state |-> s, failed |-> TRUE]

asIndex(n, i, mayExceed) ==
  CASE i = End /\ mayExceed  -> n
    [] i = End /\ ~mayExceed -> n - 1
    [] OTHER -> i
InBounds(n, i, mayExceed) ==
  asIndex(n, i, mayExceed) \in 0 .. (IF mayExceed THEN n ELSE n - 1)

\* SetValues: nothing is set when a value is missing, else the pairs before the
\* first one that is no number.
Wrong(args) == args.odd \/ \E k \in DOMAIN args.pairs : args.pairs[k].value = Bad
Taken(args) ==
  LET bad == SelectInSeq(args.pairs, LAMBDA pair : pair.value = Bad)
  IN  CASE args.odd              -> << >>
        [] ~args.odd /\ bad # 0  -> SubSeq(args.pairs, 1, bad - 1)
        [] OTHER                 -> args.pairs

WithValue(row, p, val) ==
  [props |-> IF Contains(row.props, p) THEN row.props ELSE Append(row.props, p),
   item  |-> (p :> val) @@ row.item]
EmptyRow == [props |-> << >>, item |-> << >>]
RowFrom(pairs) ==
  FoldLeft(LAMBDA row, pair : WithValue(row, pair.prop, pair.value), EmptyRow, pairs)

----------------------------------------------------------------------------
\* Commands that change rows.
DeleteCmd(cmd, s, from, to) ==
  LET n     == SizeOf(cmd, s)
      first == asIndex(n, from, TRUE)
      upto  == asIndex(n, to, TRUE)
      count == IF upto - first + 1 > n - first THEN n - first ELSE upto - first + 1
  IN  CASE ~InBounds(n, from, TRUE) \/ ~InBounds(n, to, TRUE) -> Fails(s)
        [] InBounds(n, from, TRUE) /\ InBounds(n, to, TRUE) /\ count >= 1
             -> Returns(RemoveFrom(cmd, s, first, count))
        [] OTHER -> Returns(s)

\* A row is put in whatever the arguments are, and taken out if they are wrong.
InsertCmd_RowLeft(cmd, s, at, args) ==
  LET n   == SizeOf(cmd, s)
      pos == asIndex(n, at, TRUE)
      t   == InsertInto(cmd, s, pos, RowFrom(Taken(args)), 1)
  IN  CASE ~InBounds(n, at, TRUE) -> Fails(s)
        [] InBounds(n, at, TRUE) /\ Wrong(args) -> Fails(t)
        [] OTHER -> Returns(t)
InsertCmd(cmd, s, at, args) ==
  LET n   == SizeOf(cmd, s)
      pos == asIndex(n, at, TRUE)
      t   == InsertInto(cmd, s, pos, RowFrom(Taken(args)), 1)
  IN  CASE ~InBounds(n, at, TRUE) -> Fails(s)
        [] InBounds(n, at, TRUE) /\ Wrong(args) -> Fails(RemoveFrom(cmd, t, pos, 1))
        [] OTHER -> Returns(t)

\* One value after the other, in the row that is at the index by then.
SetCmd(cmd, s, at, args) ==
  LET n   == SizeOf(cmd, s)
      row == asIndex(n, at, FALSE)
      t   == FoldLeft(LAMBDA u, pair : SetIn(cmd, u, row, pair.prop, pair.value), s, Taken(args))
  IN  CASE ~InBounds(n, at, FALSE) -> Fails(s)
        [] InBounds(n, at, FALSE) /\ Wrong(args) -> Fails(t)
        [] OTHER -> Returns(t)

SizeCmd(cmd, s, size) ==
  LET n == SizeOf(cmd, s)
  IN  CASE size > n -> Returns(InsertInto(cmd, s, n, EmptyRow, size - n))
        [] size < n -> Returns(RemoveFrom(cmd, s, size, n - size))
        [] OTHER    -> Returns(s)

----------------------------------------------------------------------------
\* Commands that look for rows.  RangeOf is where the rows with a key are: only
\* custom views look it up.
RangeOf(cmd, s, crit, range) ==
  IF cmd = "derived" THEN SearchRange(s.viewer, s.left, s.right, crit, range.pos, range.count)
  ELSE range

FindCmd(cmd, s, v, pairs) ==
  FindWithin(v, RowFrom(pairs), RangeOf(cmd, s, RowFrom(pairs), Everything(v)))

\* The difference of two integers, as an int; -1 is "not found".
AsInt(d) ==
  LET half == 2 ^ (IntBits - 1) IN ((d + half) % (2 * half)) - half

SearchCmd_Exclusive(v, p, val) ==
  LET size == GetSize(v)
      step[first \in 0 .. size + 1, last \in -1 .. size] ==
        LET row == (first + last) \div 2
            rc  == AsInt(val - Item(v, row, p))
        IN  CASE first >= last \/ row >= size -> -1
              [] first < last /\ row < size /\ rc = 0 -> row
              [] first < last /\ row < size /\ rc > 0 -> step[row + 1, last]
              [] OTHER -> step[first, row - 1]
  IN  step[0, size]
SearchCmd(v, p, val) ==
  LET size == GetSize(v)
      step[first \in 0 .. size + 1, last \in -1 .. size] ==
        LET row == (first + last) \div 2
            rc  == AsInt(val - Item(v, row, p))
        IN  CASE first > last \/ row >= size -> -1
              [] first <= last /\ row < size /\ rc = 0 -> row
              [] first <= last /\ row < size /\ rc > 0 -> step[row + 1, last]
              [] OTHER -> step[first, row - 1]
  IN  step[0, size]

----------------------------------------------------------------------------
\* mk::select.  A typed criterion ("prop value", -min and -max) is compared with
\* each property of its list, and the last one decides; others are met by any.
Typed == {"is", "min", "max"}
Compares(id, crit, x) ==
  CASE id = "is"  -> crit = x
    [] id = "min" -> crit <= x
    [] id = "max" -> crit >= x

MatchOneString(id, crit, x) == IF id = "exact" THEN x = crit ELSE x \in crit

Matched(v, i, cond) ==
  IF cond.id \in Typed
  THEN cond.crit # Bad /\ Compares(cond.id, cond.crit, Item(v, i, Last(cond.props)))
  ELSE \E p \in Range(cond.props) : MatchOneString(cond.id, cond.crit, Item(v, i, p))

Match(v, i, conds) == \A k \in DOMAIN conds : Matched(v, i, conds[k])

\* The values that all rows found must have.
ExactKeyProps_MinToo(conds) ==
  LET exact == SelectSeq(conds, LAMBDA c : c.id \in {"is", "exact", "min"} /\ c.crit # Bad)
  IN  FoldLeft(LAMBDA row, c : FoldLeft(LAMBDA r, p : WithValue(r, p, c.crit), row, c.props),
               EmptyRow, exact)
ExactKeyProps(conds) ==
  LET exact == SelectSeq(conds, LAMBDA c : c.id \in {"is", "exact"} /\ c.crit # Bad)
  IN  FoldLeft(LAMBDA row, c : FoldLeft(LAMBDA r, p : WithValue(r, p, c.crit), row, c.props),
               EmptyRow, exact)

\* The rows to look at and how many to find; then those that match.
SelectRange(cmd, s, conds, first, count) ==
  LET n     == SizeOf(cmd, s)
      from  == IF first < 0 THEN 0 ELSE IF first > n THEN n ELSE first
      most  == IF count < 0 THEN n ELSE count
      range == [pos |-> from, count |-> IF from + most > n THEN n - from ELSE most]
      exact == ExactKeyProps(conds)
  IN  IF exact.props = << >> THEN range
      ELSE RangeOf(cmd, s, exact, range)

Selection(cmd, s, v, conds, first, count) ==
  LET range == SelectRange(cmd, s, conds, first, count)
      found == SelectSeq([k \in 1 .. GetSize(v) - range.pos |-> range.pos + k - 1],
                         LAMBDA i : Match(v, i, conds))
  IN  SubSeq(found, 1, IF Len(found) < range.count THEN Len(found) ELSE range.count)

\* SortOnReverse: all properties count, those to sort by first, and those in down
\* backward; rows that are equal stay in the order found.
SortedBefore(v, sorting, i, j) ==
  LET props == sorting.by \o SelectSeq(v.props, LAMBDA p : ~Contains(sorting.by, p))
      d     == SelectInSeq(props, LAMBDA p : Item(v, i, p) # Item(v, j, p))
      p     == props[d]
  IN  d # 0 /\ ((Item(v, i, p) < Item(v, j, p)) # Contains(sorting.down, p))

SortedOn(v, sorting, found) ==
  SortSeq(found, LAMBDA i, j : \/ SortedBefore(v, sorting, i, j)
                               \/ ~SortedBefore(v, sorting, j, i) /\ i < j)

DoSelect(cmd, s, v, conds, first, count, sorting) ==
  LET found == Selection(cmd, s, v, conds, first, count)
  IN  IF sorting.by = << >> THEN found ELSE SortedOn(v, sorting, found)

----------------------------------------------------------------------------
\* mk::view: what the derived view is made of; range has indices of both ends.
RangeCmd(s, from, to, step) ==
  LET n == GetSize(s.left)
  IN  IF InBounds(n, from, FALSE) /\ InBounds(n, to, FALSE)
      THEN {NewSlice(s.left, [first |-> asIndex(n, from, FALSE),
                              limit |-> asIndex(n, to, FALSE) + 1, step |-> step])}
      ELSE {}
ConcatCmd(s)   == NewConcat(s.left)
GroupByCmd(s)  == NewGroupBy(s.left, Keys, GroupProp)
IndexedCmd(s)  == NewIndexed(s.left, Keys, TRUE)
JoinCmd(s)     == NewJoin(s.left, s.right, Keys, FALSE)
MapCmd(s)      == NewRemapWith(s.left)
OrderedCmd(s, n) == NewOrdered(s.left, n)
PairCmd(s)     == NewPair(s.left, s.right)
ProductCmd(s)  == NewProduct(s.left, s.right)
ReadOnlyCmd(s) == NewReadOnly(s.left, NoViewer)
RenameCmd(s)   == NewRename(s.left, s.left.props[2], NewName)

ViewCmd(s) ==
  UNION {RangeCmd(s, from, to, step) : from \in Indices, to \in Indices, step \in {1, -1}}
    \cup {ConcatCmd(s), GroupByCmd(s), IndexedCmd(s), JoinCmd(s), MapCmd(s), PairCmd(s),
          ProductCmd(s), ReadOnlyCmd(s), RenameCmd(s)}
    \cup {OrderedCmd(s, n) : n \in {k \in 1 .. NumProperties(s.left) : InOrder(s.left, k)}}

----------------------------------------------------------------------------
Now == State(left, right, viewer)

Commands ==
  {"left", "right"}
    \cup (IF viewer # NoViewer /\ InRange(viewer, left, right) THEN {"derived"} ELSE {})

LooksUp(cmd) == cmd = "derived" /\ viewer.kind \in {"ordered", "indexed"}

\* Ordered and indexed views take no wrong arguments and one value at a time, as
\* rows move; rows are put in with their keys in front.
Accepts(cmd, args) ==
  LooksUp(cmd) => ~Wrong(args) /\ IsPrefix(KeyProps(viewer, left), RowFrom(args.pairs).props)
TakesAll(cmd, args) == LooksUp(cmd) => ~Wrong(args) /\ Len(args.pairs) = 1
PropsIn(cmd) == CASE cmd = "left"    -> PropsOf(left)
                  [] cmd = "right"   -> PropsOf(right)
                  [] cmd = "derived" -> Range(viewer.template)
Has(cmd, pairs) == \A k \in DOMAIN pairs : pairs[k].prop \in PropsIn(cmd)

\* A command is given; what a viewer computed when it was made may be out of date then.
Execute(cmd, outcome) ==
  /\ Bounded(outcome.state.left, outcome.state.right)
  /\ left' = outcome.state.left /\ right' = outcome.state.right
  /\ viewer' = outcome.state.viewer
  /\ fresh' = (fresh /\ IF cmd = "derived"
                         THEN viewer.kind = "indexed" => SameKeys(left, outcome.state.left)
                         ELSE Follows(viewer, left, right, outcome.state.left, outcome.state.right))

Delete == \E cmd \in Commands, from, to \in Indices :
            \E outcome \in {DeleteCmd(cmd, Now, from, to)} : Execute(cmd, outcome)

Insert == \E cmd \in Commands, at \in Indices, args \in Arguments :
            /\ Accepts(cmd, args)
            /\ \E outcome \in {InsertCmd(cmd, Now, at, args)} : Execute(cmd, outcome)

Set == \E cmd \in Commands, at \in Indices, args \in Arguments :
         /\ Has(cmd, Taken(args)) /\ TakesAll(cmd, args)
         /\ \E outcome \in {SetCmd(cmd, Now, at, args)} : Execute(cmd, outcome)

Resize == \E cmd \in Commands, size \in 0 .. MaxLeft :
            /\ ~LooksUp(cmd) \/ size <= GetSize(left)
            /\ \E outcome \in {SizeCmd(cmd, Now, size)} : Execute(cmd, outcome)

\* A command for a derived view is made, and closed.
View == /\ viewer = NoViewer
        /\ viewer' \in ViewCmd(Now)
        /\ fresh' = TRUE
        /\ UNCHANGED <<left, right>>

CloseCmd == /\ viewer # NoViewer
            /\ viewer' = NoViewer
            /\ UNCHANGED <<left, right, fresh>>

TclNext == Delete \/ Insert \/ Set \/ Resize \/ View \/ CloseCmd

TclSpec == Init /\ [][TclNext]_vars

----------------------------------------------------------------------------
\* Views that keep their rows where they are put.
Positional(cmd) ==
  cmd = "derived" => fresh /\ ~LooksUp(cmd)

\* An insertion that fails leaves the rows as they were, also in a derived view
\* (mk4too.cpp:330).  A set command sets all its values in one row, and if it fails
\* those before the bad one, which stay (mk4too.cpp:111); a view of the storage has
\* changed in that row only.  Nothing is said of ordered and indexed views.
CommandsWhole ==
  \A cmd \in Commands :
    Positional(cmd) =>
      \E v \in {ViewOf(cmd, Now)} :
        \A args \in Arguments, at \in Indices :
          /\ Wrong(args) =>
               \E after \in {InsertCmd(cmd, Now, at, args).state} :
                 /\ after.viewer = viewer
                 /\ CutRows(after.left.rows, left.props) = left.rows
                 /\ CutRows(after.right.rows, right.props) = right.rows
          /\ Has(cmd, Taken(args)) /\ InBounds(GetSize(v), at, FALSE)
               /\ (cmd = "derived" =>
                     \A k \in DOMAIN Taken(args) :
                       Settable(Now, asIndex(GetSize(v), at, FALSE),
                                FindProperty(v, Taken(args)[k].prop))) =>
               \E row \in {asIndex(GetSize(v), at, FALSE) + 1} :
                 \E after \in {ViewOf(cmd, SetCmd(cmd, Now, at, args).state)} :
                   /\ after.rows[row] = RowFrom(Taken(args)).item @@ v.rows[row]
                   /\ cmd # "derived" =>
                        after.rows = [v.rows EXCEPT ![row] = RowFrom(Taken(args)).item @@ @]

\* What select promises: each criterion is met by a property of its list, the
\* first rows from an index on, and these in the order asked for.
Meets(v, i, cond) ==
  \E p \in Range(cond.props) :
    CASE cond.id \in Typed   -> cond.crit # Bad /\ Compares(cond.id, cond.crit, Item(v, i, p))
      [] cond.id = "exact"   -> Item(v, i, p) = cond.crit
      [] OTHER               -> Item(v, i, p) \in cond.crit

Wanted(v, conds, first, count) ==
  LET n    == GetSize(v)
      rows == {i \in RowsOf(v) : i >= first /\ \A k \in DOMAIN conds : Meets(v, i, conds[k])}
      late == {i \in rows : count >= 0 /\ Cardinality({j \in rows : j < i}) >= count}
  IN  rows \ late

SelectsWanted(cmd, v, conds, first, count, sorting) ==
  \E found \in {DoSelect(cmd, Now, v, conds, first, count, sorting)} :
    /\ Range(found) = Wanted(v, conds, first, count)
    /\ Len(found) = Cardinality(Range(found))
    /\ \A k \in 1 .. Len(found) - 1 :
         IF sorting.by = << >> THEN found[k] < found[k + 1]
         ELSE LET p == SelectInSeq(sorting.by, LAMBDA q :
                         Item(v, found[k], q) # Item(v, found[k + 1], q))
                  q == sorting.by[p]
              IN  p # 0 => IF Contains(sorting.down, q)
                           THEN Item(v, found[k], q) > Item(v, found[k + 1], q)
                           ELSE Item(v, found[k], q) < Item(v, found[k + 1], q)

\* Search finds a value if the rows are sorted by it.
SearchesSorted(v, p) ==
  (\A i, j \in RowsOf(v) : i < j => Item(v, i, p) <= Item(v, j, p)) =>
    \A val \in ItemArgs :
      \E row \in {SearchCmd(v, p, val)} :
        IF \E i \in RowsOf(v) : Item(v, i, p) = val
           THEN row # -1 /\ Item(v, row, p) = val
           ELSE row = -1

\* Lookups in an ordered view are exact if all of a row is its key; a count
\* then limits the rows that are looked at.
Searchable(cmd) ==
  /\ cmd = "derived" => fresh /\ viewer.kind \notin {"indexed", "groupby"}
  /\ LooksUp(cmd) => viewer.numKeys = NumProperties(left)
Askable(cmd, v, conds, count, sorting) ==
  /\ \A k \in DOMAIN conds : Range(conds[k].props) \subseteq PropsOf(v)
  /\ Range(sorting.by) \subseteq PropsOf(v)
  /\ LooksUp(cmd) => /\ count < 0
                     /\ IsPrefix(ExactKeyProps(conds).props, v.props)
                     /\ \A k \in DOMAIN conds : Len(conds[k].props) = 1

\* mk::select and the commands find and search find the rows that a scan finds,
\* through the lookup of the view and by halving (mk4tcl.cpp:1332, mk4too.cpp:409).
SelectsRight ==
  \A cmd \in Commands :
    Searchable(cmd) =>
      \E v \in {ViewOf(cmd, Now)} :
        /\ \A conds \in Conditions, first \in Limits, count \in Limits, sorting \in Sortings :
             Askable(cmd, v, conds, count, sorting) =>
               SelectsWanted(cmd, v, conds, first, count, sorting)
        /\ \A p \in PropsOf(v) : SearchesSorted(v, p)
        /\ \A args \in Arguments :
             ~Wrong(args) /\ Has(cmd, args.pairs)
               /\ (LooksUp(cmd) => IsPrefix(RowFrom(args.pairs).props, v.props)) =>
               \E row \in {FindCmd(cmd, Now, v, args.pairs)} :
                 LET hits == {i \in RowsOf(v) : Matches(v, RowFrom(args.pairs), i)}
                 IN  IF hits = {} THEN row = -1
                     ELSE row \in hits /\ \A i \in hits : row <= i
=============================================================================
