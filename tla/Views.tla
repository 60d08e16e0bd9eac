-------------------------------- MODULE Views --------------------------------
(***************************************************************************)
(* Views as values: what the operations of a plain view read and change    *)
(* (view.cpp, viewx.cpp).  A view is [props, rows]: the properties of its  *)
(* columns in order and, for each row, the values of these properties.  A  *)
(* row that stands alone is [props, item].  Row and column numbers count   *)
(* from 0.  Underscore names are faulty variants.                          *)
(***************************************************************************)
EXTENDS Integers, SequencesExt

NoRows == << >>
Nothing == [props |-> << >>, rows |-> NoRows]

CONSTANT ViewProps   \* the properties whose values are views, not integers

\* ClearBytes: what an item is without a value.
Default(p) == IF p \in ViewProps THEN Nothing ELSE 0

PropsOf(v)      == Range(v.props)
NumProperties(v) == Len(v.props)
NthProperty(v, col) == v.props[col + 1]
GetSize(v)      == Len(v.rows)

\* FindProperty: -1 if the view does not have the property.
FindProperty(v, p) == SelectInSeq(v.props, LAMBDA q : q = p) - 1

Item(v, i, p) == IF p \in PropsOf(v) THEN v.rows[i + 1][p] ELSE Default(p)
ValueOf(r, p) == IF p \in Range(r.props) THEN r.item[p] ELSE Default(p)
RowAt(v, i)   == [props |-> v.props, item |-> v.rows[i + 1]]

GetItem(v, row, col) == Item(v, row, NthProperty(v, col))

----------------------------------------------------------------------------
\* PropIndex(prop): a property that is not there yet is added to all rows.
AddProperty(v, p) ==
  IF p \in PropsOf(v) THEN v
  ELSE [props |-> Append(v.props, p),
        rows  |-> [i \in DOMAIN v.rows |-> (p :> Default(p)) @@ v.rows[i]]]

WithProps(v, props) == FoldLeft(AddProperty, v, props)

Clone(v) == [v EXCEPT !.rows = NoRows]

\* What a row of the view becomes: properties that r does not have are cleared.
Filled(v, r) == [p \in PropsOf(v) |-> ValueOf(r, p)]

SetAt(v, i, r) ==
  LET w == WithProps(v, r.props) IN [w EXCEPT !.rows[i + 1] = Filled(w, r)]

InsertRowsAt(v, i, r, n) ==
  LET w == WithProps(v, r.props)
  IN  [w EXCEPT !.rows = SubSeq(@, 1, i) \o [k \in 1 .. n |-> Filled(w, r)]
                           \o SubSeq(@, i + 1, Len(@))]

RemoveRowsAt(v, i, n) ==
  [v EXCEPT !.rows = SubSeq(@, 1, i) \o SubSeq(@, i + n + 1, Len(@))]

SetItem(v, row, col, x) == [v EXCEPT !.rows[row + 1][NthProperty(v, col)] = x]

----------------------------------------------------------------------------
\* Compare: the properties of the left row only, in its order; negative, zero
\* or positive.
Compare(a, b) ==
  LET d == SelectInSeq(a.props, LAMBDA p : a.item[p] # ValueOf(b, p))
  IN  IF d = 0 THEN 0 ELSE a.item[a.props[d]] - ValueOf(b, a.props[d])

\* The loop of Search and Locate: below are the rows to be gone past.
BinarySearch(n, below) ==
  LET step[l \in -1 .. n, u \in 0 .. n] ==
        LET m == (l + u) \div 2
        IN  IF l + 1 = u THEN u
            ELSE IF m \in below THEN step[m, u] ELSE step[l, m]
  IN  step[-1, n]

RowsOf(v) == 0 .. GetSize(v) - 1

\* Search: the properties of the view are compared.
Search(v, crit) ==
  BinarySearch(GetSize(v), {m \in RowsOf(v) : Compare(RowAt(v, m), crit) < 0})

\* Locate: those of the key are compared, to find the first and the last match.
FirstNotBelow(v, crit) ==
  BinarySearch(GetSize(v), {m \in RowsOf(v) : Compare(crit, RowAt(v, m)) > 0})
FirstAbove_Symmetric(v, crit) ==
  BinarySearch(GetSize(v), {m \in RowsOf(v) : Compare(RowAt(v, m), crit) <= 0})
FirstAbove(v, crit) ==
  BinarySearch(GetSize(v), {m \in RowsOf(v) : Compare(crit, RowAt(v, m)) >= 0})
Locate(v, crit) ==
  LET u == FirstNotBelow(v, crit)
  IN  [pos   |-> u,
       count |-> IF u = GetSize(v) \/ Compare(crit, RowAt(v, u)) # 0 THEN 0
                 ELSE FirstAbove(v, crit) - u]

\* The loop of Find over the rows that RestrictSearch leaves.
Matches(v, crit, i) == \A p \in Range(crit.props) : crit.item[p] = Item(v, i, p)
FindWithin(v, crit, range) ==
  LET found == {i \in range.pos .. range.pos + range.count - 1 : Matches(v, crit, i)}
  IN  IF found = {} THEN -1 ELSE CHOOSE i \in found : \A j \in found : i <= j

----------------------------------------------------------------------------
\* Derived views, as they are once made: Project, ProjectWithout, SortOn, Select.
Restricted(v, props) ==
  [props |-> props,
   rows  |-> [i \in DOMAIN v.rows |-> [p \in Range(props) |-> v.rows[i][p]]]]

Project(v, in) == Restricted(v, SelectSeq(in, LAMBDA p : p \in PropsOf(v)))
ProjectWithout(v, out) == Restricted(v, SelectSeq(v.props, LAMBDA p : p \notin Range(out)))

Reordered(v, keys) == [v EXCEPT !.props = SelectSeq(keys, LAMBDA p : p \in PropsOf(v))
                                           \o SelectSeq(@, LAMBDA p : p \notin Range(keys))]

\* The row numbers of a sort: by all columns, rows that are equal in their order.
RowMap(v) ==
  SortSeq([i \in 1 .. GetSize(v) |-> i - 1],
          LAMBDA i, j : LET c == Compare(RowAt(v, i), RowAt(v, j)) IN c < 0 \/ (c = 0 /\ i < j))

\* SortOn(keys): the rows, and the rows of v that they are.
SortMap(v, keys) == RowMap(Reordered(v, keys))
SortOn(v, keys) ==
  LET map == SortMap(v, keys)
  IN  [Reordered(v, keys) EXCEPT !.rows = [i \in DOMAIN map |-> v.rows[map[i] + 1]]]

SelectRows(v, p, x) == [v EXCEPT !.rows = SelectSeq(@, LAMBDA item : item[p] = x)]
==============================================================================
