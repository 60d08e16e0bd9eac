------------------------------ MODULE FlatRows ------------------------------
(***************************************************************************)
(* A plain view: one sequence of rows, the one that a blocked view is to be *)
(* taken for (view.cpp, c4_View::Blocked).  Positions start at 0.           *)
(***************************************************************************)
EXTENDS Integers, Sequences

CONSTANT Row

VARIABLE rows

Init == rows = <<>>

InsertRows(pos, r, count) ==
  rows' = SubSeq(rows, 1, pos) \o [i \in 1 .. count |-> r]
            \o SubSeq(rows, pos + 1, Len(rows))

RemoveRows(pos, count) ==
  rows' = SubSeq(rows, 1, pos) \o SubSeq(rows, pos + count + 1, Len(rows))

SetItem(row, r) == rows' = [rows EXCEPT ![row + 1] = r]

\* The number of rows a call can insert is the number by which the view grows.
Next == \/ \E pos \in 0 .. Len(rows) : \E r \in Row :
              InsertRows(pos, r, Len(rows') - Len(rows))
        \/ \E pos \in 0 .. Len(rows) - 1 :
              \/ \E count \in 1 .. Len(rows) - pos : RemoveRows(pos, count)
              \/ \E r \in Row : SetItem(pos, r)

Spec == Init /\ [][Next]_rows
=============================================================================
