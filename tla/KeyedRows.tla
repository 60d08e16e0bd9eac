----------------------------- MODULE KeyedRows ------------------------------
(***************************************************************************)
(* What a view with a lookup layer promises (view.cpp, c4_View::Hash): rows *)
(* in the order of insertion, no two of them with the same key.  Inserting *)
(* a row whose key is there replaces the row that has it, and changing a   *)
(* key to one that is there deletes the row that had it.                   *)
(***************************************************************************)
EXTENDS Integers, Sequences, SequencesExt

CONSTANTS Keys, Vals, MaxRows

VARIABLE rows     \* a sequence of records [key, val]

Row == [key : Keys, val : Vals]
UniqueKeys(s) == \A i, j \in DOMAIN s : s[i].key = s[j].key => i = j

Init == rows \in {s \in BoundedSeq(Row, MaxRows) : UniqueKeys(s)}

WithKey(k) == {i \in DOMAIN rows : rows[i].key = k}

Insert(pos, r) ==
  rows' = IF WithKey(r.key) = {} THEN InsertAt(rows, pos, r)
          ELSE [i \in DOMAIN rows |-> IF i \in WithKey(r.key) THEN r ELSE rows[i]]

SetKey(i, k) ==
  LET changed == [rows EXCEPT ![i].key = k]
  IN  rows' = IF WithKey(k) \subseteq {i} THEN changed
              ELSE RemoveAt(changed, CHOOSE j \in WithKey(k) : TRUE)

SetVal(i, v) == rows' = [rows EXCEPT ![i].val = v]

RemoveRow(i) == rows' = RemoveAt(rows, i)

Next == \/ \E pos \in 1 .. Len(rows) + 1 : \E r \in Row : Insert(pos, r)
        \/ \E i \in DOMAIN rows : \/ \E k \in Keys : SetKey(i, k)
                                  \/ \E v \in Vals : SetVal(i, v)
                                  \/ RemoveRow(i)

Spec == Init /\ [][Next]_rows
=============================================================================
