------------------------------ MODULE HashView ------------------------------
(***************************************************************************)
(* c4_HashViewer (remap.cpp): a view whose rows are found by key through a *)
(* dictionary kept in a second view.  The dictionary is an open-addressed  *)
(* table of 2^n slots; a slot is unused, a dummy (deleted) or holds a row   *)
(* number and the hash of that row's key.  Row and slot numbers start at 0 *)
(* as in the code, so row r is base[r + 1].                                 *)
(*                                                                         *)
(* A call whose search of the table would never end is an action that is   *)
(* not enabled.  The hash of a key is a parameter: not 0, which CalcHash    *)
(* excludes, and not -1, with which LookDict would compare a key with row   *)
(* -1 in a dummy slot.  Underscore names are faulty variants.              *)
(***************************************************************************)
EXTENDS Integers, SequencesExt

CONSTANTS Keys, Vals,
          HashOf,        \* the hash of each key (CalcHash)
          Sizes,         \* the numbers of slots a table may have
          Probe(_, _),   \* the slots a search comes to, by hash and table size
          Plain,         \* bound: all rows but one have this value
          MaxRows        \* bound: rows in the view

Path == [n \in Sizes |-> [key \in Keys |-> Probe(HashOf[key], n)]]
Visited(key, n) == {Path[n][key][j] : j \in DOMAIN Path[n][key]}

\* There is a table for twice as many rows, and a search comes to two thirds of
\* the slots or more before it is back where it began (ProbeSequence).
ASSUME HashViewAssumption ==
  /\ HashOf \in [Keys -> Int \ {0, -1}]
  /\ Plain \in Vals /\ MaxRows \in Nat
  /\ Sizes \subseteq Nat \ {0} /\ \E n \in Sizes : n > 2 * MaxRows
  /\ \A n \in Sizes : \A key \in Keys :
       Path[n][key] \in Seq(0 .. n - 1) /\ 3 * Cardinality(Visited(key, n)) >= 2 * n

VARIABLES base,   \* the rows: a sequence of [key, val]
          dict    \* [slot : 0 .. size - 1 -> [row, hash], spare : dummies]

vars == <<base, dict>>

UnusedSlot == [row |-> -1, hash |-> 0]
DummySlot  == [row |-> -1, hash |-> -1]
Slots(d)   == DOMAIN d.slot
Size(d)    == Cardinality(Slots(d))
IsActive(s) == s.row >= 0

----------------------------------------------------------------------------
\* LookDict: the slot of the key, or the slot to put it in: the first dummy on
\* the way to the first unused slot, or that one.  A search that is back where it
\* began never ends.
Never == -1

HoldsKey(b, s, key) ==
  IsActive(s) /\ s.hash = HashOf[key] /\ b[s.row + 1].key = key

SlotOnPath_StopAtDummy(b, slot, path, key) ==
  LET ends == {j \in DOMAIN path : ~IsActive(slot[path[j]]) \/ HoldsKey(b, slot[path[j]], key)}
  IN  IF ends = {} THEN Never ELSE path[Min(ends)]

SlotOnPath(b, slot, path, key) ==
  LET ends == {j \in DOMAIN path :
                 slot[path[j]] = UnusedSlot \/ HoldsKey(b, slot[path[j]], key)}
      end  == Min(ends)
      free == {j \in 1 .. end : slot[path[j]] = DummySlot}
  IN  IF ends = {} THEN Never
      ELSE path[IF free = {} \/ HoldsKey(b, slot[path[end]], key) THEN end ELSE Min(free)]

LookDict(b, d, key) == SlotOnPath(b, d.slot, Path[Size(d)][key], key)

\* Lookup: the row with this key, if there is one.
NotThere == -2

Lookup(b, d, key) ==
  LET i == LookDict(b, d, key)
  IN  IF i = Never THEN Never
      ELSE IF IsActive(d.slot[i]) /\ b[d.slot[i].row + 1].key = key THEN d.slot[i].row
      ELSE NotThere

----------------------------------------------------------------------------
\* Changing the dictionary.

\* What is left of the dictionary when a search for a place in it never ends.
Stuck == [slot |-> <<>>, spare |-> 0]

InsertDict(b, d, row) ==
  LET key == b[row + 1].key
      i   == LookDict(b, d, key)
  IN  IF i = Never THEN Stuck
      ELSE [slot  |-> [d.slot EXCEPT ![i] = [row |-> row, hash |-> HashOf[key]]],
            spare |-> IF d.slot[i] = DummySlot THEN d.spare - 1 ELSE d.spare]

RemoveDict_Unused(b, d, pos) ==
  [slot  |-> [d.slot EXCEPT ![LookDict(b, d, b[pos + 1].key)] = UnusedSlot],
   spare |-> d.spare]

RemoveDict(b, d, pos) ==
  [slot  |-> [d.slot EXCEPT ![LookDict(b, d, b[pos + 1].key)] = DummySlot],
   spare |-> d.spare + 1]

\* A new table with more than minused slots, and all rows put in again.
DictResize(b, minused) ==
  LET n     == Min({s \in Sizes : s > minused})
      empty == [slot |-> [i \in 0 .. n - 1 |-> UnusedSlot], spare |-> 0]
      built[j \in 0 .. Len(b)] ==
        IF j = 0 THEN empty
        ELSE IF built[j - 1] = Stuck THEN Stuck
        ELSE InsertDict(b, built[j - 1], j - 1)
  IN  built[Len(b)]

\* The rows from pos on move up (by = 1) or down (by = -1).
RowsMoved_Inclusive(d, pos, by) ==
  [d EXCEPT !.slot = [i \in Slots(d) |->
     IF d.slot[i].row > pos THEN [d.slot[i] EXCEPT !.row = @ + by] ELSE d.slot[i]]]

RowsMoved(d, pos, by) ==
  [d EXCEPT !.slot = [i \in Slots(d) |->
     IF d.slot[i].row >= pos THEN [d.slot[i] EXCEPT !.row = @ + by] ELSE d.slot[i]]]

\* RemoveRows of one row, which may first make the table smaller.
Shrunk(b, d) ==
  IF Len(b) * 3 < Size(d) THEN DictResize(b, Len(b)) ELSE d

RowRemoved(b, d, pos) ==
  [base |-> RemoveAt(b, pos + 1),
   dict |-> RowsMoved(RemoveDict(b, Shrunk(b, d), pos), pos + 1, -1)]

----------------------------------------------------------------------------
Rows == 0 .. Len(base) - 1
Row == [key : Keys, val : Vals]
Marked(b) == {i \in DOMAIN b : b[i].val # Plain}

\* The constructor, on any rows with unique keys and an empty map view.
Init ==
  /\ base \in {s \in BoundedSeq(Row, MaxRows) :
                 \A i, j \in DOMAIN s : s[i].key = s[j].key => i = j}
  /\ Marked(base) = {}                                 \* bound
  /\ dict = DictResize(base, Len(base)) /\ dict # Stuck

\* InsertRows of a row whose key is there replaces that row; otherwise the
\* table may become too full and grows.
Grown(b, d) ==
  IF (Len(b) + d.spare) * 3 >= Size(d) * 2
  THEN DictResize(b, Len(b) * 2) ELSE d

Replace(r) ==
  /\ LET i == Lookup(base, dict, r.key)
     IN  i \in Rows /\ base' = [base EXCEPT ![i + 1] = r]
  /\ UNCHANGED dict

Insert(pos, r) ==
  /\ Len(base) < MaxRows                               \* bound
  /\ Lookup(base, dict, r.key) = NotThere
  /\ base' = InsertAt(base, pos + 1, r)
  /\ dict' = Grown(base', InsertDict(base', RowsMoved(dict, pos, 1), pos)) /\ dict' # Stuck

\* RemoveRows(pos, 1); a larger count does this as many times.
RemoveRow(pos) ==
  LET after == RowRemoved(base, dict, pos)
  IN  /\ Shrunk(base, dict) # Stuck
      /\ base' = after.base /\ dict' = after.dict

\* SetItem of a property that is not in the key.
SetVal(row, val) ==
  /\ base' = [base EXCEPT ![row + 1].val = val]
  /\ UNCHANGED dict

\* SetItem of the key, with the row taken out of the dictionary and the key
\* changed; what then happens to a row that has that key already; and at last
\* the row is put in again.
KeyChanged(row, key) ==
  [base |-> [base EXCEPT ![row + 1].key = key], dict |-> RemoveDict(base, dict, row)]

SetKeyTo_KeepBoth(row, key) ==
  LET s == KeyChanged(row, key)
  IN  /\ base[row + 1].key # key
      /\ Lookup(s.base, s.dict, key) # Never
      /\ base' = s.base /\ dict' = InsertDict(s.base, s.dict, row) /\ dict' # Stuck

SetKeyTo(row, key) ==
  LET s     == KeyChanged(row, key)
      other == Lookup(s.base, s.dict, key)
      t     == IF other = NotThere THEN s ELSE RowRemoved(s.base, s.dict, other)
      to    == IF other # NotThere /\ other < row THEN row - 1 ELSE row
  IN  /\ base[row + 1].key # key
      /\ other # Never
      /\ other # NotThere => Shrunk(s.base, s.dict) # Stuck
      /\ base' = t.base /\ dict' = InsertDict(t.base, t.dict, to) /\ dict' # Stuck

Next == /\ \/ \E r \in Row : Replace(r) \/ \E pos \in 0 .. Len(base) : Insert(pos, r)
           \/ \E row \in Rows : \/ RemoveRow(row)
                                \/ \E val \in Vals : SetVal(row, val)
                                \/ \E key \in Keys : SetKeyTo(row, key)
        /\ Cardinality(Marked(base')) <= 1               \* bound

Spec == Init /\ [][Next]_vars

----------------------------------------------------------------------------
TypeOK ==
  /\ base \in Seq(Row) /\ Len(base) <= MaxRows
  /\ Size(dict) \in Sizes
  /\ dict.slot \in [0 .. Size(dict) - 1 -> [row : -1 .. MaxRows - 1, hash : Int]]
  /\ dict.spare \in Nat

Active == {i \in Slots(dict) : IsActive(dict.slot[i])}

\* Type invariant, and the dictionary mirrors the rows: each row is in one slot, with the hash of its
\* key, and the spare count is the number of dummies.  InsertRows, RemoveRows
\* and SetItem renumber rows, reuse dummies and rebuild the table to keep it so.
DictMirrorsRows ==
  /\ TypeOK
  /\ \A i \in Active : /\ dict.slot[i].row \in Rows
                       /\ dict.slot[i].hash = HashOf[base[dict.slot[i].row + 1].key]
  /\ \A r \in Rows : Cardinality({i \in Active : dict.slot[i].row = r}) = 1
  /\ dict.spare = Cardinality({i \in Slots(dict) : dict.slot[i] = DummySlot})

\* Every row is found by its key, whatever was deleted or moved on the way to
\* its slot; and a search for any other key ends as long as less than two thirds of
\* the slots are used up, as they are after every insertion.
FindsEveryRow ==
  /\ \A r \in Rows : Lookup(base, dict, base[r + 1].key) = r
  /\ (Len(base) + dict.spare) * 3 < Size(dict) * 2 =>
       \A key \in Keys : Lookup(base, dict, key) # Never

\* The rows behave as a view with unique keys, with lookups by key.
Keyed == INSTANCE KeyedRows WITH rows <- base
ImplementsKeyedRows == Keyed!Spec
=============================================================================
