---------------------------- MODULE HashViewProofs ---------------------------
(***************************************************************************)
(* A hash view behaves as a view with unique keys and finds every row by    *)
(* its key, for any keys and hashes, any searches that are wide enough, and *)
(* any number of rows.                                                     *)
(***************************************************************************)
EXTENDS HashView, Recursion, FiniteSetTheorems, SequenceTheorems

RowsOf(b) == 0 .. Len(b) - 1
Key(b, r) == b[r + 1].key
Entry(b, r) == [row |-> r, hash |-> HashOf[Key(b, r)]]

Slot == [row : Int, hash : Int]
IsTable(d, n) == n \in Sizes /\ d \in [slot : [0 .. n - 1 -> Slot], spare : Int]

----------------------------------------------------------------------------
\* The parts of what a dictionary d of n slots has to do with the rows of b that are in
\* it, those of M: there is nothing else in it;
Filled(b, d, n, M) ==
  \A i \in 0 .. n - 1 : d.slot[i] \in {UnusedSlot, DummySlot} \cup {Entry(b, r) : r \in M}

\* a search for a row of M gets to the row;
Passed(d, n, key, e) == \A i \in 1 .. e - 1 : d.slot[Path[n][key][i]] # UnusedSlot
Reached(b, d, n, M) ==
  \A r \in M : \E e \in DOMAIN Path[n][Key(b, r)] :
    d.slot[Path[n][Key(b, r)][e]].row = r /\ Passed(d, n, Key(b, r), e)

\* no row is in two slots;
Once(d, n) ==
  \A i, k \in 0 .. n - 1 : d.slot[i].row = d.slot[k].row /\ d.slot[i].row >= 0 => i = k

\* no two rows of M have the same key;
Distinct(b, M) == \A q, r \in M : Key(b, q) = Key(b, r) => q = r

\* and the dummies are counted.
Dummies(d, n) == {i \in 0 .. n - 1 : d.slot[i] = DummySlot}

Mirrors(b, d, n, M) ==
  /\ b \in Seq(Row) /\ M \subseteq RowsOf(b) /\ IsTable(d, n)
  /\ Filled(b, d, n, M) /\ Reached(b, d, n, M) /\ Once(d, n) /\ Distinct(b, M)
  /\ d.spare = Cardinality(Dummies(d, n))

----------------------------------------------------------------------------
(* Searches.                                                               *)

\* A sequence, its length, its domain and its elements.
LEMMA SeqFacts ==
  ASSUME NEW S, NEW s \in Seq(S)
  PROVE  Len(s) \in Nat /\ DOMAIN s = 1 .. Len(s) /\ \A i \in DOMAIN s : s[i] \in S
OBVIOUS

\* The slots on the path of a search are slots of the table.
LEMMA PathFacts ==
  ASSUME NEW n \in Sizes, NEW key \in Keys
  PROVE  /\ n \in Nat /\ n >= 1
         /\ Path[n][key] \in Seq(0 .. n - 1) /\ Len(Path[n][key]) \in Nat
         /\ DOMAIN Path[n][key] = 1 .. Len(Path[n][key])
         /\ \A j \in DOMAIN Path[n][key] : Path[n][key][j] \in 0 .. n - 1
<1>1. n \in Nat /\ n >= 1 /\ Path[n][key] \in Seq(0 .. n - 1)
  BY HashViewAssumption
<1> QED BY <1>1, SeqFacts

\* The size of a table.
LEMMA TableSize ==
  ASSUME NEW d, NEW n, IsTable(d, n)
  PROVE  n \in Nat /\ n >= 1 /\ Slots(d) = 0 .. n - 1 /\ Size(d) = n
<1>1. n \in Nat /\ n >= 1
  BY HashViewAssumption DEF IsTable
<1>2. Slots(d) = 0 .. n - 1
  BY DEF IsTable, Slots
<1>3. Cardinality(0 .. n - 1) = n
  BY <1>1, FS_Interval
<1> QED BY <1>1, <1>2, <1>3 DEF Size

\* A search ends at an index of the path.
Ends(b, slot, path, key, j) == slot[path[j]] = UnusedSlot \/ HoldsKey(b, slot[path[j]], key)

\* Where a search ends first, and the slot that is the result.
LEMMA SearchResult ==
  ASSUME NEW b, NEW slot, NEW path, NEW key, NEW l \in Nat, DOMAIN path = 1 .. l,
         NEW j \in 1 .. l, Ends(b, slot, path, key, j)
  PROVE  \E e \in 1 .. j :
           /\ Ends(b, slot, path, key, e)
           /\ \A i \in 1 .. e - 1 : ~Ends(b, slot, path, key, i)
           /\ \E k \in 1 .. e :
                /\ SlotOnPath(b, slot, path, key) = path[k]
                /\ k = e \/ slot[path[k]] = DummySlot
                /\ HoldsKey(b, slot[path[e]], key) => k = e
<1> DEFINE ends == {i \in DOMAIN path :
                      slot[path[i]] = UnusedSlot \/ HoldsKey(b, slot[path[i]], key)}
           e    == Min(ends)
           free == {i \in 1 .. e : slot[path[i]] = DummySlot}
           k    == IF free = {} \/ HoldsKey(b, slot[path[e]], key) THEN e ELSE Min(free)
<1>1. ends \in SUBSET Nat /\ j \in ends
  BY DEF Ends
<1>2. e \in ends /\ \A i \in ends : e <= i
  BY <1>1, LeastNatural DEF Min
<1>3. e \in 1 .. j /\ e \in Nat
  BY <1>1, <1>2
<1>4. Ends(b, slot, path, key, e)
  BY <1>2 DEF Ends
<1>5. ASSUME NEW i \in 1 .. e - 1 PROVE ~Ends(b, slot, path, key, i)
  <2>1. i \in 1 .. l /\ ~(e <= i)
    BY <1>3
  <2> QED BY <1>2, <2>1 DEF Ends
<1>6. SlotOnPath(b, slot, path, key) = path[k]
  BY <1>1 DEF SlotOnPath
<1> HIDE DEF e, ends
<1>7. /\ k \in 1 .. e /\ (k = e \/ slot[path[k]] = DummySlot)
      /\ HoldsKey(b, slot[path[e]], key) => k = e
  <2>1. CASE free = {} \/ HoldsKey(b, slot[path[e]], key)
    BY <1>3, <2>1
  <2>2. CASE ~(free = {} \/ HoldsKey(b, slot[path[e]], key))
    <3>1. free \in SUBSET Nat /\ free # {}
      BY <1>3, <2>2
    <3> HIDE DEF free
    <3>2. Min(free) \in free
      BY <3>1, LeastNatural DEF Min
    <3>3. k = Min(free)
      BY <2>2
    <3> HIDE DEF k
    <3> QED BY <2>2, <3>2, <3>3 DEF free
  <2> QED BY <2>1, <2>2
<1> HIDE DEF k, free
<1> QED BY <1>3, <1>4, <1>5, <1>6, <1>7

----------------------------------------------------------------------------
(* What LookDict and Lookup find in a dictionary that mirrors some rows.    *)

\* The rows that a dictionary mirrors.
LEMMA MirrorFacts ==
  ASSUME NEW b, NEW d, NEW n, NEW M, Mirrors(b, d, n, M)
  PROVE  /\ n \in Nat /\ n >= 1 /\ n \in Sizes /\ Slots(d) = 0 .. n - 1 /\ Size(d) = n
         /\ b \in Seq(Row) /\ Len(b) \in Nat /\ M \subseteq RowsOf(b)
         /\ d.slot \in [0 .. n - 1 -> Slot]
         /\ \A r \in RowsOf(b) : r \in Nat /\ Key(b, r) \in Keys /\ HashOf[Key(b, r)] \in Int
         /\ \A i \in 0 .. n - 1 : /\ d.slot[i].row \in Int
                                  /\ IsActive(d.slot[i]) =>
                                       \E r \in M : d.slot[i] = Entry(b, r)
                                  /\ ~IsActive(d.slot[i]) => d.slot[i] \in {UnusedSlot, DummySlot}
<1>1. n \in Nat /\ n >= 1 /\ n \in Sizes /\ Slots(d) = 0 .. n - 1 /\ Size(d) = n
  BY TableSize DEF Mirrors, IsTable
<1>2. b \in Seq(Row) /\ M \subseteq RowsOf(b) /\ d.slot \in [0 .. n - 1 -> Slot]
  BY DEF Mirrors, IsTable
<1>3. Len(b) \in Nat /\ DOMAIN b = 1 .. Len(b) /\ \A i \in DOMAIN b : b[i] \in Row
  BY <1>2, SeqFacts
<1>4. ASSUME NEW r \in RowsOf(b) PROVE r \in Nat /\ Key(b, r) \in Keys
  <2>1. r \in Nat /\ r + 1 \in DOMAIN b
    BY <1>3 DEF RowsOf
  <2> QED BY <1>3, <2>1 DEF Key, Row
<1>5. \A key \in Keys : HashOf[key] \in Int
  BY HashViewAssumption
<1>6. ASSUME NEW i \in 0 .. n - 1
      PROVE  /\ d.slot[i].row \in Int
             /\ IsActive(d.slot[i]) => \E r \in M : d.slot[i] = Entry(b, r)
             /\ ~IsActive(d.slot[i]) => d.slot[i] \in {UnusedSlot, DummySlot}
  <2>1. d.slot[i] \in Slot
    BY <1>2
  <2>2. d.slot[i] \in {UnusedSlot, DummySlot} \/ \E r \in M : d.slot[i] = Entry(b, r)
    BY DEF Mirrors, Filled
  <2>3. ~IsActive(UnusedSlot) /\ ~IsActive(DummySlot)
    BY DEF IsActive, UnusedSlot, DummySlot
  <2>4. ASSUME NEW r \in M PROVE IsActive(Entry(b, r))
    BY <1>2, <1>4 DEF IsActive, Entry
  <2> QED BY <2>1, <2>2, <2>3, <2>4 DEF Slot
<1> QED BY <1>1, <1>2, <1>3, <1>4, <1>5, <1>6

\* What HoldsKey says of a slot.
LEMMA HoldsEntry ==
  ASSUME NEW b, NEW d, NEW n, NEW M, Mirrors(b, d, n, M), NEW i \in 0 .. n - 1, NEW key
  PROVE  HoldsKey(b, d.slot[i], key) <=> \E r \in M : d.slot[i] = Entry(b, r) /\ Key(b, r) = key
<1>1. /\ IsActive(d.slot[i]) => \E r \in M : d.slot[i] = Entry(b, r)
      /\ \A r \in M : r \in Nat
  BY MirrorFacts
<1>2. ASSUME HoldsKey(b, d.slot[i], key)
      PROVE  \E r \in M : d.slot[i] = Entry(b, r) /\ Key(b, r) = key
  <2>1. PICK r \in M : d.slot[i] = Entry(b, r)
    BY <1>1, <1>2 DEF HoldsKey
  <2>2. d.slot[i].row = r
    BY <2>1 DEF Entry
  <2> QED BY <1>2, <2>1, <2>2 DEF HoldsKey, Key
<1>3. ASSUME NEW r \in M, d.slot[i] = Entry(b, r), Key(b, r) = key
      PROVE  HoldsKey(b, d.slot[i], key)
  <2>1. d.slot[i].row = r /\ d.slot[i].hash = HashOf[key] /\ r >= 0
    BY <1>1, <1>3 DEF Entry
  <2> QED BY <1>3, <2>1 DEF HoldsKey, IsActive, Key
<1> QED BY <1>2, <1>3

\* The key of a row that is in it: the slot of that row.
LEMMA LookFound ==
  ASSUME NEW b, NEW d, NEW n, NEW M, Mirrors(b, d, n, M), NEW r \in M
  PROVE  \E e \in DOMAIN Path[n][Key(b, r)] :
           /\ LookDict(b, d, Key(b, r)) = Path[n][Key(b, r)][e]
           /\ d.slot[Path[n][Key(b, r)][e]] = Entry(b, r)
           /\ Passed(d, n, Key(b, r), e)
<1> DEFINE key  == Key(b, r)
           path == Path[n][key]
           slot == d.slot
<1>1. n \in Sizes /\ key \in Keys /\ r \in Nat /\ Size(d) = n
  BY MirrorFacts
<1>2. /\ Len(path) \in Nat /\ DOMAIN path = 1 .. Len(path)
      /\ \A j \in DOMAIN path : path[j] \in 0 .. n - 1
  BY <1>1, PathFacts
<1>3. PICK j \in DOMAIN path : slot[path[j]].row = r /\ Passed(d, n, key, j)
  BY DEF Mirrors, Reached
<1>4. slot[path[j]] = Entry(b, r)
  <2>1. IsActive(slot[path[j]])
    BY <1>1, <1>3 DEF IsActive
  <2>4. path[j] \in 0 .. n - 1
    BY <1>2
  <2> HIDE DEF path, key
  <2>2. PICK q \in M : slot[path[j]] = Entry(b, q)
    BY <2>1, <2>4, MirrorFacts
  <2>3. q = r
    BY <1>3, <2>2 DEF Entry
  <2> QED BY <2>2, <2>3
<1>5. HoldsKey(b, slot[path[j]], key)
  BY <1>2, <1>4, HoldsEntry
<1>6. Ends(b, slot, path, key, j)
  BY <1>5 DEF Ends
<1>7. LookDict(b, d, key) = SlotOnPath(b, slot, path, key)
  BY <1>1 DEF LookDict
<1> HIDE DEF key, path, slot
<1>8. PICK e \in 1 .. j :
        /\ Ends(b, slot, path, key, e)
        /\ \A i \in 1 .. e - 1 : ~Ends(b, slot, path, key, i)
        /\ \E k \in 1 .. e :
             /\ SlotOnPath(b, slot, path, key) = path[k]
             /\ k = e \/ slot[path[k]] = DummySlot
             /\ HoldsKey(b, slot[path[e]], key) => k = e
  BY <1>2, <1>6, SearchResult
<1>9. e \in DOMAIN path /\ path[e] \in 0 .. n - 1 /\ path[j] \in 0 .. n - 1
  BY <1>2, <1>3, <1>8
<1>10. HoldsKey(b, slot[path[e]], key)
  <2>1. CASE e = j
    BY <1>5, <2>1
  <2>2. CASE e # j
    <3>1. e \in 1 .. j - 1
      BY <1>2, <1>8, <2>2
    <3>2. slot[path[e]] # UnusedSlot
      BY <1>3, <3>1 DEF Passed, path, slot
    <3> QED BY <1>8, <3>2 DEF Ends
  <2> QED BY <2>1, <2>2
<1>11. slot[path[e]] = Entry(b, r)
  <2>1. PICK q \in M : slot[path[e]] = Entry(b, q) /\ Key(b, q) = key
    BY <1>9, <1>10, HoldsEntry DEF slot
  <2>2. q = r
    BY <2>1 DEF Mirrors, Distinct, key
  <2> QED BY <2>1, <2>2
<1>12. LookDict(b, d, key) = path[e]
  BY <1>7, <1>8, <1>10
<1>13. Passed(d, n, key, e)
  <2>1. \A i \in 1 .. e - 1 : i \in 1 .. j - 1
    BY <1>2, <1>8
  <2> QED BY <1>3, <2>1 DEF Passed
<1> QED BY <1>9, <1>11, <1>12, <1>13 DEF key, path, slot

\* A key that is in no row: a slot to put it in, if there is an unused one on the path.
LEMMA LookFree ==
  ASSUME NEW b, NEW d, NEW n, NEW M, Mirrors(b, d, n, M), NEW key \in Keys,
         \A r \in M : Key(b, r) # key
  PROVE  /\ LookDict(b, d, key) # Never =>
              \E e \in DOMAIN Path[n][key] :
                /\ LookDict(b, d, key) = Path[n][key][e]
                /\ d.slot[Path[n][key][e]] \in {UnusedSlot, DummySlot}
                /\ Passed(d, n, key, e)
         /\ LookDict(b, d, key) # Never <=>
              \E j \in DOMAIN Path[n][key] : d.slot[Path[n][key][j]] = UnusedSlot
<1> DEFINE path == Path[n][key]
           slot == d.slot
<1>1. n \in Sizes /\ Size(d) = n
  BY MirrorFacts
<1>2. /\ Len(path) \in Nat /\ DOMAIN path = 1 .. Len(path)
      /\ \A j \in DOMAIN path : path[j] \in 0 .. n - 1
  BY <1>1, PathFacts
<1>3. LookDict(b, d, key) = SlotOnPath(b, slot, path, key)
  BY <1>1 DEF LookDict
<1>4. ASSUME NEW j \in DOMAIN path
      PROVE  Ends(b, slot, path, key, j) <=> slot[path[j]] = UnusedSlot
  <2>1. path[j] \in 0 .. n - 1
    BY <1>2
  <2> HIDE DEF path
  <2>2. ~HoldsKey(b, slot[path[j]], key)
    BY <2>1, HoldsEntry
  <2> QED BY <2>2 DEF Ends
<1> HIDE DEF path, slot
<1>5. ASSUME NEW j \in DOMAIN path, slot[path[j]] = UnusedSlot
      PROVE  \E e \in DOMAIN path :
               /\ SlotOnPath(b, slot, path, key) = path[e]
               /\ slot[path[e]] \in {UnusedSlot, DummySlot}
               /\ \A i \in 1 .. e - 1 : slot[path[i]] # UnusedSlot
  <2>1. Ends(b, slot, path, key, j) /\ j \in 1 .. Len(path)
    BY <1>2, <1>4, <1>5
  <2>2. PICK e \in 1 .. j :
          /\ Ends(b, slot, path, key, e)
          /\ \A i \in 1 .. e - 1 : ~Ends(b, slot, path, key, i)
          /\ \E k \in 1 .. e :
               /\ SlotOnPath(b, slot, path, key) = path[k]
               /\ k = e \/ slot[path[k]] = DummySlot
               /\ HoldsKey(b, slot[path[e]], key) => k = e
    BY <1>2, <2>1, SearchResult
  <2>3. PICK k \in 1 .. e : /\ SlotOnPath(b, slot, path, key) = path[k]
                            /\ k = e \/ slot[path[k]] = DummySlot
    BY <2>2
  <2>4. k \in DOMAIN path /\ e \in DOMAIN path
    BY <1>2, <2>1, <2>2, <2>3
  <2>5. slot[path[k]] \in {UnusedSlot, DummySlot}
    BY <1>4, <2>2, <2>3, <2>4
  <2>6. ASSUME NEW i \in 1 .. k - 1 PROVE slot[path[i]] # UnusedSlot
    <3>1. i \in 1 .. e - 1 /\ i \in DOMAIN path
      BY <1>2, <2>1, <2>2, <2>3
    <3> QED BY <1>4, <2>2, <3>1
  <2> QED BY <2>3, <2>4, <2>5, <2>6
<1>6. ASSUME \A j \in DOMAIN path : slot[path[j]] # UnusedSlot
      PROVE  SlotOnPath(b, slot, path, key) = Never
  <2>1. {j \in DOMAIN path : slot[path[j]] = UnusedSlot \/ HoldsKey(b, slot[path[j]], key)} = {}
    BY <1>4, <1>6 DEF Ends
  <2> QED BY <2>1 DEF SlotOnPath
<1>7. \A e \in DOMAIN path : path[e] # Never
  BY <1>2 DEF Never
<1> QED BY <1>3, <1>5, <1>6, <1>7 DEF Passed, path, slot

\* The row with a key.
LEMMA LookupFound ==
  ASSUME NEW b, NEW d, NEW n, NEW M, Mirrors(b, d, n, M), NEW r \in M
  PROVE  Lookup(b, d, Key(b, r)) = r
<1> DEFINE key == Key(b, r)
           i   == LookDict(b, d, key)
<1>1. n \in Sizes /\ key \in Keys /\ r \in Nat
  BY MirrorFacts
<1>2. i \in 0 .. n - 1 /\ d.slot[i] = Entry(b, r)
  BY <1>1, LookFound, PathFacts
<1> HIDE DEF i
<1>3. i # Never
  BY <1>2 DEF Never
<1>4. d.slot[i].row = r /\ IsActive(d.slot[i]) /\ b[d.slot[i].row + 1].key = key
  BY <1>1, <1>2 DEF Entry, IsActive, Key
<1> HIDE DEF key
<1>5. Lookup(b, d, key) = d.slot[i].row
  BY <1>3, <1>4 DEF Lookup, i
<1> QED BY <1>4, <1>5 DEF key

\* A key that no row has.
LEMMA LookupFree ==
  ASSUME NEW b, NEW d, NEW n, NEW M, Mirrors(b, d, n, M), NEW key \in Keys,
         \A r \in M : Key(b, r) # key
  PROVE  /\ Lookup(b, d, key) \in {Never, NotThere}
         /\ Lookup(b, d, key) = NotThere <=> LookDict(b, d, key) # Never
<1> DEFINE i == LookDict(b, d, key)
<1>1. n \in Sizes
  BY MirrorFacts
<1>2. i # Never => d.slot[i] \in {UnusedSlot, DummySlot}
  BY LookFree
<1>3. i # Never => ~IsActive(d.slot[i])
  BY <1>2 DEF IsActive, UnusedSlot, DummySlot
<1> HIDE DEF i
<1>4. Lookup(b, d, key) = IF i = Never THEN Never ELSE NotThere
  BY <1>3 DEF Lookup, i
<1>5. Never # NotThere
  BY DEF Never, NotThere
<1> QED BY <1>4, <1>5 DEF i

\* What a lookup says of the rows of a dictionary.
LEMMA LookupSays ==
  ASSUME NEW b, NEW d, NEW n, NEW M, Mirrors(b, d, n, M), NEW key \in Keys
  PROVE  LET i == Lookup(b, d, key)
         IN  /\ i \in M \cup {Never, NotThere}
             /\ i \in M => Key(b, i) = key
             /\ i \notin M => \A r \in M : Key(b, r) # key
             /\ i \in M => i \in Nat
<1>1. CASE \A r \in M : Key(b, r) # key
  <2>1. Lookup(b, d, key) \in {Never, NotThere}
    BY <1>1, LookupFree
  <2>2. \A r \in M : r \in Nat
    BY MirrorFacts
  <2> QED BY <1>1, <2>1, <2>2 DEF Never, NotThere
<1>2. ASSUME NEW r \in M, Key(b, r) = key
      PROVE  Lookup(b, d, key) = r /\ r \in Nat
  BY <1>2, LookupFound, MirrorFacts
<1> QED BY <1>1, <1>2

----------------------------------------------------------------------------
(* Changes of the dictionary.                                              *)

\* The dummies of a table can be counted.
LEMMA DummiesFinite ==
  ASSUME NEW d, NEW n \in Nat
  PROVE  IsFiniteSet(Dummies(d, n)) /\ Cardinality(Dummies(d, n)) \in Nat
<1>1. IsFiniteSet(0 .. n - 1)
  BY FS_Interval
<1>2. Dummies(d, n) \in SUBSET (0 .. n - 1)
  BY DEF Dummies
<1>3. IsFiniteSet(Dummies(d, n))
  BY <1>1, <1>2, FS_Subset
<1> QED BY <1>3, FS_CardinalityType

\* An entry is not an unused slot or a dummy.
LEMMA EntryFacts ==
  ASSUME NEW b, NEW r \in Nat
  PROVE  /\ Entry(b, r) # UnusedSlot /\ Entry(b, r) # DummySlot /\ UnusedSlot # DummySlot
         /\ Entry(b, r).row = r /\ UnusedSlot.row = -1 /\ DummySlot.row = -1
         /\ \A q : Entry(b, q) = Entry(b, r) => q = r
<1>1. Entry(b, r).row = r /\ UnusedSlot.row = -1 /\ DummySlot.row = -1
  BY DEF Entry, UnusedSlot, DummySlot
<1>2. UnusedSlot.hash = 0 /\ DummySlot.hash = -1
  BY DEF UnusedSlot, DummySlot
<1>3. \A q : Entry(b, q).row = q
  BY DEF Entry
<1>4. r # -1
  OBVIOUS
<1> QED BY <1>1, <1>2, <1>3, <1>4

\* A slot where a row may be put: that of the row with its key, or a free one.
Place(b, d, n, M, key, e) ==
  LET i == Path[n][key][e]
  IN  /\ e \in DOMAIN Path[n][key] /\ Passed(d, n, key, e)
      /\ \/ \E q \in M : d.slot[i] = Entry(b, q) /\ Key(b, q) = key
         \/ d.slot[i] \in {UnusedSlot, DummySlot} /\ \A q \in M : Key(b, q) # key

\* The slots after a row was put into a slot for it.
LEMMA PutIn ==
  ASSUME NEW b, NEW d, NEW n, NEW M, Mirrors(b, d, n, M), NEW row \in RowsOf(b) \ M, NEW e,
         Place(b, d, n, M, Key(b, row), e)
  PROVE  LET i == Path[n][Key(b, row)][e]
         IN  Mirrors(b, [slot  |-> [d.slot EXCEPT ![i] = Entry(b, row)],
                         spare |-> IF d.slot[i] = DummySlot THEN d.spare - 1 ELSE d.spare],
                     n, {r \in M : Key(b, r) # Key(b, row)} \cup {row})
<1> DEFINE key == Key(b, row)
           i   == Path[n][key][e]
           f   == [d.slot EXCEPT ![i] = Entry(b, row)]
           s   == IF d.slot[i] = DummySlot THEN d.spare - 1 ELSE d.spare
           c   == [slot |-> f, spare |-> s]
           K   == {r \in M : Key(b, r) # key} \cup {row}
<1>1. /\ n \in Nat /\ n \in Sizes /\ b \in Seq(Row) /\ M \subseteq RowsOf(b)
      /\ d.slot \in [0 .. n - 1 -> Slot] /\ row \in Nat /\ row \in Int /\ key \in Keys
      /\ HashOf[key] \in Int /\ \A r \in M : r \in Nat
  BY MirrorFacts
<1>2. e \in DOMAIN Path[n][key] /\ Passed(d, n, key, e)
  BY DEF Place
<1>3. i \in 0 .. n - 1
  BY <1>1, <1>2, PathFacts
<1>4. \/ \E q \in M : d.slot[i] = Entry(b, q) /\ Key(b, q) = key
      \/ d.slot[i] \in {UnusedSlot, DummySlot} /\ \A q \in M : Key(b, q) # key
  BY DEF Place
<1>5. d.spare \in Int /\ d.spare = Cardinality(Dummies(d, n))
  BY DEF Mirrors, IsTable
<1>6. Entry(b, row) \in Slot
  BY <1>1 DEF Entry, Slot
<1> HIDE DEF i, key
<1>7. /\ f \in [0 .. n - 1 -> Slot] /\ f[i] = Entry(b, row)
      /\ \A k \in 0 .. n - 1 : k # i => f[k] = d.slot[k]
  BY <1>1, <1>3, <1>6
<1> HIDE DEF f
<1>8. s \in Int
  BY <1>5
<1> HIDE DEF s
<1>9. c.slot = f /\ c.spare = s /\ IsTable(c, n)
  BY <1>1, <1>7, <1>8 DEF IsTable
<1> HIDE DEF c
<1>10. ASSUME NEW k \in 0 .. n - 1, k # i, NEW r \in M, d.slot[k] = Entry(b, r)
       PROVE  r \in K /\ r # row
  <2>1. ASSUME Key(b, r) = key PROVE FALSE
    <3>1. PICK q \in M : d.slot[i] = Entry(b, q) /\ Key(b, q) = key
      BY <1>4, <2>1
    <3>2. q = r
      BY <2>1, <3>1 DEF Mirrors, Distinct
    <3>3. d.slot[k].row = d.slot[i].row /\ d.slot[i].row >= 0
      BY <1>1, <1>10, <3>1, <3>2, EntryFacts
    <3> QED BY <1>3, <1>10, <3>3 DEF Mirrors, Once
  <2> QED BY <1>10, <2>1
<1>11. Filled(b, c, n, K)
  <2> SUFFICES ASSUME NEW k \in 0 .. n - 1
               PROVE  c.slot[k] \in {UnusedSlot, DummySlot} \cup {Entry(b, r) : r \in K}
    BY DEF Filled
  <2>1. CASE k = i
    BY <1>7, <1>9, <2>1
  <2>2. CASE k # i
    <3>1. d.slot[k] \in {UnusedSlot, DummySlot} \/ \E r \in M : d.slot[k] = Entry(b, r)
      BY DEF Mirrors, Filled
    <3> HIDE DEF K
    <3> QED BY <1>7, <1>9, <1>10, <2>2, <3>1
  <2> QED BY <2>1, <2>2
<1>12. ASSUME NEW k \in 0 .. n - 1, d.slot[k] # UnusedSlot PROVE c.slot[k] # UnusedSlot
  <2>1. CASE k = i
    BY <1>1, <1>7, <1>9, <2>1, EntryFacts
  <2>2. CASE k # i
    BY <1>7, <1>9, <1>12, <2>2
  <2> QED BY <2>1, <2>2
<1>13. ASSUME NEW k \in Keys, NEW x \in DOMAIN Path[n][k], Passed(d, n, k, x)
       PROVE  Passed(c, n, k, x)
  <2> SUFFICES ASSUME NEW y \in 1 .. x - 1 PROVE c.slot[Path[n][k][y]] # UnusedSlot
    BY DEF Passed
  <2>1. y \in DOMAIN Path[n][k]
    BY <1>1, PathFacts
  <2>2. Path[n][k][y] \in 0 .. n - 1
    BY <1>1, <2>1, PathFacts
  <2>3. d.slot[Path[n][k][y]] # UnusedSlot
    BY <1>13 DEF Passed
  <2> QED BY <1>12, <2>2, <2>3
<1>14. Reached(b, c, n, K)
  <2> SUFFICES ASSUME NEW r \in K
               PROVE  \E x \in DOMAIN Path[n][Key(b, r)] :
                        c.slot[Path[n][Key(b, r)][x]].row = r /\ Passed(c, n, Key(b, r), x)
    BY DEF Reached
  <2>1. CASE r = row
    <3>1. c.slot[i].row = row
      BY <1>1, <1>7, <1>9, EntryFacts
    <3>2. Passed(c, n, key, e)
      BY <1>1, <1>2, <1>13
    <3> QED BY <1>2, <2>1, <3>1, <3>2 DEF i, key
  <2>2. CASE r # row
    <3>1. r \in M /\ Key(b, r) # key
      BY <2>2
    <3>2. PICK x \in DOMAIN Path[n][Key(b, r)] :
            d.slot[Path[n][Key(b, r)][x]].row = r /\ Passed(d, n, Key(b, r), x)
      BY <3>1 DEF Mirrors, Reached
    <3>3. Key(b, r) \in Keys
      BY <1>1, <3>1, MirrorFacts
    <3>4. Path[n][Key(b, r)][x] \in 0 .. n - 1
      BY <1>1, <3>3, PathFacts
    <3>5. d.slot[i].row # r
      <4>1. CASE \E q \in M : d.slot[i] = Entry(b, q) /\ Key(b, q) = key
        BY <1>1, <3>1, <4>1, EntryFacts
      <4>2. CASE d.slot[i] \in {UnusedSlot, DummySlot}
        <5>1. d.slot[i].row = -1 /\ r # -1
          BY <1>1, <3>1, <4>2 DEF UnusedSlot, DummySlot
        <5> QED BY <5>1
      <4> QED BY <1>4, <4>1, <4>2
    <3>6. c.slot[Path[n][Key(b, r)][x]].row = r
      BY <1>7, <1>9, <3>2, <3>4, <3>5
    <3>7. Passed(c, n, Key(b, r), x)
      BY <1>13, <3>2, <3>3
    <3> QED BY <3>6, <3>7
  <2> QED BY <2>1, <2>2
<1>15. Once(c, n)
  <2>1. ASSUME NEW k \in 0 .. n - 1, k # i, d.slot[k].row >= 0 PROVE d.slot[k].row # row
    <3>1. PICK r \in M : d.slot[k] = Entry(b, r)
      BY <2>1, MirrorFacts DEF IsActive
    <3>2. r # row
      BY <1>10, <2>1, <3>1
    <3> QED BY <1>1, <3>1, <3>2, EntryFacts
  <2>2. c.slot[i].row = row /\ row >= 0
    BY <1>1, <1>7, <1>9, EntryFacts
  <2>3. \A k \in 0 .. n - 1 : k # i => c.slot[k] = d.slot[k]
    BY <1>7, <1>9
  <2>4. \A k, l \in 0 .. n - 1 : d.slot[k].row = d.slot[l].row /\ d.slot[k].row >= 0 => k = l
    BY DEF Mirrors, Once
  <2> SUFFICES ASSUME NEW k \in 0 .. n - 1, NEW l \in 0 .. n - 1,
                      c.slot[k].row = c.slot[l].row, c.slot[k].row >= 0
               PROVE  k = l
    BY DEF Once
  <2> QED BY <2>1, <2>2, <2>3, <2>4
<1>16. Distinct(b, K)
  BY DEF Mirrors, Distinct, key
<1>17. s = Cardinality(Dummies(c, n))
  <2>1. Dummies(c, n) = Dummies(d, n) \ {i}
    <3>1. c.slot[i] # DummySlot
      BY <1>1, <1>7, <1>9, EntryFacts
    <3>2. \A k \in 0 .. n - 1 : k # i => c.slot[k] = d.slot[k]
      BY <1>7, <1>9
    <3> QED BY <3>1, <3>2 DEF Dummies
  <2>2. i \in Dummies(d, n) <=> d.slot[i] = DummySlot
    BY <1>3 DEF Dummies
  <2>3. Cardinality(Dummies(d, n) \ {i})
          = IF i \in Dummies(d, n) THEN Cardinality(Dummies(d, n)) - 1
            ELSE Cardinality(Dummies(d, n))
    BY <1>1, DummiesFinite, FS_RemoveElement
  <2> QED BY <1>5, <2>1, <2>2, <2>3 DEF s
<1>18. K \subseteq RowsOf(b)
  BY <1>1
<1>19. Mirrors(b, c, n, K)
  BY <1>1, <1>9, <1>11, <1>14, <1>15, <1>16, <1>17, <1>18 DEF Mirrors
<1> QED BY <1>19 DEF c, f, s, i, key, K

\* A dictionary that mirrors rows is not stuck.
LEMMA NotStuck ==
  ASSUME NEW b, NEW d, NEW n, NEW M, Mirrors(b, d, n, M)
  PROVE  d # Stuck
<1>1. n \in Nat /\ n >= 1 /\ DOMAIN d.slot = 0 .. n - 1
  BY MirrorFacts
<1>2. 0 \in DOMAIN d.slot
  BY <1>1
<1>3. DOMAIN Stuck.slot = {}
  BY DEF Stuck
<1> QED BY <1>2, <1>3

\* InsertDict puts a row in, in place of one that has its key; or its search never ends.
LEMMA InsertIs ==
  ASSUME NEW b, NEW d, NEW n, NEW M, Mirrors(b, d, n, M), NEW row \in RowsOf(b) \ M
  PROVE  /\ InsertDict(b, d, row) # Stuck =>
              Mirrors(b, InsertDict(b, d, row), n, {r \in M : Key(b, r) # Key(b, row)} \cup {row})
         /\ LookDict(b, d, Key(b, row)) # Never => InsertDict(b, d, row) # Stuck
<1> DEFINE key == Key(b, row)
           i   == LookDict(b, d, key)
           c   == [slot  |-> [d.slot EXCEPT ![i] = Entry(b, row)],
                   spare |-> IF d.slot[i] = DummySlot THEN d.spare - 1 ELSE d.spare]
<1>1. key \in Keys
  BY MirrorFacts
<1>2. InsertDict(b, d, row) = IF i = Never THEN Stuck ELSE c
  BY DEF InsertDict, Entry, Key
<1>3. ASSUME i # Never
      PROVE  \E e \in DOMAIN Path[n][key] :
               i = Path[n][key][e] /\ Place(b, d, n, M, key, e)
  <2>1. CASE \A q \in M : Key(b, q) # key
    <3>1. PICK e \in DOMAIN Path[n][key] :
            /\ i = Path[n][key][e] /\ Passed(d, n, key, e)
            /\ d.slot[Path[n][key][e]] \in {UnusedSlot, DummySlot}
      BY <1>1, <1>3, <2>1, LookFree
    <3> HIDE DEF key, i
    <3> QED BY <2>1, <3>1 DEF Place
  <2>2. CASE \E q \in M : Key(b, q) = key
    <3>1. PICK q \in M : Key(b, q) = key
      BY <2>2
    <3>2. PICK e \in DOMAIN Path[n][Key(b, q)] :
            /\ LookDict(b, d, Key(b, q)) = Path[n][Key(b, q)][e]
            /\ d.slot[Path[n][Key(b, q)][e]] = Entry(b, q)
            /\ Passed(d, n, Key(b, q), e)
      BY LookFound
    <3>3. /\ e \in DOMAIN Path[n][key] /\ i = Path[n][key][e]
          /\ d.slot[Path[n][key][e]] = Entry(b, q) /\ Passed(d, n, key, e)
      BY <3>1, <3>2
    <3> HIDE DEF key, i
    <3> QED BY <3>1, <3>3 DEF Place
  <2> QED BY <2>1, <2>2
<1>4. ASSUME i # Never
      PROVE  Mirrors(b, c, n, {r \in M : Key(b, r) # key} \cup {row})
  <2>1. PICK e : i = Path[n][key][e] /\ Place(b, d, n, M, key, e)
    BY <1>3, <1>4
  <2> HIDE DEF i
  <2> QED BY <2>1, PutIn
<1>5. i # Never => c # Stuck
  BY <1>4, NotStuck
<1> HIDE DEF i, c, key
<1>6. /\ InsertDict(b, d, row) # Stuck =>
              Mirrors(b, InsertDict(b, d, row), n, {r \in M : Key(b, r) # key} \cup {row})
      /\ i # Never => InsertDict(b, d, row) # Stuck
  BY <1>2, <1>4, <1>5
<1> QED BY <1>6 DEF i, key

\* RemoveDict takes out the row that has the key of a row.
LEMMA RemoveIs ==
  ASSUME NEW b, NEW d, NEW n, NEW M, Mirrors(b, d, n, M), NEW pos, NEW q \in M,
         Key(b, q) = Key(b, pos)
  PROVE  Mirrors(b, RemoveDict(b, d, pos), n, {r \in M : Key(b, r) # Key(b, pos)})
<1> DEFINE key == Key(b, pos)
           i   == LookDict(b, d, key)
           f   == [d.slot EXCEPT ![i] = DummySlot]
           c   == RemoveDict(b, d, pos)
           K   == {r \in M : Key(b, r) # key}
<1>1. /\ n \in Nat /\ n \in Sizes /\ b \in Seq(Row) /\ M \subseteq RowsOf(b)
      /\ d.slot \in [0 .. n - 1 -> Slot] /\ key \in Keys
      /\ \A r \in M : r \in Nat
  BY MirrorFacts
<1>2. i \in 0 .. n - 1 /\ d.slot[i] = Entry(b, q)
  <2>1. PICK e \in DOMAIN Path[n][key] : i = Path[n][key][e] /\ d.slot[Path[n][key][e]] = Entry(b, q)
    BY LookFound
  <2>2. Path[n][key][e] \in 0 .. n - 1
    BY <1>1, PathFacts
  <2> HIDE DEF i
  <2> QED BY <2>1, <2>2
<1>3. d.spare \in Int /\ d.spare = Cardinality(Dummies(d, n))
  BY DEF Mirrors, IsTable
<1>4. c = [slot |-> f, spare |-> d.spare + 1]
  BY DEF RemoveDict, Key
<1> HIDE DEF i, key, c
<1>5. DummySlot \in Slot /\ UnusedSlot # DummySlot /\ DummySlot.row = -1
  BY DEF DummySlot, UnusedSlot, Slot
<1>6. /\ f \in [0 .. n - 1 -> Slot] /\ f[i] = DummySlot
      /\ \A k \in 0 .. n - 1 : k # i => f[k] = d.slot[k]
  BY <1>1, <1>2, <1>5
<1> HIDE DEF f
<1>7. c.slot = f /\ c.spare = d.spare + 1 /\ IsTable(c, n)
  BY <1>1, <1>3, <1>4, <1>6 DEF IsTable
<1>8. /\ c.slot[i] = DummySlot
      /\ \A k \in 0 .. n - 1 : k # i => c.slot[k] = d.slot[k]
  BY <1>6, <1>7
<1>9. ASSUME NEW k \in 0 .. n - 1, NEW r \in M, d.slot[k].row = r
      PROVE  k = i <=> Key(b, r) = key
  <2>1. d.slot[i].row = q
    BY <1>1, <1>2, EntryFacts
  <2>2. k = i <=> r = q
    <3>1. r >= 0
      BY <1>1
    <3> QED BY <1>2, <1>9, <2>1, <3>1 DEF Mirrors, Once
  <2>3. r = q <=> Key(b, r) = key
    BY DEF Mirrors, Distinct, key
  <2> QED BY <2>2, <2>3
<1>10. Filled(b, c, n, K)
  <2> SUFFICES ASSUME NEW k \in 0 .. n - 1
               PROVE  c.slot[k] \in {UnusedSlot, DummySlot} \cup {Entry(b, r) : r \in K}
    BY DEF Filled
  <2>1. CASE k = i
    BY <1>8, <2>1
  <2>2. CASE k # i
    <3>1. ASSUME NEW r \in M, d.slot[k] = Entry(b, r) PROVE r \in K
      <4>1. d.slot[k].row = r
        BY <1>1, <3>1, EntryFacts
      <4> QED BY <1>9, <2>2, <4>1
    <3>2. d.slot[k] \in {UnusedSlot, DummySlot} \/ \E r \in M : d.slot[k] = Entry(b, r)
      BY DEF Mirrors, Filled
    <3>3. c.slot[k] = d.slot[k]
      BY <1>8, <2>2
    <3> HIDE DEF K
    <3> QED BY <3>1, <3>2, <3>3
  <2> QED BY <2>1, <2>2
<1>11. Reached(b, c, n, K)
  <2> SUFFICES ASSUME NEW r \in K
               PROVE  \E x \in DOMAIN Path[n][Key(b, r)] :
                        c.slot[Path[n][Key(b, r)][x]].row = r /\ Passed(c, n, Key(b, r), x)
    BY DEF Reached
  <2>1. PICK x \in DOMAIN Path[n][Key(b, r)] :
          d.slot[Path[n][Key(b, r)][x]].row = r /\ Passed(d, n, Key(b, r), x)
    BY DEF Mirrors, Reached
  <2>2. Key(b, r) \in Keys
    BY <1>1, MirrorFacts
  <2>3. Path[n][Key(b, r)][x] \in 0 .. n - 1
    BY <1>1, <2>2, PathFacts
  <2>4. c.slot[Path[n][Key(b, r)][x]].row = r
    BY <1>8, <1>9, <2>1, <2>3
  <2>5. Passed(c, n, Key(b, r), x)
    <3> SUFFICES ASSUME NEW y \in 1 .. x - 1 PROVE c.slot[Path[n][Key(b, r)][y]] # UnusedSlot
      BY DEF Passed
    <3>1. y \in DOMAIN Path[n][Key(b, r)]
      BY <1>1, <2>2, PathFacts
    <3>2. Path[n][Key(b, r)][y] \in 0 .. n - 1
      BY <1>1, <2>2, <3>1, PathFacts
    <3>3. d.slot[Path[n][Key(b, r)][y]] # UnusedSlot
      BY <2>1 DEF Passed
    <3> QED BY <1>5, <1>8, <3>2, <3>3
  <2> QED BY <2>4, <2>5
<1>12. Once(c, n)
  <2>1. \A k, l \in 0 .. n - 1 : d.slot[k].row = d.slot[l].row /\ d.slot[k].row >= 0 => k = l
    BY DEF Mirrors, Once
  <2>2. ~(DummySlot.row >= 0)
    BY <1>5
  <2> SUFFICES ASSUME NEW k \in 0 .. n - 1, NEW l \in 0 .. n - 1,
                      c.slot[k].row = c.slot[l].row, c.slot[k].row >= 0
               PROVE  k = l
    BY DEF Once
  <2>3. k # i /\ l # i
    BY <1>8, <2>2
  <2> QED BY <1>8, <2>1, <2>3
<1>13. Distinct(b, K)
  BY DEF Mirrors, Distinct
<1>14. c.spare = Cardinality(Dummies(c, n))
  <2>1. Dummies(c, n) = Dummies(d, n) \cup {i}
    BY <1>2, <1>8 DEF Dummies
  <2>2. i \notin Dummies(d, n)
    BY <1>1, <1>2, EntryFacts DEF Dummies
  <2>3. Cardinality(Dummies(d, n) \cup {i}) = Cardinality(Dummies(d, n)) + 1
    BY <1>1, <2>2, DummiesFinite, FS_AddElement
  <2> QED BY <1>3, <1>7, <2>1, <2>3
<1>15. K \subseteq RowsOf(b)
  BY <1>1
<1>16. Mirrors(b, c, n, K)
  BY <1>1, <1>7, <1>10, <1>11, <1>12, <1>13, <1>14, <1>15 DEF Mirrors
<1> QED BY <1>16 DEF c, key, K

\* The new number of a row when those from pos on move.
Shift(r, pos, by) == IF r >= pos THEN r + by ELSE r
Shifted(M, pos, by) == {Shift(r, pos, by) : r \in M}

\* Rows c that have the rows of b under their new numbers, with the same keys.
Renumbers(b, c, M, pos, by) ==
  /\ c \in Seq(Row) /\ pos \in Nat /\ by \in Int
  /\ \A r \in M : /\ Shift(r, pos, by) \in RowsOf(c)
                  /\ Key(c, Shift(r, pos, by)) = Key(b, r)
  /\ \A q, r \in M : Shift(q, pos, by) = Shift(r, pos, by) => q = r

\* Rows that get other numbers, in the dictionary and in the view.
LEMMA MovedIs ==
  ASSUME NEW b, NEW c, NEW d, NEW n, NEW M, Mirrors(b, d, n, M), NEW pos, NEW by,
         Renumbers(b, c, M, pos, by)
  PROVE  /\ Mirrors(c, RowsMoved(d, pos, by), n, Shifted(M, pos, by))
         /\ \A i \in 0 .. n - 1 :
              RowsMoved(d, pos, by).slot[i] = UnusedSlot <=> d.slot[i] = UnusedSlot
<1> DEFINE f == [i \in 0 .. n - 1 |->
                   IF d.slot[i].row >= pos THEN [d.slot[i] EXCEPT !.row = @ + by] ELSE d.slot[i]]
           e == RowsMoved(d, pos, by)
           K == Shifted(M, pos, by)
           To(r) == Shift(r, pos, by)
<1>1. /\ n \in Nat /\ n \in Sizes /\ Slots(d) = 0 .. n - 1
      /\ d.slot \in [0 .. n - 1 -> Slot] /\ \A r \in M : r \in Nat
      /\ M \subseteq RowsOf(b)
  BY MirrorFacts
<1>2. d.spare \in Int /\ d.spare = Cardinality(Dummies(d, n)) /\ d \in [slot : [0 .. n - 1 -> Slot], spare : Int]
  BY DEF Mirrors, IsTable
<1>3. c \in Seq(Row) /\ pos \in Nat /\ by \in Int
  BY DEF Renumbers
<1>4. e = [d EXCEPT !.slot = f]
  BY <1>1 DEF RowsMoved
<1>5. ASSUME NEW i \in 0 .. n - 1
      PROVE  /\ d.slot[i] \in {UnusedSlot, DummySlot} => f[i] = d.slot[i]
             /\ \A r \in M : d.slot[i] = Entry(b, r) => f[i] = Entry(c, To(r))
             /\ f[i] \in Slot
  <2>1. d.slot[i] \in Slot /\ d.slot[i].row \in Int
    BY <1>1 DEF Slot
  <2>2. f[i] = IF d.slot[i].row >= pos
               THEN [row |-> d.slot[i].row + by, hash |-> d.slot[i].hash] ELSE d.slot[i]
    BY <2>1 DEF Slot
  <2> HIDE DEF f
  <2>3. d.slot[i] \in {UnusedSlot, DummySlot} => d.slot[i].row = -1
    BY DEF UnusedSlot, DummySlot
  <2>4. ASSUME NEW r \in M, d.slot[i] = Entry(b, r) PROVE f[i] = Entry(c, To(r))
    <3>1. d.slot[i].row = r /\ d.slot[i].hash = HashOf[Key(b, r)] /\ Key(c, To(r)) = Key(b, r)
      BY <2>4 DEF Entry, Renumbers
    <3>2. Entry(c, To(r)) = [row |-> To(r), hash |-> HashOf[Key(b, r)]]
      BY <3>1 DEF Entry
    <3>3. d.slot[i] = [row |-> r, hash |-> HashOf[Key(b, r)]]
      BY <2>4 DEF Entry
    <3> QED BY <2>2, <3>1, <3>2, <3>3 DEF Shift
  <2>5. f[i] \in Slot
    BY <1>3, <2>1, <2>2 DEF Slot
  <2>6. d.slot[i] \in {UnusedSlot, DummySlot} => f[i] = d.slot[i]
    BY <1>3, <2>2, <2>3
  <2> QED BY <2>4, <2>5, <2>6
<1>6. f \in [0 .. n - 1 -> Slot]
  BY <1>5
<1> HIDE DEF f
<1>7. e.slot = f /\ e.spare = d.spare /\ IsTable(e, n)
  BY <1>1, <1>2, <1>4, <1>6 DEF IsTable
<1> HIDE DEF e
<1>8. ASSUME NEW r \in M PROVE To(r) \in Nat /\ To(r) \in RowsOf(c) /\ Key(c, To(r)) = Key(b, r)
  BY DEF Renumbers, RowsOf
<1>9. ASSUME NEW i \in 0 .. n - 1
      PROVE  \/ d.slot[i] \in {UnusedSlot, DummySlot} /\ e.slot[i] = d.slot[i]
             \/ \E r \in M : d.slot[i] = Entry(b, r) /\ e.slot[i] = Entry(c, To(r))
  <2>1. d.slot[i] \in {UnusedSlot, DummySlot} \/ \E r \in M : d.slot[i] = Entry(b, r)
    BY DEF Mirrors, Filled
  <2> HIDE DEF To
  <2> QED BY <1>5, <1>7, <2>1
<1>10. \A i \in 0 .. n - 1 : /\ e.slot[i] = UnusedSlot <=> d.slot[i] = UnusedSlot
                             /\ e.slot[i] = DummySlot <=> d.slot[i] = DummySlot
  <2> TAKE i \in 0 .. n - 1
  <2>1. ASSUME NEW r \in M, d.slot[i] = Entry(b, r), e.slot[i] = Entry(c, To(r))
        PROVE  /\ d.slot[i] \notin {UnusedSlot, DummySlot}
               /\ e.slot[i] \notin {UnusedSlot, DummySlot}
    <3> HIDE DEF To
    <3>1. r \in Nat /\ To(r) \in Nat
      BY <1>1, <1>8
    <3> QED BY <2>1, <3>1, EntryFacts
  <2> HIDE DEF To
  <2> QED BY <1>9, <2>1
<1>11. Filled(c, e, n, K)
  <2> SUFFICES ASSUME NEW k \in 0 .. n - 1
               PROVE  e.slot[k] \in {UnusedSlot, DummySlot} \cup {Entry(c, r) : r \in K}
    BY DEF Filled
  <2>1. \A r \in M : To(r) \in K
    BY DEF Shifted
  <2> HIDE DEF K, To
  <2> QED BY <1>9, <2>1
<1>12. Reached(c, e, n, K)
  <2> SUFFICES ASSUME NEW r \in M
               PROVE  \E x \in DOMAIN Path[n][Key(c, To(r))] :
                        /\ e.slot[Path[n][Key(c, To(r))][x]].row = To(r)
                        /\ Passed(e, n, Key(c, To(r)), x)
    BY DEF Reached, Shifted
  <2>1. PICK x \in DOMAIN Path[n][Key(b, r)] :
          d.slot[Path[n][Key(b, r)][x]].row = r /\ Passed(d, n, Key(b, r), x)
    BY DEF Mirrors, Reached
  <2>2. Key(b, r) \in Keys
    BY <1>1, MirrorFacts
  <2>3. Path[n][Key(b, r)][x] \in 0 .. n - 1
    BY <1>1, <2>2, PathFacts
  <2>4. e.slot[Path[n][Key(b, r)][x]].row = To(r)
    <3> DEFINE i == Path[n][Key(b, r)][x]
    <3>1. i \in 0 .. n - 1 /\ d.slot[i].row = r
      BY <2>1, <2>3
    <3> HIDE DEF i, To
    <3>2. d.slot[i] \notin {UnusedSlot, DummySlot}
      BY <1>1, <3>1 DEF UnusedSlot, DummySlot
    <3>3. PICK q \in M : d.slot[i] = Entry(b, q) /\ e.slot[i] = Entry(c, To(q))
      BY <1>9, <3>1, <3>2
    <3>4. q = r
      BY <3>1, <3>3 DEF Entry
    <3>5. e.slot[i].row = To(r)
      BY <3>3, <3>4 DEF Entry
    <3> QED BY <3>5 DEF i
  <2>5. Passed(e, n, Key(b, r), x)
    <3> SUFFICES ASSUME NEW y \in 1 .. x - 1 PROVE e.slot[Path[n][Key(b, r)][y]] # UnusedSlot
      BY DEF Passed
    <3>1. y \in DOMAIN Path[n][Key(b, r)]
      BY <1>1, <2>2, PathFacts
    <3>2. Path[n][Key(b, r)][y] \in 0 .. n - 1
      BY <1>1, <2>2, <3>1, PathFacts
    <3>3. d.slot[Path[n][Key(b, r)][y]] # UnusedSlot
      BY <2>1 DEF Passed
    <3> QED BY <1>10, <3>2, <3>3
  <2> HIDE DEF To
  <2> QED BY <1>8, <2>4, <2>5
<1>13. Once(e, n)
  <2>1. \A k, l \in 0 .. n - 1 : d.slot[k].row = d.slot[l].row /\ d.slot[k].row >= 0 => k = l
    BY DEF Mirrors, Once
  <2> SUFFICES ASSUME NEW k \in 0 .. n - 1, NEW l \in 0 .. n - 1,
                      e.slot[k].row = e.slot[l].row, e.slot[k].row >= 0
               PROVE  k = l
    BY DEF Once
  <2>2. ~(UnusedSlot.row >= 0) /\ ~(DummySlot.row >= 0)
    BY DEF UnusedSlot, DummySlot
  <2> HIDE DEF To
  <2>3. PICK q \in M : d.slot[k] = Entry(b, q) /\ e.slot[k] = Entry(c, To(q))
    BY <1>9, <2>2
  <2>4. PICK r \in M : d.slot[l] = Entry(b, r) /\ e.slot[l] = Entry(c, To(r))
    BY <1>9, <2>2
  <2>5. To(q) = To(r)
    BY <2>3, <2>4 DEF Entry
  <2>6. q = r
    BY <2>5 DEF Renumbers, To
  <2>7. d.slot[k].row = d.slot[l].row /\ d.slot[k].row >= 0
    BY <1>1, <2>3, <2>4, <2>6, EntryFacts
  <2> QED BY <2>1, <2>7
<1>14. Distinct(c, K)
  <2> SUFFICES ASSUME NEW q \in M, NEW r \in M, Key(c, To(q)) = Key(c, To(r)) PROVE To(q) = To(r)
    BY DEF Distinct, Shifted
  <2> HIDE DEF To
  <2>1. Key(b, q) = Key(b, r)
    BY <1>8
  <2> QED BY <2>1 DEF Mirrors, Distinct
<1>15. e.spare = Cardinality(Dummies(e, n))
  <2>1. Dummies(e, n) = Dummies(d, n)
    BY <1>10 DEF Dummies
  <2> QED BY <1>2, <1>7, <2>1
<1>16. K \subseteq RowsOf(c)
  BY <1>8 DEF Shifted
<1>17. Mirrors(c, e, n, K)
  BY <1>1, <1>3, <1>7, <1>11, <1>12, <1>13, <1>14, <1>15, <1>16 DEF Mirrors
<1> QED BY <1>10, <1>17 DEF e, K

\* Rows that stay where they are in the dictionary, and keep their keys.
LEMMA RebasedIs ==
  ASSUME NEW b, NEW c \in Seq(Row), NEW d, NEW n, NEW M, Mirrors(b, d, n, M),
         M \subseteq RowsOf(c), \A r \in M : Key(c, r) = Key(b, r)
  PROVE  Mirrors(c, d, n, M)
<1>1. \A r \in M : Entry(c, r) = Entry(b, r)
  BY DEF Entry
<1>2. {Entry(c, r) : r \in M} = {Entry(b, r) : r \in M}
  BY <1>1
<1>3. Filled(c, d, n, M)
  BY <1>2 DEF Mirrors, Filled
<1>4. Reached(c, d, n, M)
  BY DEF Mirrors, Reached
<1>5. Distinct(c, M)
  BY DEF Mirrors, Distinct
<1> QED BY <1>3, <1>4, <1>5 DEF Mirrors

----------------------------------------------------------------------------
(* A new table.                                                            *)

Empty(n) == [slot |-> [i \in 0 .. n - 1 |-> UnusedSlot], spare |-> 0]
NewSize(m) == Min({s \in Sizes : s > m})

\* There is a size for up to twice as many rows as there may be.
LEMMA SizeChosen ==
  ASSUME NEW m \in Nat, m <= 2 * MaxRows
  PROVE  NewSize(m) \in Sizes /\ NewSize(m) \in Nat /\ NewSize(m) > m
<1> DEFINE S == {s \in Sizes : s > m}
<1>1. S \in SUBSET Nat /\ S # {}
  <2>1. MaxRows \in Nat /\ Sizes \subseteq Nat \ {0}
    BY HashViewAssumption
  <2>2. PICK n \in Sizes : n > 2 * MaxRows
    BY HashViewAssumption
  <2>3. n > m
    BY <2>1, <2>2
  <2>4. n \in S
    BY <2>3
  <2> QED BY <2>1, <2>4
<1>2. NewSize(m) \in S
  BY <1>1, LeastNatural DEF NewSize, Min
<1> QED BY <1>1, <1>2

\* An empty table mirrors no rows.
LEMMA EmptyMirrors ==
  ASSUME NEW n \in Sizes, NEW b \in Seq(Row)
  PROVE  Mirrors(b, Empty(n), n, {})
<1> DEFINE f == [i \in 0 .. n - 1 |-> UnusedSlot]
           d == Empty(n)
<1>1. d.slot = f /\ d.spare = 0 /\ d = [slot |-> f, spare |-> 0]
  BY DEF Empty
<1>2. \A i \in 0 .. n - 1 : f[i] = UnusedSlot
  OBVIOUS
<1>3. UnusedSlot \in Slot /\ UnusedSlot.row = -1 /\ UnusedSlot # DummySlot
  BY DEF UnusedSlot, DummySlot, Slot
<1>4. f \in [0 .. n - 1 -> Slot]
  BY <1>3
<1> HIDE DEF f, d
<1>5. IsTable(d, n)
  BY <1>1, <1>4 DEF IsTable
<1>6. Filled(b, d, n, {}) /\ Reached(b, d, n, {}) /\ Distinct(b, {})
  BY <1>1, <1>2 DEF Filled, Reached, Distinct
<1>7. Once(d, n)
  BY <1>1, <1>2, <1>3 DEF Once
<1>8. Dummies(d, n) = {}
  BY <1>1, <1>2, <1>3 DEF Dummies
<1>9. d.spare = Cardinality(Dummies(d, n))
  BY <1>1, <1>8, FS_EmptySet
<1> QED BY <1>5, <1>6, <1>7, <1>9 DEF Mirrors, d

\* Whatever is in a table, InsertDict leaves a table, or its search never ends.
LEMMA InsertTyped ==
  ASSUME NEW b \in Seq(Row), NEW d, NEW n, IsTable(d, n), NEW row \in RowsOf(b)
  PROVE  InsertDict(b, d, row) = Stuck \/ IsTable(InsertDict(b, d, row), n)
<1> DEFINE key  == Key(b, row)
           path == Path[n][key]
           i    == LookDict(b, d, key)
           f    == [d.slot EXCEPT ![i] = Entry(b, row)]
           s    == IF d.slot[i] = DummySlot THEN d.spare - 1 ELSE d.spare
<1>1. n \in Sizes /\ d.slot \in [0 .. n - 1 -> Slot] /\ d.spare \in Int /\ Size(d) = n
  BY TableSize DEF IsTable
<1>2. row \in Int /\ key \in Keys /\ HashOf[key] \in Int
  <2>1. row \in Int /\ row + 1 \in DOMAIN b
    BY SeqFacts DEF RowsOf
  <2>2. b[row + 1] \in Row
    BY <2>1, SeqFacts
  <2>3. key \in Keys
    BY <2>2 DEF Key, Row
  <2> QED BY <2>1, <2>3, HashViewAssumption
<1>3. /\ Len(path) \in Nat /\ DOMAIN path = 1 .. Len(path)
      /\ \A j \in DOMAIN path : path[j] \in 0 .. n - 1
  BY <1>1, <1>2, PathFacts
<1>4. i = SlotOnPath(b, d.slot, path, key)
  BY <1>1 DEF LookDict
<1>5. InsertDict(b, d, row) = IF i = Never THEN Stuck ELSE [slot |-> f, spare |-> s]
  BY DEF InsertDict, Entry, Key
<1>6. i = Never \/ i \in 0 .. n - 1
  <2> HIDE DEF path, key, i
  <2>1. ASSUME NEW j \in DOMAIN path, Ends(b, d.slot, path, key, j)
        PROVE  i \in 0 .. n - 1
    <3>1. j \in 1 .. Len(path)
      BY <1>3
    <3>2. PICK e \in 1 .. j : \E k \in 1 .. e : SlotOnPath(b, d.slot, path, key) = path[k]
      BY <1>3, <2>1, <3>1, SearchResult
    <3>3. PICK k \in 1 .. e : SlotOnPath(b, d.slot, path, key) = path[k]
      BY <3>2
    <3>4. k \in DOMAIN path
      BY <1>3, <3>1, <3>2, <3>3
    <3> QED BY <1>3, <1>4, <3>3, <3>4
  <2>2. ASSUME \A j \in DOMAIN path : ~Ends(b, d.slot, path, key, j)
        PROVE  i = Never
    <3>1. {j \in DOMAIN path :
             d.slot[path[j]] = UnusedSlot \/ HoldsKey(b, d.slot[path[j]], key)} = {}
      BY <2>2 DEF Ends
    <3> QED BY <1>4, <3>1 DEF SlotOnPath
  <2> QED BY <2>1, <2>2
<1>7. Entry(b, row) \in Slot
  BY <1>2 DEF Entry, Slot
<1> HIDE DEF i, key, path
<1>8. f \in [0 .. n - 1 -> Slot] /\ s \in Int
  <2>1. s \in Int
    BY <1>1
  <2> DEFINE w == d.slot
             x == Entry(b, row)
  <2>2. w \in [0 .. n - 1 -> Slot] /\ x \in Slot
    BY <1>1, <1>7
  <2> HIDE DEF w, x
  <2>3. [w EXCEPT ![i] = x] \in [0 .. n - 1 -> Slot]
    BY <2>2
  <2> QED BY <2>1, <2>3 DEF w, x
<1> HIDE DEF f, s
<1>9. IsTable([slot |-> f, spare |-> s], n)
  BY <1>1, <1>8 DEF IsTable
<1> QED BY <1>5, <1>9

\* The tables after 0, 1, 2, ... rows were put in.
Builds(g, b, n) ==
  g = [j \in 0 .. Len(b) |->
         IF j = 0 THEN Empty(n)
         ELSE IF g[j - 1] = Stuck THEN Stuck
         ELSE InsertDict(b, g[j - 1], j - 1)]

\* There are such tables.
LEMMA BuildsExists ==
  ASSUME NEW b \in Seq(Row), NEW n \in Sizes
  PROVE  \E g : Builds(g, b, n)
<1> DEFINE S == {Stuck} \cup [slot : [0 .. n - 1 -> Slot], spare : Int]
           G == [j \in 1 .. Len(b) |->
                   [d \in S |-> IF d = Stuck THEN Stuck ELSE InsertDict(b, d, j - 1)]]
<1>1. Len(b) \in Nat
  BY SeqFacts
<1>2. Empty(n) \in S
  <2>1. IsTable(Empty(n), n)
    BY EmptyMirrors DEF Mirrors
  <2> QED BY <2>1 DEF IsTable
<1>3. ASSUME NEW j \in 1 .. Len(b), NEW d \in S, d # Stuck PROVE InsertDict(b, d, j - 1) \in S
  <2>1. IsTable(d, n) /\ j - 1 \in RowsOf(b)
    BY <1>1, <1>3 DEF IsTable, RowsOf
  <2>2. InsertDict(b, d, j - 1) = Stuck \/ IsTable(InsertDict(b, d, j - 1), n)
    BY <2>1, InsertTyped
  <2> QED BY <2>2 DEF IsTable
<1> HIDE DEF S
<1>4. Stuck \in S
  BY DEF S
<1>5. G \in [1 .. Len(b) -> [S -> S]]
  BY <1>3, <1>4
<1>6. \A j \in 1 .. Len(b) : \A d \in S :
        G[j][d] = IF d = Stuck THEN Stuck ELSE InsertDict(b, d, j - 1)
  OBVIOUS
<1> HIDE DEF G
<1>7. PICK g \in [0 .. Len(b) -> S] :
        g[0] = Empty(n) /\ \A j \in 1 .. Len(b) : g[j] = G[j][g[j - 1]]
  <2>1. Stepwise(Len(b), S, Empty(n), G)
    BY <1>1, <1>2, <1>5 DEF Stepwise
  <2> QED BY <2>1, StepwiseFunction
<1> DEFINE After(j) == IF j = 0 THEN Empty(n)
                       ELSE IF g[j - 1] = Stuck THEN Stuck
                       ELSE InsertDict(b, g[j - 1], j - 1)
<1>8. ASSUME NEW j \in 0 .. Len(b) PROVE g[j] = After(j)
  <2>1. CASE j = 0
    BY <1>7, <2>1
  <2>2. CASE j # 0
    <3>1. j \in 1 .. Len(b) /\ j - 1 \in 0 .. Len(b)
      BY <1>1, <2>2
    <3>2. g[j - 1] \in S
      BY <1>7, <3>1
    <3> QED BY <1>6, <1>7, <2>2, <3>1, <3>2
  <2> QED BY <2>1, <2>2
<1> HIDE DEF After
<1>9. g = [j \in 0 .. Len(b) |-> After(j)]
  BY <1>7, <1>8
<1> QED BY <1>9, Zenon DEF Builds, After

\* DictResize is the last of them.
LEMMA ResizeBuilds ==
  ASSUME NEW b \in Seq(Row), NEW m \in Nat, m <= 2 * MaxRows
  PROVE  \E g : Builds(g, b, NewSize(m)) /\ DictResize(b, m) = g[Len(b)]
<1> DEFINE g == CHOOSE h : Builds(h, b, NewSize(m))
<1>1. Builds(g, b, NewSize(m))
  BY SizeChosen, BuildsExists, Zenon
<1>2. DictResize(b, m) = g[Len(b)]
  BY Zenon DEF DictResize, Builds, NewSize, Empty
<1> QED BY <1>1, <1>2

\* Every key of a row is that of a row of M.
Represents(b, M) == \A r \in RowsOf(b) : \E q \in M : Key(b, q) = Key(b, r)

\* A new table mirrors rows with all keys there are; or a search for a place never ends.
LEMMA ResizedIs ==
  ASSUME NEW b \in Seq(Row), NEW m \in Nat, m <= 2 * MaxRows, DictResize(b, m) # Stuck
  PROVE  \E n \in Sizes : \E M : /\ Mirrors(b, DictResize(b, m), n, M) /\ Represents(b, M)
                                 /\ n > m
<1> DEFINE n == NewSize(m)
<1>1. n \in Sizes /\ n > m /\ Len(b) \in Nat
  BY SizeChosen, SeqFacts
<1>2. PICK g : Builds(g, b, n) /\ DictResize(b, m) = g[Len(b)]
  BY ResizeBuilds
<1> HIDE DEF n
<1> DEFINE Good(j) == \E M : /\ Mirrors(b, g[j], n, M) /\ M \subseteq 0 .. j - 1
                             /\ \A r \in 0 .. j - 1 : \E q \in M : Key(b, q) = Key(b, r)
           T == {j \in 0 .. Len(b) : g[j] = Stuck \/ Good(j)}
<1>3. 0 \in T
  <2>1. g[0] = Empty(n)
    BY <1>1, <1>2 DEF Builds
  <2>2. Mirrors(b, g[0], n, {})
    BY <1>1, <2>1, EmptyMirrors
  <2>3. 0 .. 0 - 1 = {}
    OBVIOUS
  <2> QED BY <1>1, <2>2, <2>3
<1>4. ASSUME NEW j \in 1 .. Len(b), j - 1 \in T PROVE j \in T
  <2>1. j \in 0 .. Len(b) /\ j # 0 /\ j - 1 \in RowsOf(b) /\ j \in Nat /\ j >= 1
    BY <1>1 DEF RowsOf
  <2>2. g[j] = IF g[j - 1] = Stuck THEN Stuck ELSE InsertDict(b, g[j - 1], j - 1)
    BY <1>2, <2>1 DEF Builds
  <2>3. CASE g[j - 1] = Stuck
    BY <2>1, <2>2, <2>3
  <2>4. CASE g[j - 1] # Stuck /\ g[j] # Stuck
    <3>1. PICK M : /\ Mirrors(b, g[j - 1], n, M) /\ M \subseteq 0 .. j - 1 - 1
                   /\ \A r \in 0 .. j - 1 - 1 : \E q \in M : Key(b, q) = Key(b, r)
      BY <1>4, <2>4
    <3> DEFINE key == Key(b, j - 1)
               K   == {r \in M : Key(b, r) # key} \cup {j - 1}
    <3>2. j - 1 \in RowsOf(b) \ M
      BY <2>1, <3>1
    <3>3. Mirrors(b, g[j], n, K)
      BY <2>2, <2>4, <3>1, <3>2, InsertIs
    <3>4. K \subseteq 0 .. j - 1
      <4>1. \A r \in M : r \in 0 .. j - 1
        BY <2>1, <3>1
      <4>2. j - 1 \in 0 .. j - 1
        BY <2>1
      <4> QED BY <4>1, <4>2
    <3>5. ASSUME NEW r \in 0 .. j - 1 PROVE \E q \in K : Key(b, q) = Key(b, r)
      <4>1. CASE Key(b, r) = key
        BY <4>1
      <4>2. CASE Key(b, r) # key
        <5>1. r \in 0 .. j - 1 - 1
          BY <2>1, <4>2
        <5> QED BY <3>1, <4>2, <5>1
      <4> QED BY <4>1, <4>2
    <3>6. Good(j)
      <4> HIDE DEF K
      <4> QED BY <3>3, <3>4, <3>5
    <3> QED BY <2>1, <3>6
  <2>5. CASE g[j] = Stuck
    BY <2>1, <2>5
  <2> QED BY <2>3, <2>4, <2>5
<1> HIDE DEF T
<1>5. Len(b) \in T
  <2>1. \A j \in 0 .. Len(b) : j \in T
    BY <1>1, <1>3, <1>4, CountingUp
  <2> QED BY <1>1, <2>1
<1>6. PICK M : /\ Mirrors(b, g[Len(b)], n, M)
               /\ \A r \in 0 .. Len(b) - 1 : \E q \in M : Key(b, q) = Key(b, r)
  BY <1>2, <1>5 DEF T
<1>7. Represents(b, M)
  BY <1>6 DEF Represents, RowsOf
<1> QED BY <1>1, <1>2, <1>6, <1>7

----------------------------------------------------------------------------
(* Rows put in and taken out.                                              *)

\* A sequence with an element put in.
LEMMA Inserted ==
  ASSUME NEW S, NEW s \in Seq(S), NEW e \in S, NEW p \in 1 .. Len(s) + 1
  PROVE  LET t == InsertAt(s, p, e)
         IN  /\ t \in Seq(S) /\ Len(t) = Len(s) + 1 /\ t[p] = e
             /\ \A i \in 1 .. p - 1 : t[i] = s[i]
             /\ \A i \in p .. Len(s) : t[i + 1] = s[i]
<1> DEFINE a == SubSeq(s, 1, p - 1)
           c == SubSeq(s, p, Len(s))
           m == a \o <<e>>
<1>1. Len(s) \in Nat /\ p \in Nat /\ p >= 1 /\ p - 1 \in Nat
  OBVIOUS
<1>2. a \in Seq(S) /\ Len(a) = p - 1 /\ \A i \in 1 .. p - 1 : a[i] = s[i]
  BY <1>1
<1>3. c \in Seq(S) /\ Len(c) = Len(s) - p + 1 /\ \A i \in 1 .. Len(c) : c[i] = s[p + i - 1]
  BY <1>1
<1> HIDE DEF a, c
<1>4. <<e>> \in Seq(S) /\ Len(<<e>>) = 1 /\ <<e>>[1] = e
  OBVIOUS
<1>5. m \in Seq(S) /\ Len(m) = p /\ m[p] = e /\ \A i \in 1 .. p - 1 : m[i] = a[i]
  <2>1. m \in Seq(S) /\ Len(m) = p
    BY <1>1, <1>2, <1>4
  <2>2. m[p] = e
    BY <1>1, <1>2, <1>4
  <2>3. \A i \in 1 .. p - 1 : m[i] = a[i]
    BY <1>1, <1>2, <1>4
  <2> QED BY <2>1, <2>2, <2>3
<1> HIDE DEF m
<1>6. /\ m \o c \in Seq(S) /\ Len(m \o c) = Len(s) + 1
      /\ \A i \in 1 .. p : (m \o c)[i] = m[i]
      /\ \A i \in p .. Len(s) : (m \o c)[i + 1] = c[i + 1 - p]
  <2>1. m \o c \in Seq(S) /\ Len(m \o c) = Len(s) + 1
    <3>1. m \in Seq(S) /\ c \in Seq(S)
      BY <1>3, <1>5
    <3>2. m \o c \in Seq(S) /\ Len(m \o c) = Len(m) + Len(c)
      BY <3>1, ConcatProperties
    <3>3. Len(m) + Len(c) = Len(s) + 1
      BY <1>1, <1>3, <1>5
    <3> QED BY <3>2, <3>3
  <2>2. \A i \in 1 .. p : (m \o c)[i] = m[i]
    BY <1>1, <1>3, <1>5
  <2>3. ASSUME NEW i \in p .. Len(s) PROVE (m \o c)[i + 1] = c[i + 1 - p]
    BY <1>1, <1>3, <1>5
  <2> QED BY <2>1, <2>2, <2>3
<1>7. InsertAt(s, p, e) = m \o c
  BY DEF InsertAt, m, a, c
<1>8. ASSUME NEW i \in p .. Len(s) PROVE c[i + 1 - p] = s[i]
  <2>1. i + 1 - p \in 1 .. Len(c) /\ p + (i + 1 - p) - 1 = i
    BY <1>1, <1>3
  <2> QED BY <1>3, <2>1
<1>9. \A i \in 1 .. p - 1 : i \in 1 .. p
  BY <1>1
<1>10. p \in 1 .. p
  BY <1>1
<1> HIDE DEF m, a, c
<1> QED BY <1>2, <1>5, <1>6, <1>7, <1>8, <1>9, <1>10

\* A sequence with an element taken out.
LEMMA Removed ==
  ASSUME NEW S, NEW s \in Seq(S), NEW p \in 1 .. Len(s)
  PROVE  LET t == RemoveAt(s, p)
         IN  /\ t \in Seq(S) /\ Len(t) = Len(s) - 1
             /\ \A i \in 1 .. p - 1 : t[i] = s[i]
             /\ \A i \in p + 1 .. Len(s) : t[i - 1] = s[i]
<1> DEFINE a == SubSeq(s, 1, p - 1)
           c == SubSeq(s, p + 1, Len(s))
<1>1. Len(s) \in Nat /\ p \in Nat /\ p >= 1 /\ p <= Len(s) /\ p - 1 \in Nat
  OBVIOUS
<1>2. a \in Seq(S) /\ Len(a) = p - 1 /\ \A i \in 1 .. p - 1 : a[i] = s[i]
  BY <1>1
<1>3. c \in Seq(S) /\ Len(c) = Len(s) - p /\ \A i \in 1 .. Len(c) : c[i] = s[p + i]
  <2>1. c \in Seq(S) /\ Len(c) = Len(s) - p
    BY <1>1
  <2>2. ASSUME NEW i \in 1 .. Len(c) PROVE c[i] = s[p + i]
    BY <1>1, <2>1
  <2> QED BY <2>1, <2>2
<1> HIDE DEF a, c
<1>4. a \o c \in Seq(S) /\ Len(a \o c) = Len(s) - 1
  BY <1>1, <1>2, <1>3
<1>5. \A i \in 1 .. p - 1 : (a \o c)[i] = a[i]
  BY <1>1, <1>2, <1>3
<1>6. ASSUME NEW i \in p + 1 .. Len(s) PROVE (a \o c)[i - 1] = s[i]
  <2>1. i - 1 \in p .. Len(a) + Len(c) /\ i - 1 - Len(a) = i - p /\ i - p \in 1 .. Len(c) /\ p + (i - p) = i
    BY <1>1, <1>2, <1>3
  <2>2. (a \o c)[i - 1] = c[i - 1 - Len(a)]
    BY <1>1, <1>2, <1>3
  <2>3. c[i - p] = s[p + (i - p)]
    BY <1>3, <2>1
  <2> QED BY <2>1, <2>2, <2>3
<1>7. RemoveAt(s, p) = a \o c
  BY DEF RemoveAt, a, c
<1> QED BY <1>2, <1>4, <1>5, <1>6, <1>7

\* If all keys are different, rows that represent all are all.
LEMMA RepresentsAll ==
  ASSUME NEW b, NEW d, NEW n, NEW M, Mirrors(b, d, n, M), Represents(b, M), Distinct(b, RowsOf(b))
  PROVE  M = RowsOf(b)
<1>1. M \subseteq RowsOf(b)
  BY MirrorFacts
<1>2. ASSUME NEW r \in RowsOf(b) PROVE r \in M
  <2>1. PICK q \in M : Key(b, q) = Key(b, r)
    BY DEF Represents
  <2>2. q = r
    BY <1>1, <2>1 DEF Distinct
  <2> QED BY <2>2
<1> QED BY <1>1, <1>2

\* The table may be made smaller before a row is removed.
LEMMA ShrunkIs ==
  ASSUME NEW b, NEW d, NEW n, NEW M, Mirrors(b, d, n, M), Represents(b, M),
         Len(b) <= MaxRows, Shrunk(b, d) # Stuck
  PROVE  \E k \in Sizes : \E K : Mirrors(b, Shrunk(b, d), k, K) /\ Represents(b, K)
<1>1. n \in Sizes /\ b \in Seq(Row) /\ Len(b) \in Nat
  BY MirrorFacts
<1>2. CASE Len(b) * 3 < Size(d)
  <2>1. Shrunk(b, d) = DictResize(b, Len(b))
    BY <1>2 DEF Shrunk
  <2>2. Len(b) <= 2 * MaxRows
    BY <1>1, HashViewAssumption
  <2> QED BY <1>1, <2>1, <2>2, ResizedIs
<1>3. CASE ~(Len(b) * 3 < Size(d))
  BY <1>1, <1>3 DEF Shrunk
<1> QED BY <1>2, <1>3

\* The rows with other keys than a row.
Others(b, pos) == {r \in RowsOf(b) : Key(b, r) # Key(b, pos)}

\* RowRemoved takes a row from the view, and what has its key from the dictionary.
LEMMA RowRemovedIs ==
  ASSUME NEW b, NEW d, NEW n, NEW M, Mirrors(b, d, n, M), Represents(b, M),
         Len(b) <= MaxRows, Shrunk(b, d) # Stuck, NEW pos \in RowsOf(b),
         Distinct(b, Others(b, pos))
  PROVE  LET after == RowRemoved(b, d, pos)
         IN  /\ after.base = RemoveAt(b, pos + 1)
             /\ \E k \in Sizes : Mirrors(after.base, after.dict, k, Shifted(Others(b, pos), pos + 1, -1))
<1> DEFINE c == RemoveAt(b, pos + 1)
           O == Others(b, pos)
<1>1. b \in Seq(Row) /\ Len(b) \in Nat
  BY MirrorFacts
<1>2. pos \in Nat /\ pos + 1 \in 1 .. Len(b)
  BY <1>1 DEF RowsOf
<1> PICK k \in Sizes : \E L : Mirrors(b, Shrunk(b, d), k, L) /\ Represents(b, L)
  BY ShrunkIs
<1>3. PICK K : Mirrors(b, Shrunk(b, d), k, K) /\ Represents(b, K)
  OBVIOUS
<1>4. K \subseteq RowsOf(b)
  BY <1>3, MirrorFacts
<1>5. {r \in K : Key(b, r) # Key(b, pos)} = O
  <2>1. ASSUME NEW r \in O PROVE r \in K
    <3>1. r \in RowsOf(b) /\ Key(b, r) # Key(b, pos)
      BY DEF Others
    <3>2. PICK q \in K : Key(b, q) = Key(b, r)
      BY <1>3, <3>1 DEF Represents
    <3>3. q \in O
      BY <1>4, <3>1, <3>2 DEF Others
    <3>4. q = r
      BY <3>2, <3>3 DEF Distinct
    <3> QED BY <3>4
  <2>2. \A r \in O : Key(b, r) # Key(b, pos)
    BY DEF Others
  <2>3. \A r \in K : Key(b, r) # Key(b, pos) => r \in O
    BY <1>4 DEF Others
  <2> HIDE DEF O
  <2> QED BY <2>1, <2>2, <2>3
<1>6. PICK q \in K : Key(b, q) = Key(b, pos)
  BY <1>3 DEF Represents
<1> DEFINE e == RemoveDict(b, Shrunk(b, d), pos)
<1>7. Mirrors(b, e, k, O)
  BY <1>3, <1>5, <1>6, RemoveIs
<1>8. /\ c \in Seq(Row) /\ Len(c) = Len(b) - 1
      /\ \A i \in 1 .. pos : c[i] = b[i]
      /\ \A i \in pos + 2 .. Len(b) : c[i - 1] = b[i]
  <2>1. pos + 1 - 1 = pos /\ pos + 1 + 1 = pos + 2
    BY <1>2
  <2> QED BY <1>1, <1>2, <2>1, Removed
<1> HIDE DEF c, e
<1>9. Renumbers(b, c, O, pos + 1, -1)
  <2>1. ASSUME NEW r \in O
        PROVE  /\ r \in Nat /\ r # pos /\ r < Len(b)
               /\ Shift(r, pos + 1, -1) = IF r > pos THEN r - 1 ELSE r
               /\ Shift(r, pos + 1, -1) \in RowsOf(c)
               /\ Key(c, Shift(r, pos + 1, -1)) = Key(b, r)
    <3>1. r \in RowsOf(b) /\ r # pos
      BY DEF Others
    <3>2. r \in Nat /\ r < Len(b)
      BY <1>1, <3>1 DEF RowsOf
    <3>3. Shift(r, pos + 1, -1) = IF r > pos THEN r - 1 ELSE r
      BY <1>2, <3>2 DEF Shift
    <3>4. CASE r > pos
      <4>1. r + 1 \in pos + 2 .. Len(b) /\ r + 1 - 1 = r - 1 + 1 /\ r - 1 \in 0 .. Len(c) - 1
        BY <1>1, <1>2, <1>8, <3>2, <3>4
      <4>2. c[r - 1 + 1] = b[r + 1]
        <5> DEFINE i == r + 1
        <5>1. i \in pos + 2 .. Len(b) /\ i - 1 = r - 1 + 1
          BY <1>1, <1>2, <3>2, <3>4
        <5> HIDE DEF i
        <5>2. c[i - 1] = b[i]
          BY <1>8, <5>1
        <5> QED BY <5>1, <5>2 DEF i
      <4> QED BY <3>1, <3>2, <3>3, <3>4, <4>1, <4>2 DEF RowsOf, Key
    <3>5. CASE r < pos
      <4>1. r + 1 \in 1 .. pos /\ r \in 0 .. Len(c) - 1 /\ ~(r > pos)
        BY <1>1, <1>2, <1>8, <3>2, <3>5
      <4>2. c[r + 1] = b[r + 1]
        BY <1>8, <4>1
      <4> QED BY <3>1, <3>2, <3>3, <4>1, <4>2 DEF RowsOf, Key
    <3> QED BY <1>2, <3>1, <3>2, <3>4, <3>5
  <2>2. ASSUME NEW p \in O, NEW r \in O, Shift(p, pos + 1, -1) = Shift(r, pos + 1, -1)
        PROVE  p = r
    <3>1. /\ p \in Nat /\ p # pos /\ Shift(p, pos + 1, -1) = IF p > pos THEN p - 1 ELSE p
          /\ r \in Nat /\ r # pos /\ Shift(r, pos + 1, -1) = IF r > pos THEN r - 1 ELSE r
      BY <2>1
    <3> QED BY <1>2, <2>2, <3>1
  <2>3. pos + 1 \in Nat /\ -1 \in Int
    BY <1>2
  <2> HIDE DEF O
  <2> QED BY <1>8, <2>1, <2>2, <2>3 DEF Renumbers
<1>10. Mirrors(c, RowsMoved(e, pos + 1, -1), k, Shifted(O, pos + 1, -1))
  BY <1>7, <1>9, MovedIs
<1>11. RowRemoved(b, d, pos) = [base |-> c, dict |-> RowsMoved(e, pos + 1, -1)]
  BY DEF RowRemoved, c, e
<1> HIDE DEF O
<1>12. RowRemoved(b, d, pos).base = c /\ RowRemoved(b, d, pos).dict = RowsMoved(e, pos + 1, -1)
  BY <1>11
<1> QED BY <1>10, <1>12 DEF O, c

----------------------------------------------------------------------------
(* The operations.                                                         *)

\* A view and a dictionary that mirrors all its rows.
Whole(b, d) == Len(b) <= MaxRows /\ \E n \in Sizes : Mirrors(b, d, n, RowsOf(b))

\* A view with such a dictionary.
LEMMA WholeFacts ==
  ASSUME NEW b, NEW d, Whole(b, d)
  PROVE  /\ b \in Seq(Row) /\ Len(b) \in Nat /\ DOMAIN b = 1 .. Len(b) /\ Len(b) <= MaxRows
         /\ \A i \in DOMAIN b : b[i] \in Row
         /\ \A r \in RowsOf(b) : r \in Nat /\ r + 1 \in DOMAIN b /\ Key(b, r) \in Keys
         /\ Distinct(b, RowsOf(b)) /\ Represents(b, RowsOf(b))
         /\ MaxRows \in Nat
<1>1. PICK n \in Sizes : Mirrors(b, d, n, RowsOf(b))
  BY DEF Whole
<1>2. /\ b \in Seq(Row) /\ Len(b) \in Nat
      /\ \A r \in RowsOf(b) : r \in Nat /\ Key(b, r) \in Keys
  BY <1>1, MirrorFacts
<1>3. DOMAIN b = 1 .. Len(b) /\ \A i \in DOMAIN b : b[i] \in Row
  BY <1>2, SeqFacts
<1>4. \A r \in RowsOf(b) : r + 1 \in DOMAIN b
  BY <1>2, <1>3 DEF RowsOf
<1>5. Distinct(b, RowsOf(b)) /\ Represents(b, RowsOf(b))
  BY <1>1 DEF Mirrors, Represents
<1>6. Len(b) <= MaxRows /\ MaxRows \in Nat
  BY HashViewAssumption DEF Whole
<1> QED BY <1>2, <1>3, <1>4, <1>5, <1>6

\* A new table mirrors all rows, when their keys are different.
LEMMA ResizedWhole ==
  ASSUME NEW b \in Seq(Row), Len(b) <= MaxRows, Distinct(b, RowsOf(b)),
         NEW m \in Nat, m <= 2 * MaxRows, DictResize(b, m) # Stuck
  PROVE  /\ Whole(b, DictResize(b, m))
         /\ \E n \in Sizes : n > m /\ Mirrors(b, DictResize(b, m), n, RowsOf(b))
<1> PICK n \in Sizes : \E K : /\ Mirrors(b, DictResize(b, m), n, K) /\ Represents(b, K)
                             /\ n > m
  BY ResizedIs
<1>1. PICK M : Mirrors(b, DictResize(b, m), n, M) /\ Represents(b, M) /\ n > m
  OBVIOUS
<1>2. M = RowsOf(b)
  BY <1>1, RepresentsAll
<1> QED BY <1>1, <1>2 DEF Whole

\* Rows that change, but not their keys.
LEMMA SameKeys ==
  ASSUME NEW b, NEW d, Whole(b, d), NEW c \in Seq(Row), Len(c) = Len(b),
         \A r \in RowsOf(b) : Key(c, r) = Key(b, r)
  PROVE  Whole(c, d)
<1>1. PICK n \in Sizes : Mirrors(b, d, n, RowsOf(b))
  BY DEF Whole
<1>2. RowsOf(c) = RowsOf(b)
  BY DEF RowsOf
<1>3. Mirrors(c, d, n, RowsOf(b))
  BY <1>1, <1>2, RebasedIs
<1> QED BY <1>1, <1>2, <1>3 DEF Whole

\* A row that is replaced has the key of the new one.
LEMMA ReplacedIs ==
  ASSUME NEW b, NEW d, Whole(b, d), NEW r \in Row, Lookup(b, d, r.key) \in RowsOf(b)
  PROVE  LET i == Lookup(b, d, r.key)
         IN  /\ Whole([b EXCEPT ![i + 1] = r], d)
             /\ i + 1 \in DOMAIN b /\ Key(b, i) = r.key
<1> DEFINE i == Lookup(b, d, r.key)
           c == [b EXCEPT ![i + 1] = r]
<1>1. PICK n \in Sizes : Mirrors(b, d, n, RowsOf(b))
  BY DEF Whole
<1>2. r.key \in Keys
  BY DEF Row
<1>3. Key(b, i) = r.key
  BY <1>1, <1>2, LookupSays
<1>4. /\ b \in Seq(Row) /\ Len(b) \in Nat /\ DOMAIN b = 1 .. Len(b)
      /\ i \in Nat /\ i + 1 \in DOMAIN b
  BY WholeFacts
<1> HIDE DEF i
<1>5. c \in Seq(Row) /\ Len(c) = Len(b) /\ \A j \in DOMAIN b : c[j] = IF j = i + 1 THEN r ELSE b[j]
  BY <1>4
<1> HIDE DEF c
<1>6. ASSUME NEW q \in RowsOf(b) PROVE Key(c, q) = Key(b, q)
  <2>1. q \in Nat /\ q + 1 \in DOMAIN b
    BY WholeFacts
  <2>2. CASE q = i
    BY <1>3, <1>4, <1>5, <2>2 DEF Key
  <2>3. CASE q # i
    <3>1. q + 1 # i + 1
      BY <1>4, <2>1, <2>3
    <3> QED BY <1>5, <2>1, <3>1 DEF Key
  <2> QED BY <2>2, <2>3
<1>7. Whole(c, d)
  BY <1>5, <1>6, SameKeys
<1> QED BY <1>3, <1>4, <1>7 DEF i, c

\* A row that is put in has a new key.
LEMMA RowInserted ==
  ASSUME NEW b, NEW d, Whole(b, d), Len(b) < MaxRows, NEW pos \in 0 .. Len(b), NEW r \in Row,
         Lookup(b, d, r.key) = NotThere
  PROVE  LET c == InsertAt(b, pos + 1, r)
             e == Grown(c, InsertDict(c, RowsMoved(d, pos, 1), pos))
         IN  /\ e # Stuck => Whole(c, e)
             /\ \A q \in RowsOf(b) : Key(b, q) # r.key
<1> DEFINE c   == InsertAt(b, pos + 1, r)
           M   == RowsOf(b)
           key == r.key
           u   == RowsMoved(d, pos, 1)
           w   == InsertDict(c, u, pos)
           e   == Grown(c, w)
           K   == Shifted(M, pos, 1)
<1>1. PICK n \in Sizes : Mirrors(b, d, n, M)
  BY DEF Whole
<1>2. key \in Keys
  BY DEF Row
<1>3. NotThere \notin M /\ NotThere # Never
  <2>1. \A q \in M : q \in Nat
    BY WholeFacts
  <2> QED BY <2>1 DEF NotThere, Never
<1>4. \A q \in M : Key(b, q) # key
  BY <1>1, <1>2, <1>3, LookupSays
<1>5. LookDict(b, d, key) # Never
  BY <1>1, <1>2, <1>4, LookupFree
<1>6. PICK j \in DOMAIN Path[n][key] : d.slot[Path[n][key][j]] = UnusedSlot
  BY <1>1, <1>2, <1>4, <1>5, LookFree
<1>7. /\ b \in Seq(Row) /\ Len(b) \in Nat /\ MaxRows \in Nat
      /\ \A q \in M : q \in Nat /\ q < Len(b)
  BY WholeFacts DEF RowsOf
<1>8. pos \in Nat /\ pos + 1 \in 1 .. Len(b) + 1 /\ pos + 1 - 1 = pos
  BY <1>7
<1>9. /\ c \in Seq(Row) /\ Len(c) = Len(b) + 1 /\ c[pos + 1] = r
      /\ \A i \in 1 .. pos : c[i] = b[i]
      /\ \A i \in pos + 1 .. Len(b) : c[i + 1] = b[i]
  BY <1>7, <1>8, Inserted
<1> HIDE DEF c
<1>10. ASSUME NEW q \in M
       PROVE  /\ Shift(q, pos, 1) = IF q >= pos THEN q + 1 ELSE q
              /\ Shift(q, pos, 1) \in RowsOf(c) /\ Shift(q, pos, 1) # pos
              /\ Key(c, Shift(q, pos, 1)) = Key(b, q)
  <2>1. q \in Nat /\ q < Len(b)
    BY <1>7
  <2>2. Shift(q, pos, 1) = IF q >= pos THEN q + 1 ELSE q
    BY DEF Shift
  <2>3. CASE q >= pos
    <3>1. q + 1 \in pos + 1 .. Len(b) /\ q + 1 \in 0 .. Len(c) - 1 /\ q + 1 # pos
      BY <1>7, <1>8, <1>9, <2>1, <2>3
    <3>2. c[q + 1 + 1] = b[q + 1]
      BY <1>9, <3>1
    <3> QED BY <2>2, <2>3, <3>1, <3>2 DEF RowsOf, Key
  <2>4. CASE ~(q >= pos)
    <3>1. q + 1 \in 1 .. pos /\ q \in 0 .. Len(c) - 1 /\ q # pos
      BY <1>7, <1>8, <1>9, <2>1, <2>4
    <3>2. c[q + 1] = b[q + 1]
      BY <1>9, <3>1
    <3> QED BY <2>2, <2>4, <3>1, <3>2 DEF RowsOf, Key
  <2> QED BY <2>3, <2>4
<1>11. Renumbers(b, c, M, pos, 1)
  <2>1. ASSUME NEW p \in M, NEW q \in M, Shift(p, pos, 1) = Shift(q, pos, 1) PROVE p = q
    <3>1. /\ p \in Nat /\ q \in Nat
          /\ Shift(p, pos, 1) = IF p >= pos THEN p + 1 ELSE p
          /\ Shift(q, pos, 1) = IF q >= pos THEN q + 1 ELSE q
      BY <1>7, <1>10
    <3> QED BY <1>8, <2>1, <3>1
  <2> HIDE DEF M
  <2> QED BY <1>8, <1>9, <1>10, <2>1 DEF Renumbers
<1>12. /\ Mirrors(c, u, n, K)
       /\ \A i \in 0 .. n - 1 : u.slot[i] = UnusedSlot <=> d.slot[i] = UnusedSlot
  BY <1>1, <1>11, MovedIs
<1> HIDE DEF u
<1>13. pos \in RowsOf(c) \ K /\ Key(c, pos) = key /\ \A q \in K : Key(c, q) # key
  <2>1. pos \in RowsOf(c)
    BY <1>7, <1>8, <1>9 DEF RowsOf
  <2>2. Key(c, pos) = key
    BY <1>9 DEF Key
  <2>3. pos \notin K /\ \A q \in K : Key(c, q) # key
    BY <1>4, <1>10 DEF Shifted
  <2> QED BY <2>1, <2>2, <2>3
<1>14. LookDict(c, u, key) # Never
  <2>1. Path[n][key][j] \in 0 .. n - 1
    BY <1>2, PathFacts
  <2>2. u.slot[Path[n][key][j]] = UnusedSlot
    BY <1>6, <1>12, <2>1
  <2> HIDE DEF K, key
  <2> QED BY <1>2, <1>12, <1>13, <2>2, LookFree
<1>15. {q \in K : Key(c, q) # Key(c, pos)} \cup {pos} = RowsOf(c)
  <2>1. {q \in K : Key(c, q) # Key(c, pos)} = K
    BY <1>13
  <2>2. ASSUME NEW q \in RowsOf(c), q # pos PROVE q \in K
    <3>1. q \in Nat /\ q <= Len(b)
      BY <1>7, <1>9 DEF RowsOf
    <3>2. CASE q < pos
      <4>1. q \in M /\ ~(q >= pos)
        BY <1>7, <1>8, <3>1, <3>2 DEF RowsOf
      <4>2. Shift(q, pos, 1) = q
        BY <1>10, <4>1
      <4> QED BY <4>1, <4>2 DEF Shifted
    <3>3. CASE q > pos
      <4>1. q - 1 \in M /\ q - 1 >= pos /\ q - 1 + 1 = q
        BY <1>7, <1>8, <3>1, <3>3 DEF RowsOf
      <4>2. Shift(q - 1, pos, 1) = q
        BY <1>10, <4>1
      <4> QED BY <4>1, <4>2 DEF Shifted
    <3> QED BY <1>8, <2>2, <3>1, <3>2, <3>3
  <2>3. K \subseteq RowsOf(c)
    BY <1>12, MirrorFacts
  <2> HIDE DEF K
  <2> QED BY <1>13, <2>1, <2>2, <2>3
<1>16. Mirrors(c, w, n, RowsOf(c)) /\ w # Stuck
  <2>1. w # Stuck
    BY <1>12, <1>13, <1>14, InsertIs
  <2>2. Mirrors(c, w, n, {q \in K : Key(c, q) # Key(c, pos)} \cup {pos})
    BY <1>12, <1>13, <2>1, InsertIs
  <2> QED BY <1>15, <2>1, <2>2
<1>17. Len(c) \in Nat /\ Len(c) <= MaxRows /\ Len(c) * 2 \in Nat /\ Len(c) * 2 <= 2 * MaxRows
  BY <1>7, <1>9
<1> HIDE DEF w
<1>18. CASE (Len(c) + w.spare) * 3 >= Size(w) * 2
  <2>1. e = DictResize(c, Len(c) * 2)
    BY <1>18 DEF Grown
  <2>2. Distinct(c, RowsOf(c))
    BY <1>16 DEF Mirrors
  <2> HIDE DEF e
  <2> QED BY <1>4, <1>9, <1>17, <2>1, <2>2, ResizedWhole DEF e, c, u, w
<1>19. CASE ~((Len(c) + w.spare) * 3 >= Size(w) * 2)
  <2>1. e = w
    BY <1>19 DEF Grown
  <2>2. Whole(c, w)
    BY <1>16, <1>17 DEF Whole
  <2> QED BY <1>4, <2>1, <2>2 DEF e, c, u, w
<1> QED BY <1>18, <1>19

\* A row that is taken out leaves the others.
LEMMA RowTaken ==
  ASSUME NEW b, NEW d, Whole(b, d), NEW pos \in RowsOf(b), Shrunk(b, d) # Stuck
  PROVE  /\ Whole(RowRemoved(b, d, pos).base, RowRemoved(b, d, pos).dict)
         /\ RowRemoved(b, d, pos).base = RemoveAt(b, pos + 1)
<1> DEFINE after == RowRemoved(b, d, pos)
           O == Others(b, pos)
           c == RemoveAt(b, pos + 1)
<1>1. PICK n \in Sizes : Mirrors(b, d, n, RowsOf(b))
  BY DEF Whole
<1>2. /\ b \in Seq(Row) /\ Len(b) \in Nat /\ Len(b) <= MaxRows /\ MaxRows \in Nat
      /\ Distinct(b, RowsOf(b)) /\ Represents(b, RowsOf(b)) /\ pos \in Nat
      /\ pos + 1 \in 1 .. Len(b)
  BY WholeFacts
<1>3. O = RowsOf(b) \ {pos}
  BY <1>2 DEF Others, Distinct
<1>4. Distinct(b, O)
  BY <1>2, <1>3 DEF Distinct
<1>5. /\ after.base = c
      /\ \E k \in Sizes : Mirrors(after.base, after.dict, k, Shifted(O, pos + 1, -1))
  BY <1>1, <1>2, <1>4, RowRemovedIs
<1>6. c \in Seq(Row) /\ Len(c) = Len(b) - 1
  BY <1>2, Removed
<1>7. Shifted(O, pos + 1, -1) = RowsOf(c)
  <2>1. ASSUME NEW r \in O PROVE Shift(r, pos + 1, -1) \in RowsOf(c)
    BY <1>2, <1>3, <1>6 DEF Shift, RowsOf
  <2>2. ASSUME NEW q \in RowsOf(c) PROVE \E r \in O : Shift(r, pos + 1, -1) = q
    <3>1. q \in Nat /\ q < Len(b) - 1
      BY <1>2, <1>6 DEF RowsOf
    <3>2. CASE q < pos
      <4>1. q \in O /\ Shift(q, pos + 1, -1) = q
        BY <1>2, <1>3, <3>1, <3>2 DEF Shift, RowsOf
      <4> QED BY <4>1
    <3>3. CASE ~(q < pos)
      <4>1. q + 1 \in O /\ Shift(q + 1, pos + 1, -1) = q
        BY <1>2, <1>3, <3>1, <3>3 DEF Shift, RowsOf
      <4> QED BY <4>1
    <3> QED BY <3>2, <3>3
  <2> HIDE DEF O, c
  <2> QED BY <2>1, <2>2 DEF Shifted
<1> HIDE DEF after, O, c
<1>8. Len(c) <= MaxRows
  BY <1>2, <1>6
<1>9. Whole(after.base, after.dict)
  BY <1>5, <1>7, <1>8 DEF Whole
<1> QED BY <1>5, <1>9 DEF after, c

\* The view and the dictionary after the row was taken out of the dictionary and its key was
\* changed, and the row that has the key now.
Changed(b, d, row, key) ==
  [base |-> [b EXCEPT ![row + 1].key = key], dict |-> RemoveDict(b, d, row)]
OtherRow(s, key) == Lookup(s.base, s.dict, key)

\* The other rows are still in the dictionary then.
IsChanged(b, s, row, key) ==
  /\ s.base \in Seq(Row) /\ Len(s.base) = Len(b) /\ Key(s.base, row) = key
  /\ s.base = [b EXCEPT ![row + 1].key = key]
  /\ \A r \in RowsOf(b) \ {row} : Key(s.base, r) = Key(b, r)
  /\ Distinct(b, RowsOf(b) \ {row})
  /\ \E n \in Sizes : Mirrors(s.base, s.dict, n, RowsOf(b) \ {row})

\* The key of a row is changed while the row is not in the dictionary.
LEMMA ChangedIs ==
  ASSUME NEW b, NEW d, Whole(b, d), NEW row \in RowsOf(b), NEW key \in Keys, Key(b, row) # key
  PROVE  IsChanged(b, Changed(b, d, row, key), row, key)
<1> DEFINE c == [b EXCEPT ![row + 1].key = key]
           e == RemoveDict(b, d, row)
           M == RowsOf(b) \ {row}
<1>1. PICK n \in Sizes : Mirrors(b, d, n, RowsOf(b))
  BY DEF Whole
<1>2. /\ b \in Seq(Row) /\ Len(b) \in Nat /\ DOMAIN b = 1 .. Len(b)
      /\ Distinct(b, RowsOf(b)) /\ row \in Nat /\ row + 1 \in DOMAIN b
      /\ \A i \in DOMAIN b : b[i] \in Row
      /\ \A r \in RowsOf(b) : r \in Nat /\ r + 1 \in DOMAIN b
  BY WholeFacts
<1>3. {r \in RowsOf(b) : Key(b, r) # Key(b, row)} = M
  BY <1>2 DEF Distinct
<1>4. Mirrors(b, e, n, M)
  BY <1>1, <1>3, RemoveIs
<1>5. [b[row + 1] EXCEPT !.key = key] \in Row /\ [b[row + 1] EXCEPT !.key = key].key = key
  <2> DEFINE x == b[row + 1]
  <2>1. x \in Row
    BY <1>2
  <2> HIDE DEF x
  <2>2. [x EXCEPT !.key = key] \in Row /\ [x EXCEPT !.key = key].key = key
    BY <2>1 DEF Row
  <2> QED BY <2>2 DEF x
<1>6. /\ c \in Seq(Row) /\ Len(c) = Len(b)
      /\ \A i \in DOMAIN b : c[i] = IF i = row + 1 THEN [b[row + 1] EXCEPT !.key = key] ELSE b[i]
  BY <1>2, <1>5
<1> HIDE DEF c, e
<1>7. Key(c, row) = key
  BY <1>2, <1>5, <1>6 DEF Key
<1>8. ASSUME NEW r \in M PROVE Key(c, r) = Key(b, r)
  <2>1. r \in Nat /\ r + 1 \in DOMAIN b /\ r # row /\ r + 1 # row + 1
    BY <1>2
  <2> QED BY <1>6, <2>1 DEF Key
<1>9. RowsOf(c) = RowsOf(b)
  BY <1>6 DEF RowsOf
<1>10. Mirrors(c, e, n, M)
  BY <1>4, <1>6, <1>8, <1>9, RebasedIs
<1>11. Distinct(b, M)
  BY <1>2 DEF Distinct
<1>12. Changed(b, d, row, key) = [base |-> c, dict |-> e]
  BY DEF Changed, c, e
<1> HIDE DEF M
<1>13. Changed(b, d, row, key).base = c /\ Changed(b, d, row, key).dict = e
  BY <1>12
<1> QED BY <1>6, <1>7, <1>8, <1>10, <1>11, <1>13 DEF IsChanged, M, c

\* A key that no other row has is set.
LEMMA KeySetFree ==
  ASSUME NEW b, NEW d, Whole(b, d), NEW row \in RowsOf(b), NEW key \in Keys, Key(b, row) # key,
         OtherRow(Changed(b, d, row, key), key) = NotThere
  PROVE  LET s == Changed(b, d, row, key)
             e == InsertDict(s.base, s.dict, row)
         IN  /\ e # Stuck => Whole(s.base, e)
             /\ \A r \in RowsOf(b) : Key(b, r) # key
<1> DEFINE s == Changed(b, d, row, key)
           c == s.base
           e == InsertDict(c, s.dict, row)
           M == RowsOf(b) \ {row}
<1>1. /\ c \in Seq(Row) /\ Len(c) = Len(b) /\ Key(c, row) = key
      /\ \A r \in M : Key(c, r) = Key(b, r)
      /\ \E n \in Sizes : Mirrors(c, s.dict, n, M)
  <2> HIDE DEF e
  <2>1. IsChanged(b, s, row, key)
    BY ChangedIs
  <2> HIDE DEF s
  <2> QED BY <2>1 DEF IsChanged
<1>2. PICK n \in Sizes : Mirrors(c, s.dict, n, M)
  BY <1>1
<1>3. Lookup(c, s.dict, key) = NotThere
  BY DEF OtherRow
<1>4. NotThere \notin M /\ Len(b) <= MaxRows
  <2>1. \A r \in RowsOf(b) : r \in Nat
    BY WholeFacts
  <2> QED BY <2>1, WholeFacts DEF NotThere
<1> HIDE DEF s, c
<1>5. \A r \in M : Key(c, r) # key
  BY <1>2, <1>3, <1>4, LookupSays
<1>6. \A r \in RowsOf(b) : Key(b, r) # key
  BY <1>1, <1>5
<1>7. RowsOf(c) = RowsOf(b) /\ row \in RowsOf(c) \ M
  BY <1>1 DEF RowsOf
<1>8. {r \in M : Key(c, r) # Key(c, row)} \cup {row} = RowsOf(c)
  BY <1>1, <1>5, <1>7
<1>9. ASSUME e # Stuck PROVE Whole(c, e)
  <2>1. Mirrors(c, e, n, {r \in M : Key(c, r) # Key(c, row)} \cup {row})
    BY <1>2, <1>7, <1>9, InsertIs
  <2> HIDE DEF e, M
  <2> QED BY <1>1, <1>4, <1>8, <2>1 DEF Whole
<1> QED BY <1>6, <1>9 DEF e, c, s

\* A key that another row has is set: that row is removed.
LEMMA KeySetTaken ==
  ASSUME NEW b, NEW d, Whole(b, d), NEW row \in RowsOf(b), NEW key \in Keys, Key(b, row) # key,
         OtherRow(Changed(b, d, row, key), key) \notin {Never, NotThere},
         Shrunk(Changed(b, d, row, key).base, Changed(b, d, row, key).dict) # Stuck
  PROVE  LET s == Changed(b, d, row, key)
             x == OtherRow(s, key)
             t == RowRemoved(s.base, s.dict, x)
             e == InsertDict(t.base, t.dict, IF x < row THEN row - 1 ELSE row)
         IN  /\ e # Stuck => Whole(t.base, e)
             /\ x \in RowsOf(b) /\ Key(b, x) = key /\ t.base = RemoveAt(s.base, x + 1)
<1> DEFINE s  == Changed(b, d, row, key)
           c  == s.base
           f  == s.dict
           x  == OtherRow(s, key)
           t  == RowRemoved(c, f, x)
           to == IF x < row THEN row - 1 ELSE row
           e  == InsertDict(t.base, t.dict, to)
           M  == RowsOf(b) \ {row}
           O  == Others(c, x)
           K  == Shifted(O, x + 1, -1)
<1>1. /\ c \in Seq(Row) /\ Len(c) = Len(b) /\ Key(c, row) = key
      /\ \A r \in M : Key(c, r) = Key(b, r)
      /\ Distinct(b, M)
      /\ \E n \in Sizes : Mirrors(c, f, n, M)
  <2> HIDE DEF x, t, to, e, O, K
  <2>1. IsChanged(b, s, row, key)
    BY ChangedIs
  <2> HIDE DEF s
  <2> QED BY <2>1 DEF IsChanged
<1>2. PICK n \in Sizes : Mirrors(c, f, n, M)
  BY <1>1
<1>3. x \in M /\ Key(c, x) = key
  <2>1. x = Lookup(c, f, key) /\ x \notin {Never, NotThere}
    BY DEF OtherRow
  <2> HIDE DEF x, c, f, M
  <2> QED BY <1>2, <2>1, LookupSays
<1>4. /\ Len(b) \in Nat /\ Len(b) <= MaxRows /\ MaxRows \in Nat /\ row \in Nat
      /\ row < Len(b) /\ x \in Nat /\ x < Len(b) /\ x # row
  <2>1. \A r \in RowsOf(b) : r \in Nat /\ r < Len(b)
    BY WholeFacts DEF RowsOf
  <2> HIDE DEF x
  <2> QED BY <1>3, <2>1, WholeFacts
<1>5. Shrunk(c, f) # Stuck
  OBVIOUS
<1>6. RowsOf(c) = RowsOf(b)
  BY <1>1 DEF RowsOf
<1> HIDE DEF s, c, f, x
<1>7. Represents(c, M)
  <2> SUFFICES ASSUME NEW r \in RowsOf(c) PROVE \E q \in M : Key(c, q) = Key(c, r)
    BY DEF Represents
  <2>1. CASE r = row
    BY <1>1, <1>3, <2>1
  <2>2. CASE r # row
    BY <1>6, <2>2
  <2> QED BY <2>1, <2>2
<1>8. O = RowsOf(b) \ {row, x}
  <2>1. ASSUME NEW r \in RowsOf(b) PROVE Key(c, r) # key <=> r # row /\ r # x
    <3>1. CASE r = row
      BY <1>1, <3>1
    <3>2. CASE r # row
      <4>1. r \in M /\ Key(c, r) = Key(b, r) /\ Key(c, x) = Key(b, x)
        BY <1>1, <1>3, <3>2
      <4>2. Key(c, r) = key => r = x
        BY <1>1, <1>3, <4>1 DEF Distinct
      <4> QED BY <1>3, <3>2, <4>2
    <3> QED BY <3>1, <3>2
  <2> QED BY <1>3, <1>6, <2>1 DEF Others
<1>9. Distinct(c, O)
  <2>1. \A r \in O : r \in M
    BY <1>8
  <2> HIDE DEF O, M
  <2> QED BY <1>1, <2>1 DEF Distinct
<1>10. x \in RowsOf(c) /\ Len(c) <= MaxRows
  BY <1>1, <1>3, <1>4, <1>6
<1>11. /\ t.base = RemoveAt(c, x + 1)
       /\ \E k \in Sizes : Mirrors(t.base, t.dict, k, K)
  <2> HIDE DEF O
  <2> QED BY <1>2, <1>5, <1>7, <1>9, <1>10, RowRemovedIs DEF O
<1>12. PICK k \in Sizes : Mirrors(t.base, t.dict, k, K)
  BY <1>11
<1> DEFINE g == t.base
<1>13. /\ g \in Seq(Row) /\ Len(g) = Len(b) - 1
       /\ \A i \in 1 .. x : g[i] = c[i]
       /\ \A i \in x + 2 .. Len(b) : g[i - 1] = c[i]
  <2>1. x + 1 \in 1 .. Len(c) /\ x + 1 - 1 = x /\ x + 1 + 1 = x + 2
    BY <1>1, <1>4
  <2> DEFINE p == x + 1
             w == RemoveAt(c, p)
  <2>2. p \in 1 .. Len(c) /\ p - 1 = x /\ p + 1 = x + 2 /\ g = w
    <3>1. g = w
      BY <1>11
    <3> HIDE DEF g, w, t
    <3> QED BY <1>4, <2>1, <3>1
  <2> HIDE DEF p, g, t
  <2>3. /\ w \in Seq(Row) /\ Len(w) = Len(c) - 1
        /\ \A i \in 1 .. p - 1 : w[i] = c[i]
        /\ \A i \in p + 1 .. Len(c) : w[i - 1] = c[i]
    BY <1>1, <2>2, Removed
  <2> HIDE DEF w
  <2> QED BY <1>1, <2>2, <2>3
<1> HIDE DEF g, t
<1>14. to \in RowsOf(g) /\ Key(g, to) = key
  <2>1. CASE x < row
    <3>1. row + 1 \in x + 2 .. Len(b) /\ to = row - 1 /\ to \in 0 .. Len(g) - 1
      BY <1>4, <1>13, <2>1
    <3> DEFINE i == row + 1
    <3>2. i \in x + 2 .. Len(b) /\ i - 1 = to + 1
      BY <1>4, <3>1
    <3> HIDE DEF i
    <3>3. g[to + 1] = c[i]
      BY <1>13, <3>2
    <3>4. g[to + 1] = c[row + 1]
      BY <3>3 DEF i
    <3> QED BY <1>1, <3>1, <3>4 DEF Key, RowsOf
  <2>2. CASE ~(x < row)
    <3>1. row + 1 \in 1 .. x /\ to = row /\ to \in 0 .. Len(g) - 1
      BY <1>4, <1>13, <2>2
    <3>2. g[row + 1] = c[row + 1]
      BY <1>13, <3>1
    <3> QED BY <1>1, <3>1, <3>2 DEF Key, RowsOf
  <2> QED BY <2>1, <2>2
<1> HIDE DEF to
<1>15. K = RowsOf(g) \ {to}
  <2>1. ASSUME NEW r \in O PROVE Shift(r, x + 1, -1) \in RowsOf(g) \ {to}
    <3>1. r \in Nat /\ r < Len(b) /\ r # row /\ r # x
      BY <1>4, <1>8 DEF RowsOf
    <3> QED BY <1>4, <1>13, <3>1 DEF Shift, RowsOf, to
  <2>2. ASSUME NEW q \in RowsOf(g) \ {to} PROVE \E r \in O : Shift(r, x + 1, -1) = q
    <3>1. q \in Nat /\ q < Len(b) - 1 /\ q # to
      BY <1>4, <1>13 DEF RowsOf
    <3>2. CASE q < x
      <4>1. q \in O
        BY <1>4, <1>8, <3>1, <3>2 DEF RowsOf, to
      <4>2. Shift(q, x + 1, -1) = q
        BY <1>4, <3>1, <3>2 DEF Shift
      <4> QED BY <4>1, <4>2
    <3>3. CASE ~(q < x)
      <4>1. q + 1 \in O
        BY <1>4, <1>8, <3>1, <3>3 DEF RowsOf, to
      <4>2. Shift(q + 1, x + 1, -1) = q
        BY <1>4, <3>1, <3>3 DEF Shift
      <4> QED BY <4>1, <4>2
    <3> QED BY <3>2, <3>3
  <2> HIDE DEF O
  <2> QED BY <2>1, <2>2 DEF Shifted
<1> HIDE DEF K
<1>16. ASSUME e # Stuck PROVE Whole(g, e)
  <2>1. Mirrors(g, t.dict, k, K)
    BY <1>12 DEF g
  <2>2. e = InsertDict(g, t.dict, to)
    BY DEF g
  <2>3. to \in RowsOf(g) \ K
    BY <1>14, <1>15
  <2>4. Mirrors(g, e, k, {r \in K : Key(g, r) # Key(g, to)} \cup {to})
    <3> HIDE DEF e
    <3> QED BY <1>16, <2>1, <2>2, <2>3, InsertIs
  <2>5. {r \in K : Key(g, r) # Key(g, to)} \cup {to} = RowsOf(g)
    <3>1. ASSUME NEW r \in K PROVE Key(g, r) # Key(g, to)
      <4>1. Mirrors(g, e, k, {p \in K : Key(g, p) # Key(g, to)} \cup {to}) /\ r \in RowsOf(g)
        BY <1>15, <2>4
      <4>2. \A q \in K : Key(g, q) # key
        <5> SUFFICES ASSUME NEW p \in O PROVE Key(g, Shift(p, x + 1, -1)) # key
          BY DEF K, Shifted
        <5>1. p \in Nat /\ p < Len(b) /\ p # x /\ Key(c, p) # key
          BY <1>3, <1>4, <1>8, <1>6 DEF Others, RowsOf
        <5>2. CASE p < x
          <6>1. p + 1 \in 1 .. x /\ Shift(p, x + 1, -1) = p
            BY <1>4, <5>1, <5>2 DEF Shift
          <6>2. g[p + 1] = c[p + 1]
            BY <1>13, <6>1
          <6> QED BY <5>1, <6>1, <6>2 DEF Key
        <5>3. CASE ~(p < x)
          <6> DEFINE i == p + 1
          <6>1. i \in x + 2 .. Len(b) /\ Shift(p, x + 1, -1) = p - 1 /\ i - 1 = p - 1 + 1
            BY <1>4, <5>1, <5>3 DEF Shift
          <6> HIDE DEF i
          <6>2. g[i - 1] = c[i]
            BY <1>13, <6>1
          <6>3. Key(g, p - 1) = Key(c, p)
            BY <6>1, <6>2 DEF Key, i
          <6> QED BY <5>1, <6>1, <6>3
        <5> QED BY <5>2, <5>3
      <4> QED BY <1>14, <4>2
    <3>2. \A r \in RowsOf(g) : r \in K \/ r = to
      BY <1>15
    <3>3. K \subseteq RowsOf(g)
      BY <1>15
    <3> QED BY <1>14, <3>1, <3>2, <3>3
  <2>6. Len(g) <= MaxRows
    BY <1>4, <1>13
  <2> HIDE DEF e
  <2> QED BY <2>4, <2>5, <2>6 DEF Whole
<1>17. x \in RowsOf(b) /\ Key(b, x) = key
  BY <1>1, <1>3
<1>18. g = RemoveAt(c, x + 1)
  BY <1>11 DEF g
<1> HIDE DEF e
<1> QED BY <1>16, <1>17, <1>18 DEF e, to, g, t, x, f, c, s

----------------------------------------------------------------------------
(* The inductive invariant: the dictionary mirrors all rows.  The runs check what it says *)
(* of single rows; that a search gets to the slot of its row has to be carried along.      *)
IInv == Whole(base, dict)

\* The table the constructor fills mirrors the rows.
LEMMA InitWhole ==
  ASSUME Init
  PROVE  IInv
<1>1. base \in Seq(Row) /\ DOMAIN base = 1 .. Len(base) /\ Len(base) \in Nat /\ Len(base) <= MaxRows
  <2>1. base \in BoundedSeq(Row, MaxRows)
    BY DEF Init
  <2>2. PICK m \in 0 .. MaxRows : base \in [1 .. m -> Row]
    BY <2>1 DEF BoundedSeq, SeqOf
  <2>3. m \in Nat /\ m <= MaxRows
    BY HashViewAssumption
  <2>4. base \in Seq(Row) /\ Len(base) = m
    BY <2>2, <2>3
  <2> QED BY <2>2, <2>3, <2>4
<1>2. Distinct(base, RowsOf(base))
  <2> SUFFICES ASSUME NEW q \in RowsOf(base), NEW r \in RowsOf(base), Key(base, q) = Key(base, r)
               PROVE  q = r
    BY DEF Distinct
  <2>1. q \in Nat /\ r \in Nat /\ q + 1 \in DOMAIN base /\ r + 1 \in DOMAIN base
    BY <1>1 DEF RowsOf
  <2>2. \A i, j \in DOMAIN base : base[i].key = base[j].key => i = j
    BY DEF Init
  <2>3. q + 1 = r + 1
    BY <2>1, <2>2 DEF Key
  <2> QED BY <2>1, <2>3
<1>3. dict = DictResize(base, Len(base)) /\ dict # Stuck
  BY DEF Init
<1>4. Len(base) <= 2 * MaxRows
  BY <1>1, HashViewAssumption
<1> QED BY <1>1, <1>2, <1>3, <1>4, ResizedWhole DEF IInv

\* The rows with a key: at most one.
LEMMA RowsWithKey ==
  ASSUME IInv, NEW key
  PROVE  /\ \A i \in RowsOf(base) : Key(base, i) = key => Keyed!WithKey(key) = {i + 1}
         /\ (\A i \in RowsOf(base) : Key(base, i) # key) => Keyed!WithKey(key) = {}
<1>1. /\ Distinct(base, RowsOf(base)) /\ Len(base) \in Nat /\ DOMAIN base = 1 .. Len(base)
  BY WholeFacts DEF IInv
<1>2. ASSUME NEW j \in DOMAIN base
      PROVE  j - 1 \in RowsOf(base) /\ Key(base, j - 1) = base[j].key /\ j - 1 + 1 = j
  <2>1. j \in Int /\ j - 1 \in 0 .. Len(base) - 1 /\ j - 1 + 1 = j
    BY <1>1
  <2> QED BY <2>1 DEF RowsOf, Key
<1>3. ASSUME NEW i \in RowsOf(base), Key(base, i) = key
      PROVE  Keyed!WithKey(key) = {i + 1}
  <2>1. i + 1 \in DOMAIN base /\ base[i + 1].key = key
    BY <1>1, <1>3 DEF RowsOf, Key
  <2>2. ASSUME NEW j \in DOMAIN base, base[j].key = key PROVE j = i + 1
    <3>1. j - 1 = i
      BY <1>1, <1>2, <1>3, <2>2 DEF Distinct
    <3> QED BY <1>2, <3>1
  <2> QED BY <2>1, <2>2 DEF Keyed!WithKey
<1>4. ASSUME \A i \in RowsOf(base) : Key(base, i) # key
      PROVE  Keyed!WithKey(key) = {}
  BY <1>2, <1>4 DEF Keyed!WithKey
<1> QED BY <1>3, <1>4

\* A row that replaces the one with its key.
LEMMA ReplaceStep ==
  ASSUME IInv, NEW r \in Row, Replace(r)
  PROVE  IInv' /\ Keyed!Next
<1> DEFINE i == Lookup(base, dict, r.key)
<1>1. /\ i \in RowsOf(base) /\ base' = [base EXCEPT ![i + 1] = r] /\ dict' = dict
      /\ Whole(base, dict)
  BY DEF Replace, Rows, RowsOf, IInv
<1>2. /\ Whole([base EXCEPT ![i + 1] = r], dict)
      /\ i + 1 \in DOMAIN base /\ Key(base, i) = r.key
  BY <1>1, ReplacedIs
<1> HIDE DEF i
<1>3. Keyed!WithKey(r.key) = {i + 1}
  BY <1>1, <1>2, RowsWithKey
<1>4. Keyed!Insert(1, r)
  <2>1. base' = [j \in DOMAIN base |-> IF j \in {i + 1} THEN r ELSE base[j]]
    BY <1>1, <1>2
  <2> QED BY <1>3, <2>1 DEF Keyed!Insert
<1>5. 1 \in 1 .. Len(base) + 1 /\ r \in Keyed!Row
  BY <1>1, WholeFacts DEF Keyed!Row, Row
<1> QED BY <1>1, <1>2, <1>4, <1>5 DEF IInv, Keyed!Next

\* A row with a new key is put in.
LEMMA InsertStep ==
  ASSUME IInv, NEW r \in Row, NEW pos \in 0 .. Len(base), Insert(pos, r)
  PROVE  IInv' /\ Keyed!Next
<1> DEFINE c == InsertAt(base, pos + 1, r)
           e == Grown(c, InsertDict(c, RowsMoved(dict, pos, 1), pos))
<1>1. /\ Whole(base, dict) /\ Len(base) < MaxRows /\ Lookup(base, dict, r.key) = NotThere
      /\ base' = c /\ dict' = e /\ e # Stuck
  BY DEF Insert, IInv
<1>2. Whole(c, e) /\ \A q \in RowsOf(base) : Key(base, q) # r.key
  BY <1>1, RowInserted
<1> HIDE DEF e
<1>3. Keyed!WithKey(r.key) = {}
  BY <1>2, RowsWithKey
<1>4. Keyed!Insert(pos + 1, r)
  BY <1>1, <1>3 DEF Keyed!Insert, Keyed!InsertAt, InsertAt
<1>5. pos + 1 \in 1 .. Len(base) + 1 /\ r \in Keyed!Row
  BY <1>1, WholeFacts DEF Keyed!Row, Row
<1> HIDE DEF c
<1> QED BY <1>1, <1>2, <1>4, <1>5 DEF IInv, Keyed!Next

\* A row is removed.
LEMMA RemoveStep ==
  ASSUME IInv, NEW row \in Rows, RemoveRow(row)
  PROVE  IInv' /\ Keyed!Next
<1>1. /\ Whole(base, dict) /\ row \in RowsOf(base) /\ Shrunk(base, dict) # Stuck
      /\ base' = RowRemoved(base, dict, row).base /\ dict' = RowRemoved(base, dict, row).dict
  BY DEF RemoveRow, Rows, RowsOf, IInv
<1>2. /\ Whole(base', dict') /\ base' = RemoveAt(base, row + 1)
  BY <1>1, RowTaken
<1>3. row + 1 \in DOMAIN base
  BY <1>1, WholeFacts
<1>4. Keyed!RemoveRow(row + 1)
  BY <1>2 DEF Keyed!RemoveRow, Keyed!RemoveAt, RemoveAt
<1> QED BY <1>2, <1>3, <1>4 DEF IInv, Keyed!Next

\* A property that is not in the key is set.
LEMMA SetValStep ==
  ASSUME IInv, NEW row \in Rows, NEW val \in Vals, SetVal(row, val)
  PROVE  IInv' /\ Keyed!Next
<1> DEFINE c == [base EXCEPT ![row + 1].val = val]
<1>1. Whole(base, dict) /\ row \in RowsOf(base) /\ base' = c /\ dict' = dict
  BY DEF SetVal, Rows, RowsOf, IInv
<1>2. /\ base \in Seq(Row) /\ DOMAIN base = 1 .. Len(base) /\ row + 1 \in DOMAIN base
      /\ \A i \in DOMAIN base : base[i] \in Row
      /\ \A r \in RowsOf(base) : r \in Nat /\ r + 1 \in DOMAIN base
  BY <1>1, WholeFacts
<1>3. [base[row + 1] EXCEPT !.val = val] \in Row
      /\ [base[row + 1] EXCEPT !.val = val].key = base[row + 1].key
  <2> DEFINE x == base[row + 1]
  <2>1. x \in Row
    BY <1>2
  <2> HIDE DEF x
  <2>2. [x EXCEPT !.val = val] \in Row /\ [x EXCEPT !.val = val].key = x.key
    BY <2>1 DEF Row
  <2> QED BY <2>2 DEF x
<1>4. /\ c \in Seq(Row) /\ Len(c) = Len(base)
      /\ \A i \in DOMAIN base :
           c[i] = IF i = row + 1 THEN [base[row + 1] EXCEPT !.val = val] ELSE base[i]
  BY <1>2, <1>3
<1> HIDE DEF c
<1>5. ASSUME NEW r \in RowsOf(base) PROVE Key(c, r) = Key(base, r)
  BY <1>2, <1>3, <1>4 DEF Key
<1>6. Whole(c, dict)
  BY <1>1, <1>4, <1>5, SameKeys
<1> QED BY <1>1, <1>2, <1>6 DEF IInv, Keyed!Next, Keyed!SetVal, c

\* A key is set: that of no other row, or that of a row which goes away.
LEMMA SetKeyStep ==
  ASSUME IInv, NEW row \in Rows, NEW key \in Keys, SetKeyTo(row, key)
  PROVE  IInv' /\ Keyed!Next
<1> DEFINE s == Changed(base, dict, row, key)
           x == OtherRow(s, key)
           t == RowRemoved(s.base, s.dict, x)
<1>1. /\ Whole(base, dict) /\ row \in RowsOf(base) /\ Key(base, row) # key
      /\ row + 1 \in DOMAIN base /\ row \in Nat
  <2>1. Whole(base, dict) /\ row \in RowsOf(base) /\ Key(base, row) # key
    BY DEF SetKeyTo, Rows, RowsOf, Key, IInv
  <2> QED BY <2>1, WholeFacts
<1>2. KeyChanged(row, key) = s
  BY DEF KeyChanged, Changed
<1>3. s.base = [base EXCEPT ![row + 1].key = key]
  BY DEF Changed
<1> HIDE DEF s
<1>4. Lookup(s.base, s.dict, key) = x
  BY DEF OtherRow
<1> HIDE DEF x
<1>5. CASE x = NotThere
  <2> DEFINE e == InsertDict(s.base, s.dict, row)
  <2>1. base' = s.base /\ dict' = e /\ e # Stuck
    BY <1>2, <1>4, <1>5 DEF SetKeyTo
  <2>2. (e # Stuck => Whole(s.base, e)) /\ \A r \in RowsOf(base) : Key(base, r) # key
    BY <1>1, <1>5, KeySetFree DEF s, x
  <2> HIDE DEF e
  <2>3. Keyed!WithKey(key) = {}
    BY <2>2, RowsWithKey
  <2>4. Keyed!SetKey(row + 1, key)
    BY <1>3, <2>1, <2>3 DEF Keyed!SetKey
  <2> QED BY <1>1, <2>1, <2>2, <2>4 DEF IInv, Keyed!Next
<1>6. CASE x # NotThere
  <2> DEFINE to == IF x < row THEN row - 1 ELSE row
             e  == InsertDict(t.base, t.dict, to)
  <2>1. /\ x # Never /\ Shrunk(s.base, s.dict) # Stuck
        /\ base' = t.base /\ dict' = e /\ e # Stuck
    BY <1>2, <1>4, <1>6 DEF SetKeyTo
  <2>2. /\ e # Stuck => Whole(t.base, e)
        /\ x \in RowsOf(base) /\ Key(base, x) = key /\ t.base = RemoveAt(s.base, x + 1)
    BY <1>1, <1>6, <2>1, KeySetTaken DEF s, x
  <2> HIDE DEF e, t
  <2>3. Keyed!WithKey(key) = {x + 1}
    BY <2>2, RowsWithKey
  <2>4. x \in Nat /\ x # row
    BY <1>1, <2>2, WholeFacts
  <2>5. Keyed!SetKey(row + 1, key)
    <3>1. ~({x + 1} \subseteq {row + 1}) /\ (CHOOSE j \in {x + 1} : TRUE) = x + 1
      BY <1>1, <2>4
    <3>2. Keyed!RemoveAt(s.base, x + 1) = RemoveAt(s.base, x + 1)
      BY DEF Keyed!RemoveAt, RemoveAt
    <3> QED BY <1>3, <2>1, <2>2, <2>3, <3>1, <3>2 DEF Keyed!SetKey
  <2> QED BY <1>1, <2>1, <2>2, <2>5 DEF IInv, Keyed!Next
<1> QED BY <1>5, <1>6

\* Every step keeps the dictionary whole and is a step of a view with unique keys.
LEMMA EveryStep ==
  ASSUME IInv, [Next]_vars
  PROVE  IInv' /\ [Keyed!Next]_base
<1>1. ASSUME NEW r \in Row, Replace(r) PROVE IInv' /\ Keyed!Next
  BY <1>1, ReplaceStep
<1>2. ASSUME NEW r \in Row, NEW pos \in 0 .. Len(base), Insert(pos, r) PROVE IInv' /\ Keyed!Next
  BY <1>2, InsertStep
<1>3. ASSUME NEW row \in Rows, RemoveRow(row) PROVE IInv' /\ Keyed!Next
  BY <1>3, RemoveStep
<1>4. ASSUME NEW row \in Rows, NEW val \in Vals, SetVal(row, val) PROVE IInv' /\ Keyed!Next
  BY <1>4, SetValStep
<1>5. ASSUME NEW row \in Rows, NEW key \in Keys, SetKeyTo(row, key) PROVE IInv' /\ Keyed!Next
  BY <1>5, SetKeyStep
<1>6. CASE UNCHANGED vars
  BY <1>6 DEF IInv, vars
<1> QED BY <1>1, <1>2, <1>3, <1>4, <1>5, <1>6 DEF Next

----------------------------------------------------------------------------
(* What the invariant says of the dictionary and its searches.              *)

\* A dictionary that mirrors all rows is of the right type and has each row once.
LEMMA MirrorsRows ==
  ASSUME IInv
  PROVE  DictMirrorsRows
<1>1. PICK n \in Sizes : Mirrors(base, dict, n, RowsOf(base))
  BY DEF IInv, Whole
<1>2. /\ base \in Seq(Row) /\ Len(base) \in Nat /\ Len(base) <= MaxRows /\ MaxRows \in Nat
      /\ \A r \in RowsOf(base) : r \in Nat /\ r < Len(base)
  BY WholeFacts DEF IInv, RowsOf
<1>3. /\ n \in Nat /\ n >= 1 /\ Slots(dict) = 0 .. n - 1 /\ Size(dict) = n
      /\ dict.slot \in [0 .. n - 1 -> Slot]
      /\ \A r \in RowsOf(base) : Key(base, r) \in Keys /\ HashOf[Key(base, r)] \in Int
      /\ \A i \in 0 .. n - 1 :
           /\ IsActive(dict.slot[i]) => \E r \in RowsOf(base) : dict.slot[i] = Entry(base, r)
           /\ ~IsActive(dict.slot[i]) => dict.slot[i] \in {UnusedSlot, DummySlot}
  BY <1>1, MirrorFacts
<1>4. Rows = RowsOf(base)
  BY DEF Rows, RowsOf
<1>5. TypeOK
  <2>1. ASSUME NEW i \in 0 .. n - 1
        PROVE  dict.slot[i] \in [row : -1 .. MaxRows - 1, hash : Int]
    <3>1. CASE IsActive(dict.slot[i])
      <4>1. PICK r \in RowsOf(base) : dict.slot[i] = Entry(base, r)
        BY <1>3, <3>1
      <4>2. r \in -1 .. MaxRows - 1
        BY <1>2
      <4> QED BY <1>3, <4>1, <4>2 DEF Entry
    <3>2. CASE ~IsActive(dict.slot[i])
      <4>1. -1 \in -1 .. MaxRows - 1
        BY <1>2
      <4> QED BY <1>3, <3>2, <4>1 DEF UnusedSlot, DummySlot
    <3> QED BY <3>1, <3>2
  <2>2. dict.slot \in [0 .. n - 1 -> [row : -1 .. MaxRows - 1, hash : Int]]
    BY <1>3, <2>1
  <2>3. dict.spare \in Nat
    BY <1>1, <1>3, DummiesFinite DEF Mirrors
  <2> QED BY <1>2, <1>3, <2>2, <2>3 DEF TypeOK
<1>6. ASSUME NEW i \in Active
      PROVE  /\ dict.slot[i].row \in Rows
             /\ dict.slot[i].hash = HashOf[base[dict.slot[i].row + 1].key]
  <2>1. i \in 0 .. n - 1 /\ IsActive(dict.slot[i])
    BY <1>3 DEF Active
  <2>2. PICK r \in RowsOf(base) : dict.slot[i] = Entry(base, r)
    BY <1>3, <2>1
  <2>3. dict.slot[i].row = r /\ dict.slot[i].hash = HashOf[Key(base, r)]
    BY <2>2 DEF Entry
  <2> QED BY <1>4, <2>3 DEF Key
<1>7. ASSUME NEW r \in Rows
      PROVE  Cardinality({i \in Active : dict.slot[i].row = r}) = 1
  <2>1. r \in RowsOf(base) /\ r \in Nat
    BY <1>2, <1>4
  <2>2. PICK e \in DOMAIN Path[n][Key(base, r)] : dict.slot[Path[n][Key(base, r)][e]].row = r
    BY <1>1, <2>1 DEF Mirrors, Reached
  <2> DEFINE k == Path[n][Key(base, r)][e]
  <2>3. k \in 0 .. n - 1
    BY <1>3, <2>1, PathFacts
  <2>4. dict.slot[k].row = r
    BY <2>2
  <2> HIDE DEF k
  <2>5. k \in Active
    BY <1>3, <2>1, <2>3, <2>4 DEF Active, IsActive
  <2>6. ASSUME NEW i \in Active, dict.slot[i].row = r PROVE i = k
    <3>1. i \in 0 .. n - 1
      BY <1>3 DEF Active
    <3> QED BY <1>1, <2>1, <2>3, <2>4, <2>6, <3>1 DEF Mirrors, Once
  <2>7. {i \in Active : dict.slot[i].row = r} = {k}
    BY <2>4, <2>5, <2>6
  <2> QED BY <2>7, FS_Singleton
<1>8. dict.spare = Cardinality({i \in Slots(dict) : dict.slot[i] = DummySlot})
  <2>1. {i \in Slots(dict) : dict.slot[i] = DummySlot} = Dummies(dict, n)
    BY <1>3 DEF Dummies
  <2> QED BY <1>1, <2>1 DEF Mirrors
<1> QED BY <1>5, <1>6, <1>7, <1>8 DEF DictMirrorsRows

\* The slots in use are at most as many as the rows and the dummies.
LEMMA SlotsInUse ==
  ASSUME NEW b, NEW d, NEW n, Mirrors(b, d, n, RowsOf(b)),
         NEW V \in SUBSET (0 .. n - 1), \A i \in V : d.slot[i] # UnusedSlot
  PROVE  /\ Cardinality(V) \in Nat /\ d.spare \in Nat
         /\ Cardinality(V) <= Len(b) + d.spare
<1> DEFINE A == {i \in 0 .. n - 1 : IsActive(d.slot[i])}
           D == Dummies(d, n)
           T == 0 .. Len(b) - 1
           f == [i \in A |-> d.slot[i].row]
<1>1. /\ n \in Nat /\ Len(b) \in Nat
      /\ \A i \in 0 .. n - 1 :
           /\ IsActive(d.slot[i]) => \E r \in RowsOf(b) : d.slot[i] = Entry(b, r)
           /\ ~IsActive(d.slot[i]) => d.slot[i] \in {UnusedSlot, DummySlot}
  BY MirrorFacts
<1>2. IsFiniteSet(T) /\ Cardinality(T) = Len(b)
  <2> DEFINE m == Len(b) - 1
  <2>1. m \in Int /\ Len(b) = m + 1 /\ m >= -1
    BY <1>1
  <2> HIDE DEF m
  <2>2. IsFiniteSet(0 .. m) /\ Cardinality(0 .. m) = IF 0 > m THEN 0 ELSE m - 0 + 1
    BY <2>1, FS_Interval
  <2>3. IsFiniteSet(0 .. m) /\ Cardinality(0 .. m) = Len(b)
    BY <2>1, <2>2
  <2> QED BY <2>3 DEF m
<1>3. ASSUME NEW i \in A PROVE d.slot[i].row \in T
  <2>1. PICK r \in RowsOf(b) : d.slot[i] = Entry(b, r)
    BY <1>1
  <2> QED BY <2>1 DEF Entry, RowsOf
<1>4. ASSUME NEW i \in A, NEW k \in A, d.slot[i].row = d.slot[k].row PROVE i = k
  BY <1>4 DEF Mirrors, Once, IsActive
<1> HIDE DEF A, T
<1>5. f \in Injection(A, T)
  <2>1. f \in [A -> T]
    BY <1>3
  <2>2. IsInjective(f)
    BY <1>4 DEF IsInjective
  <2> QED BY <2>1, <2>2 DEF Injection
<1> HIDE DEF f
<1>6. IsFiniteSet(A) /\ Cardinality(A) <= Len(b)
  BY <1>2, <1>5, FS_Injection
<1>7. IsFiniteSet(D) /\ Cardinality(D) \in Nat /\ d.spare = Cardinality(D)
  BY <1>1, DummiesFinite DEF Mirrors
<1>8. V \subseteq A \cup D
  <2> SUFFICES ASSUME NEW i \in V, ~IsActive(d.slot[i]) PROVE i \in D
    BY DEF A
  <2> QED BY <1>1 DEF Dummies
<1> HIDE DEF D
<1>9. /\ IsFiniteSet(A \cup D)
      /\ Cardinality(A \cup D) = Cardinality(A) + Cardinality(D) - Cardinality(A \cap D)
  BY <1>6, <1>7, FS_Union
<1>10. Cardinality(A) \in Nat /\ Cardinality(A \cup D) \in Nat
  BY <1>6, <1>9, FS_CardinalityType
<1>11. IsFiniteSet(A \cap D) /\ Cardinality(A \cap D) \in Nat
  <2>1. A \cap D \in SUBSET A
    OBVIOUS
  <2> QED BY <1>6, <2>1, FS_Subset, FS_CardinalityType
<1>12. Cardinality(V) <= Cardinality(A \cup D) /\ Cardinality(V) \in Nat
  <2>1. V \in SUBSET (A \cup D)
    BY <1>8
  <2> QED BY <1>9, <2>1, FS_Subset, FS_CardinalityType
<1> QED BY <1>1, <1>6, <1>7, <1>9, <1>10, <1>11, <1>12

\* A search ends while less than two thirds of the slots are in use.
LEMMA SearchEnds ==
  ASSUME NEW b, NEW d, NEW n, Mirrors(b, d, n, RowsOf(b)), NEW key \in Keys,
         (Len(b) + d.spare) * 3 < n * 2
  PROVE  Lookup(b, d, key) # Never
<1>1. CASE \E r \in RowsOf(b) : Key(b, r) = key
  <2>1. PICK r \in RowsOf(b) : Key(b, r) = key
    BY <1>1
  <2>2. Lookup(b, d, key) = r /\ r \in Nat
    BY <2>1, LookupFound, MirrorFacts
  <2> QED BY <2>2 DEF Never
<1>2. CASE \A r \in RowsOf(b) : Key(b, r) # key
  <2>1. n \in Sizes /\ n \in Nat /\ Len(b) \in Nat
    BY MirrorFacts
  <2> DEFINE V == Visited(key, n)
  <2>2. V \in SUBSET (0 .. n - 1) /\ 3 * Cardinality(V) >= 2 * n
    <3>1. V \in SUBSET (0 .. n - 1)
      BY <2>1, PathFacts DEF Visited
    <3> HIDE DEF V
    <3>2. 3 * Cardinality(Visited(key, n)) >= 2 * n
      BY <2>1, HashViewAssumption
    <3> QED BY <3>1, <3>2 DEF V
  <2> HIDE DEF V
  <2>3. \E i \in V : d.slot[i] = UnusedSlot
    <3> SUFFICES ASSUME \A i \in V : d.slot[i] # UnusedSlot PROVE FALSE
      OBVIOUS
    <3>1. /\ Cardinality(V) \in Nat /\ d.spare \in Nat
          /\ Cardinality(V) <= Len(b) + d.spare
      BY <2>2, SlotsInUse
    <3> QED BY <2>1, <2>2, <3>1
  <2>4. \E j \in DOMAIN Path[n][key] : d.slot[Path[n][key][j]] = UnusedSlot
    BY <2>3 DEF V, Visited
  <2>5. LookDict(b, d, key) # Never
    BY <1>2, <2>4, LookFree
  <2>6. Lookup(b, d, key) = NotThere
    BY <1>2, <2>5, LookupFree
  <2> QED BY <2>6 DEF Never, NotThere
<1> QED BY <1>1, <1>2

\* Every row is found by its key, and every other search ends when the table is not too full.
LEMMA RowsFound ==
  ASSUME IInv
  PROVE  FindsEveryRow
<1>1. PICK n \in Sizes : Mirrors(base, dict, n, RowsOf(base))
  BY DEF IInv, Whole
<1>2. Size(dict) = n
  BY <1>1, MirrorFacts
<1>3. ASSUME NEW r \in Rows PROVE Lookup(base, dict, base[r + 1].key) = r
  <2>1. r \in RowsOf(base)
    BY DEF Rows, RowsOf
  <2>2. Lookup(base, dict, Key(base, r)) = r
    BY <1>1, <2>1, LookupFound
  <2> QED BY <2>2 DEF Key
<1>4. ASSUME (Len(base) + dict.spare) * 3 < Size(dict) * 2, NEW key \in Keys
      PROVE  Lookup(base, dict, key) # Never
  BY <1>1, <1>2, <1>4, SearchEnds
<1> QED BY <1>3, <1>4 DEF FindsEveryRow

----------------------------------------------------------------------------
(* The theorems.                                                           *)

\* The dictionary mirrors all rows, and a search for a row's key gets to the row's slot: the
\* inductive invariant, which InsertRows, RemoveRows and SetItem keep.
THEOREM Invariant == Spec => []IInv
<1>1. Init => IInv
  BY InitWhole
<1>2. IInv /\ [Next]_vars => IInv'
  BY EveryStep
<1> QED BY <1>1, <1>2, PTL DEF Spec

\* Each row is in one slot of the dictionary, with the hash of its key, and the spare count
\* is the number of dummies.
THEOREM Mirrored == Spec => []DictMirrorsRows
<1>1. IInv => DictMirrorsRows
  BY MirrorsRows
<1> QED BY <1>1, Invariant, PTL

\* LookDict finds every row by its key, whatever was deleted or moved before, and ends for
\* any other key as long as less than two thirds of the slots are used up.
THEOREM Found == Spec => []FindsEveryRow
<1>1. IInv => FindsEveryRow
  BY RowsFound
<1> QED BY <1>1, Invariant, PTL

\* The rows of c4_HashViewer behave as a view with unique keys: a row inserted with a key that
\* is there replaces the row that has it, and setting a key removes the row that had it.
THEOREM Refinement == Spec => ImplementsKeyedRows
<1>1. Init => Keyed!Init
  BY DEF Init, Keyed!Init, Keyed!UniqueKeys, Keyed!Row, Row, Keyed!BoundedSeq, BoundedSeq,
         Keyed!SeqOf, SeqOf
<1>2. IInv /\ [Next]_vars => [Keyed!Next]_base
  BY EveryStep
<1> QED BY <1>1, <1>2, Invariant, PTL DEF Spec, ImplementsKeyedRows, Keyed!Spec
=============================================================================
