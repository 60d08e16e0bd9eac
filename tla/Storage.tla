------------------------------ MODULE Storage -------------------------------
(***************************************************************************)
(* A storage as a tree of c4_HandlerSeqs (handler.cpp) under one root row:   *)
(* each has fields, a part of the structure that Commit saves, and handlers,  *)
(* of which the first are those of its fields, in order; others are          *)
(* temporary.  A handler of a view property (c4_FormatV, format.cpp) has a    *)
(* c4_HandlerSeq for each row, or none, made from the saved bytes of the      *)
(* column only when one of them is asked for.  The structure can be redefined *)
(* at any time (store.cpp), and a commit goes to the datafile or, as          *)
(* differences, to an aside storage (c4_Differ, persist.cpp).                *)
(*                                                                         *)
(* Bytes on file are modelled by what they hold; Persist has the space they   *)
(* are in.  A column that was not changed is not written again, and what the  *)
(* file holds of it is sure only while the last commit knew of it: space is    *)
(* reused for the rest, which reads as Lost.                                *)
(***************************************************************************)
EXTENDS Integers, SequencesExt, FiniteSets

CONSTANTS IntNames, ViewNames, Structures, Rows, MaxRows, Paths,
          MaxChanges,    \* changes of rows or structure
          MaxCommits,
          Nil,           \* no c4_HandlerSeq, c4_Field or walk
          Lost           \* what is read where something else was written

VARIABLES root,      \* the root c4_HandlerSeq
          mode,      \* 0: the datafile is read-only, 1: read and write
          base,      \* the root walk in the datafile
          aside,     \* the root walk that the aside storage has last
          kept,      \* the same in the aside file
          differ,    \* is the aside storage in use?
          copy,      \* the walk that SaveTo wrote last
          changes, commits

vars == <<root, mode, base, aside, kept, differ, copy, changes, commits>>

----------------------------------------------------------------------------
\* Handlers.  One is
\*   [name, items, from] with an item for each row, or
\*   [name, subs, data, inited, from] with a c4_HandlerSeq or Nil for each row
\* and, in data, the saved form of all of them; from is "memory" for a column
\* that is dirty, or where its bytes are.

IsNested(h) == h.name \in ViewNames
NumFields(s) == IF s.field = Nil THEN 0 ELSE Len(s.field)
PropIndex(s, n) == IF \E i \in DOMAIN s.cols : s.cols[i].name = n
                   THEN CHOOSE i \in DOMAIN s.cols : s.cols[i].name = n ELSE 0
\* A sequence, computed at once: TLC would compute the items at each use.
List(f) == f \o << >>
Repeat(x, n) == [k \in 1 .. n |-> x]

CreateFormat(n, rows) ==
  IF n \in ViewNames
  THEN [name |-> n, subs |-> Repeat(Nil, rows), data |-> << >>, inited |-> FALSE,
        from |-> "memory"]
  ELSE [name |-> n, items |-> Repeat(0, rows), from |-> "memory"]

\* A c4_HandlerSeq of a parent's field; a temporary one has no field.
NewSeq(field) ==
  [field |-> field, rows |-> 0,
   cols |-> IF field = Nil THEN << >>
            ELSE List([i \in DOMAIN field |-> CreateFormat(field[i].name, 0)])]

FindField(s, i) == IF i <= NumFields(s) THEN s.field[i].subs ELSE Nil

\* A saved column is [content, from, nested], a saved c4_HandlerSeq [rows, cols].
\* Reading back takes them in the order of the fields; bytes of another
\* column read as rubbish.
Define(n, rows, c) ==
  IF n \in ViewNames
  THEN [name |-> n, subs |-> Repeat(Nil, rows), inited |-> FALSE, from |-> c.from,
        data |-> IF c.nested THEN c.content ELSE Repeat([rows |-> 0, cols |-> << >>], rows)]
  ELSE [name |-> n, from |-> c.from,
        items |-> IF c.nested THEN Repeat(Lost, rows) ELSE c.content]

Prepare(walk, field) ==
  IF walk.rows = 0 THEN NewSeq(field)
  ELSE [field |-> field, rows |-> walk.rows,
        cols |-> List([i \in DOMAIN field |->
                   IF i \in DOMAIN walk.cols
                   THEN Define(field[i].name, walk.rows, walk.cols[i])
                   ELSE CreateFormat(field[i].name, walk.rows)])]

\* The bytes come from the aside storage into memory; empty views are not made.
SetupAllSubviews(s, i) ==
  LET h == s.cols[i] IN
  IF h.inited THEN h
  ELSE [h EXCEPT !.inited = TRUE,
                 !.from = IF @ = "aside" THEN "memory" ELSE @,
                 !.subs = List([r \in DOMAIN @ |->
                            IF r \in DOMAIN h.data /\ h.data[r].rows > 0
                            THEN Prepare(h.data[r], IF FindField(s, i) = Nil THEN << >>
                                                    ELSE FindField(s, i))
                            ELSE Nil])]

SetUp(s) ==
  [s EXCEPT !.cols = List([i \in DOMAIN @ |->
     IF IsNested(@[i]) /\ s.rows > 0 THEN SetupAllSubviews(s, i) ELSE @[i]])]

\* The c4_HandlerSeq of one row; asking for it makes one.
SubEntry(s, i, r) == LET sub == SetupAllSubviews(s, i).subs[r]
                     IN  IF sub = Nil THEN NewSeq(FindField(s, i)) ELSE sub

WithSub(s, i, r, sub) ==
  [s EXCEPT !.cols[i] = [SetupAllSubviews(s, i) EXCEPT !.subs[r] = sub]]

RECURSIVE SeqAt(_, _), WithSeq(_, _, _), HasSeq(_, _)
SeqAt(s, path) ==
  IF path = << >> THEN s
  ELSE SeqAt(SubEntry(s, PropIndex(s, path[1][2]), path[1][1]), Tail(path))

WithSeq(s, path, new) ==
  IF path = << >> THEN new
  ELSE LET r == path[1][1]  i == PropIndex(s, path[1][2])
       IN  WithSub(s, i, r, WithSeq(SubEntry(s, i, r), Tail(path), new))

HasSeq(s, path) ==
  \/ path = << >>
  \/ /\ path[1][1] <= s.rows /\ PropIndex(s, path[1][2]) > 0
     /\ HasSeq(SubEntry(s, PropIndex(s, path[1][2]), path[1][1]), Tail(path))

----------------------------------------------------------------------------
\* Restructure(field, remove): handlers of the new fields go to the front, in
\* order; handlers that have a field no more stay behind them.  Subviews are
\* set up first, while their saved form still fits the fields.
MoveToFront_Append(s, field) ==
  LET missing == SelectSeq(field, LAMBDA f : PropIndex(s, f.name) = 0)
  IN  s.cols \o List([i \in DOMAIN missing |-> CreateFormat(missing[i].name, s.rows)])
MoveToFront(s, field) ==
  LET names == {field[i].name : i \in DOMAIN field}
      new(i) == LET k == PropIndex(s, field[i].name)
                IN  IF k > 0 THEN s.cols[k] ELSE CreateFormat(field[i].name, s.rows)
  IN  List([i \in DOMAIN field |-> new(i)]) \o SelectSeq(s.cols, LAMBDA h : h.name \notin names)

AllSetUp_Late(s) == s
AllSetUp(s) == SetUp(s)

RECURSIVE Restructured(_, _, _)
Restructured(s, field, remove) ==
  LET t == [SetUp([AllSetUp(s) EXCEPT !.cols = MoveToFront(AllSetUp(s), field)])
            EXCEPT !.field = IF remove THEN Nil ELSE field]
      nested(i, sub) ==
        IF sub = Nil THEN Nil
        ELSE IF i <= NumFields(t) THEN Restructured(sub, field[i].subs, FALSE)
        ELSE IF sub.field # Nil THEN Restructured(sub, << >>, TRUE) ELSE sub
  IN  [t EXCEPT !.cols = List([i \in DOMAIN @ |->
         IF IsNested(@[i]) /\ s.rows > 0
         THEN [@[i] EXCEPT !.subs = List([r \in DOMAIN @ |-> nested(i, @[r])])]
         ELSE @[i]])]

\* DetachFromStorage(false): handlers without a field that might read the file
\* are deleted.
DetachTemporary_No(s) == s
RECURSIVE DetachTemporary(_)
DetachTemporary(s) ==
  [s EXCEPT !.cols = List([i \in 1 .. NumFields(s) |->
     IF IsNested(@[i]) /\ s.rows > 0
     THEN [SetupAllSubviews(s, i) EXCEPT !.subs = List([r \in DOMAIN @ |->
             IF @[r] = Nil THEN Nil ELSE DetachTemporary(@[r])])]
     ELSE @[i]])]

----------------------------------------------------------------------------
\* Changes of rows.  What is put into a view is a table of NestedTables.

AddHandler(s, n) ==
  IF PropIndex(s, n) > 0 THEN s
  ELSE [s EXCEPT !.cols = Append(@, [CreateFormat(n, s.rows) EXCEPT !.from = "memory"])]

RECURSIVE WithHandlers(_, _)
WithHandlers(s, names) ==
  IF names = << >> THEN s ELSE WithHandlers(AddHandler(s, Head(names)), Tail(names))

TableNames(table) == IF table = << >> THEN << >> ELSE SetToSeq(DOMAIN table[1])

\* Replace: another c4_HandlerSeq gets the rows of a view, in columns of its own;
\* no pointer to a view means none.
RECURSIVE Replace(_, _)
Replace(table, field) ==
  LET t == WithHandlers([NewSeq(field) EXCEPT !.rows = Len(table),
                           !.cols = List([i \in DOMAIN @ |-> CreateFormat(@[i].name, Len(table))])],
                        TableNames(table))
      fill(i) == LET h == t.cols[i] IN
        IF h.name \notin ToSet(TableNames(table)) THEN h
        ELSE IF IsNested(h)
        THEN [h EXCEPT !.inited = TRUE, !.subs = List([r \in DOMAIN table |->
                           Replace(table[r][h.name], FindField(t, i))])]
        ELSE [h EXCEPT !.items = List([r \in DOMAIN table |-> table[r][h.name]])]
  IN  [t EXCEPT !.cols = List([i \in DOMAIN @ |-> fill(i)])]

\* What a row has for the handler at i: the default if it lacks the property.
Item(s, i, row) ==
  LET n == s.cols[i].name IN
  IF n \in ViewNames
  THEN IF n \in DOMAIN row THEN Replace(row[n], FindField(s, i)) ELSE Nil
  ELSE IF n \in DOMAIN row THEN row[n] ELSE 0

\* An insertion into views makes the column dirty, whatever it comes out as.
ForceDirty(h) == [h EXCEPT !.data = << >>, !.from = "memory"]

InsertItem(h, i, x) ==
  IF IsNested(h) THEN ForceDirty([h EXCEPT !.subs = InsertAt(@, i, x)])
  ELSE [h EXCEPT !.items = InsertAt(@, i, x), !.from = "memory"]
RemoveItem(h, i) ==
  IF IsNested(h) THEN ForceDirty([h EXCEPT !.subs = RemoveAt(@, i)])
  ELSE [h EXCEPT !.items = RemoveAt(@, i), !.from = "memory"]
SetItem(h, i, x) ==
  IF IsNested(h) THEN [h EXCEPT !.subs[i] = x]
  ELSE [h EXCEPT !.items[i] = x, !.from = "memory"]

Inited(s, i) == IF IsNested(s.cols[i]) THEN SetupAllSubviews(s, i) ELSE s.cols[i]

\* Rows count from 1 here.
InsertRow(s, i, row) ==
  [s EXCEPT !.rows = @ + 1,
            !.cols = List([k \in DOMAIN @ |-> InsertItem(Inited(s, k), i, Item(s, k, row))])]

RemoveRow(s, i) ==
  [s EXCEPT !.rows = @ - 1,
            !.cols = List([k \in DOMAIN @ |-> RemoveItem(Inited(s, k), i)])]

SetRow(s, i, row) ==
  LET t == WithHandlers(s, SetToSeq(DOMAIN row))
  IN  [t EXCEPT !.cols = List([k \in DOMAIN @ |-> SetItem(Inited(t, k), i, Item(t, k, row))])]

----------------------------------------------------------------------------
\* Commits.

EmptyWalk == [rows |-> 0, cols |-> << >>]
LostWalk == [rows |-> 1, cols |-> <<[nested |-> FALSE, from |-> "base", content |-> <<Lost>>]>>]

RECURSIVE Contents(_, _)
\* What a walk says is on file: the contents of columns, of views or of items.
Contents(walk, nested) ==
  UNION {LET c == walk.cols[i] IN
           (IF c.nested = nested /\ c.from = "base" THEN {c.content} ELSE {})
             \cup (IF c.nested
                   THEN UNION {Contents(c.content[r], nested) : r \in DOMAIN c.content}
                   ELSE {})
         : i \in DOMAIN walk.cols}

\* CommitColumn, for a commit to the file ("base"), to the aside storage
\* ("aside") or to a stream, where everything is written ("copy").
CommitColumn(content, h, to) ==
  LET nested == IsNested(h)
      there == content \in Contents(base, nested)
  IN  [nested |-> nested,
       from |-> IF h.from = "memory" \/ to = "copy" THEN to ELSE h.from,
       content |-> IF h.from = "base" /\ to = "base" /\ ~there
                   THEN Repeat(IF nested THEN LostWalk ELSE Lost, Len(content))
                   ELSE content]

\* SaveNow and SetLocation come with a commit to the file only.
Located(h, col, to) == IF to = "base" /\ h.from = "memory" THEN [h EXCEPT !.from = col.from] ELSE h

\* Of a handler: the column in the walk, and the handler afterwards.  Views are
\* walked into another form that is the column when it differs; empty ones are
\* forgotten.
RECURSIVE CommitHandler(_, _), CommitSequence(_, _)
CommitHandler(h, to) ==
  IF ~IsNested(h)
  THEN LET col == CommitColumn(h.items, h, to) IN [col |-> col, h |-> Located(h, col, to)]
  ELSE LET subs == List([r \in DOMAIN h.subs |-> IF h.subs[r] = Nil THEN [walk |-> EmptyWalk, seq |-> Nil]
                                            ELSE CommitSequence(h.subs[r], to)])
           data == List([r \in DOMAIN subs |-> subs[r].walk])
           new == [h EXCEPT !.data = data, !.from = IF data = h.data THEN @ ELSE "memory",
                            !.subs = List([r \in DOMAIN subs |->
                                       IF data[r].rows = 0 THEN Nil ELSE subs[r].seq])]
           col == CommitColumn(data, new, to)
       IN  [col |-> col, h |-> Located(new, col, to)]

CommitSequence(s, to) ==
  IF s.rows = 0 THEN [walk |-> EmptyWalk, seq |-> s]
  ELSE LET t == SetUp(s)
           done == List([i \in 1 .. NumFields(s) |-> CommitHandler(t.cols[i], to)])
       IN  [walk |-> [rows |-> s.rows, cols |-> List([i \in 1 .. NumFields(s) |-> done[i].col])],
            seq |-> [t EXCEPT !.cols = List([i \in DOMAIN @ |->
                                         IF i <= NumFields(s) THEN done[i].h ELSE @[i]])]]

\* SaveIt: the root and its walk, which has the structure with it.
SaveIt(s, to) == LET done == CommitSequence(s, to)
                 IN  [root |-> done.seq,
                      walk |-> [desc |-> s.field, rows |-> done.walk.rows, cols |-> done.walk.cols]]

DefineRoot == [field |-> << >>, rows |-> 1, cols |-> << >>]

\* An aside walk goes with the file that it was made over.
Over(walk) == [desc |-> walk.desc, rows |-> walk.rows, cols |-> walk.cols, over |-> base]

\* What is read: the last version aside of the file, if there is one.
Latest(d) == IF d /\ aside # Nil THEN aside ELSE base

Read(walk) == Prepare(walk, walk.desc)

\* A file without a walk ends it, before the aside storage is asked for its own.
LoadAll(d) == IF base = Nil THEN DefineRoot ELSE Read(Latest(d))
----------------------------------------------------------------------------
\* Operations of c4_Storage and c4_View.

Change(new) == /\ changes < MaxChanges
               /\ changes' = changes + 1
               /\ root' = new

Others == UNCHANGED <<mode, base, aside, kept, differ, copy, commits>>

Init == /\ root = DefineRoot /\ mode = 1 /\ base = Nil
        /\ aside = Nil /\ kept = Nil /\ differ = FALSE /\ copy = Nil
        /\ changes = 0 /\ commits = 0

Reached == {p \in Paths : HasSeq(root, p)}

InsertAtRow ==
  \E path \in Reached, row \in Rows : \E i \in 1 .. SeqAt(root, path).rows + 1 :
    LET s == SeqAt(root, path) IN
      /\ s.rows < MaxRows
      /\ \A n \in DOMAIN row : PropIndex(s, n) > 0
      /\ Change(WithSeq(root, path, InsertRow(s, i, row)))
      /\ Others

RemoveAtRow ==
  \E path \in Reached : \E i \in 1 .. SeqAt(root, path).rows :
    /\ Change(WithSeq(root, path, RemoveRow(SeqAt(root, path), i)))
    /\ Others

SetAtRow ==
  \E path \in Reached, row \in Rows : \E i \in 1 .. SeqAt(root, path).rows :
    /\ Change(WithSeq(root, path, SetRow(SeqAt(root, path), i, row)))
    /\ Others

\* View(name): the root gets such a property if it has none.
View == \E n \in ViewNames :
          /\ Change(WithSub(AddHandler(root, n), PropIndex(AddHandler(root, n), n), 1,
                       SubEntry(AddHandler(root, n), PropIndex(AddHandler(root, n), n), 1)))
          /\ Others

\* SetStructure: the whole structure is given.
SetStructure == \E field \in Structures :
                  Change(Restructured(root, field, FALSE)) /\ Others

\* GetAs: one view is given other fields, or none to remove it; others stay.
Merged(curr, f, keep) ==
  LET same(g) == g.name = f.name
      there == \E i \in DOMAIN curr : same(curr[i])
      kept_ == IF keep THEN List([i \in DOMAIN curr |-> IF same(curr[i]) THEN f ELSE curr[i]])
               ELSE SelectSeq(curr, LAMBDA g : ~same(g))
  IN  IF keep /\ ~there THEN Append(curr, f) ELSE kept_

GetAs ==
  \E field \in Structures : \E i \in DOMAIN field, keep \in BOOLEAN :
    LET f == field[i]
        merged == Merged(root.field, f, keep)
        s == IF keep THEN AddHandler(root, f.name) ELSE root
    IN  /\ merged \in Structures
        /\ IF keep /\ merged = root.field THEN Change(s)
           ELSE Change(Restructured(s, merged, FALSE))
        /\ Others

\* Commit(false), or Commit(true) without an aside storage.  A walk that is as it
\* was is not saved aside, nor is one without fields in a file without data.
Commit ==
  LET s == IF mode = 1 THEN DetachTemporary(root) ELSE root
      to == IF differ THEN "aside" ELSE "base"
  IN  /\ commits < MaxCommits
      /\ mode = 1 \/ differ    \* or it returns false
      /\ \E done \in {SaveIt(s, to)} :
           /\ root' = done.root
           /\ IF differ
              THEN /\ aside' = IF Latest(TRUE) \in {done.walk, Over(done.walk)} THEN aside
                              ELSE Over(done.walk)
                   /\ UNCHANGED base
              ELSE /\ base' = IF base = Nil /\ done.walk.cols = << >> THEN Nil ELSE done.walk
                   /\ UNCHANGED aside
      /\ commits' = commits + 1
      /\ UNCHANGED <<mode, kept, differ, copy, changes>>

Rollback(full) ==
  /\ differ' = (differ /\ ~full)
  /\ root' = LoadAll(differ')
  /\ UNCHANGED <<mode, base, aside, kept, copy, changes, commits>>

\* The storage does not tell whether its aside version was made over another
\* version of the file; the caller must.
SetAside == /\ aside # Nil => aside.over = base
            /\ differ' = TRUE
            /\ root' = LoadAll(TRUE)
            /\ UNCHANGED <<mode, base, aside, kept, copy, changes, commits>>

CommitAside == /\ kept' = aside
               /\ UNCHANGED <<root, mode, base, aside, differ, copy, changes, commits>>

\* Both storages are closed without a commit and opened again.
Reopen == \E m \in {0, 1} :
            /\ mode' = m /\ differ' = FALSE /\ aside' = kept
            /\ root' = LoadAll(FALSE)
            /\ UNCHANGED <<base, kept, copy, changes, commits>>

SaveTo == /\ \E done \in {SaveIt(root, "copy")} : copy' = done.walk /\ root' = done.root
          /\ UNCHANGED <<mode, base, aside, kept, differ, changes, commits>>

\* The rows by name; bytes aside cannot be read without the aside storage.
Names(s) == {s.cols[i].name : i \in DOMAIN s.cols}
RECURSIVE Table(_, _)
Table(s, d) ==
  List([r \in 1 .. s.rows |->
    [n \in Names(s) |->
      LET i == PropIndex(s, n)  h == s.cols[i] IN
      IF h.from = "aside" /\ ~d THEN Lost
      ELSE IF ~IsNested(h) THEN h.items[r]
      ELSE LET sub == SetupAllSubviews(s, i).subs[r]
           IN  IF sub = Nil THEN << >> ELSE Table(sub, d)]])

\* The root loses its row, gets the structure of the copy, and its row again.
LoadFrom ==
  /\ copy # Nil
  /\ LET new == Table(Read(copy), FALSE)[1]
         bare == Restructured(RemoveRow(root, 1), copy.desc, FALSE)
     IN  Change(SetRow(InsertRow(bare, 1, [n \in {} |-> 0]), 1, new))
  /\ Others

Next == \/ InsertAtRow \/ RemoveAtRow \/ SetAtRow \/ View
        \/ SetStructure \/ GetAs \/ Commit
        \/ \E full \in BOOLEAN : Rollback(full)
        \/ SetAside \/ CommitAside \/ Reopen \/ SaveTo \/ LoadFrom

Spec == Init /\ [][Next]_vars

----------------------------------------------------------------------------
RECURSIVE Fits(_)
Fits(s) ==
  /\ \A i, j \in DOMAIN s.cols : i # j => s.cols[i].name # s.cols[j].name
  /\ NumFields(s) <= Len(s.cols)
  /\ \A i \in 1 .. NumFields(s) : s.cols[i].name = s.field[i].name
  /\ \A i \in DOMAIN s.cols :
       LET h == s.cols[i] IN
       IF ~IsNested(h) THEN Len(h.items) = s.rows
       ELSE /\ Len(h.subs) = s.rows
            /\ \A r \in DOMAIN h.subs : h.subs[r] # Nil =>
                 h.subs[r].field = FindField(s, i) /\ Fits(h.subs[r])

\* Through redefinitions of the structure, changes of rows at both levels,
\* commits and reloads, every handler has an item for each row, the handlers of
\* the fields are the first, in order, and every subview has the field that its
\* parent has for it (handler.cpp, Restructure and SubEntry).
ColumnsMatchRows == Fits(root) /\ root.rows = 1

RECURSIVE Columns(_)
Columns(s) ==
  UNION {LET h == s.cols[i] IN
           (IF IsNested(h) THEN {[from |-> h.from, nested |-> TRUE, bytes |-> h.data]}
            ELSE {[from |-> h.from, nested |-> FALSE, bytes |-> h.items]})
           \cup (IF ~IsNested(h) THEN {}
                 ELSE UNION {Columns(h.subs[r]) : r \in {k \in DOMAIN h.subs : h.subs[k] # Nil}})
         : i \in DOMAIN s.cols}

\* No column reads bytes that the root walk of the datafile does not know of:
\* Commit gives their space away (persist.cpp:928, "get rid of temp properties
\* which still use the datafile").
ReadsCommittedSpace ==
  \A c \in Columns(root) :
    c.from = "base" =>
      /\ base # Nil
      /\ IF c.nested THEN \E b \in Contents(base, TRUE) : c.bytes = b
         ELSE \E b \in Contents(base, FALSE) : c.bytes = b

\* A version as it is found when only its walk is read.
VersionOf(walk, d) ==
  IF walk = Nil THEN [struct |-> << >>, contents |-> << >>, set |-> FALSE]
  ELSE [struct |-> walk.desc, contents |-> Table(Read(walk), d)[1], set |-> TRUE]
=============================================================================
