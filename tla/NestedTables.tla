---------------------------- MODULE NestedTables ----------------------------
(***************************************************************************)
(* What a storage with nested views promises: tables whose rows hold        *)
(* integers and tables, a structure that can be redefined while they hold   *)
(* data, the version last committed, and versions kept aside of the file.    *)
(* A table is a sequence of rows, a row a function from names to items; a    *)
(* structure is a sequence of fields with a name and the fields of a view.    *)
(***************************************************************************)
EXTENDS Integers, SequencesExt

CONSTANTS IntNames, ViewNames,   \* names of properties, by type
          Structures,            \* the structures a storage may be given
          Rows,                  \* the rows that are put into tables
          MaxRows,               \* of a table
          Paths                  \* the tables that are changed

VARIABLES contents,   \* the views by name, temporary ones among them
          struct,     \* the structure that Commit saves
          file,       \* the version in the datafile, or Nothing
          aside,      \* the version that the aside storage holds, or Nothing
          kept,       \* the version that the aside file holds, or Nothing
          using,      \* is the aside storage in use?
          copy        \* the version last saved to a stream

vars == <<contents, struct, file, aside, kept, using, copy>>

Nothing == [struct |-> << >>, contents |-> << >>, set |-> FALSE]
Version(s, c) == [struct |-> s, contents |-> c, set |-> TRUE]

Names(fields) == {fields[i].name : i \in DOMAIN fields}
SubFields(fields, n) == (CHOOSE f \in ToSet(fields) : f.name = n).subs
Default(n) == IF n \in ViewNames THEN << >> ELSE 0

\* A table under other fields: what has a field already keeps its items.
RECURSIVE Structured(_, _)
Structured(table, fields) ==
  [r \in DOMAIN table |->
    [n \in DOMAIN table[r] \cup Names(fields) |->
      IF n \notin DOMAIN table[r] THEN Default(n)
      ELSE IF n \in ViewNames \cap Names(fields)
           THEN Structured(table[r][n], SubFields(fields, n))
           ELSE table[r][n]]]

\* What is saved of a table: the properties that are fields.
RECURSIVE Pruned(_, _)
Pruned(table, fields) ==
  [r \in DOMAIN table |->
    [n \in Names(fields) |->
      IF n \in ViewNames THEN Pruned(table[r][n], SubFields(fields, n)) ELSE table[r][n]]]

Current == Version(struct, Pruned(<<contents>>, struct)[1])

Init == /\ contents = Nothing.contents /\ struct = Nothing.struct
        /\ file = Nothing /\ aside = Nothing /\ kept = Nothing /\ using = FALSE
        /\ copy = Nothing

\* A path is a sequence of steps, a row and the name of a view in it each;
\* the root is a table of one row.
RECURSIVE At(_, _), Put(_, _, _), FieldsAt(_, _)
At(table, path) == IF path = << >> THEN table
                   ELSE At(table[path[1][1]][path[1][2]], Tail(path))
Put(table, path, new) ==
  IF path = << >> THEN new
  ELSE LET r == path[1][1]  n == path[1][2]
       IN  [table EXCEPT ![r][n] = Put(table[r][n], Tail(path), new)]
FieldsAt(fields, path) ==
  IF path = << >> THEN fields
  ELSE IF path[1][2] \notin Names(fields) THEN << >>
  ELSE FieldsAt(SubFields(fields, path[1][2]), Tail(path))

RECURSIVE Exists(_, _)
Exists(table, path) ==
  \/ path = << >>
  \/ /\ path[1][1] \in DOMAIN table
     /\ path[1][2] \in DOMAIN table[path[1][1]]
     /\ Exists(table[path[1][1]][path[1][2]], Tail(path))

\* A row as a table with the given names takes it.
RECURSIVE Taken(_, _, _)
Taken(row, names, fields) ==
  [n \in names \cup DOMAIN row |->
    IF n \notin DOMAIN row THEN Default(n)
    ELSE IF n \in ViewNames
         THEN LET f == IF n \in Names(fields) THEN SubFields(fields, n) ELSE << >>
              IN  [k \in DOMAIN row[n] |-> Taken(row[n][k], Names(f), f)]
         ELSE row[n]]

\* The columns of an empty table that are not fields cannot be told.
Columns(table, fields) ==
  IF table # << >> THEN {DOMAIN table[1]}
  ELSE {Names(fields) \cup extra : extra \in SUBSET (IntNames \cup ViewNames)}

Keep == UNCHANGED <<struct, file, aside, kept, using, copy>>

Change ==
  \E path \in {p \in Paths : Exists(<<contents>>, p)} :
    LET table == At(<<contents>>, path)
        fields == FieldsAt(struct, path)
        set(new) == contents' = Put(<<contents>>, path, new)[1]
    IN  /\ \/ \E i \in 0 .. Len(table), row \in Rows, names \in Columns(table, fields) :
                /\ DOMAIN row \subseteq names
                /\ set(SubSeq(table, 1, i) \o <<Taken(row, names, fields)>>
                         \o SubSeq(table, i + 1, Len(table)))
           \/ \E i \in DOMAIN table : set(RemoveAt(table, i))
           \/ \E i \in DOMAIN table, row \in Rows :
                set([k \in DOMAIN table |->
                      IF k = i THEN Taken(row, DOMAIN table[k], fields)
                      ELSE [n \in DOMAIN table[k] \cup DOMAIN row |->
                             IF n \in DOMAIN table[k] THEN table[k][n] ELSE Default(n)]])
        /\ Keep

\* Asking for a view adds it, without making it a part of the structure.
Ask == \E n \in ViewNames :
         /\ contents' = [m \in DOMAIN contents \cup {n} |->
                          IF m \in DOMAIN contents THEN contents[m] ELSE << >>]
         /\ Keep

Restructure == \E s \in Structures :
                 /\ struct' = s
                 /\ contents' = Structured(<<contents>>, s)[1]
                 /\ UNCHANGED <<file, aside, kept, using, copy>>

\* What a reload shows.  An aside version is one of a file: without a version in
\* the datafile it is not looked for, and nothing is found.
Found(u) == IF u /\ aside.set /\ file.set THEN aside ELSE file

\* A commit saves the fields; where columns are to be reused, what is no field
\* is dropped.  No structure makes no version in a new file, and what is found
\* anyway need not be put aside again.
Commit == /\ \/ /\ ~using /\ UNCHANGED aside
                /\ file' = IF ~file.set /\ struct = << >> THEN file ELSE Current
             \/ /\ using /\ UNCHANGED file
                /\ \/ aside' = Current
                   \/ aside' = aside /\ Found(TRUE) = Current
          /\ contents' \in {contents, Current.contents}
          /\ UNCHANGED <<struct, kept, using, copy>>

\* Only the original file is opened, or the version aside of it.
Show(v) == contents' = v.contents /\ struct' = v.struct
Reopen == /\ Show(file) /\ using' = FALSE /\ aside' = kept
          /\ UNCHANGED <<file, kept, copy>>
Rollback == \E full \in BOOLEAN :
              /\ using' = (using /\ ~full)
              /\ Show(Found(using'))
              /\ UNCHANGED <<file, aside, kept, copy>>
SetAside == /\ using' = TRUE
            /\ Show(Found(TRUE))
            /\ UNCHANGED <<file, aside, kept, copy>>
CommitAside == kept' = aside /\ UNCHANGED <<contents, struct, file, aside, using, copy>>

SaveTo == copy' = Current /\ UNCHANGED <<contents, struct, file, aside, kept, using>>
\* What is no field of the copy stays, without its data.
LoadFrom == /\ copy.set
            /\ struct' = copy.struct
            /\ contents' = [n \in DOMAIN contents \cup DOMAIN copy.contents |->
                             IF n \in DOMAIN copy.contents THEN copy.contents[n]
                             ELSE << >>]
            /\ UNCHANGED <<file, aside, kept, using, copy>>

Next == Change \/ Ask \/ Restructure \/ Commit \/ Reopen \/ Rollback \/ SetAside
        \/ CommitAside \/ SaveTo \/ LoadFrom

Spec == Init /\ [][Next]_vars
=============================================================================
