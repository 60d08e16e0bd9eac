----------------------------- MODULE TclCursors -----------------------------
(***************************************************************************)
(* The workspace of the Tcl binding and its cursor values.  A cursor is a   *)
(* string that names a view and a row, "db.v!1.s!0"; to be quick, the value *)
(* also keeps an MkPath, in which the view that the string was looked up to *)
(* is cached, and the number of the row.  Paths are counted references,     *)
(* each is listed by the storage it is from, and a generation that goes up  *)
(* with every open, close, commit and rollback tells when to look it up     *)
(* again.                                                                   *)
(*                                                                         *)
(* One storage, tagged db, holds one view, v, whose rows have a subview, s; *)
(* the item without a name holds temporary rows.  Each command is a step:   *)
(* the mutex (TclMutex) keeps commands apart.  The cursors may be those of  *)
(* one interpreter or, when the storage is shared, of several, and the      *)
(* bodies of loops are commands like others.                                *)
(*                                                                         *)
(* A view is known by its identity: "main", a member of Rows for the        *)
(* subview of that row, "temp", or, for one that has left its storage,      *)
(* "dropped" if a change of size took its row, else "gone".  One whose row   *)
(* moved without its paths being told is "missed".  The sizes of subviews   *)
(* and of "temp" are left out: checks against them go either way.           *)
(*                                                                         *)
(* Two commands fail in a way that leaves the interpreter with a value that *)
(* has been freed.  The workspace is damaged then, and nothing more is said *)
(* of it.                                                                   *)
(***************************************************************************)
EXTENDS Integers, Sequences, FiniteSets

CONSTANTS
    Vars,         \* variables of the scripts that hold cursors
    Paths,        \* bound: addresses of MkPath objects
    Rows,         \* bound: rows of the view
    MaxTemp,      \* bound: temporary rows
    MaxIndex,     \* bound: row numbers
    Tails,        \* bound: numbers that the bytes behind a shortened path are read as
    None

VARIABLES
    store,        \* the storage: open or not, and the rows of its view
    work,         \* the workspace: paths, the paths that items list, _usedRows
    cursor        \* the value of each variable

vars == <<store, work, cursor>>

-----------------------------------------------------------------------------
\* Names: the path, and the row number or -1.  <<"_", n>> is "._!n._", the path
\* given to a temporary row, and <<"_">> is what is left of it when its string
\* is looked up: the view has no property named "_".  <<"?">> is the path of a
\* storage that has been closed.

View == <<"db">>
Sub(n) == <<"db", n>>

Name(path, index) == [path |-> path, index |-> index]

Names ==
    {Name(View, -1), Name(View, MaxIndex)} \cup
    {Name(Sub(n), 0) : n \in 0 .. Cardinality(Rows) - 1}

\* A value that is not a cursor has no path; a cursor may have no string.
Value(text, path, index) == [text |-> text, path |-> path, index |-> index]

\* Strings, addresses, rows and the names of views do not stand for one another.
ASSUME CursorAssumption ==
    /\ IsFiniteSet(Vars) /\ IsFiniteSet(Rows)
    /\ MaxTemp \in Nat /\ MaxIndex \in Nat /\ Tails \subseteq Nat
    /\ None \notin Paths /\ None \notin Names /\ None \notin {"db", "temp"}
    /\ Rows \cap {"main", "temp"} = {}

Free == [refs |-> 0]

Init ==
    /\ store = [open |-> FALSE, rows |-> <<>>]
    /\ work = [paths |-> [p \in Paths |-> Free],
               listed |-> [db |-> {}, temp |-> {}],
               used |-> {},
               struck |-> {},        \* the paths whose row lost its flag to another one
               state |-> "sound"]
    /\ cursor = [x \in Vars |-> Value(Name(View, -1), None, -1)]

\* MkWorkspace::Find: the item whose tag a path starts with.  The tag of "?" is
\* empty, as that of temporary rows is.
Find(path) ==
    IF Head(path) = "db" /\ store.open THEN "db"
    ELSE IF Head(path) \in {"_", "?"} THEN "temp"
    ELSE None

\* MkPath::AttachView: the view that a path leads to now.  A row number that
\* the view does not have is undefined.
Defined(path) ==
    Find(path) = "db" /\ Len(path) = 2 => path[2] < Len(store.rows)

Lookup(path) ==
    CASE Find(path) = "temp" -> "temp"
      [] Find(path) = None -> None
      [] path = View -> "main"
      [] OTHER -> store.rows[path[2] + 1]

\* UpdateStringOfCursor: the string of a cursor.
StringOf(w, value) ==
    IF value.text # None THEN value.text
    ELSE Name(w.paths[value.path].text, IF value.index >= 0 THEN value.index ELSE -1)

-----------------------------------------------------------------------------
\* The workspace: each operator gives the workspace that its function leaves.

\* The paths that have been given a temporary row.
PathsTo(w, row) == {p \in Paths : w.paths[p] # Free /\ w.paths[p].text = <<"_", row>>}

\* MkWorkspace::ForgetPath: a path of the item without a name gives back the row
\* whose number is in it.  A shortened one has no number, and gives back the row
\* of whatever number is found behind it.
ForgetPath(w, p) ==
    LET path == w.paths[p].text
        item == Find(path)
        row == IF Len(path) = 1 THEN w.paths[p].behind ELSE path[2]
    IN  CASE item = None -> w
          [] item = "db" -> [w EXCEPT !.listed.db = @ \ {p}]
          [] OTHER -> [w EXCEPT !.listed.temp = @ \ {p},
                                !.used = @ \ {row},
                                !.struck = @ \cup PathsTo(w, row)]

\* MkPath::Refs(-1) and ~MkPath: the last reference frees the path.  One that
\* is to be looked up in any case is left where it is listed.
Release(w, p) ==
    IF w.paths[p].refs > 1 THEN [w EXCEPT !.paths[p].refs = @ - 1]
    ELSE [(IF w.paths[p].gen = "never" THEN w ELSE ForgetPath(w, p)) EXCEPT
            !.paths[p] = Free, !.struck = @ \ {p}]

\* MkPath::Refs(+1).
Refer(w, p) == [w EXCEPT !.paths[p].refs = @ + 1]

\* What the bytes behind a path may be read as: those behind a shortened one
\* are what its memory was left with.
Behind(path, item) == IF item = "temp" /\ Len(path) = 1 THEN Tails ELSE {0}

\* A new MkPath, at any free address, listed by its item.
NewPath(w, path, item, index) ==
    LET made(p, n) ==
          [w |-> [w EXCEPT !.paths[p] = [refs |-> 1, text |-> path, view |-> Lookup(path),
                                         gen |-> "now", behind |-> n],
                           !.listed[item] = @ \cup {p}],
           path |-> p, index |-> index]
    IN  UNION {{made(p, n) : n \in Behind(path, item)} : p \in {q \in Paths : w.paths[q] = Free}}

\* Variant: a row is given out without being flagged.
AllocTempRow_NotFlagged(w) ==
    {[w |-> w, row |-> n] : n \in {k \in 1 .. MaxTemp : k \notin w.used /\ \A j \in 1 .. k - 1 : j \in w.used}}

\* MkWorkspace::AllocTempRow: the first unused row, flagged.
AllocTempRow(w) ==
    {[w |-> [w EXCEPT !.used = @ \cup {n}], row |-> n] :
        n \in {k \in 1 .. MaxTemp : k \notin w.used /\ \A j \in 1 .. k - 1 : j \in w.used}}

TempPath(w, index) ==
    UNION {NewPath(r.w, <<"_", r.row>>, "temp", index) : r \in AllocTempRow(w)}

\* MkWorkspace::AddPath: a path that is listed under the very same name, else a
\* new one; for a tag that is not there, one to a temporary row.  A string that
\* ends in a row number never is the same as a path; and the string of a
\* temporary row is looked up as far as its number, which is taken for a row of
\* the view "_".  "?" leads to the item without a name, and to no row of its own.
AddPath(w, name) ==
    LET item == Find(name.path)
        same == {p \in w.listed[item] : /\ w.paths[p] # Free
                                        /\ w.paths[p].text = name.path
                                        /\ w.paths[p].gen = "now"}
    IN  IF item = None THEN TempPath(w, -1)
        ELSE IF name.index < 0 /\ same # {} THEN
               {[w |-> Refer(w, p), path |-> p, index |-> -1] : p \in same}
        ELSE IF item = "temp" THEN
               NewPath(w, <<Head(name.path)>>, item, IF Len(name.path) = 2 THEN name.path[2] ELSE name.index)
        ELSE IF Defined(name.path) THEN NewPath(w, name.path, item, name.index)
        ELSE {}

\* SetCursorFromAny: a cursor of the present generation is as it is; any other
\* value is looked up by its string, and its path of before is let go.
SetCursorFromAny(w, value) ==
    IF value.path # None /\ w.paths[value.path].gen = "now"
      THEN {[w |-> w, value |-> value]}
      ELSE LET text == StringOf(w, value)
               free == IF value.path = None THEN w ELSE Release(w, value.path)
           IN  {[w |-> r.w, value |-> Value(text, r.path, r.index)] : r \in AddPath(free, text)}

\* MkTcl::changeIndex, for a cursor: the string is no longer right.
WithIndex(value, i) == [value EXCEPT !.index = i, !.text = None]

\* Tcl frees a value: FreeCursorInternalRep if it is a cursor.
FreeValue(w, value) == IF value.path = None THEN w ELSE Release(w, value.path)

\* Variant: the copy is not counted.
DupValue_NotCounted(w, value) == w

\* Tcl copies a value: DupCursorInternalRep.
DupValue(w, value) == IF value.path = None THEN w ELSE Refer(w, value.path)

\* MkWorkspace::Invalidate: the paths that go through a view are looked up again.
Invalidate(w, p) ==
    LET below(q) ==
          /\ w.paths[q] # Free
          /\ Len(w.paths[q].text) = 2
          /\ <<Head(w.paths[q].text)>> = w.paths[p].text
        item == Find(w.paths[p].text)
    IN  IF item = None THEN w
        ELSE [w EXCEPT !.paths = [q \in Paths |->
                IF q \in w.listed[item] /\ below(q) THEN [@[q] EXCEPT !.gen = "never", !.view = None] ELSE @[q]]]

\* ++generation.  The view of a path that is looked up before its next use is
\* not followed any further.
NextGeneration(w) ==
    [w EXCEPT !.paths = [p \in Paths |->
        IF @[p] # Free /\ @[p].gen = "now" THEN [@[p] EXCEPT !.gen = "old", !.view = None] ELSE @[p]]]

\* MkWorkspace::Item::ForceRefresh: the views are let go, and the generation
\* goes up.
ForceRefresh(w) == NextGeneration(w)

\* MkWorkspace::Item::~Item: its paths match no string any more.
CloseItem(w) ==
    NextGeneration([w EXCEPT
        !.paths = [p \in Paths |->
            IF p \in w.listed.db /\ @[p] # Free
              THEN [@[p] EXCEPT !.view = None, !.text = <<"?">>, !.gen = "never"]
              ELSE @[p]],
        !.listed.db = {}])

\* The subviews of rows that leave the view are on their own from then on.
Leave(w, ids, as) ==
    [w EXCEPT !.paths = [p \in Paths |->
        IF @[p] # Free /\ @[p].view \in ids THEN [@[p] EXCEPT !.view = as] ELSE @[p]]]

-----------------------------------------------------------------------------
\* The commands.

ViewOf(w, value) == w.paths[value.path].view

\* Rows with identities of their own.
FreshRows(n) == {s \in [1 .. n -> Rows \ {store.rows[k] : k \in DOMAIN store.rows}] :
                   \A i, j \in 1 .. n : s[i] = s[j] => i = j}

\* set x db.v!1: the value that x had is freed.
SetVar(x, name) ==
    /\ work' = FreeValue(work, cursor[x])
    /\ cursor' = [cursor EXCEPT ![x] = Value(name, None, -1)]
    /\ UNCHANGED store

\* set y $x, and a change of one of the two.
CopyVar(x, y) ==
    /\ x # y
    /\ work' = FreeValue(DupValue(work, cursor[x]), cursor[y])
    /\ cursor' = [cursor EXCEPT ![y] = cursor[x]]
    /\ UNCHANGED store

\* Tcl prints a cursor.
PrintVar(x) ==
    /\ cursor' = [cursor EXCEPT ![x].text = StringOf(work, cursor[x])]
    /\ UNCHANGED <<store, work>>

\* mk::get, mk::select, mk::channel, and whatever else only reads a view.
GetCmd(x) ==
    \E r \in SetCursorFromAny(work, cursor[x]) :
      /\ work' = r.w
      /\ cursor' = [cursor EXCEPT ![x] = r.value]
      /\ UNCHANGED store

\* mk::set: the view is extended to have the row.
SetCmd(x) ==
    \E r \in SetCursorFromAny(work, cursor[x]) :
      /\ ViewOf(r.w, r.value) = "main" /\ r.value.index >= Len(store.rows)
      /\ r.value.index < Cardinality(Rows)
      /\ \E new \in FreshRows(r.value.index + 1 - Len(store.rows)) :
           store' = [store EXCEPT !.rows = @ \o new]
      /\ work' = r.w
      /\ cursor' = [cursor EXCEPT ![x] = r.value]

\* set y [mk::row append $x]: the row is added by way of a copy of the cursor.
RowAppend(x, y) ==
    \E r \in SetCursorFromAny(DupValue(work, cursor[x]), cursor[x]) :
      LET view == ViewOf(r.w, r.value) IN
      /\ IF view = "main"
           THEN /\ Len(store.rows) < Cardinality(Rows)
                /\ \E new \in FreshRows(1) : store' = [store EXCEPT !.rows = @ \o new]
           ELSE UNCHANGED store
      /\ cursor' = [cursor EXCEPT ![y] =
           WithIndex(r.value, IF view = "main" THEN Len(store.rows) ELSE 0)]
      /\ work' = FreeValue(r.w, cursor[y])

\* The same with a list that is not one, when the error message takes the place
\* of the copy, or with a value that is not of the property's type: then the
\* size is restored by way of the copy that the message has freed.
RowAppendFails(x) ==
    /\ \E r \in SetCursorFromAny(DupValue(work, cursor[x]), cursor[x]),
          state \in {"sound", "damaged"} :
         work' = [FreeValue(r.w, r.value) EXCEPT !.state = state]
    /\ UNCHANGED <<store, cursor>>

\* Variant: the paths to subviews are left as they are.
RowDelete_NoInvalidate(x, count) ==
    \E r \in SetCursorFromAny(work, cursor[x]) :
      LET n == r.value.index
          last == n + count
      IN  /\ ViewOf(r.w, r.value) = "main" /\ n >= 0 /\ last <= Len(store.rows)
          /\ store' = [store EXCEPT !.rows = SubSeq(@, 1, n) \o SubSeq(@, last + 1, Len(@))]
          /\ work' = Leave(r.w, {store.rows[k] : k \in n + 1 .. last}, "gone")
          /\ cursor' = [cursor EXCEPT ![x] = r.value]

\* mk::row delete x count: the rows go, and the paths through the view with them.
RowDelete(x, count) ==
    \E r \in SetCursorFromAny(work, cursor[x]) :
      LET n == r.value.index
          last == n + count
      IN  /\ n >= 0
          /\ IF ViewOf(r.w, r.value) = "main"
               THEN /\ last <= Len(store.rows)
                    /\ store' = [store EXCEPT !.rows = SubSeq(@, 1, n) \o SubSeq(@, last + 1, Len(@))]
                    /\ work' = Invalidate(Leave(r.w, {store.rows[k] : k \in n + 1 .. last}, "gone"),
                                          r.value.path)
               ELSE /\ count = 1
                    /\ work' = Invalidate(r.w, r.value.path)
                    /\ UNCHANGED store
          /\ cursor' = [cursor EXCEPT ![x] = r.value]

\* mk::row insert x count, and with a cursor to copy from.  Where that one names
\* no row, the command returns with the rows inserted and the paths through the
\* view as they were.  Its look-up is GetCmd.
RowInsert(x, count) ==
    \E r \in SetCursorFromAny(work, cursor[x]) :
      LET n == r.value.index
          moved == IF ViewOf(r.w, r.value) = "main"
                     THEN {store.rows[k] : k \in n + 1 .. Len(store.rows)} ELSE {}
      IN  /\ n >= 0
          /\ IF ViewOf(r.w, r.value) = "main"
               THEN /\ n <= Len(store.rows) /\ Len(store.rows) + count <= Cardinality(Rows)
                    /\ \E new \in FreshRows(count) :
                         store' = [store EXCEPT !.rows = SubSeq(@, 1, n) \o new \o SubSeq(@, n + 1, Len(@))]
               ELSE count = 1 /\ UNCHANGED store
          /\ work' \in {Invalidate(r.w, r.value.path), Leave(r.w, moved, "missed")}
          /\ cursor' = [cursor EXCEPT ![x] = r.value]

\* mk::view size x n: a size may be set, and the paths are left as they are.
SetSize(x, n) ==
    \E r \in SetCursorFromAny(work, cursor[x]) :
      /\ ViewOf(r.w, r.value) = "main" /\ n # Len(store.rows)
      /\ IF n < Len(store.rows)
           THEN store' = [store EXCEPT !.rows = SubSeq(@, 1, n)]
           ELSE \E new \in FreshRows(n - Len(store.rows)) : store' = [store EXCEPT !.rows = @ \o new]
      /\ work' = Leave(r.w, {store.rows[k] : k \in n + 1 .. Len(store.rows)}, "dropped")
      /\ cursor' = [cursor EXCEPT ![x] = r.value]

\* The row numbers that are given; where rows are not counted one stands for all.
Index(w, value, i) == i \in IF ViewOf(w, value) = "main" THEN 0 .. MaxIndex ELSE {0}

\* mk::cursor create y $x i, with a copy of the cursor that is given.
CursorCreate(x, y, i) ==
    \E r \in SetCursorFromAny(DupValue(work, cursor[x]), cursor[x]) :
      /\ Index(r.w, r.value, i)
      /\ work' = FreeValue(r.w, cursor[y])
      /\ cursor' = [cursor EXCEPT ![y] = WithIndex(r.value, i)]
      /\ UNCHANGED store

\* mk::cursor create y $x, and the others, with a step that is no number: the
\* copy goes, and so does the value that was given, which nobody had counted.
\* x is left with a value that is freed as the command ends.  (One that is held
\* elsewhere too is freed when the next of its holders lets go.)
CursorFails(x) ==
    /\ \E r \in SetCursorFromAny(DupValue(work, cursor[x]), cursor[x]) :
         work' = [FreeValue(FreeValue(r.w, r.value), cursor[x]) EXCEPT !.state = "damaged"]
    /\ UNCHANGED <<store, cursor>>

\* mk::cursor position x i, mk::cursor incr, and a pass of mk::loop.
CursorMove(x, i) ==
    \E r \in SetCursorFromAny(work, cursor[x]) :
      /\ Index(r.w, r.value, i)
      /\ work' = r.w
      /\ cursor' = [cursor EXCEPT ![x] = WithIndex(r.value, i)]
      /\ UNCHANGED store

\* set x [mk::row create], and mk::cursor create x: AllocateNewTempRow.
TempRow(x) ==
    \E r \in TempPath(work, 0) :
      /\ work' = FreeValue(r.w, cursor[x])
      /\ cursor' = [cursor EXCEPT ![x] = Value(None, r.path, 0)]
      /\ UNCHANGED store

\* Any rows: what a file or a stream holds is not followed here.
AnyRows == UNION {{s \in [1 .. n -> Rows] : \A i, j \in 1 .. n : s[i] = s[j] => i = j} :
                    n \in 0 .. Cardinality(Rows)}

\* mk::file open
FileOpen ==
    /\ ~store.open
    /\ \E rows \in AnyRows : store' = [open |-> TRUE, rows |-> rows]
    /\ work' = NextGeneration(work)
    /\ UNCHANGED cursor

\* mk::file close
FileClose ==
    /\ store.open
    /\ store' = [open |-> FALSE, rows |-> <<>>]
    /\ work' = CloseItem(work)
    /\ UNCHANGED cursor

\* mk::file rollback and mk::file load: other rows, and no view stays.
FileReload ==
    /\ store.open
    /\ \E rows \in AnyRows : store' = [store EXCEPT !.rows = rows]
    /\ work' = ForceRefresh(work)
    /\ UNCHANGED cursor

\* mk::file commit and mk::view layout: the rows stay, as do the views.
FileCommit ==
    /\ store.open
    /\ work' = ForceRefresh(work)
    /\ UNCHANGED <<store, cursor>>

\* Another storage is opened or closed.
OtherFile ==
    /\ work' = NextGeneration(work)
    /\ UNCHANGED <<store, cursor>>

\* What a damaged workspace does is undefined, and is not followed.
Undefined == work.state = "damaged" /\ UNCHANGED vars

Commands ==
    \/ \E x \in Vars :
         \/ \E name \in Names : SetVar(x, name)
         \/ PrintVar(x) \/ GetCmd(x) \/ SetCmd(x) \/ TempRow(x)
         \/ RowAppendFails(x) \/ CursorFails(x)
         \/ \E n \in 1 .. Cardinality(Rows) : RowDelete(x, n) \/ RowInsert(x, n)
         \/ \E n \in 0 .. Cardinality(Rows) : SetSize(x, n)
         \/ \E i \in 0 .. MaxIndex : CursorMove(x, i)
         \/ \E y \in Vars : CopyVar(x, y) \/ RowAppend(x, y)
         \/ \E y \in Vars, i \in 0 .. MaxIndex : CursorCreate(x, y, i)
    \/ FileOpen \/ FileClose \/ FileReload \/ FileCommit \/ OtherFile

Next == (work.state = "sound" /\ Commands) \/ Undefined

Spec == Init /\ [][Next]_vars

-----------------------------------------------------------------------------
Live(p) == work.paths[p] # Free

\* "Cursors are equivalent to strings of the form somepath!N": a cursor that
\* will not be looked up again has the view and the row that its string leads
\* to.  Left out are the subviews of rows that a change of size has taken, or
\* that moved by a mk::row insert that failed, a string that leads nowhere, whose
\* cursor is one of a temporary row, and a damaged workspace.
CursorsFollowStrings ==
    work.state = "sound" =>
    \A x \in Vars :
      LET value == cursor[x]
          name == StringOf(work, value)
      IN  value.path # None /\ work.paths[value.path].gen = "now" =>
            LET view == ViewOf(work, value) IN
            \/ view \in {"dropped", "missed"}
            \/ Find(name.path) # "db" /\ view = "temp"
            \/ /\ Defined(name.path) /\ view = Lookup(name.path)
               /\ name.index = (IF value.index < 0 THEN -1 ELSE value.index)

\* MkPath counts the cursors that have it, and is there as long as one has,
\* until a command that fails damages the workspace.
RefsCounted ==
    work.state = "sound" =>
    \A p \in Paths :
      work.paths[p].refs = Cardinality({x \in Vars : cursor[x].path = p})

\* A temporary row is flagged as long as a path has been given it, and given
\* to no other path, but for paths whose flag a shortened path has struck, and
\* in a damaged workspace.
TempRowsOwned ==
    work.state = "sound" =>
    \A p \in Paths \ work.struck :
      LET path == work.paths[p].text IN
      Live(p) /\ Find(path) = "temp" /\ Len(path) = 2 =>
        /\ path[2] \in work.used
        /\ \A q \in Paths \ (work.struck \cup {p}) : Live(q) => work.paths[q].text # path
=============================================================================
