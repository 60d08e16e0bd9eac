# Metakit in TLA+

This directory is a verification project for Metakit, an embedded database library
(`src/src/*.cpp`, `src/include/*.h`), and its Tcl and Python bindings: TLA+ models of
its parts, TLC configurations that check them on small instances, and proofs that
TLAPS checks. `PROJECT.json` is the index: components, runs, mutants, the source lines
of every definition, findings, hazards and theorems.

## 1. Inventory

Metakit keeps *views* (sequences of rows with typed properties, nested to any depth)
in one datafile. The library is single-threaded and has no background work: what makes
it hard is persistence (commits that reuse space, crashes, failing I/O), compact data
structures with many boundary cases, and derived state that must follow every change.
The bindings add threads (Tcl) and values that outlive what they refer to (both).

| component | state | operations | what must hold |
|---|---|---|---|
| free space, `c4_Allocator` (persist.cpp) | vector of walls between used and free bytes | Allocate, Occupy, Release, ReduceFrags, FreeCounts | sorted; never hands out a byte in use; never frees one by compacting |
| commit, `c4_SaveContext`, `c4_Persist` (persist.cpp) | two allocators, root walk, mode, pending differ | open, Commit, Rollback, LoadAll, OccupySpace | a commit is all or nothing for the next open; old data is not overwritten while it is needed |
| strategy, `c4_Strategy`, `c4_FileStrategy` (viewx.cpp, fileio.cpp) | file, base offset, failure code | DataRead/Write/Commit, EndOfData | finds the last complete commit by scanning back from the end |
| aside storages, `c4_Differ` (persist.cpp) | list of changed pieces per column | CreateDiff, ApplyDiff, DataCommit | base plus differences is the current contents |
| columns, `c4_Column` (column.cpp) | segments of 4096 bytes, gap, slack, position, dirty | Grow, Shrink, StoreBytes, SaveNow, PullLocation | a gap buffer that behaves as a byte sequence |
| integer columns, `c4_ColOfInts` (column.cpp) | width, row count | Get, Set, Insert, Remove | width is deducible from size; widening keeps all values |
| formats (format.cpp) | data, sizes, offsets and memos per property | Get, Set, Insert, Remove, Commit | offsets match the data; memos are the items too long to inline |
| handlers, `c4_HandlerSeq`, `c4_Field` (handler.cpp, field.cpp) | row count, handlers, fields, parent | Restructure, DefineRoot, DetachFromStorage | existing data survives a change of structure |
| sequences and notification (viewx.cpp, store.cpp) | dependencies, property cache | InsertAt, RemoveAt, Set, Pre/PostChange | every dependent view is told before and after each change |
| derived views (derived.cpp) | row maps and reverse maps | PreChange, PostChange | incremental update equals recomputation |
| custom viewers (custom.cpp) | none, or row maps made once | slice, product, remap, pair, concat, rename, group, join | relational meaning; changes through a view show in it |
| hash view, `c4_HashViewer` (remap.cpp) | dictionary in a second view | Lookup, SetItem, InsertRows, RemoveRows | unique keys; dictionary mirrors rows; searches end |
| blocked view, `c4_BlockedViewer` (remap.cpp) | blocks, separators, offsets, block found last | GetItem, SetItem, InsertRows, RemoveRows | behaves as one sequence |
| ordered, indexed, read-only views (remap.cpp) | order of rows; a permutation | the same | order; permutation follows the rows |
| view operations, `c4_View` (view.cpp) | none | Search, Locate, Find, Union, JoinProp, ... | find what a scan finds; relational algebra |
| storage facade, `c4_Storage` (store.cpp) | none | View, GetAs, SetStructure, Commit, SetAside, LoadFrom, SaveTo | forward to the above, in the right order |
| Tcl binding (mk4tcl.cpp) | the mutex; workspace with items, paths, generations, temporary rows; cursor values | mk::file, mk::row, mk::cursor, mk::loop, type callbacks | one thread inside; a cursor denotes the row its string says |
| Tcl views (mk4too.cpp) | commands, each with its view | delete, find, insert, search, select, set, size; view and what it makes | an insertion that fails changes no row, `set` stops at the first bad value; what is found is what a scan finds |
| Python binding (PyView.cpp, PyRowRef.cpp) | view objects with state and base; row references | list methods, derivations, attribute access | a stored view is a list; a row that can be set is a stored one |

Interactions. A view call goes to a sequence; a handler sequence changes columns
through formats and notifies dependent sequences before and after. Columns load
their bytes on first use and then claim their space from `_space` (PullLocation).
Commit walks all handlers twice through `c4_SaveContext::CommitColumn`, first to place,
then to write; the allocators, the walk and the strategy meet there. Hash and blocked
views are custom sequences over base views that are themselves stored. The bindings wrap
views and rows in objects of the language, which Tcl may discard and rebuild at any time.

Hard behaviours, each listed at its line under "hazards": crashes between the writes
of a commit, writes lost or reordered until a flush, failing writes and flushes, columns
not yet loaded when space is handed out, space of the last version reused too early, memo
columns committed apart from their data column, subviews read from saved bytes after the
structure has changed, columns that lose their place in the structure but not on file, the
compacting of the free list, boundaries of the binary searches, dummies and full tables in
the dictionary, off-by-ones at separators, a remembered block that is no longer right, gaps
that cross segments, integers that are widened in place, row maps that are adjusted case by
case after each change or not at all, threads that meet between two locks, loops that give
up a lock for their body, cached paths and counted references.

## 2. Modules

| module | models | how |
|---|---|---|
| `SpaceOps` | meaning of the allocator's operations on a *set of bytes in use* | operators, used by the next two and by `Persist` |
| `ByteSpace` | abstract specification of the allocator | one variable, `used` |
| `Allocator` | `c4_Allocator`: the vector itself, with ReduceFrags and the binary search | refines `ByteSpace` |
| `AllocatorProofs` | proofs about the vector of `Allocator`: its order, its binary search, and that it implements `ByteSpace` | TLAPS |
| `Column` | the operations of `c4_Column`: gap, slack, segments, memory map | operators on a record, used by the next two |
| `GapBuffer` | a column of bytes on its own | one variable, the column |
| `IntColumn` | `c4_ColOfInts` on top of a column: widths, bits within bytes, saving | one variable: column, row count, width |
| `MCVectors` | `Allocator`, `GapBuffer` and `IntColumn` for TLC, one of them at a time | |
| `ItemStore` | abstract specification of a property of bytes: current items, saved items | two variables |
| `BytesFormat` | `c4_FormatB`, `c4_FormatS`: data, sizes, offsets, memos, commits | refines `ItemStore` |
| `Datafile` | bytes of a datafile as *extents*; scanning for the last commit; what opening finds | operators |
| `DurableStore` | abstract specification of a storage: working contents, version saved, commit under way | three variables |
| `Persist` | open, change, Commit, Rollback, crash, I/O failure | one action per write and flush of `SaveIt`; refines `DurableStore` |
| `Recursion` | what the proofs need of recursive functions on numbers | TLAPS |
| `PersistLemmas` | proofs about the operators of `Datafile` and `Persist`: extents, scanning, claiming, the first pass | TLAPS |
| `PersistProofs` | proofs about the steps of `Persist`: the invariant, what crashes leave, and that it implements `DurableStore` | TLAPS |
| `NestedTables` | abstract specification of a storage with nested views, versions and a structure | what is shown, and the versions kept |
| `Storage` | `c4_HandlerSeq`, `c4_Field`, `c4_FormatV`, `c4_Storage`, aside commits | refines `NestedTables` |
| `DerivedViews` | `c4_FilterSeq` and `c4_SortSeq`, `c4_Notifier`, the changes of `c4_Sequence` | the base view, and the row map of each derived view |
| `Views` | views as values, their operations by meaning | operators, used by the next and by `PyViews` |
| `CustomViews` | the viewers of custom.cpp and the ordered, indexed and read-only ones of remap.cpp; the operations and searches of view.cpp | two views and one viewer |
| `KeyedRows`, `HashView` | a view with unique keys; `c4_HashViewer` | rows and dictionary; refines `KeyedRows` |
| `ProbeSequence` | the slots that LookDict comes to, by hash and size of the table | operators, a parameter of `HashView` |
| `HashViewProofs` | proofs about `HashView` | TLAPS |
| `FlatRows`, `BlockedView` | a plain view; `c4_BlockedViewer` | blocks, separators, offsets, remembered block; refines `FlatRows` |
| `BlockedViewProofs` | proofs about `BlockedView` | TLAPS |
| `MCRowNumbers` | `HashView` and `DerivedViews` for TLC, one of them at a time | |
| `TclMutex` | EnterMutex, LeaveMutex and their callers | threads, interpreters, two locks |
| `TclMutexProofs` | proofs about `TclMutex` | TLAPS |
| `TclCursors` | paths, cursor values, temporary rows and generations | the workspace and the values |
| `TclCursorsProofs` | proofs about `TclCursors` | TLAPS |
| `TclViews` | the view commands of mk4too, `mk::select` | `CustomViews`, with commands for its views |
| `PyViews` | view objects, row references, the list methods | stored rows, a chain of views, a row |
| `MCViewObjects` | `TclViews` and `PyViews` for TLC, one of them at a time | |

The remaining `MC` modules only give constants their values (contents, trees, structures)
and `MCStorage` bounds a run. `Persist` is composed from `SpaceOps` (what the allocators do,
which `Allocator` is shown to implement) and `Datafile`; `IntColumn` and `GapBuffer` from
`Column`; `CustomViews` and `PyViews` from `Views`, `TclViews` from `CustomViews`. Names follow the source. A definition with
an underscore (`InsertPair_Unchecked`) is a faulty variant of the one named before the
underscore, used only to show that a property can fail ("mutants").

### Allocator

`walls` is `c4_Allocator`'s vector; `w[i + 1]` is `GetAt(i)`. Each of Allocate, Occupy
and Release is one action with the calls it makes, including InsertPair and the
ReduceFrags it may trigger. The constants 7500, 5000, 12 and 6 of ReduceFrags are
parameters, so that a small arena compacts often. Callers release only what is in use
(the assertion in Release), which is the guard `Releasable`. `Locate` is specified as the
lowest wall at or after a position; `BinarySearch` is the loop of the code, and
`SearchFindsWall` says that they agree on every vector that occurs.

### Column, GapBuffer and IntColumn

A column is a record of size, gap, slack and segments; a segment is a buffer or a place in the
memory map. What bytes a column holds does not influence what its operations do, so
behaviours of `GapBuffer` carry the *layout* only, and so do those of `IntColumn`
with the width. The properties put a name on each byte (or bit) of a layout that is reached,
apply each operation to it, and state where the names must be afterwards: this is
checking all data at once. `KeepsBytes` says so of insertions, removals and stores, and that
nothing is written into the map; `KeepsItems` of setting, inserting and removing integers.
`SegMax` and `MinSlack` stand for 4096 and 500. `Maps` says whether the
file may be memory mapped; only then can a segment be read-only.

`IntColumn` has the widths 0 to 32, with CalcAccessWidth, FixSize and the table of sizes
for short columns, the widening in place of Set, and the shifting of bits of InsertData and
RemoveData. The file is not memory mapped there.

### BytesFormat

`fmt` has the fields of `c4_FormatB`: the data column, the columns of sizes and of the
places of memos, the offsets, the memos, and whether sizes must be recomputed. Each call
is one action; Commit is two, as the columns are placed in a first pass (`Commit`) and
what the second one does to them is the same with other positions. `SaveTo` is the copy
to a stream (`_fullScan`), after which nothing of the handler may have changed. `AccessItem` and
`ModifyItem` are the calls that turn an item into a memo while it is read or
changed piece by piece. `Validate` is the assertion of the code (format.cpp:298) with what it
says of memos (format.cpp:236). `SkipsOnlyRight`: a column that is skipped by a commit because it is
clean has the bytes that are saved for it.

### Datafile and Persist

The file is a set of extents, each the result of one write; an extent that is
partly overwritten is unreadable. Writes go to a buffer (`pend`), and a flush
(`DataCommit`) makes them certain. A crash keeps, tears or loses each write since the
last flush independently, then the file is opened: `EndOfData` scans the marks, `Load`
reads the root walk. Marks (8 bytes) are assumed not to be torn. `mode` is chosen in
the initial state: 1 for read/write, 2 for commit-extend.

`SaveIt` is a chain of actions, `pc` says which is next: StartCommit (first pass,
detachment of all columns, placing, the test "anything changed?"), the skip tail, its flush, the
header, the first mark, reserving the tails, one WriteColumn per column, the walk, the
flush, the commit tail, and in mode 1 the flush, the header and the last flush.
`plan` holds SaveIt's local variables. A write can fail at any of them (`failure`); the code only
looks at the failure at the places where the model does.

`FileAfter` and `SizeAfter` give the file when each pending write is done, torn or lost; with all of them done
that is `Image`, the file as the process sees it, which a flush writes and a crash need not leave.

Abstracted: the nested walks of subviews are folded into one root walk of columns;
the structure description is part of it; the contents of a column are a length and a tag; a
walk is as long as the number of columns with data suggests (3 bytes and one for each).
A failed flush leaves the data in the buffer.

### NestedTables and Storage

`root` is the tree of `c4_HandlerSeq`s. A handler of integers has its items; one of subviews has,
for each row, a sequence or `Nil`, and the saved form that sequences are made from when one is
asked for (`inited`, SetupAllSubviews, Prepare). `from` says where the bytes of a clean column
are: in the datafile, aside, in a copy being read, or only in memory. SetStructure and GetAs
are `Restructure` with its order of handlers, DetachFromStorage and the temporary handlers
that are left behind. Bytes are modelled by what they hold, and read as `Lost` once the last
commit does not know of them: `ReadsCommittedSpace` says that nothing reads those.
`ImplementsTables` compares what the views show with `NestedTables`, where redefining a
structure keeps the rows and the properties of the same name and type, and a version is a value. `LoadAll` looks at
the datafile first: without a walk there it ends before the aside storage is asked for its own (persist.cpp:984),
so the abstract storage finds an aside version only where there is a version in the file (`Found`; see remark 4). An empty
structure is no version in a new file (persist.cpp:627), and a walk that is as it was is not put aside again (persist.cpp:619).

### DerivedViews

`Views` (a constant there) is a tree of filters and sorts; sequence 0 is the base view. A change of
the base view is one action, as no other call can come in between: the event is
translated from parent to child before the change (`FilterPre`), the rows change, and each view adjusts its map in
the order of the code, parents first (`FilterPost`, `SortPost`). `NewFilter` and `NewSort` are
the constructors, with the merge sort. A sort sits behind a projection, which
passes events on as they are. `width` is the number of the last column that decided a comparison.

### Views and CustomViews

A view is [props, rows]. `Views` says what each operation *means*, by comprehension and
quantification; `CustomViews` has what the code *does*: a viewer is a record with the fields
of its class (row maps, templates, limits, the groups that `ScanTransitions` finds by halves),
and `DoGet` computes one item from the views. Actions make a viewer, change the left
and the right view, and change rows through the viewer. `ShowsRelation` compares the two as
long as nothing has changed that the viewer is not told of (`fresh`). `OperationsRight` has the operations that are
composed from others (unions, differences, GroupBy, JoinProp, Join), `SearchesRight` Search,
Locate, Find and the lookup of each viewer against a scan, `WritesShow` what a view shows after a
change through it.

### HashView and BlockedView

`base` is the view below the hash view, `dict` the map view: slots and the spare count (its last
row). Each call is one action; SetItem of a key takes the row out, changes it, removes
the row that has that key already (which may rebuild the table) and puts it in again, as
in the code. A removal of several rows is that many removals of one.

Hashes, sizes of tables and searches are parameters of `HashView`: `Probe(h, n)` is the sequence of slots that a search for the
hash `h` comes to in a table of `n` slots until it is back where it began. LookDict is `SlotOnPath` of this sequence: the first
end on it, or the first dummy before that; without an end the search never ends (`Never`), and a call that searches like this is an action that is
not enabled. `ProbeSequence` has the searches of the code, with the polynomials of `s_polys`, and the run uses these.
`HashViewAssumption` says what the rest of the code rests on:

* no key has the hash 0, which CalcHash excludes, nor -1, with which the code would compare it with row -1 (remark 9);
* there are tables for more than twice as many rows as there may be, and
* a search comes to two thirds of the slots or more. The code does not say so, and it is not true of any polynomial. `SearchesAreWide`
  checks it of every slot, increment and size up to 32, on each run; the same computation, outside of TLC, gives
  56 of 64, 114 of 128, 218 of 256, 434 of 512, 900 of 1024, 1754 of 2048, 3578 of 4096, 7046 of 8192 and 14216 of 16384 slots at least.

In the blocked view, each call is written as the pipeline of steps of RemoveRows and InsertRows.
`last` is `_last_base`, `_last_limit` and `_last_slot`; `_last_view` is the block in that slot,
since blocks before a change keep their slot and the others are forgotten (ClearLast). `Limit` is kLimit, 1000 in the code.
`BlockedViewAssumption` wants at least 3: Split leaves rows on both sides only then, and half of the limit, below which blocks are merged, is more than nothing.

### TclMutex

`mkMutex` and `infoMutex` are the two Tcl mutexes, `mutex_owner` and `mutex_level` what the
second one guards. EnterMutex and LeaveMutex have one action for each lock taken and for each
part under it; `pc` says where a thread is. A thread runs commands, callbacks of cursor
values within or outside of commands, and bodies of loops, for which the mutex is left.
`ThreadOf` and `PathsOf` say which interpreters live in a thread and whose paths its cursors refer to.

### TclCursors

One step is one command, as the mutex allows. `work` has the paths (`MkPath`: name, counted
references, cached view, generation), which of them each item lists, and the flags of the
temporary rows; `cursor` the values: a string, a path, both, or neither, as Tcl drops and
rebuilds them (shimmering). Removing or inserting rows forgets the paths
below (`Invalidate`), opening, closing, committing or rolling back moves the generation
on. Views are known by identity, so a cursor that still holds the subview of a removed row is
seen. `CursorsFollowStrings`: a cursor with a string denotes the row that the string says *now*.
Commands that fail are steps too, where they leave something behind: `RowInsert` with a bad row to copy from inserts and does not invalidate
(the views it forgets are `"missed"`, as those that a change of size takes are `"dropped"`), `RowAppendFails` and `CursorFails` let go of what they copied. Two of them
free a value that is still in use; `work.state` is `"damaged"` from then on, and the model stops there. A path without a row number (what is left of a temporary row's path, and
`?`, the path of a closed storage) gives back the row whose number is read behind its name, one of `Tails`; `work.struck` are the
paths that have lost their flag to it. The three properties name these exceptions.

### TclViews

The two views and the viewer of `CustomViews` are what three commands stand for: `left`, `right` and `derived`.
A command's operator gives the views after it and whether it failed, and the actions take its result. SetValues,
asIndex and the order of checks are those of the code: `InsertCmd` puts the row in, then looks at the failure and takes it
out again by its index. A value `Bad` is one that cannot be converted, `odd` a value that is missing. `mk::select` and `$view select` are
one class in the code, TclSelector: `Match`, `ExactKeyProps` and `DoSelect` follow it, with the lookup of the view
(`SearchRange` of `CustomViews`) that narrows the range of rows. Items are compared as numbers; `glob`
stands for all criteria on strings, with the set of values that it matches. Commands find, search and select change
nothing, so they are not actions: `TclSelects` gives them every criterion, limit and order in every state that the other
commands reach. `IntBits` is the width of the difference that `search` computes.

### PyViews

`chain` is a list of view objects, each derived from the one before; the state of each decides its type
(PyView, PyViewer, PyROViewer) and by it which methods it offers (`Offers`). `ref` is a row
got from any of them by index. Setting an attribute changes the stored row, after which selections and sorts change
too. `BehavesAsList` applies every list method of the stored view to the rows that are reached and compares with
Python's lists; `RefsDenoteRows` says that a row whose type can be set is the
stored row it was when it was taken.

## 3. Runs

| run | instance | what it shows |
|---|---|---|
| `vectors` | an arena of 12 bytes, blocks of 1 to 3, ReduceFrags above 8 entries; a column of 11 bytes in segments of 5, pieces of up to 7, with and without a map; 9 integers of all widths in segments of 8 bytes, up to 3 at once | `WallsSorted`, `SearchFindsWall`, `ImplementsByteSpace`; `Validate`, `KeepsBytes`; `KeepsItems` (items are not split, and stay what they are), `WidthFound` |
| `bytes_format` | 2 rows of 0 to 3 bytes, 2 commits, 3 changes, memos above 1 byte at the earliest and above 2 always | `Validate`, `SkipsOnlyRight`, `CopyHasItems`, refinement of `ItemStore` |
| `persist` | 2 columns of length 0 or 3; 3 commits in mode 1, 2 in mode 2; 1 crash or 1 failing write or flush; 1 rollback | `NeverOverwrites`, `LiveSpaceClaimed`, `FailureKeepsVersion`, refinement of `DurableStore` |
| `persist_crash` | mode 1, 2 commits, 1 crash | *violation*: the documented fail-safe promise |
| `storage` | four structures with views `a`, `b` and a subview `s`, 2 rows in each, 3 changes, 3 commits | `ColumnsMatchRows`, `ReadsCommittedSpace`, refinement of `NestedTables` |
| `custom_views` | views of 3 and 2 rows that share a key, a viewer of each kind | `ShowsRelation`, `OperationsRight`, `SearchesRight`, `WritesShow` |
| `row_numbers` | a hash view of 4 rows with 4 keys, two of them with one hash, in 4 to 16 slots; derived views: 5 rows to start with, 4 to change, 4 views | `DictMirrorsRows`, `FindsEveryRow`, refinement of `KeyedRows`; `FiltersFollow`, `SortsFollow`, `EventsComeTrue` |
| `blocked_view` | 11 rows in blocks of 4, one row marked | `RowsStayInOrder` (with the assertions of `Validate`), refinement of `FlatRows` |
| `tcl_mutex` | 3 threads with an interpreter each, 3 entries, loops 2 deep | `MutualExclusion`, `AssertionsHold`, `LockComesFree` |
| `tcl_deadlock` | 2 threads with an interpreter each, whose cursors are of the paths of both | *violation*: "No deadlock is possible" |
| `tcl_cursors` | 2 cursors, 3 paths, 2 rows, 2 temporary rows, 1 read behind shortened paths | `CursorsFollowStrings`, `RefsCounted`, `TempRowsOwned` |
| `view_objects` | Tcl: views of up to 3 rows and of 1 row, a derived view of each of 10 kinds, 5 sets of arguments, 8 of criteria; Python: 3 rows (2 under derived views), chains of 3 views, 19 methods | `TclWhole`, `TclSelects`; `RefsDenoteRows`, `BehavesAsList` |

With two workers the passing runs take from one to three and a half minutes each:
743 741 distinct states in `persist`, 629 944 in `tcl_cursors`, 198 963 in `custom_views`,
235 974 in `storage`, 103 580 in `view_objects`, 59 232 in `bytes_format`, 24 659 in
`row_numbers`, about 20 000 in `tcl_mutex`, 12 805 in `blocked_view`. `vectors` has 6 600 states, in each of which every operation
is applied to named bytes. The violations are found in a second.

Bounds, and why they are enough:

* `vectors`: 12 bytes hold up to four gaps, so every case of Occupy and Release (front, tail,
  middle, whole, overlapping, repeated) meets every neighbour, and ReduceFrags runs with
  thresholds that keep some gaps and drop others. `MaxSize` 11 and `MaxDiff` 7 give three segments,
  pieces longer than a segment, gaps that start in any place of any segment and two gaps that become
  longer than a segment when they are merged. Insertions that clear (`InsertDataClear`) are
  called without a map only (remark 3). Nine items of one bit are more than a byte, nine of 32 bits are five
  segments. `FakeSizes` FALSE excludes *continuing* after a commit that gave a short column an impossible size
  (remark 13); opening such a column is covered by `WidthFound`, which applies FixSize to every state.
* `bytes_format`: the limits 10000, 100 and 1000000 are 2, 1 and 4, so that items of 0 to 3 bytes are inline, memos
  if the column is long, and always memos. Two rows are needed for the offsets of one to move with the other, and two
  commits for space to be used again. Three changes between and after them make an item a memo, change it in place and inline it again.
* `persist`: `Mark` is 2 instead of 8, which only scales the layout. A version's space is reused by the
  next commit but one, so three commits are needed for reuse and are the bound (`MaxCommits`, one less after a failure); two
  columns are needed for one to change while the other stays; length 3 is longer than the mark and makes
  some commits fit into free space and others grow the file. One crash suffices for what a crash finds, since
  a storage after recovery is again in a state that loading produces. `Crash` between commits is also closing and reopening.
  A failure (`MaxFails`) comes neither in the last commit, as its effect is seen by the next one, nor together with a crash.
* `storage`: the structures take away, add, reorder and replace fields at both levels, and move a property from a view into its subview.
  Three changes in any order with three commits reach a structure that is redefined over saved subviews and then saved again, in the file or aside of a version there.
* `row_numbers`: the sort has chains of up to five rows, so all branches of MergeSortThis run (2, 3, 4, more than 4 entries). The initial
  states are *all* views of up to `StartRows` rows; `MaxRows` bounds those that rows are set in or inserted into, `MaxCount` what is inserted or removed at once.
  `Rows` has rows on both sides of every limit, equal keys and ties.
  Four rows of the hash view reach tables of 4, 8 and 16 slots, growing, shrinking and rebuilding in place; the keys collide in hash,
  in the first slot and in neither. Values are copied, never compared, so one marked row among equal ones
  shows where every row goes.
* `custom_views`: three and two rows give joins with no, one and several partners, groups of different sizes and slices in both
  directions; `MinSplit` 2 for 5 makes ScanTransitions split ranges of that length.
* `blocked_view`: rows are copied, never compared, so one row is marked here too. Eleven rows in blocks of four give up to four blocks, insertions that split once and more
  than once, removals over whole blocks, and the rotation of a separator.
* `tcl_mutex`: three threads can meet at the two locks in all roles (holder, waiter, one that looks); three entries
  are a command with a callback within a callback, two loops a loop in a loop.
* `tcl_cursors`: two cursors share a path or have two, with one address more to go wrong; two rows make a cursor's row move by one and disappear.
  `Tails` is 1: giving back a row that is not in use changes nothing, whatever its number, which 1 shows when it is not in use; when it is, 1 clears the
  flag of a row that has a path. Numbers beyond the table of flags, where the write would be outside of it, are left out.
* `view_objects`: three rows let the halving of `search` go both ways and end next to its limits, and give a lookup rows before and behind those it is for.
  Indices are the first, the second and `end`, which all are in range, at the end or beyond, as the views grow and shrink. Of Python,
  three objects are a view, one derived from it and one derived from that, which is as far as a base is looked up.

Fairness. The library is a set of calls, nothing happens by itself; runs about it state no
fairness. That a call returns is a property of its loops: for the dictionary it is part of
`FindsEveryRow`, which says that a search for a key that is not there ends as long as rows and dummies take less than two thirds of the slots. `TclMutex` has threads: its
`FairSpec` says that a thread that can go on within EnterMutex or LeaveMutex does (`WF` on `MutexStep`: the
scheduler runs it), and that a command, callback or pass of a loop that can end again and again, whatever
callbacks come between, ends (`SF` on `ReturnsFrom`: their code is finite). No script has to
give a command, no loop body has to end, and no thread has to get a lock that others compete for (Tcl's
mutexes are not fair): so the promise is that the lock comes free (`LockComesFree`), not that everyone gets it.

Deadlock is checked in `persist`, `row_numbers`, `vectors`, `blocked_view`, `tcl_mutex`, `tcl_cursors`
and `view_objects`. In `bytes_format`, `storage` and `custom_views` a behaviour stops
when its bounds of changes and commits are used up.

## 4. What the checks show

Space is never handed out twice, and no byte of the last version is overwritten before the
next one is complete; a commit that fits into free space is atomic in both writing modes, and one that fails leaves
a version to open. Bytes, integers, items that become memos and nested tables stay what they are
under every operation, through commits, copies and redefinitions of the structure.
Row maps follow all changes, blocks and dictionaries mirror their rows, and the views
computed on demand show the relation they stand for. The Tcl mutex excludes as it should and
comes free; cursors follow their strings and paths are counted, with the exceptions below. Insertions into a view leave its rows as they were when they fail, a `set` that fails keeps the
values before the bad one (but see remark 19), and
selections are those of a scan, again with exceptions. Python's rows
denote what they were taken from.

Two disagreements of code and documentation have a run, and were reproduced with the library:

1. `persist_crash`: a commit that makes the file grow first writes a skip tail that leads nowhere; a crash after its flush and before
   the commit tail opens as an empty storage, against store.cpp:168.
2. `tcl_deadlock`: callbacks enter the mutex for the interpreter that made a path, not for the one that runs. With a storage opened with `-shared`
   AddPath hands out paths that other interpreters have made (mk4tcl.cpp:836, 869); a thread that frees or copies such a cursor within a command waits
   for the lock it has itself, against mk4tcl.cpp:56. In the run each interpreter has a thread of its own; two in one thread do it too (the script that was tried).

What the proofs brought up: `LiveSpaceClaimed` needs its condition `Healthy`, also where no run meets a counterexample. A commit
that makes the file grow and fails after its skip tail was flushed leaves a file that is longer than its data; the next commit takes
the end of the file for the end of the data, and reserves the 16 bytes before it for tails that are not there. If a clean column lies partly there,
claiming it is refused (Occupy wants a block that is free as a whole), and its bytes count as free while it is still read from the file.

Remarks on the code that have no run of their own. Models and properties exclude exactly
these cases; those marked (r) were found by reading, the others were tried:

Storage

1. Release compares the wrong wall and leaves the tail of a used area in use (persist.cpp:219). Bytes are lost until
   the next commit, never handed out twice. `SpaceOps.Released` says exactly which bytes stay in use.
2. After a failed commit the next one finds nothing changed and returns true without saving (persist.cpp:621).
3. Clearing what is inserted over adjacent *mapped* segments writes past the buffer of the first one (column.cpp:804): the iterator
   joins segments that follow each other in memory, and only the first is copied.
4. A full commit of a storage that has an aside storage with changes does not work: the base cannot be used afterwards, and the aside storage
   is not emptied (python.html:138 and tcl.html:206 describe it). Every aside commit adds the differences again, as columns stay dirty (r).
   What is committed aside of a file without any commit is not read back: loading ends before it asks the aside storage (persist.cpp:984), and
   Rollback and SetAside show an empty storage (tcl.html:222 tells of no such condition; test d01 commits to the file first) (r). SetAside takes any
   aside storage, also one made over an earlier version of the file (`//! true if the generation matches`, persist.cpp:908) (r). The model has the first;
   it puts aside versions only over the version that they were made for (`over`).
5. A row inserted with a property that the view does not have yet makes a column with too many rows; after GetAs has made it part of
   the structure and Commit has saved it, opening the file hangs (viewx.cpp, InsertAt).
6. As long as there is a memo, every Commit rebuilds the columns of sizes and memos; the code says so (format.cpp:330).
7. Inserting a copy of a row of the *same* view: a sort compares with the cursor, which points to a different row by then (derived.cpp:742), and for items
   of less than 8 bits the buffer that holds the item is overwritten while bits are shifted (viewx.cpp:190, column.cpp:1381): the view 5 3 1 with InsertAt(0, v[2])
   becomes 0 5 3 1; strings inserted more than once come out wrong. Rows inserted come from outside in the models.

Mapped and derived views

8. Changes of keys use up unused slots (remap.cpp:385), after which looking for a missing key does not return. The probe sequence visits every
   slot in tables of 4, 8 and 16 slots, in larger ones it does not (30 of 32, 56 of 64), so that an unused
   slot ("at least one Unused slot at all times", remap.cpp:230) alone does not bound the search there. Insertions keep a third of the table free, the constructor and a removal
   that shrinks the table do not: they may put 31 rows into 32 slots. Of 2000 such tables with random hashes, computed outside of the library, 2 could not be
   filled, and in 115 a search for one more random hash did not end.
9. A key with the hash -1 compares equal with a dummy slot, and row -1 is read (remap.cpp:243) (r). Changing a key to one that is there can trip
   the assertion at remap.cpp:293 (RemoveDict) in a debug build.
10. A filter that limits two properties takes in a row out of range when one of them is set to a value in range (derived.cpp:372); `FiltersFollow`
    accepts that for the row that was set only. A filter of a filter that has dependents of its own gets a null cursor then (derived.cpp:324); `DerivedAssumption` excludes such trees.
11. A view that is empty when SortOnReverse is called never looks at its reverse flags (derived.cpp:589). The model has this (`down`), and
    `SortsFollow` refers to the order actually in use.
12. RelocateRows moves rows between views without notifying (view.cpp:400). ProjectWithout shows a wrong column once its view has a new property (derived.cpp:850).
13. A commit may leave a short integer column longer than its items need; it can then be widened around an odd gap, and an item is split
    across it (column.cpp:1254). One row: commit, set it to 100, insert a row before it, set that one to 300, commit: 25644 is read back.
14. Products, joins and pairs remember column numbers that change when their first view gains a property (custom.cpp:320, 420, 876). A row with
    properties of both views inserted into a pair adds them to the first one. A slice with a limit keeps it when rows of its parent are removed.
    JoinProp counts a duplicate property twice (custom.cpp:726).
15. Ordered views keep duplicates: a row with a key that is there and larger other values is added (remap.cpp:858, 891; against view.cpp:769), and Find
    misses a key whose row has negative other values, or when the key row has its properties in another order. An indexed view takes its base to be sorted and
    does not maintain its map on changes of keys (remap.cpp:1020, a TODO; against view.cpp:782). Find through a read-only view of an ordered or hash view misses rows (remap.cpp:29).

Tcl

16. Temporary rows: a row made while another exists shows and overwrites it, since AttachView gives up at `_` (mk4tcl.cpp, against tcl.html:401); their cursors are lost after any file is opened,
    closed or committed (tcl.html:406). `mk::row append` through a cursor of a closed storage appends to a temporary row.
    ForgetPath takes the row number from the fourth character of any path of the item without a name (mk4tcl.cpp:924). What is left of a temporary row's path when its string is looked
    up again (`._`), and `?`, the path of a closed storage, are shorter: the number is what is found behind them, and the flag of that row is cleared, which another path may have.
    "Harmless" (mk4tcl.cpp:782) it is only when 0 is found; the assertion at 925 fails in any case where the row is not in use. `TempRowsOwned` leaves out paths whose flag was cleared so (`struck`). (r)
17. A cursor into a subview keeps its view when `mk::view size` takes the row away, while its string is an error (tcl.html:360); rows changed by `row replace` or
    `locate -force` do not invalidate cursors (r). `mk::row insert` with rows inserted and a bad cursor to copy from returns before Invalidate
    (mk4tcl.cpp:1711), so that cursors of subviews below stay with rows that have moved (r); `CursorsFollowStrings` leaves these out. A path that names no subview (`db.v!0.s!0`, s an integer) silently becomes `db.v!0`.
18. Invalidate makes the destructor of a path skip ForgetPath, so that the list of paths keeps a dangling address (r). `mk::cursor` with a step that is no number lets go
    of a shared value that it has not counted (mk4tcl.cpp:2288); `mk::row append` with a value that cannot be set restores the size through its result, which the error message has
    replaced and freed by then (mk4tcl.cpp:1669). What follows is undefined; the three properties of `TclCursors` speak of workspaces where this has not happened (r). The loops of mk4too.cpp leave the
    mutex locked when their script fails (mk4too.cpp:609).
19. `insert` with wrong arguments takes out the row at the index that was given; an ordered or indexed view has put the new row elsewhere
    (mk4too.cpp:330), so another row is lost (r). `set` of several values through such a view sets the later ones in whatever row is at the index after the
    first has moved (mk4too.cpp:113) (r). The model gives these views no wrong arguments, and one value at a time.
20. For plain, `-min` and `-max` criteria with a list of properties only the last one counts, not any (mk4tcl.cpp:1274, against tcl.html:554); a view that
    looks up keys wants all of them (mk4tcl.cpp:1295). (r)
21. Where a view looks up keys, `-count` limits the rows that are looked at before the lookup, not the results (mk4tcl.cpp:1332, against tcl.html:562): `-count 1` finds nothing unless
    the row looked for is the first one. `search` puts the difference of two `long`s into an `int` (mk4too.cpp:434). `$view select` returns row indices, but
    rows if it is sorted (mk4tcl.cpp:1367). (r)

Python

22. `map(func, subset)` with a selection, as documented, raises TypeError (PyView_Check accepts stored views only). `delete(-1)` does nothing, `delete(-2)` works.
    `v[s:] = [x]` with s beyond the end inserts. Indices below -len are adjusted twice. `remove` with duplicate indices removes other rows too. `setSlice` stops at a bad object, the rows before it stay set.
23. A row of `sortrev` moves when it is set, unlike one of `sort`, as it has no base. Views made by `metakit.view()` have an uninitialised base (PyView.cpp:1338).
    `modify` is offered by read-only views.

## 5. Proofs

`AllocatorProofs` proves `WallsStaySorted == Spec => []WallsSorted` for every arena, all block lengths and all
settings of the limits of ReduceFrags, from `AllocatorAssumption` alone. `WallsSorted` is
inductive as it stands: the vector holds pairs, starts with the pair <0,0>, ends in `MaxInt`
and is strictly increasing from its second entry. The argument:

* *vector lemmas* (`SetAtSorted`, `RemovePairSorted`, `PairInsertedSorted`): an entry may move between its neighbours, a pair may go,
  a pair may come in strictly between two walls. `SortedFacts` and `SortedIntro` take `Sorted` apart and put it together.
* *searches* (`LocateFacts`, `FitIndexFacts`): the CHOOSE in Locate and in Allocate's loop finds an index, because the last range reaches
  `MaxInt`, beyond the bound of all operations; they rest on `LeastNatural`, the least element of a set of naturals.
* *ReduceFrags* (`KeptIsInner`, `SelectionSorted`, `ReduceFragsSorted`): any choice of inner pairs in increasing order is sorted, so it does not matter which pairs it keeps.
* *operations* (`AllocatedSorted`, `OccupiedSorted`, `ReleasedSorted`): one lemma for each, by the cases of the code. Release needs
  `Releasable`: that the block lies in a used area puts it between the walls `i - 1` and `i`.

`SearchAlwaysFindsWall == Spec => []SearchFindsWall`, in the same module, says that the loop of the binary search ends on the wall that `Locate` means,
on every vector that is sorted. The loop is a recursive function over the pairs of bounds; the proof gives a closed form (`Answer`: for every pair of bounds the
index where the loop ends), shows that it satisfies the equation of the loop, and that no other function does: the shortest
interval on which the two differ (`LeastNatural` again, on the lengths) halves into a shorter one on which they agree.

It also proves the refinement: `WallsImplementByteSpace == Spec => ImplementsByteSpace` (each operation of the vector does to the
bytes in use what `SpaceOps` says) and `SpaceRefined == Spec => Space!Spec`. The argument is by *parity*: a byte is free when the wall before
it has an even index (`FreeByParity`), so moving a wall, taking a pair away and putting one in each *toggle* the bytes between two positions and no other
(`SetAtToggles`, `RemovePairToggles`, `PairInsertedToggles`); each case of Allocate, Occupy and Release is one such toggle, of a run that is wholly free or wholly in use. `FreeRunEndIs`,
`LimitIsLastRange`, `FirstFitIs` say what the CHOOSEs of `SpaceOps` are on a vector; `GapsAreInnerRuns` and `GapsCounted` relate the pairs that
ReduceFrags drops to the gaps of the abstract set. `Persist` uses `SpaceOps` for its two allocators, so this is what makes its model of the free space that of the code.

`TclMutexProofs` proves for any number of threads and interpreters and any depth of callbacks and loops:

* `Invariance`: `IInv` is inductive. It says what each place in the code may rely on: types; what a thread has entered for at that place
  (`CallsInv`); infoMutex is had by the thread between its lock and unlock (`InfoInv`); mkMutex is had by a thread exactly while it is inside, or between the
  lock and the note of its owner (`LockInv`); an owner is noted exactly while a thread is inside, it is an interpreter of that thread, and the level is the number of its
  entries (`OwnerInv`). `MutualExclusion` alone is not inductive: that a thread that finds itself noted as owner is inside needs the last two.
  One lemma for each kind of step (`LookPreserves` to `EndBodyPreserves`).
* `Exclusion` and `Assertions`: `MutualExclusion` and `AssertionsHold` follow from it.
* `NoDeadlockForOneInterp`: a thread that enters for one interpreter only never waits for the lock that it has itself (`NoDeadlock`).

All four assume `PathsKept`, that the cursor values of a thread refer to paths made by
interpreters of that thread, as they do when no storage is opened with `-shared`; the last one assumes also `Alone`, that no two
interpreters live in a thread. Both are stated on the constants, beside `ThreadsAssumption`. Neither can go: `tcl_deadlock` has one interpreter per thread
and refutes `NoDeadlock` because `PathsKept` does not hold there.

`TclCursorsProofs` proves for any number of variables, paths, rows and temporary rows `PathsAreCounted` (`RefsCounted`), `TempRowsAreOwned` (`TempRowsOwned`) and
`CursorsAlwaysFollowStrings` (`CursorsFollowStrings`). None of the three is inductive, and inside a command none of them holds: between two calls there is
a value that no variable refers to, one whose representation was dropped but not yet made again, a path that the workspace has forgotten but a value still counts.
The invariant is therefore `Sound(store, work, cursor, v)`, the same facts with a *value in hand* `v`, whose references count and whose strings are followed
like those of the variables; between commands the value in hand is none. Each C function of the model has a lemma that takes a sound state to a sound state
(`ReferFacts` to `Struck`), with what is in hand before and after it, and a command is the composition of these (`SetVarKeeps` to `FileKeeps`; `RowAppendFailsKeeps` and
`CursorFailsKeeps` for commands that fail). What is narrowed on the way (a workspace that
forgets a path whose last reference goes, `Narrowed`) is shown to lose nothing that a string still means. It rests on `CursorAssumption`: strings, addresses, rows and names of views do not
stand for one another, which the code gets from C's types.
What is shown to hold always (`AlwaysSound`) is that the workspace is damaged or sound: nothing is proved of a damaged one. `Sound` says of temporary rows only those that are not
`struck`, and a shortened path may strike any row of `Tails`, so the theorems hold whatever numbers are read there.

`PersistLemmas` and `PersistProofs` prove the commit protocol right for any number of columns, all lengths and contents, any
number of commits, changes, rollbacks and crashes and both writing modes, from the assumptions of `Datafile` and `Persist` on their constants (marks of at least
two bytes, at least one column, tags that are not the names of the two reserved ones). The results:

* `StableStorage == Spec => []NeverOverwrites` and `SpaceIsClaimed == Spec => []LiveSpaceClaimed`; `TypesCorrect == Spec => []TypeOK`, which holds after I/O errors too.
* `CommitIsDurable == Spec => ImplementsDurableStore`: what the user reads changes by Modify, Rollback and a crash only; a commit that succeeds has saved what was read;
  a crash, whichever of the pending writes are done, torn or lost, brings up the old version or the new one as a whole, and nothing at all only when the commit makes the file grow.

None of these is inductive, and they hold for reasons that are spread over the whole of SaveIt, so the invariant has to say what each step leaves behind (`InvariantHolds`).
It has two parts. `TInv` is the typing, with what the plan of a commit relates: it is kept by failing steps as well. `IInv == Healthy => SoundOK` speaks about runs without I/O errors so far:

* Between commits (`IdleOK`) nothing is pending, and the file ends in a complete version (`Version`: a header where the data starts, blocks between header and tails that share
  no bytes, a skip mark that leads back to the header, a commit tail that points to the walk); clean columns are where that walk says; in mode 1 the columns that are set up are claimed, and every
  other block is claimed as a whole or not at all (`Claims`), without which claiming it later would be refused.
* During a commit (`BusyOK`) both versions are laid out (`LayOK`), with every block to be written apart from every block of the old version (`FreshOK`); the claims that will go to the next commit
  have all of the new version (`SpaceOK`); each column is still to be written, or reads as what is being saved (`ColsOK`); no pending write touches a column of the old version (`SavedOK`).
* `RecoverOK` says what a crash would find at this step: before the skip tail is flushed the complete old version with at most that one write pending; then marks that no pending write touches; before the
  commit tail the whole new version but that tail in the file and nothing pending; then the tail as the one pending write; then the new version with at most the header pending, which is there already or is
  the same one again.

The argument. `EndOfData` is a recursive function over places in the file; `JumpingFunction` in `Recursion` shows that such a function exists and is the one that the equation describes, from which
`CommitIsFound`, `SkipIsDead` and `DeadStays` say what the scan finds on a file of any length: a commit tail behind a skip mark that leads to a header, or nothing where a skip tail leads nowhere, whatever lies before it.
`FilesExist`, `ClaimsExist` and `PassesExist` do the same for the writes of a buffer, the claims of all columns and the first pass. `FirstPassIs` says what the first pass decides, one column after the
other (`PassStepDone`): every column has a place, the changed ones in bytes that were free in what the old *and* the new version use, no two of them together, and the next version claims them all. `StartLaid` puts this beside the old
version. Each step then has a lemma for the types (`...Typed`) and one for the invariant (`...Keeps`), nearly all of them by two facts: a write that is apart from an extent spares it (`FreshMisses`, `BlockSpares`), and what no pending
write touches is in the file however a crash ends (`Kept`). `CrashLeaves` follows from `RecoverOK` by the steps, `OpenedIs` says that opening what is found gives the state between commits again.
For the refinement, `PersistProofs` names the six kinds of steps that the user can tell apart (`Stays` to `Crashes`), shows that what the user reads is the saved version, with the changes (`WorkingIdle`), or the one being saved (`WorkingBusy`), and maps each
step; the first I/O error maps to `Fail`, after which `DurableStore` promises nothing.

`BlockedViewProofs` proves for every limit of at least 3, any rows and any calls `Validated` (`Validate`), `InOrder` (`RowsStayInOrder`) and
`Refinement` (`ImplementsFlatRows`): InsertRows and RemoveRows do to the rows what they do to a plain view, however many blocks they split, merge, drop or rotate.

* The invariant is `Kept`, of three parts: `Shape` (one separator less than blocks, and each offset is the one before it, the separator and the block), `Sized` (every
  length is what Validate asserts) and `Recalls` (the block that is remembered is where it is remembered to be). In the middle of a call it does not hold: one block may have any
  length (`Settled`), and only the blocks before it are remembered rightly.
* The rows are not computed. `Flat` gathers the blocks by recursion, and what that gives for every input would need an induction over data. So `Shown(v, f)` says of a
  sequence f, by its indices alone, that it is the rows of v; `FlatShown` proves once that `Flat` is such a sequence, `ShownOnce` that there is only one.
  Every step of the pipeline then has a lemma that it turns what is shown into what should be shown: Split, Merge, DropNext and RotateSep leave it as it is (they are edits of one place,
  `EditedShows`), putting rows into a block or taking them out of it changes it there (`WithBlockFacts`), and `InsertedFacts` and `WithoutFacts` put the steps together.
* The loops are recursive functions. Those of splitting and of dropping blocks end, and what each pass keeps holds at their end (`RepeatedFunction`, `RepeatedEnds` in `Recursion`); the binary search of Slot
  ends at the first offset that is not before the row (`HalvesFinds`, `SlotFinds`).

`HashViewProofs` proves of any keys, values and hashes, any number of rows, and any sizes and searches that meet `HashViewAssumption`: `Mirrored` (`DictMirrorsRows`), `Found` (`FindsEveryRow`) and
`Refinement` (`ImplementsKeyedRows`).

* The first two do not tell that LookDict will find a row after the *next* change. The invariant `Whole` does: for some size of table, `Mirrors(base, dict, n, RowsOf(base))`, where `Mirrors(b, d, n, M)`
  says of a dictionary d for the rows M of b that its slots hold nothing else (`Filled`), that a search for the key of a row of M gets to its slot before any
  unused one (`Reached`), that no row is in two slots (`Once`), that keys are different (`Distinct`), and that the dummies are counted.
* M is there because each call goes through states in which the dictionary has other rows than the view: SetItem takes the row out, changes its key, removes the other row and puts the row in again.
  `InsertIs`, `RemoveIs` and `MovedIs` say what InsertDict, RemoveDict and the shifting of row numbers do to M, where InsertDict may take the place of a row with the same key:
  while the table is shrunk in the middle of SetItem, all rows are put in, two of them with one key, and the later one stays (`Represents`, `ShrunkIs`).
* Searches (`SearchResult`) end first at one index of the path; that a row stays within reach needs only that no slot before its own becomes unused, which RemoveDict sees to with its dummies, and that
  a row put in takes a dummy on its own way or the unused slot at its end.
* `SearchEnds` counts: the slots in use are at most as many as rows and dummies (`SlotsInUse`, an injection into the row numbers), so a search through two thirds of the slots meets an unused one when
  these are fewer. What happens when they are not is remark 8.
* `ResizeBuilds` follows the rows that DictResize puts in one after the other (`StepwiseFunction`).

Only model-checked, and why:

* `FailureKeepsVersion`: it is about states after an I/O error, where the invariant says no more than the types. With one error it holds within the bounds; beyond them the remark in section 4 applies, and no invariant
  for any number of errors is known.

* `LockComesFree`: liveness, out of the prover's reach.
* Properties stated with folds or on recursive structures: what `FoldLeft` and the RECURSIVE operators compute for every input would need induction over data, which the
  provers cannot instantiate. So it is with the loop of Set and the shifting of bits and segments (`Column`, `GapBuffer`, `IntColumn`), the row maps after a
  sequence of changes (`DerivedViews`), nested structures (`NestedTables`, `Storage`), chains of views (`Views`, `CustomViews`, `TclViews`, `PyViews`), the
  lists of memos and offsets (`BytesFormat`); `ProbeSequence` and `PyViews` use `Bitwise`. What `HashViewAssumption` says of the searches of the code is computed, see `HashView` above.

## 6. Not modelled

* Outside of the library's logic: strings and containers (`c4_String`, `c4_Bytes`, `c4_BaseArray`), streams as bytes (what
  they hold is in `Storage` and `BytesFormat`), conversion of files older than 2.0, the Win32 correction of the file end, files beyond 2 Gb (Commit refuses),
  the storage, property and file objects of Python, which wrap one call each.
* Storage: integers of 64 bits and of the other byte order, memory mapping below integers, doubles and floats (fixed-size items in a
  column of bytes), a full commit with an aside storage, recursive structures, RelocateRows and ExchangeEntries, the conversion of the old format of
  bytes columns, kMove (nothing in the library announces it), filters and sorts over a projection whose structure changes.
* Views: guards keep to the cases where a view is told or reads afresh; a viewer is over the two views, not over another viewer.
* Tcl: of mk4too the commands get, exists, info, open and loop, and the views made by blocked, clone, copy, dup, flatten, hash, project, restrict,
  unique and the set operations (`CustomViews` has most of these as operations); commands over views of views; `mk::channel` (which runs without the mutex), the layout commands of `mk::view`, changing a row through another, variable traces,
  a damaged workspace (remark 18), a search of `$view find` with an odd number of arguments, which reads one beyond them (mk4too.cpp:256).
* Python: flatten, blocked, hash, ordered and indexed views, access and modify of parts of items, groups of `groupby`, properties
  of rows of a pair, derived views held while rows come and go (`DerivedViews` has those), rows beyond the end of a view that has shrunk (undefined),
  `row.__view__` (PyRowRef.cpp:49), which wraps the container of a row as a plain view even if it is a derived one.

## 7. Plan

1. Proofs: what one I/O error leaves (`FailureKeepsVersion`, with an invariant for states after it), the filters of `DerivedViews`, the memos of `BytesFormat`.
2. The remaining view commands of mk4too, with loops and the mutex; `mk::channel`.
3. `RelocateRows` and `ExchangeEntries` in `Storage`; fixed-size numbers of 64 bits in `IntColumn`.

New components share runs where they can: one instance for components that do not interact, one module for those that do.
