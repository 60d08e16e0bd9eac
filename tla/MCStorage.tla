----------------------------- MODULE MCStorage ------------------------------
(***************************************************************************)
(* Storage with the views a[p, s[q]] and b[q], given in some of their forms.  *)
(***************************************************************************)
EXTENDS Storage

VARIABLE shown   \* what is read from the state, kept beside it

Leaf(n) == [name |-> n, subs |-> << >>]
ViewOf(n, fields) == [name |-> n, subs |-> fields]

\* "", "a[p,s[q]]", "a[s[q,p]]" and "s[q],a[p]": a column is dropped, comes
\* back, moves, and a subview gets another one; a view is both a subview and one
\* of the storage.
SomeStructures ==
  {<< >>,
   <<ViewOf("a", <<Leaf("p"), ViewOf("s", <<Leaf("q")>>)>>)>>,
   <<ViewOf("a", <<ViewOf("s", <<Leaf("p"), Leaf("q")>>), Leaf("q")>>)>>,
   <<ViewOf("b", <<Leaf("q")>>), ViewOf("a", <<Leaf("p")>>)>>}

SomeRows == {[p |-> 1], [s |-> <<[q |-> 1]>>], [q |-> 1]}

SomePaths == {<< <<1, "a">> >>, << <<1, "b">> >>, << <<1, "a">>, <<1, "s">> >>}

Shown(r, d, b, a, k, c) ==
  [contents |-> Table(r, d)[1], struct |-> r.field, file |-> VersionOf(b, FALSE),
   aside |-> VersionOf(a, TRUE), kept |-> VersionOf(k, TRUE), using |-> d, copy |-> VersionOf(c, TRUE)]

MCInit == Init /\ shown = Shown(root, differ, base, aside, kept, copy)
MCNext == /\ Next
          /\ \E r \in {root'}, d \in {differ'}, b \in {base'}, a \in {aside'},
                k \in {kept'}, c \in {copy'} : shown' = Shown(r, d, b, a, k, c)
MCSpec == MCInit /\ [][MCNext]_<<vars, shown>>

Tables == INSTANCE NestedTables WITH
  contents <- shown.contents, struct <- shown.struct, file <- shown.file,
  aside <- shown.aside, kept <- shown.kept, using <- shown.using, copy <- shown.copy

\* The storage is a set of named tables: redefining the structure keeps what
\* has a name in both, down into subviews, and commits, reloads, aside versions
\* and copies give back what was saved (store.cpp:317, handler.cpp:213,
\* persist.cpp:915).  An aside version is given back only where the datafile has
\* a version too (persist.cpp:984).
ImplementsTables == Tables!Spec
=============================================================================
