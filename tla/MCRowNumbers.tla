---------------------------- MODULE MCRowNumbers ----------------------------
(***************************************************************************)
(* The views that keep numbers of rows beside the rows, in small: a hash   *)
(* view with its dictionary (HashView.tla), and filters and sorts with their *)
(* row maps (DerivedViews.tla).  Only one of the two is in use in a         *)
(* behaviour; the other stays as it is at the beginning.                   *)
(*                                                                         *)
(* Keys collide: "a" and "e" have the same hash; "b" starts where they do in *)
(* a table of four slots, and goes on elsewhere.  The tree has filters on  *)
(* one and on two properties, a filter of a filter, and sorts of the base   *)
(* view and of a filter.                                                   *)
(***************************************************************************)
EXTENDS HashView, ProbeSequence

CONSTANTS Props, TableRows, Views, StartRows, MaxTable, MaxCount    \* those of DerivedViews

VARIABLES table, view

Derived == INSTANCE DerivedViews WITH
             Rows <- TableRows, MaxRows <- MaxTable, base <- table

\* A view may not depend on a sort, which tells nobody of changes.  A filter
\* that depends on a filter has no dependents: PreChange would look at a row
\* that is not there when a change of one property brings a row into the first.
ASSUME DerivedAssumption ==
  /\ TableRows \subseteq [Props -> Int]
  /\ \A v \in Derived!Nodes :
       LET up == Views[v].parent
       IN  /\ up \in 0 .. v - 1
           /\ up # 0 => /\ ~Views[up].sorted
                        /\ Views[v].sorted \/ Derived!Dependents(v) = {}
  /\ StartRows \in Nat /\ MaxTable \in Nat /\ MaxCount \in Nat \ {0}

MCHashOf == "a" :> 4 @@ "b" :> 12 @@ "c" :> 5 @@ "e" :> 4

TableRow(a, b) == [a |-> a, b |-> b]
SomeRows == {TableRow(0, 0), TableRow(1, 0), TableRow(1, 1), TableRow(2, 1)}

Filter(parent, low, high) ==
  [parent |-> parent, sorted |-> FALSE, low |-> low, high |-> high,
   cols |-> << >>, down |-> {}]
Sort(parent, cols, down) ==
  [parent |-> parent, sorted |-> TRUE, low |-> << >>, high |-> << >>,
   cols |-> cols, down |-> down]

Tree ==
  << Filter(0, "a" :> 1, << >>),
     Filter(1, << >>, "b" :> 0),
     Sort(1, <<"b", "a">>, {"b"}),
     Filter(0, "b" :> 1, "a" :> 1) >>

hashed  == vars
derived == <<table, view>>

MCInit == Init /\ Derived!Init /\ (base = <<>> \/ table = <<>>)

MCNext ==
  \/ table = <<>> /\ Derived!Init /\ Next /\ UNCHANGED derived
  \/ base = <<>> /\ Init /\ Derived!Next /\ UNCHANGED hashed

MCSpec == MCInit /\ [][MCNext]_<<hashed, derived>>

\* Of the derived views (c4_FilterSeq, c4_SortSeq): row maps and reverse maps stay
\* what they should be, and a filter announces what then happens to its rows.
FiltersFollow  == Derived!FiltersFollow
SortsFollow    == Derived!SortsFollow
EventsComeTrue == Derived!EventsComeTrue
=============================================================================
