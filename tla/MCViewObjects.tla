---------------------------- MODULE MCViewObjects ----------------------------
(***************************************************************************)
(* The view objects of the two languages in small: those of Tcl             *)
(* (TclViews.tla) over two views that share the property k, and those of   *)
(* Python (PyViews.tla).  Only one of them is in use in a behaviour.        *)
(***************************************************************************)
EXTENDS TclViews

CONSTANTS Objects, Criteria, PySlices, Order, MaxRows, MaxShown, MaxChain   \* of PyViews

VARIABLES rows, chain, ref

Python == INSTANCE PyViews WITH Slices <- PySlices

\* Tcl: two views and the arguments given to commands.
KA(x, y) == [k |-> x, a |-> y]
KB(x, y) == [k |-> x, b |-> y]

LeftNames  == <<"k", "a">>
RightNames == <<"k", "b">>
OnKey      == <<"k">>
SomeLeft   == {KA(0, 0), KA(0, 1), KA(1, 0)}
SomeRight  == {KB(0, 0), KB(1, 0)}

Pair(p, x) == [prop |-> p, value |-> x]
Args(pairs) == [pairs |-> pairs, odd |-> FALSE]
SomeArguments ==
  {Args(<<Pair("k", 1), Pair("a", 0)>>), Args(<<Pair("k", 0), Pair("a", 1)>>),
   Args(<<Pair("k", 0)>>), Args(<<Pair("k", 1), Pair("a", Bad)>>),
   [pairs |-> <<Pair("k", 0)>>, odd |-> TRUE]}

Cond(id, props, crit) == [id |-> id, props |-> props, crit |-> crit]
SomeConditions ==
  {<< >>, <<Cond("is", OnKey, 1)>>, <<Cond("max", <<"a">>, 0)>>,
   <<Cond("exact", OnKey, 0), Cond("min", <<"a">>, 0)>>,
   <<Cond("exact", <<"a">>, 1), Cond("is", OnKey, 0)>>,
   <<Cond("glob", LeftNames, {1})>>, <<Cond("exact", LeftNames, 1)>>, <<Cond("min", OnKey, Bad)>>}
SomeSortings == {[by |-> << >>, down |-> << >>], [by |-> <<"a">>, down |-> << >>],
                 [by |-> <<"a", "k">>, down |-> OnKey]}
SomeLimits == {-1, 1}
NoSlices   == {}

\* Python: objects of every kind that a row can be made of, selections of one
\* value, of a range and of none.
Obj(kind, given) == [kind |-> kind, given |-> given]
SomeObjects == {Obj("dict", "a" :> 1), Obj("sequence", [a |-> 0, b |-> 1]),
                Obj("sequence", [a |-> 1, b |-> 0, more |-> 0]),
                Obj("instance", "b" :> 1), Obj("none", << >>)}

Nothings == << >>
SomeCriteria == {[low |-> "b" :> 1, high |-> "b" :> 1],
                 [low |-> "a" :> 0, high |-> "a" :> 0],
                 [low |-> Nothings, high |-> [a |-> 0, b |-> 0]]}
SomeSlices == {[from |-> 0, to |-> 2], [from |-> -1, to |-> 9]}
SomeOrder  == <<1, 0>>

----------------------------------------------------------------------------
Unused     == left = Nothing /\ right = Nothing /\ viewer = NoViewer /\ fresh = TRUE

MCInit == \/ Init /\ Python!Init
          \/ Unused /\ Python!Init

MCNext == \/ left # Nothing /\ TclNext /\ UNCHANGED <<rows, chain, ref>>
          \/ left = Nothing /\ Python!Next /\ UNCHANGED vars

MCSpec == MCInit /\ [][MCNext]_<<vars, rows, chain, ref>>

\* A row got from any view object of Python that can be set is a stored one, and
\* stays the one it was, however it is moved by what is set (PyView.cpp:1513).
RefsDenoteRows == Python!RefsDenoteRows

\* The list methods of the stored view do to its rows what they do to a list of
\* Python; no other view can be changed through them (PyView.cpp:1486).
BehavesAsList == Python!BehavesAsList

\* View objects of Tcl: an insertion that fails leaves the rows as they were, a
\* set keeps to one row and to the values before a bad one (mk4too.cpp:330, 111);
\* and a command finds what is there.
TclWhole   == left # Nothing => CommandsWhole
TclSelects == left # Nothing => SelectsRight
==============================================================================
