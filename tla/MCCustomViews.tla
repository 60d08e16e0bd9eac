--------------------------- MODULE MCCustomViews ---------------------------
(***************************************************************************)
(* CustomViews on two views that share the property k, on which they are   *)
(* grouped and joined, and that gives the row to remap to in right.        *)
(***************************************************************************)
EXTENDS CustomViews

KA(x, y) == [k |-> x, a |-> y]
KB(x, y) == [k |-> x, b |-> y]
Alone(props, item) == [props |-> props, item |-> item]

LeftNames  == <<"k", "a">>
RightNames == <<"k", "b">>
OnKey      == <<"k">>

\* Rows that get the property b, or a, when a row that has it is put in.
Wide(x, y, z) == [k |-> x, a |-> y, b |-> z]

SomeLeft  == {KA(0, 0), KA(0, 1), KA(1, 0), KA(1, 1),
              Wide(0, 0, 0), Wide(1, 0, 1)}
SomeRight == {KB(0, 1), KB(1, 0), KB(0, 0), [k |-> 1, b |-> 0, a |-> 0]}

SomeRows == {Alone(LeftNames, KA(0, 1)), Alone(LeftNames, KA(1, 0)),
             Alone(<<"a", "k">>, KA(1, 0)), Alone(OnKey, [k |-> 0]),
             Alone(<<"k", "a", "b">>, Wide(1, 0, 1))}

SomeSlices == {[first |-> 0, limit |-> 2, step |-> 1], [first |-> 1, limit |-> -1, step |-> 1],
               [first |-> 0, limit |-> -1, step |-> -2], [first |-> 1, limit |-> 3, step |-> -1],
               [first |-> 0, limit |-> 3, step |-> 2]}
=============================================================================
