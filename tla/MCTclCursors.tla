---------------------------- MODULE MCTclCursors ----------------------------
(* A small instance of TclCursors.  Addresses and rows are interchangeable. *)
EXTENDS TclCursors, TLC

Same == Permutations(Paths) \cup Permutations(Rows) \cup Permutations(Vars)
=============================================================================
