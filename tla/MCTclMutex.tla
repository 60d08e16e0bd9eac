----------------------------- MODULE MCTclMutex -----------------------------
(* Small instances of TclMutex: an interpreter per thread, whose values refer *)
(* to paths of its own, or to those of all.                                   *)
EXTENDS TclMutex

CONSTANTS a, b, c

OwnThread == [i \in Interps |-> i]

\* The paths of a cursor value are made by the interpreter that uses it; or a
\* storage is shared, and AddPath gives out the paths that other interpreters, in
\* other threads, have made.
OwnPaths == [t \in Threads |-> {t}]
SharedPaths == [t \in Threads |-> Interps]
=============================================================================
