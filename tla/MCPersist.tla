----------------------------- MODULE MCPersist ------------------------------
(***************************************************************************)
(* The commit protocol in small.  What the contents of columns are makes no *)
(* difference, so the tags are interchangeable.                             *)
(***************************************************************************)
EXTENDS Persist, TLC

TagSymmetry == Permutations(Tags)

\* Commits in mode 1 and in mode 2.
Commits32 == <<3, 2>>
Commits2  == <<2>>
=============================================================================
