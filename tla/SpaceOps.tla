------------------------------ MODULE SpaceOps ------------------------------
(***************************************************************************)
(* What the free-space administration of a datafile means, stated on the   *)
(* set of bytes in use instead of on c4_Allocator's vector of walls.  Byte  *)
(* 0 is never handed out (persist.cpp: "Position zero cannot be            *)
(* allocated"), so it counts as used although it is in no set.             *)
(*                                                                         *)
(* Allocator.tla has the vector itself and is shown to implement these     *)
(* operators; the commit protocol in Persist.tla is built from them.       *)
(***************************************************************************)
EXTENDS Integers, FiniteSets

\* The bytes of a block of len bytes at position pos.
Bytes(pos, len) == pos .. pos + len - 1

\* AllocationLimit: the first byte after everything in use.
Limit(used) == CHOOSE p \in {1} \cup {b + 1 : b \in used} :
                  \A b \in used : b < p

\* Allocate: the lowest position with len free bytes.
FirstFit(used, len) ==
  CHOOSE p \in {1} \cup {b + 1 : b \in used} :
     /\ Bytes(p, len) \cap used = {}
     /\ \A q \in 1 .. p - 1 : Bytes(q, len) \cap used # {}

\* The end of the free area that byte p lies in, no further than "to".
FreeRunEnd(used, p, to) ==
  CHOOSE e \in p .. to : /\ p .. e - 1 \cap used = {}
                         /\ e = to \/ e \in used

\* Occupy: a block that starts where a free area starts takes what that area
\* has; one that starts further on is taken whole, or not at all when it runs
\* past the end of the area; one that starts in use changes nothing.
Occupied(used, pos, len) ==
  LET run     == Bytes(pos, FreeRunEnd(used, pos, pos + len) - pos)
      atStart == pos = 1 \/ pos - 1 \in used
  IN  CASE pos \in used                    -> used
        [] pos \notin used /\ atStart      -> used \cup run
        [] OTHER -> IF run = Bytes(pos, len) THEN used \cup run ELSE used

\* Release of a block that is in use: it becomes free, except that the tail of
\* an area in use (a block whose front neighbour is in use and whose back
\* neighbour is free) stays in use.
Released(used, pos, len) ==
  IF (pos > 1 /\ pos - 1 \notin used) \/ pos + len \in used
  THEN used \ Bytes(pos, len)
  ELSE used

\* The free areas between blocks in use: everything free below the limit, as
\* a set of maximal runs.
Gaps(used) ==
  LET free == (1 .. Limit(used) - 1) \ used
  IN  {p .. FreeRunEnd(used, p, Limit(used)) - 1 :
          p \in {q \in free : q = 1 \/ q - 1 \in used}}
=============================================================================
