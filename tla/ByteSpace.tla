----------------------------- MODULE ByteSpace ------------------------------
(***************************************************************************)
(* The abstract free-space administration: a set of bytes in use and the   *)
(* three operations of c4_Allocator on it.  It says which block an         *)
(* allocation returns, what a repeated or overlapping Occupy does, and that *)
(* the fail-safe against fragmentation (ReduceFrags) may only forget free  *)
(* gaps, never a byte that is in use.                                      *)
(***************************************************************************)
EXTENDS SpaceOps

CONSTANTS MaxPos,    \* no operation reaches past this byte
          Lens,      \* the block lengths used
          MaxGaps    \* gaps that are always remembered

VARIABLE used

Init == used = {}

\* When there are too many, free gaps may be written off as if in use.
Forgetting(u) ==
  {u} \cup IF Cardinality(Gaps(u)) > MaxGaps
           THEN {u \cup UNION lost : lost \in SUBSET Gaps(u)} ELSE {}

Allocate(len) ==
  used' = used \cup Bytes(FirstFit(used, len), len)

Occupy(pos, len) ==
  used' \in Forgetting(Occupied(used, pos, len))

Release(pos, len) ==
  /\ Bytes(pos, len) \subseteq used
  /\ used' \in Forgetting(Released(used, pos, len))

Next == \E len \in Lens :
           \/ Allocate(len)
           \/ \E pos \in 1 .. MaxPos : Occupy(pos, len) \/ Release(pos, len)

Spec == Init /\ [][Next]_used
=============================================================================
