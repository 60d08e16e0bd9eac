---------------------------- MODULE ProbeSequence ---------------------------
(***************************************************************************)
(* The slots that c4_HashViewer::LookDict (remap.cpp) comes to, one after  *)
(* the other: it starts at a slot that depends on the hash and goes on by   *)
(* increments that run through the nonzero elements of GF(2^k), the field  *)
(* whose polynomial goes with the size of the table.                       *)
(***************************************************************************)
EXTENDS Integers, Sequences, FiniteSets, TLC, Bitwise

\* The first of s_polys, by the number of slots.
Poly == (4 :> 4 + 3) @@ (8 :> 8 + 3) @@ (16 :> 16 + 3) @@ (32 :> 32 + 5)
TableSizes == DOMAIN Poly

FirstIncr(h, n) == LET x == (h ^^ (h \div 8)) % n IN IF x = 0 THEN n - 1 ELSE x
NextIncr(incr, n) == IF 2 * incr > n - 1 THEN (2 * incr) ^^ Poly[n] ELSE 2 * incr

\* A search from a slot and an increment: those it comes to, in m steps.
Search(n, m, first, incr) ==
  LET go[j \in 0 .. m, i \in 0 .. n - 1, x \in 1 .. n - 1] ==
        <<<<i, x>>>> \o (IF j = 0 THEN <<>> ELSE go[j - 1, (i + x) % n, NextIncr(x, n)])
  IN  go[m, first, incr]

\* The slots of a search until it is back where it began: the sum of all increments
\* is an odd multiple of n / 2, so that it takes two rounds of them.
SlotsFrom(n, first, incr) ==
  LET s == Search(n, 2 * (n - 1), first, incr) IN [j \in 1 .. 2 * (n - 1) |-> s[j][1]]
SearchPath(h, n) == SlotsFrom(n, (n - 1) - (h % n), FirstIncr(h, n))

\* A search is back where it began, and comes to two thirds of the slots or more:
\* to all of a table of 4, 8 or 16 slots, to 30 or more of 32.
ASSUME SearchesAreWide ==
  \A n \in TableSizes : \A i \in 0 .. n - 1, x \in 1 .. n - 1 :
    LET m == 2 * (n - 1)
        s == Search(n, m, i, x)
    IN  /\ s[m + 1] = <<i, x>>
        /\ 3 * Cardinality({s[j][1] : j \in 1 .. m}) >= 2 * n
=============================================================================
