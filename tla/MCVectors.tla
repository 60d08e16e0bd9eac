------------------------------ MODULE MCVectors ------------------------------
(***************************************************************************)
(* The three vectors that everything is stored with, in small: the walls of  *)
(* the free space (Allocator.tla), a column of bytes (GapBuffer.tla) and one *)
(* of integers (IntColumn.tla), which takes segments that are a multiple of  *)
(* four bytes.  Only one of them is in use in a behaviour; the others stay   *)
(* as they are at the beginning.                                            *)
(***************************************************************************)
EXTENDS Allocator

CONSTANTS SegMax, MinSlack, Zero, Unset, Maps, MaxSize, MaxDiff,       \* those of GapBuffer
          IntSegMax, Needs, FakeSizes, MaxRows, MaxCount               \* and of IntColumn

VARIABLES col, ints

ByteColumn == INSTANCE GapBuffer
Numbers    == INSTANCE IntColumn WITH SegMax <- IntSegMax

ASSUME GapBufferAssumption ==
  /\ SegMax \in Nat /\ SegMax > 1
  /\ MinSlack \in 1 .. SegMax - 1
  /\ Maps \subseteq BOOLEAN
  /\ MaxSize \in Nat /\ MaxDiff \in Nat

ASSUME IntColumnAssumption ==
  /\ IntSegMax \in Nat \ {0} /\ IntSegMax % 4 = 0
  /\ MinSlack < IntSegMax
  /\ Needs \subseteq {0, 1, 2, 4, 8, 16, 32}
  /\ FakeSizes \in BOOLEAN
  /\ MaxRows \in Nat /\ MaxCount \in Nat

MCInit == Init /\ ByteColumn!Init /\ Numbers!Init

MCNext ==
  \/ ByteColumn!Init /\ ~col.mapped /\ Numbers!Init /\ Next /\ UNCHANGED <<col, ints>>
  \/ Init /\ Numbers!Init /\ ByteColumn!Next /\ UNCHANGED <<walls, ints>>
  \/ Init /\ ByteColumn!Init /\ ~col.mapped /\ Numbers!Next /\ UNCHANGED <<walls, col>>

MCSpec == MCInit /\ [][MCNext]_<<walls, col, ints>>

\* Of the column of bytes (c4_Column): its fields fit together, and no operation
\* changes a byte other than those it is called for.
Validate   == ByteColumn!Validate
KeepsBytes == ByteColumn!KeepsBytes

\* Of the column of integers (c4_ColOfInts): an integer lies in one piece, no
\* operation changes another one, and the width is found again.
KeepsItems == Numbers!ItemsWhole /\ Numbers!KeepsItems
WidthFound == Numbers!WidthFound
=============================================================================
