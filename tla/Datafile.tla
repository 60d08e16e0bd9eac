------------------------------ MODULE Datafile ------------------------------
(***************************************************************************)
(* The bytes of a datafile as far as commits and recovery tell them apart: *)
(* a set of extents, each the result of one write.  An extent that is      *)
(* partly overwritten is unreadable and is dropped.  What the writes are:  *)
(*   head   the file header at the start of the data ("JL" 0x1A)            *)
(*   xhead  the header of an extension (0x0A, not recognised as a header)   *)
(*   skip   a mark with a zero count, the "skip tail"                      *)
(*   tail   a mark with a count, the "commit tail": where the root walk is  *)
(*   walk   the root walk: length and position of every column             *)
(*   data   the contents of one column                                     *)
(* Positions are absolute; what marks and walks hold is relative to the    *)
(* base offset at which the data starts.                                   *)
(***************************************************************************)
EXTENDS Integers, Sequences, FiniteSets

CONSTANTS Mark,     \* the size of a header or a mark (8 bytes)
          NCols,    \* the number of columns in the storage
          Tags      \* what the contents of a column can be, apart from length

ASSUME DatafileAssumption ==
  /\ Mark \in Nat /\ Mark > 1
  /\ NCols \in Nat \ {0}

Cols == 1 .. NCols       \* in the order in which a walk lists them

NoTag   == "none"       \* the contents of an empty column
Garbage == "garbage"    \* reading bytes that are not what was written there

ASSUME TagsAssumption == NoTag \notin Tags /\ Garbage \notin Tags

\* What an extent holds.
HeadMark       == [kind |-> "head"]
ExtendMark     == [kind |-> "xhead"]
SkipMark(off)  == [kind |-> "skip", off |-> off]
TailMark(pos, len) == [kind |-> "tail", pos |-> pos, len |-> len]
WalkData(w)    == [kind |-> "walk", cols |-> w]
ColData(tag)   == [kind |-> "data", tag |-> tag]

Extent(at, len, what) == [at |-> at, len |-> len, what |-> what]
End(e) == e.at + e.len
Overlap(e, f) == e.at < End(f) /\ f.at < End(e)

\* One write; with a torn one the old bytes are gone and the new ones not there.
Overwritten(file, e) == {f \in file : ~Overlap(e, f)}
Written(file, e) == Overwritten(file, e) \cup {e}

Longest(size, e) == IF End(e) > size THEN End(e) ELSE size

\* What is in the file at a place, as one readable piece.
Holds(file, at, len, kind) ==
  \E e \in file : e.at = at /\ e.len = len /\ e.what.kind = kind
Read(file, at, len, kind) ==
  (CHOOSE e \in file : e.at = at /\ e.len = len /\ e.what.kind = kind).what

----------------------------------------------------------------------------
(* c4_Strategy::EndOfData: the marks are read backward from the end of the  *)
(* file.  A skip tail sends the search to where it points; a commit tail    *)
(* must follow a skip tail, whose offset leads to the header.  Anything     *)
(* else sends it looking for an old-format header, which no file written by *)
(* this version has, so the result is "no data".                           *)

NoData == [found |-> FALSE, base |-> 0, pos |-> 0, len |-> 0]

AtCommitTail(file, p) ==
  LET tail == Read(file, p - Mark, Mark, "tail")
      skip == Read(file, p - 2 * Mark, Mark, "skip")
      head == p - 2 * Mark - skip.off
  IN  IF /\ Holds(file, p - 2 * Mark, Mark, "skip")
         /\ Holds(file, head, Mark, "head")
      THEN [found |-> TRUE, base |-> head, pos |-> tail.pos, len |-> tail.len]
      ELSE NoData

EndOfData(file, size) ==
  LET scan[p \in -size .. size] ==
        IF Holds(file, p - Mark, Mark, "tail") THEN AtCommitTail(file, p)
        ELSE IF Holds(file, p - Mark, Mark, "skip")
             THEN scan[p - Mark - Read(file, p - Mark, Mark, "skip").off]
             ELSE NoData
  IN  scan[size]

----------------------------------------------------------------------------
\* A root walk gives each column a length and, when it is not empty, a position.
Location(len, pos) == [len |-> len, pos |-> pos]
EmptyWalk == [c \in Cols |-> Location(0, 0)]

\* The root walk at a place, the empty one when there is none; and whether
\* it is really there.
WalkIntact(file, at, len) == Holds(file, at, len, "walk")
WalkAt(file, at, len) ==
  IF WalkIntact(file, at, len) THEN Read(file, at, len, "walk").cols ELSE EmptyWalk

\* The contents of a column: its length and what its bytes are.
Content(len, tag) == [len |-> len, tag |-> tag]
NoContent == Content(0, NoTag)

ContentAt(file, base, loc) ==
  CASE loc.len = 0 -> NoContent
    [] loc.len > 0 /\ Holds(file, base + loc.pos, loc.len, "data") ->
         Content(loc.len, Read(file, base + loc.pos, loc.len, "data").tag)
    [] OTHER -> Content(loc.len, Garbage)

ContentsOf(file, base, walk) == [c \in Cols |-> ContentAt(file, base, walk[c])]
Empty == [c \in Cols |-> NoContent]

\* The version that opening the file finds.
Recovered(file, size) ==
  LET d == EndOfData(file, size)
  IN  CASE ~d.found -> Empty
        [] d.found /\ WalkIntact(file, d.base + d.pos, d.len) ->
             ContentsOf(file, d.base, WalkAt(file, d.base + d.pos, d.len))
        [] OTHER -> [c \in Cols |-> Content(0, Garbage)]
=============================================================================
