----------------------------- MODULE ItemStore ------------------------------
(***************************************************************************)
(* What a property of bytes or strings promises: one item for each row, to  *)
(* read and to change, and what Commit saved is what opening the file gives. *)
(***************************************************************************)
EXTENDS Integers, SequencesExt

CONSTANT Unset       \* a byte that was never written

VARIABLES items, saved, commits   \* commits that have returned

vars == <<items, saved, commits>>

Init == items = << >> /\ saved = << >> /\ commits = 0

\* Items count from 0, as rows do.
Put(i, v) == SubSeq(items, 1, i) \o <<v>> \o SubSeq(items, i + 2, Len(items))

\* A part of an item is replaced: n bytes at "off", and the item grows by
\* "more" bytes, or shrinks; bytes that nothing is written to are unset.
Patched(s, off, buf, more) ==
  LET over == off + Len(buf) - Len(s)
      diff == IF more < over THEN over ELSE more
      keep == SubSeq(s, off + Len(buf) - diff + 1, Len(s))
      fill(n) == [k \in 1 .. n |-> Unset]
  IN  IF over > 0
      THEN SubSeq(s \o fill(off - Len(s)), 1, off) \o buf \o fill(diff - over)
      ELSE IF diff > Len(buf)
      THEN SubSeq(s, 1, off) \o buf \o fill(diff - Len(buf)) \o SubSeq(s, off + 1, Len(s))
      ELSE SubSeq(s, 1, off) \o buf \o keep

Set(Values) == \E i \in 0 .. Len(items) - 1, v \in Values :
          items' = Put(i, v) /\ UNCHANGED <<saved, commits>>

InsertN(Values) ==
  \E i \in 0 .. Len(items), v \in Values, n \in 1 .. 2 :
             /\ items' = SubSeq(items, 1, i) \o [k \in 1 .. n |-> v]
                           \o SubSeq(items, i + 1, Len(items))
             /\ UNCHANGED <<saved, commits>>

RemoveN == \E i \in 0 .. Len(items) - 1 : \E n \in 1 .. Len(items) - i :
             /\ items' = SubSeq(items, 1, i) \o SubSeq(items, i + n + 1, Len(items))
             /\ UNCHANGED <<saved, commits>>

Modify(Parts, Offsets, Diffs) ==
  \E i \in 0 .. Len(items) - 1, off \in Offsets, buf \in Parts, more \in Diffs :
     /\ items' = Put(i, Patched(items[i + 1], off, buf, more))
     /\ UNCHANGED <<saved, commits>>

Commit == saved' = items /\ commits' = commits + 1 /\ UNCHANGED items
Reopen == items' = saved /\ UNCHANGED <<saved, commits>>
=============================================================================
